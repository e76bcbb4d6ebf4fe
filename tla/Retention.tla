----------------------------- MODULE Retention -----------------------------
(***************************************************************************)
(* Session retention (ADR 0081): the expiry sweep and the operator's       *)
(* deletion remove a session's data in one transaction and archive the     *)
(* session in later ones, while prompts, steers, transcripts, class        *)
(* changes and unarchiving go on, and the plane may stop between any two   *)
(* of those steps.  `text` stands for the stored prompt and transcript     *)
(* text of a session; attachment files are shared between sessions by      *)
(* digest.                                                                 *)
(***************************************************************************)
EXTENDS Naturals, FiniteSets

CONSTANTS Sessions, Digests,
          MaxPrompts,   \* prompts in a behaviour
          MaxOps,       \* operator changes of class, override and archiving
          MaxStops      \* restarts of the plane

ASSUME RetentionBounds == {MaxPrompts, MaxOps, MaxStops} \subseteq Nat

VARIABLES class, due, override, expired, \* session_retention rows
          archived, text, attached, turn,
          blobs,      \* attachment files on disk, by digest
          listed,     \* sessions the sweep has listed as due
          finisher,   \* finishRetention in progress: of the sweep, of an operator
          prompting,  \* a prompt handler between its checks and its transaction
          unarchiving,\* an unarchive between its check and its write
          nPrompts, nOps, nStops

retVars == <<class, due, override, expired, archived, text, attached, turn, blobs, listed,
             finisher, prompting, unarchiving, nPrompts, nOps, nStops>>

Finishers == {"sweep", "operator"}
Unset == 0
NotFinishing == [at |-> "idle", s |-> Unset]
NoPrompting == [s |-> Unset, file |-> FALSE]

RetInit ==
  /\ class = [s \in Sessions |-> "short"] /\ due = [s \in Sessions |-> FALSE]
  /\ override = [s \in Sessions |-> FALSE] /\ expired = [s \in Sessions |-> FALSE]
  /\ archived = [s \in Sessions |-> FALSE] /\ text = [s \in Sessions |-> TRUE]
  /\ attached = [s \in Sessions |-> {}] /\ turn = [s \in Sessions |-> "queued"]
  /\ blobs = {} /\ listed = {}
  /\ finisher = [w \in Finishers |-> NotFinishing]
  /\ prompting = NoPrompting /\ unarchiving = Unset
  /\ nPrompts = 0 /\ nOps = 0 /\ nStops = 0

\* The session's TTL elapses.
TtlElapses(s) ==
  /\ class[s] = "short" /\ ~due[s] /\ due' = [due EXCEPT ![s] = TRUE]
  /\ UNCHANGED <<class, override, expired, archived, text, attached, turn, blobs, listed, finisher,
                 prompting, unarchiving, nPrompts, nOps, nStops>>

\* refuseExpiredRetentionTx
RefuseExpired(s) == ~expired[s]

\* The ON CONFLICT arm of SetSessionRetentionTx keeps the override only
\* within a class.
KeptOverride(s, c) == override[s] /\ class[s] = c

\* putSessionRetention: short starts a new TTL, indefinite has none.
SetSessionRetention(s, c) ==
  /\ nOps < MaxOps /\ nOps' = nOps + 1
  /\ RefuseExpired(s)
  /\ class' = [class EXCEPT ![s] = c] /\ due' = [due EXCEPT ![s] = FALSE]
  /\ override' = [override EXCEPT ![s] = KeptOverride(s, c)]
  /\ expired' = [expired EXCEPT ![s] = FALSE]
  /\ UNCHANGED <<archived, text, attached, turn, blobs, listed, finisher, prompting, unarchiving,
                 nPrompts, nStops>>

\* postSessionWriteOverride
SetWriteOverride(s) ==
  /\ nOps < MaxOps /\ nOps' = nOps + 1
  /\ ~expired[s] /\ class[s] = "indefinite" /\ ~override[s]
  /\ override' = [override EXCEPT ![s] = TRUE]
  /\ UNCHANGED <<class, due, expired, archived, text, attached, turn, blobs, listed, finisher,
                 prompting, unarchiving, nPrompts, nStops>>

\* ListDueRetentionSessionIDs
DueSessions == {s \in Sessions : class[s] = "short" /\ ~expired[s] /\ due[s]}

\* ExpireRetainedSessions lists, then finishes one session after another.
ListDue ==
  /\ finisher["sweep"] = NotFinishing /\ listed = {} /\ DueSessions # {}
  /\ listed' = DueSessions
  /\ UNCHANGED <<class, due, override, expired, archived, text, attached, turn, blobs, finisher,
                 prompting, unarchiving, nPrompts, nOps, nStops>>

ExpireSession(s) ==
  /\ finisher["sweep"] = NotFinishing /\ s \in listed /\ listed' = listed \ {s}
  /\ finisher' = [finisher EXCEPT !["sweep"] = [at |-> "clear", s |-> s]]
  /\ UNCHANGED <<class, due, override, expired, archived, text, attached, turn, blobs, prompting,
                 unarchiving, nPrompts, nOps, nStops>>

\* postSessionRetentionDelete
DeleteSessionRetention(s) ==
  /\ nOps < MaxOps /\ nOps' = nOps + 1
  /\ finisher["operator"] = NotFinishing
  /\ finisher' = [finisher EXCEPT !["operator"] = [at |-> "clear", s |-> s]]
  /\ UNCHANGED <<class, due, override, expired, archived, text, attached, turn, blobs, listed,
                 prompting, unarchiving, nPrompts, nStops>>

\* dueForExpiry, on the row the transaction reads.
DueForExpiry(s) == ~expired[s] /\ class[s] = "short" /\ due[s]


\* Files no other session's row names.
LastReferences(s) == attached[s] \ UNION {attached[o] : o \in Sessions \ {s}}

\* ClearSessionDataTx
ClearSessionData(s) ==
  /\ text' = [text EXCEPT ![s] = FALSE]
  /\ attached' = [attached EXCEPT ![s] = {}]
  /\ blobs' = blobs \ LastReferences(s)

\* finishRetention's transaction.
FinishRetention(w) ==
  LET s == finisher[w].s
      skip == expired[s] \/ (w = "sweep" /\ ~DueForExpiry(s))
  IN
  /\ finisher[w].at = "clear"
  /\ IF skip THEN UNCHANGED <<text, attached, blobs, expired>>
     ELSE ClearSessionData(s) /\ expired' = [expired EXCEPT ![s] = TRUE]
  /\ finisher' = [finisher EXCEPT ![w].at = "reread"]
  /\ UNCHANGED <<class, due, override, archived, turn, listed, prompting, unarchiving, nPrompts,
                 nOps, nStops>>

\* After the transaction the session is read again.
GoesToArchive(s) == expired[s]

RereadSession(w) ==
  /\ finisher[w].at = "reread"
  /\ finisher' = [finisher EXCEPT ![w] =
       IF GoesToArchive(finisher[w].s) THEN [at |-> "archive", s |-> finisher[w].s] ELSE NotFinishing]
  /\ UNCHANGED <<class, due, override, expired, archived, text, attached, turn, blobs, listed,
                 prompting, unarchiving, nPrompts, nOps, nStops>>

\* ArchiveSession marks the session, then stops its turn (failArchivedTurns).
ArchiveExpiring(w) ==
  /\ finisher[w].at = "archive"
  /\ archived' = [archived EXCEPT ![finisher[w].s] = TRUE]
  /\ finisher' = [finisher EXCEPT ![w].at = "stop"]
  /\ UNCHANGED <<class, due, override, expired, text, attached, turn, blobs, listed, prompting,
                 unarchiving, nPrompts, nOps, nStops>>

FailExpiringTurns(w) ==
  /\ finisher[w].at = "stop"
  /\ turn' = [turn EXCEPT ![finisher[w].s] = "ended"]
  /\ finisher' = [finisher EXCEPT ![w] = NotFinishing]
  /\ UNCHANGED <<class, due, override, expired, archived, text, attached, blobs, listed, prompting,
                 unarchiving, nPrompts, nOps, nStops>>

\* promptFollowUp and promptQueued check the session before their
\* transaction; only the first asks whether its data has expired, and
\* promptQueued and PromptSteer look at the archive mark alone.
PromptChecked(s, kind, file) ==
  /\ nPrompts < MaxPrompts /\ nPrompts' = nPrompts + 1
  /\ prompting = NoPrompting /\ ~archived[s]
  /\ kind = "follow_up" => ~expired[s]
  /\ kind = "steer" => ~file
  /\ prompting' = [s |-> s, file |-> file]
  /\ UNCHANGED <<class, due, override, expired, archived, text, attached, turn, blobs, listed,
                 finisher, unarchiving, nOps, nStops>>

\* The prompt's transaction: InsertPromptAttachmentsTx writes the file
\* before it inserts the row.
PromptStored(d) ==
  LET s == prompting.s IN
  /\ s # Unset /\ prompting' = NoPrompting
  /\ text' = [text EXCEPT ![s] = TRUE]
  /\ IF prompting.file THEN /\ attached' = [attached EXCEPT ![s] = @ \cup {d}]
                            /\ blobs' = blobs \cup {d}
     ELSE UNCHANGED <<attached, blobs>>
  /\ turn' = [turn EXCEPT ![s] = IF @ = "leased" THEN @ ELSE "queued"]
  /\ UNCHANGED <<class, due, override, expired, archived, listed, finisher, unarchiving, nPrompts,
                 nOps, nStops>>

\* A worker claims the turn of a session that is not archived, records the
\* guest's messages while it holds the lease, and ends it.
ClaimTurn(s) ==
  /\ turn[s] = "queued" /\ ~archived[s] /\ turn' = [turn EXCEPT ![s] = "leased"]
  /\ UNCHANGED <<class, due, override, expired, archived, text, attached, blobs, listed, finisher,
                 prompting, unarchiving, nPrompts, nOps, nStops>>

RecordTranscript(s) ==
  /\ turn[s] = "leased" /\ ~text[s] /\ text' = [text EXCEPT ![s] = TRUE]
  /\ UNCHANGED <<class, due, override, expired, archived, attached, turn, blobs, listed, finisher,
                 prompting, unarchiving, nPrompts, nOps, nStops>>

CloseTurn(s) ==
  /\ turn[s] = "leased" /\ turn' = [turn EXCEPT ![s] = "ended"]
  /\ UNCHANGED <<class, due, override, expired, archived, text, attached, blobs, listed, finisher,
                 prompting, unarchiving, nPrompts, nOps, nStops>>

\* UnarchiveSession refuses an expired session, on a row read before its write.
UnarchiveChecked(s) ==
  /\ nOps < MaxOps /\ nOps' = nOps + 1
  /\ unarchiving = Unset /\ archived[s] /\ ~expired[s] /\ unarchiving' = s
  /\ UNCHANGED <<class, due, override, expired, archived, text, attached, turn, blobs, listed,
                 finisher, prompting, nPrompts, nStops>>

UnarchiveWritten ==
  /\ unarchiving # Unset /\ unarchiving' = Unset
  /\ archived' = [archived EXCEPT ![unarchiving] = FALSE]
  /\ UNCHANGED <<class, due, override, expired, text, attached, turn, blobs, listed, finisher,
                 prompting, nPrompts, nOps, nStops>>

\* The operator archives a session by hand; its steps are those above.
OperatorArchives(s) ==
  /\ nOps < MaxOps /\ nOps' = nOps + 1
  /\ finisher["operator"] = NotFinishing /\ ~archived[s]
  /\ finisher' = [finisher EXCEPT !["operator"] = [at |-> "archive", s |-> s]]
  /\ UNCHANGED <<class, due, override, expired, archived, text, attached, turn, blobs, listed,
                 prompting, unarchiving, nPrompts, nStops>>

\* The plane stops and starts again: every handler is gone.
PlaneRestarts ==
  /\ nStops < MaxStops /\ nStops' = nStops + 1
  /\ listed' = {} /\ finisher' = [w \in Finishers |-> NotFinishing]
  /\ prompting' = NoPrompting /\ unarchiving' = Unset
  /\ UNCHANGED <<class, due, override, expired, archived, text, attached, turn, blobs, nPrompts, nOps>>

FinisherStep(w) ==
  FinishRetention(w) \/ RereadSession(w) \/ ArchiveExpiring(w) \/ FailExpiringTurns(w)

RetNext ==
  \/ \E s \in Sessions :
       \/ TtlElapses(s) \/ SetWriteOverride(s) \/ ExpireSession(s) \/ DeleteSessionRetention(s)
       \/ ClaimTurn(s) \/ RecordTranscript(s) \/ CloseTurn(s)
       \/ UnarchiveChecked(s) \/ OperatorArchives(s)
       \/ \E c \in {"short", "indefinite"} : SetSessionRetention(s, c)
       \/ \E k \in {"follow_up", "queued", "steer"}, f \in BOOLEAN : PromptChecked(s, k, f)
  \/ \E d \in Digests : PromptStored(d)
  \/ \E w \in Finishers : FinisherStep(w)
  \/ ListDue \/ UnarchiveWritten \/ PlaneRestarts

\* The scheduler's loop keeps sweeping and each handler runs to its end.
RetFairness ==
  /\ WF_retVars(ListDue) /\ WF_retVars(\E s \in Sessions : ExpireSession(s))
  /\ \A w \in Finishers : WF_retVars(FinisherStep(w))

-----------------------------------------------------------------------------
\* Every variable keeps its shape.
RetTypeOK ==
  /\ class \in [Sessions -> {"short", "indefinite"}]
  /\ turn \in [Sessions -> {"queued", "leased", "ended"}]
  /\ attached \in [Sessions -> SUBSET Digests] /\ blobs \subseteq Digests
  /\ listed \subseteq Sessions
  /\ \A w \in Finishers : finisher[w] = NotFinishing \/ finisher[w].s \in Sessions


\* An override to use write tools belongs to one stretch of indefinite
\* retention: it never carries over into another class.
OverrideIsIndefinite == \A s \in Sessions : override[s] => class[s] = "indefinite"

\* The sweep removes a session's data only if it is due at that moment,
\* however old the list is that named it; an operator who has since kept
\* the session keeps it.
OnlyDueExpire ==
  [][\A s \in Sessions :
       expired'[s] /\ ~expired[s] =>
         \/ class[s] = "short" /\ due[s]
         \/ finisher["operator"].at = "clear" /\ finisher["operator"].s = s]_retVars

\* Removed data stays removed as far as the row tells: no class change,
\* override or unarchiving takes an expired session back.
ExpiredIsFinal == [][\A s \in Sessions : expired[s] => expired'[s] /\ class'[s] = class[s]]_retVars

\* The sweep archives only sessions whose data is gone.
ArchivedByFinish ==
  \A w \in Finishers : finisher[w].at \in {"archive", "stop"} /\ w = "sweep" => expired[finisher[w].s]

\* A session whose time is up does not stay: it is expired or the operator
\* keeps it, however often the plane restarts in between.
DueIsSwept == \A s \in Sessions : s \in DueSessions ~> s \notin DueSessions

\* An expired session that has come to rest, archived and without a turn or
\* a handler at work, holds no text.  It fails: the archive mark is set
\* after the transaction that clears the data, and a steer, a queued prompt
\* or a message of the running guest recorded in between stays for good.
ExpiredHoldsNothing ==
  \A s \in Sessions :
    expired[s] /\ archived[s] /\ turn[s] = "ended"
    /\ prompting.s # s /\ (\A w \in Finishers : finisher[w].s # s) => ~text[s]
=============================================================================
