------------------------------- MODULE Follow -------------------------------
(***************************************************************************)
(* `rusui read -follow`: the plane's stream of one session and the client  *)
(* that reconnects with the seq of the last entry it printed.  The plane   *)
(* polls a token and, when it moved, reads the turns, the pending          *)
(* approvals, the new entries page by page and the turn record, each with  *)
(* a query of its own; the session goes on between any two of them.        *)
(* Sent events wait in `wire` until the client handles them; a broken      *)
(* connection loses the rest.                                              *)
(***************************************************************************)
EXTENDS Naturals, Sequences

CONSTANTS PageSize,     \* entries of one page (256)
          MaxWire,      \* events a slow client leaves unread before writes block
          MaxEntries, MaxRevs, MaxRequeues, MaxBreaks

ASSUME FollowBounds == {PageSize, MaxWire, MaxEntries, MaxRequeues, MaxBreaks} \subseteq Nat /\ MaxRevs \in Nat \ {0}

VARIABLES entries,    \* recorded entries: whether each asks for approval
          decisions,  \* the entries whose approval is decided
          turnState, pendingRev, claimedRev, stopped, \* the turn; the session's cancel
          doneAt,     \* per revision, the entries there were when its turn ended
          conn,       \* the plane's side of the connection
          wire,       \* events on their way
          reader,     \* the client
          requeues, breaks

followVars == <<entries, decisions, turnState, pendingRev, claimedRev, stopped, doneAt, conn, wire,
                reader, requeues, breaks>>

sessionVars == <<entries, decisions, turnState, pendingRev, claimedRev, stopped, doneAt>>

NoToken == <<>>
NoStatus == [state |-> "none", rev |-> 0]
NoRecord == [state |-> "none", rev |-> 0, seq |-> 0]
Closed == [at |-> "closed", cancelled |-> FALSE, token |-> NoToken, turns |-> NoStatus, status |-> NoStatus,
           last |-> NoStatus, record |-> NoRecord, after |-> 0]

FollowInit ==
  /\ entries = <<>> /\ decisions = {} /\ turnState = "queued" /\ pendingRev = 1 /\ claimedRev = 0
  /\ stopped = FALSE /\ doneAt = [r \in 1..MaxRevs |-> 0]
  /\ conn = Closed /\ wire = <<>>
  /\ reader = [cursor |-> 0, shown |-> <<>>, state |-> NoStatus, turn |-> NoRecord, end |-> NoStatus]
  /\ requeues = 0 /\ breaks = 0

-----------------------------------------------------------------------------
(* The session, as the turn protocol moves it. *)

Append1(asks) ==
  /\ turnState = "leased" /\ ~stopped /\ Len(entries) < MaxEntries
  /\ entries' = Append(entries, asks)
  /\ UNCHANGED <<decisions, turnState, pendingRev, claimedRev, stopped, doneAt, conn, wire, reader,
                 requeues, breaks>>

Claimed ==
  /\ turnState = "queued" /\ ~stopped /\ turnState' = "leased" /\ claimedRev' = pendingRev
  /\ UNCHANGED <<entries, decisions, pendingRev, stopped, doneAt, conn, wire, reader, requeues, breaks>>

Requeued ==
  /\ turnState = "leased" /\ requeues < MaxRequeues /\ requeues' = requeues + 1
  /\ turnState' = "queued"
  /\ UNCHANGED <<entries, decisions, pendingRev, claimedRev, stopped, doneAt, conn, wire, reader, breaks>>

TurnEnds(st) ==
  /\ turnState = "leased" /\ turnState' = st
  /\ doneAt' = [doneAt EXCEPT ![pendingRev] = Len(entries)]
  /\ UNCHANGED <<entries, decisions, pendingRev, claimedRev, stopped, conn, wire, reader, requeues, breaks>>

Prompted ==
  /\ turnState \in {"completed", "failed"} /\ ~stopped /\ pendingRev < MaxRevs
  /\ pendingRev' = pendingRev + 1 /\ turnState' = "queued"
  /\ UNCHANGED <<entries, decisions, claimedRev, stopped, doneAt, conn, wire, reader, requeues, breaks>>

Decided(i) ==
  /\ i \in DOMAIN entries \ decisions /\ entries[i] /\ decisions' = decisions \cup {i}
  /\ UNCHANGED <<entries, turnState, pendingRev, claimedRev, stopped, doneAt, conn, wire, reader,
                 requeues, breaks>>

\* A cancel of the session fails its running or waiting turn.
Cancelled ==
  /\ ~stopped /\ stopped' = TRUE
  /\ turnState' = IF turnState \in {"queued", "leased"} THEN "failed" ELSE turnState
  /\ doneAt' = [doneAt EXCEPT ![pendingRev] = Len(entries)]
  /\ UNCHANGED <<entries, decisions, pendingRev, claimedRev, conn, wire, reader, requeues, breaks>>

\* CountPendingApprovals and OldestPendingApproval: undecided requests of a
\* turn that is leased now.
PendingApprovals == {i \in DOMAIN entries \ decisions : entries[i] /\ turnState = "leased"}

-----------------------------------------------------------------------------
(* The plane's side. *)

FollowToken == <<Len(entries), turnState, pendingRev, claimedRev, stopped, Len(SelectSeq(
                 [i \in DOMAIN entries |-> i \in decisions], LAMBDA d : d))>>

\* followSessionRead opens the stream after the client's cursor.
OpenStream ==
  /\ conn.at = "closed" /\ wire = <<>> /\ reader.end = NoStatus
  /\ conn' = [Closed EXCEPT !.at = "poll", !.after = reader.cursor]
  /\ UNCHANGED <<sessionVars, wire, reader, requeues, breaks>>


\* The order of the reads after the token moved.
ReadOrder(at) ==
  CASE at = "poll" -> "cancelled" [] at = "cancelled" -> "turns" [] at = "turns" -> "pending"
    [] at = "pending" -> "pages" [] at = "pages" -> "report"

PollToken ==
  /\ conn.at = "poll" /\ conn.token # FollowToken
  /\ conn' = [conn EXCEPT !.token = FollowToken, !.at = ReadOrder("poll")]
  /\ UNCHANGED <<sessionVars, wire, reader, requeues, breaks>>

\* followState starts with SessionCancelled.
ReadCancelled ==
  /\ conn.at = "cancelled"
  /\ conn' = [conn EXCEPT !.cancelled = stopped, !.at = ReadOrder("cancelled")]
  /\ UNCHANGED <<sessionVars, wire, reader, requeues, breaks>>

\* followState without the approvals.
TurnStatus(cancelled) ==
  [rev |-> pendingRev,
   state |-> IF cancelled THEN "cancelled" ELSE IF turnState = "leased" THEN "running" ELSE turnState]

ReadTurns ==
  /\ conn.at = "turns"
  /\ conn' = [conn EXCEPT !.turns = TurnStatus(conn.cancelled), !.at = ReadOrder("turns")]
  /\ UNCHANGED <<sessionVars, wire, reader, requeues, breaks>>

\* followState: a pending approval is waiting even while its turn is leased.
WithPending(st) ==
  IF PendingApprovals # {} /\ st.state # "cancelled" THEN [st EXCEPT !.state = "waiting"] ELSE st

ReadPending ==
  /\ conn.at = "pending"
  /\ conn' = [conn EXCEPT !.status = WithPending(conn.turns), !.turns = NoStatus, !.cancelled = FALSE,
                          !.at = ReadOrder("pending")]
  /\ UNCHANGED <<sessionVars, wire, reader, requeues, breaks>>

MorePages(page) == Len(page) = PageSize

\* ListTranscriptAfter, one page.
ListTranscriptAfter ==
  SubSeq([i \in DOMAIN entries |-> i], conn.after + 1,
         IF conn.after + PageSize < Len(entries) THEN conn.after + PageSize ELSE Len(entries))

SentThrough(page) == conn.after + Len(page)

SendPage ==
  LET page == ListTranscriptAfter IN
  /\ conn.at = "pages" /\ Len(wire) < MaxWire
  /\ wire' = wire \o [i \in DOMAIN page |-> [event |-> "entry", seq |-> page[i]]]
  /\ conn' = [conn EXCEPT !.after = SentThrough(page),
                          !.at = IF MorePages(page) THEN @ ELSE ReadOrder("pages")]
  /\ UNCHANGED <<sessionVars, reader, requeues, breaks>>

StateDone(st) == st.state \in {"completed", "failed", "cancelled"}

Oldest(S) == CHOOSE i \in S : \A j \in S : i <= j

\* followTurnRecord
TurnRecord(st) ==
  CASE st.state = "waiting" /\ PendingApprovals # {} ->
         [state |-> "waiting", rev |-> claimedRev, seq |-> Oldest(PendingApprovals)]
    [] st.state = "completed" -> [state |-> "ready", rev |-> st.rev, seq |-> 0]
    [] OTHER -> conn.record

\* The state if it changed, the turn record if it changed, the end if done.
Report ==
  LET st == conn.status
      rec == TurnRecord(st)
      news == (IF st # conn.last THEN <<[event |-> "state", st |-> st]>> ELSE <<>>)
              \o (IF rec # conn.record THEN <<[event |-> "turn", rec |-> rec]>> ELSE <<>>)
              \o (IF StateDone(st) THEN <<[event |-> "end", st |-> st]>> ELSE <<>>)
  IN
  /\ conn.at = "report" /\ Len(wire) < MaxWire
  /\ wire' = wire \o news
  /\ conn' = IF StateDone(st) THEN Closed
             ELSE [conn EXCEPT !.last = st, !.status = NoStatus, !.record = rec, !.at = "poll"]
  /\ UNCHANGED <<sessionVars, reader, requeues, breaks>>

\* The connection breaks: what the client has not handled is lost.
BreakStream ==
  /\ conn.at # "closed" \/ wire # <<>>
  /\ breaks < MaxBreaks /\ breaks' = breaks + 1
  /\ conn' = Closed /\ wire' = <<>>
  /\ UNCHANGED <<sessionVars, reader, requeues>>

-----------------------------------------------------------------------------
(* The client. *)

\* The client prints an entry past its cursor.
IsNews(seq) == seq > reader.cursor

\* followReader.handle
HandleEvent ==
  LET e == Head(wire) IN
  /\ wire # <<>> /\ wire' = Tail(wire)
  /\ reader' =
       CASE e.event = "entry" ->
              IF IsNews(e.seq)
              THEN [reader EXCEPT !.cursor = e.seq, !.shown = Append(@, e.seq)] ELSE reader
         [] e.event = "state" -> [reader EXCEPT !.state = e.st]
         [] e.event = "turn" -> [reader EXCEPT !.turn = e.rec]
         [] e.event = "end" -> [reader EXCEPT !.state = e.st, !.end = e.st]
  /\ UNCHANGED <<sessionVars, conn, requeues, breaks>>

PlaneStep == OpenStream \/ PollToken \/ ReadCancelled \/ ReadTurns \/ ReadPending \/ SendPage \/ Report

FollowNext ==
  \/ \E b \in BOOLEAN : Append1(b)
  \/ \E st \in {"completed", "failed"} : TurnEnds(st)
  \/ \E i \in DOMAIN entries : Decided(i)
  \/ Claimed \/ Requeued \/ Prompted \/ Cancelled
  \/ OpenStream \/ PollToken \/ ReadCancelled \/ ReadTurns \/ ReadPending \/ SendPage \/ Report
  \/ BreakStream \/ HandleEvent

\* The plane polls on, the client reads on.
FollowFairness == WF_followVars(PlaneStep) /\ WF_followVars(HandleEvent)

-----------------------------------------------------------------------------
\* Every variable keeps its shape, and the client is never ahead of the record.
FollowTypeOK ==
  /\ turnState \in {"queued", "leased", "completed", "failed"}
  /\ claimedRev <= pendingRev /\ pendingRev \in 1..MaxRevs
  /\ conn.at # "closed" => reader.cursor <= conn.after
  /\ conn.after <= Len(entries) /\ reader.cursor <= Len(entries)

\* Across any number of reconnects the client prints every entry once and in
\* the order the plane recorded it, without a gap.
PrintedOnceInOrder == reader.shown = [i \in 1..reader.cursor |-> i]


\* A stream that waits because the token has not moved has sent everything
\* there is and last reported the state the session is in.
FollowTokenIsCurrent ==
  conn.at = "poll" /\ conn.token = FollowToken =>
    conn.after = Len(entries) /\ conn.last = WithPending(TurnStatus(stopped))

\* As long as no leased turn was handed back to the queue, a waiting stream
\* is current (a turn leased, queued and leased again between two reads
\* shows the token it had).
WaitingIsCurrent == requeues = 0 => FollowTokenIsCurrent

\* A session that stays finished ends the stream of a client that keeps
\* reconnecting.
FinishEndsStream ==
  (turnState \in {"completed", "failed"} /\ (pendingRev = MaxRevs \/ stopped)) ~> (reader.end # NoStatus)
=============================================================================
