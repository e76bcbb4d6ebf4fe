--------------------------- MODULE ModelReceipts ---------------------------
(***************************************************************************)
(* The plane's count of the model calls of a turn: a reservation in memory *)
(* per turn and lease generation, made before a call is forwarded; the     *)
(* call's response adds to it; the end of the turn folds it into one       *)
(* stored action, in a transaction that may roll back.  Reservations are   *)
(* bounded: a finished or expired one gives way to a new turn.             *)
(***************************************************************************)
EXTENDS Naturals, FiniteSets

CONSTANTS ModelTurns, Calls,
          SummaryTurns,   \* modelSummaryTurns
          MaxGen, MaxObjs

ASSUME ReceiptBounds == SummaryTurns \in Nat \ {0} /\ MaxGen \in Nat /\ MaxObjs \in Nat

VARIABLES turnLease,      \* the generation and state of each turn
          summary,    \* every reservation made; `slot` names the live ones
          slot,
          call,       \* the calls: their turn, generation and reservation
          aggregate,  \* the stored action of each turn
          answered,   \* responses of the turn's calls
          owed,       \* those that came while the call's own lease ran
          lost        \* turns some of whose counts the bounds dropped

receiptVars == <<turnLease, summary, slot, call, aggregate, answered, owed, lost>>

NoSlot == 0
NoCall == [turn |-> "none", gen |-> 0, obj |-> NoSlot, out |-> FALSE]
Used == DOMAIN summary
Summaries == {t \in ModelTurns : slot[t] # NoSlot}

ReceiptInit ==
  /\ turnLease = [t \in ModelTurns |-> [gen |-> 0, st |-> "queued"]]
  /\ summary = [o \in {} |-> 0] /\ slot = [t \in ModelTurns |-> NoSlot]
  /\ call = [c \in Calls |-> NoCall]
  /\ aggregate = [t \in ModelTurns |-> [gen |-> 0, count |-> 0]]
  /\ answered = [t \in ModelTurns |-> 0] /\ owed = answered
  /\ lost = {}


\* What a new reservation takes over from an earlier generation's that no
\* end has stored.
Carry(t) ==
  IF slot[t] # NoSlot /\ ~summary[slot[t]].finished THEN summary[slot[t]].count ELSE 0

Evictable(t) == summary[slot[t]].finished \/ summary[slot[t]].expired

Full(others) == Cardinality(others) = SummaryTurns

\* A new reservation for turn t, with room made for it: the set of
\* possible evictions is {} when there is room or nothing may go.
Reserve(t, c, gen) ==
  LET others == Summaries \ {t}
      old == {u \in others : Evictable(u)}
      new == Cardinality(Used) + 1
  IN
  \E gone \in IF Full(others) THEN (IF old = {} THEN {{}} ELSE {{u} : u \in old}) ELSE {{}} :
    /\ IF Full(others \ gone)
       THEN /\ slot' = [u \in ModelTurns |-> IF u \in gone \cup {t} THEN NoSlot ELSE slot[u]]
            /\ call' = [call EXCEPT ![c] = [turn |-> t, gen |-> gen, obj |-> NoSlot, out |-> TRUE]]
            /\ lost' = lost \cup {t} /\ UNCHANGED summary
       ELSE /\ new <= MaxObjs
            /\ summary' = [o \in Used \cup {new} |->
                             IF o = new
                             THEN [gen |-> gen, count |-> Carry(t), finished |-> FALSE, expired |-> FALSE]
                             ELSE summary[o]]
            /\ slot' = [u \in ModelTurns |->
                          IF u = t THEN new ELSE IF u \in gone THEN NoSlot ELSE slot[u]]
            /\ call' = [call EXCEPT ![c] = [turn |-> t, gen |-> gen, obj |-> new, out |-> TRUE]]
            /\ lost' = lost \cup {u \in gone : ~summary[slot[u]].finished}

\* ModelResponseRecorder, before the call is forwarded, for a request whose
\* grant was read at generation gen: an older one reserves nothing, the
\* current one shares the reservation.
Forward(t, c, gen) ==
  LET o == slot[t] IN
  /\ call[c] = NoCall /\ gen \in 1..turnLease[t].gen
  /\ gen = turnLease[t].gen => turnLease[t].st = "leased"
  /\ IF o # NoSlot /\ gen <= summary[o].gen
     THEN /\ call' = [call EXCEPT ![c] = [turn |-> t, gen |-> gen, out |-> TRUE,
                                          obj |-> IF gen = summary[o].gen THEN o ELSE NoSlot]]
          /\ summary' = IF gen = summary[o].gen THEN [summary EXCEPT ![o].expired = FALSE] ELSE summary
          /\ UNCHANGED <<slot, lost>>
     ELSE Reserve(t, c, gen)
  /\ UNCHANGED <<turnLease, aggregate, answered, owed>>

Counts(t, o) == o # NoSlot /\ ~summary[o].finished /\ slot[t] = o

Responded(c) ==
  LET t == call[c].turn  o == call[c].obj IN
  /\ call[c].out /\ call' = [call EXCEPT ![c].out = FALSE]
  /\ summary' = IF Counts(t, o) THEN [summary EXCEPT ![o].count = @ + 1] ELSE summary
  /\ answered' = [answered EXCEPT ![t] = @ + 1]
  /\ owed' = IF turnLease[t] = [gen |-> call[c].gen, st |-> "leased"] THEN [owed EXCEPT ![t] = @ + 1] ELSE owed
  /\ UNCHANGED <<turnLease, slot, aggregate, lost>>

\* The stored aggregate takes a snapshot of a later generation only.
Stores(t) == summary[slot[t]].count > 0 /\ aggregate[t].gen < summary[slot[t]].gen

Finish(o) == [summary EXCEPT ![o].finished = TRUE]

\* recordModelSummaryTx, in the transaction that ends the turn.  The
\* reservation stays finished when the transaction rolls back.
EndTurnTx(t, commits) ==
  LET o == slot[t] IN
  /\ turnLease[t].st = "leased"
  /\ summary' = IF o = NoSlot THEN summary ELSE Finish(o)
  /\ IF commits
     THEN /\ turnLease' = [turnLease EXCEPT ![t].st = "ended"] /\ UNCHANGED lost
          /\ aggregate' = IF o # NoSlot /\ Stores(t)
                          THEN [aggregate EXCEPT ![t] = [gen |-> summary[o].gen, count |-> @.count + summary[o].count]]
                          ELSE aggregate
     ELSE lost' = lost \cup {t} /\ UNCHANGED <<turnLease, aggregate>>
  /\ UNCHANGED <<slot, call, answered, owed>>

LeaseAgain(t) ==
  /\ turnLease[t].st # "leased" /\ turnLease[t].gen < MaxGen
  /\ turnLease' = [turnLease EXCEPT ![t] = [gen |-> @.gen + 1, st |-> "leased"]]
  /\ UNCHANGED <<summary, slot, call, aggregate, answered, owed, lost>>

LeaseReturned(t) ==
  /\ turnLease[t].st = "leased" /\ turnLease' = [turnLease EXCEPT ![t].st = "queued"]
  /\ UNCHANGED <<summary, slot, call, aggregate, answered, owed, lost>>

ReservationExpires(t) ==
  /\ slot[t] # NoSlot /\ ~summary[slot[t]].expired
  /\ summary' = [summary EXCEPT ![slot[t]].expired = TRUE]
  /\ UNCHANGED <<turnLease, slot, call, aggregate, answered, owed, lost>>

ReceiptNext ==
  \/ \E t \in ModelTurns, c \in Calls, gen \in 1..MaxGen : Forward(t, c, gen)
  \/ \E c \in Calls : Responded(c)
  \/ \E t \in ModelTurns, commits \in BOOLEAN : EndTurnTx(t, commits)
  \/ \E t \in ModelTurns : LeaseAgain(t) \/ LeaseReturned(t) \/ ReservationExpires(t)

-----------------------------------------------------------------------------
\* Variables keep their shape; a live reservation exists.
ReceiptTypeOK ==
  /\ \A t \in ModelTurns : slot[t] \in Used \cup {NoSlot} /\ turnLease[t].gen \in 0..MaxGen
  /\ \A c \in Calls : call[c].obj \in Used \cup {NoSlot}

\* The plane never holds more reservations than its bound.
ReservationsBounded == Cardinality(Summaries) <= SummaryTurns

\* The stored count never exceeds the responses there were: no response is
\* counted twice, whatever was requeued, retried or evicted.
NeverOvercounted == \A t \in ModelTurns : aggregate[t].count <= answered[t]

=============================================================================
