-------------------------------- MODULE Turn --------------------------------
(***************************************************************************)
(* One managed turn as the plane's database holds it, and the transaction  *)
(* bodies of internal/engine that rewrite it.  Every operator here takes a *)
(* turn record and returns the record its transaction commits, so modules  *)
(* with one turn and modules with many share them.                         *)
(*                                                                         *)
(* A turn carries a stream of numbered revisions.  pending is the newest   *)
(* one, claimed the one the last lease took, and snap[r] says where        *)
(* revision r came from: 0 for the item itself, or the sequence number of  *)
(* the operator prompt that became it.  Prompts wait in fifo; a steer      *)
(* waits in steers for the lease it was aimed at.                          *)
(*                                                                         *)
(* Wall-clock time is two flags: lapsed says that lease_expires_at is in   *)
(* the past, overdue that execution_deadline_at is.                        *)
(***************************************************************************)
EXTENDS Naturals, Sequences

CONSTANT RetryLimit     \* failed attempts of one revision before it is terminal

ASSUME RetryLimitAssumption == RetryLimit \in Nat \ {0}

States == {"queued", "leased", "completed", "failed"}
\* "halted" is a receipt of kind cancelled whose payload says halted.
Kinds == {"complete", "fail", "cancelled", "halted"}
Prompts == Nat \ {0}

Receipt == [gen : Nat, claimed : Nat, kind : Kinds]
FollowUp == [seq : Prompts, queued : BOOLEAN]
Steer == [seq : Prompts, gen : Nat, offered : BOOLEAN, received : BOOLEAN]

TurnType == [state : States,
             pending : Nat, claimed : Nat,
             gen : Nat, retry : Nat,
             lapsed : BOOLEAN, overdue : BOOLEAN,
             receipts : SUBSET Receipt,
             snap : Seq(Nat),
             fifo : SUBSET FollowUp,
             steers : SUBSET Steer,
             acked : SUBSET Prompts, dropped : SUBSET Prompts,
             nextSeq : Prompts]

\* A turn as its session is created: revision 1 is stored and claimable.
NewTurn == [state |-> "queued", pending |-> 1, claimed |-> 0, gen |-> 0,
            retry |-> 0, lapsed |-> FALSE, overdue |-> FALSE,
            receipts |-> {}, snap |-> <<0>>, fifo |-> {}, steers |-> {},
            acked |-> {}, dropped |-> {}, nextSeq |-> 1]

-----------------------------------------------------------------------------
(* The prompt FIFO and the steers (store/followup.go, store/steer.go).     *)

\* Steers aimed at leases up to g that no runner acknowledged.
OwedSteers(t, g) == {s \in t.steers : s.gen <= g}

\* Mutant: unacknowledged steers end with their lease.
PromoteSteers_Forget(t, g) == [t EXCEPT !.steers = @ \ OwedSteers(t, g)]

\* A lease that ends turns its unacknowledged steers into ordinary
\* follow-ups, each at the sequence number it was given when it arrived.
PromoteSteers(t, g) ==
  [t EXCEPT !.steers = @ \ OwedSteers(t, g),
            !.fifo = @ \cup {[seq |-> s.seq, queued |-> FALSE] :
                               s \in OwedSteers(t, g)}]

FifoHead(t) == CHOOSE f \in t.fifo : \A x \in t.fifo : f.seq <= x.seq

\* The prompt becomes the next pending revision.
ApplyFollowUp(t, f) ==
  [t EXCEPT !.fifo = @ \ {f},
            !.pending = @ + 1,
            !.snap = Append(@, f.seq),
            !.retry = 0]

ApplyNextFollowUp(t) ==
  IF t.fifo = {} THEN t ELSE ApplyFollowUp(t, FifoHead(t))

\* Mutant: a follow-up may be overtaken until the turn is first claimed.
HasUnclaimedFollowUp_Claimed(t) == t.pending > t.claimed /\ t.claimed # 0

\* A follow-up revision nobody has claimed yet.  The first revision of a
\* turn nobody has claimed does not count: a follow-up may overtake it.
HasUnclaimedFollowUp(t) ==
  /\ t.pending > t.claimed
  /\ t.claimed # 0 \/ t.pending # 1

EarlierSteer(t, seq) == \E s \in t.steers : s.seq < seq

\* Mutant: a later prompt does not wait for the steers before it.
MayPromote_PastSteers(t) ==
  /\ ~HasUnclaimedFollowUp(t)
  /\ t.fifo # {}
  /\ ~(FifoHead(t).queued /\ t.state \in {"leased", "queued"})

\* The FIFO head may become pending: nothing earlier is owed, and a queued
\* head waits for the turn to end.
MayPromote(t) ==
  /\ ~HasUnclaimedFollowUp(t)
  /\ t.fifo # {}
  /\ ~(FifoHead(t).queued /\ t.state \in {"leased", "queued"})
  /\ ~EarlierSteer(t, FifoHead(t).seq)

PromoteFollowUp(t) ==
  IF MayPromote(t) THEN ApplyFollowUp(t, FifoHead(t)) ELSE t

\* Any change of pending makes the turn claimable unless a lease is running.
Requeue(t) == [t EXCEPT !.state = IF @ = "leased" THEN @ ELSE "queued"]

EnqueueFollowUp(t, isQueued) ==
  [t EXCEPT !.fifo = @ \cup {[seq |-> t.nextSeq, queued |-> isQueued]},
            !.nextSeq = @ + 1]

EnqueuePrompt(t, isQueued) == Requeue(PromoteFollowUp(EnqueueFollowUp(t, isQueued)))

EnqueueSteer(t) ==
  [t EXCEPT !.steers = @ \cup {[seq |-> t.nextSeq, gen |-> t.gen,
                                offered |-> FALSE, received |-> FALSE]},
            !.nextSeq = @ + 1]

QueuedPrompts(t) == {f \in t.fifo : f.queued}

\* The rows stay, marked dropped, so their numbers are never given again.
ConsumeQueued(t) ==
  [t EXCEPT !.fifo = @ \ QueuedPrompts(t),
            !.dropped = @ \cup {f.seq : f \in QueuedPrompts(t)}]

\* DropQueuedPrompts: a follow-up that waited behind a dropped prompt takes
\* its place.
DropQueued(t) ==
  LET d == ConsumeQueued(t)
      p == PromoteFollowUp(d)
  IN  CASE QueuedPrompts(t) = {} -> t
        [] QueuedPrompts(t) # {} /\ p.pending = d.pending -> d
        [] OTHER -> Requeue(p)

\* Steer delivery on the heartbeat: the runner names what it received, and
\* gets the oldest steer of its own lease that it has not yet received.
DeliveredSteers(t, g) == {s \in t.steers : s.gen = g /\ s.offered}

ReceiveSteers(t, ids) ==
  [t EXCEPT !.steers = {[s EXCEPT !.received = @ \/ s.seq \in ids] : s \in @}]

UnreceivedSteers(t, g) == {s \in t.steers : s.gen = g /\ ~s.received}

NextSteer(t, g) ==
  [t EXCEPT !.steers =
     {[s EXCEPT !.offered = @ \/ (/\ s \in UnreceivedSteers(t, g)
                                  /\ \A x \in UnreceivedSteers(t, g) : s.seq <= x.seq)] :
        s \in @}]

-----------------------------------------------------------------------------
(* Leases (engine.go).                                                     *)

Holds(t, g, c) == t.state = "leased" /\ t.gen = g /\ t.claimed = c

\* acceptLease: the identity is current and neither clock has run out.
AcceptLease(t, g, c) == Holds(t, g, c) /\ ~t.lapsed /\ ~t.overdue

\* Mutant: only a lost heartbeat ends a lease.
LeaseDue_Lapsed(t) == t.state = "leased" /\ t.lapsed

LeaseDue(t) == t.state = "leased" /\ (t.lapsed \/ t.overdue)

Settled(t, g, c) == \E r \in t.receipts : r.gen = g /\ r.claimed = c

WithReceipt(t, k) ==
  [t EXCEPT !.receipts =
     @ \cup {[gen |-> t.gen, claimed |-> t.claimed, kind |-> k]}]

\* Mutant: the turn ends without a look at the FIFO.
Advance_Ends(t, terminal) == [t EXCEPT !.state = terminal]

\* The turn has finished with its claimed revision: the next prompt of the
\* FIFO starts, or the turn ends in the given state.
Advance(t, terminal) ==
  LET n == ApplyNextFollowUp(t)
  IN  [n EXCEPT !.state = IF n.pending > t.pending THEN "queued" ELSE terminal]

\* A newer revision arrived while the claimed one ran.
Superseded(t) == t.claimed < t.pending

GrantLease(t) ==
  [t EXCEPT !.gen = @ + 1, !.claimed = t.pending, !.state = "leased",
            !.lapsed = FALSE, !.overdue = FALSE]

\* Past the execution deadline: a fail receipt for the holding generation
\* and no retry of the exhausted revision.
FailClosed(t, bump) ==
  LET f == PromoteSteers(WithReceipt(t, "fail"), t.gen)
      b == [f EXCEPT !.gen = IF bump THEN @ + 1 ELSE @]
  IN  IF Superseded(b) THEN [b EXCEPT !.state = "queued"] ELSE Advance(b, "failed")

\* A lost heartbeat: the lease lapses without a receipt.
LapseLease(t) ==
  LET owed == OwedSteers(t, t.gen) # {}
      p == PromoteSteers(t, t.gen)
      r == [p EXCEPT !.retry = IF Superseded(p) THEN @ ELSE @ + 1,
                     !.gen = @ + 1]
      q == [r EXCEPT !.state = "queued"]
  IN  CASE owed -> LET z == [q EXCEPT !.retry = 0]
                   IN  IF Superseded(z) THEN z ELSE ApplyNextFollowUp(z)
        [] ~owed /\ ~Superseded(r) /\ r.retry >= RetryLimit -> Advance(r, "failed")
        [] OTHER -> q

ExpireLease(t) ==
  CASE ~LeaseDue(t) -> t
    [] LeaseDue(t) /\ t.overdue -> FailClosed(t, TRUE)
    [] OTHER -> LapseLease(t)

\* Mutant: the attempt that reaches the limit is retried once more.
FinalizeFailure_OneMore(t) ==
  LET owed == OwedSteers(t, t.gen) # {}
      f == PromoteSteers(WithReceipt(t, "fail"), t.gen)
      r == [f EXCEPT !.retry = @ + 1]
  IN  CASE Superseded(f) -> [f EXCEPT !.state = "queued"]
        [] ~Superseded(f) /\ (owed \/ r.retry > RetryLimit) -> Advance(r, "failed")
        [] OTHER -> [r EXCEPT !.state = "queued"]

\* A failed attempt by a live holder.
FinalizeFailure(t) ==
  LET owed == OwedSteers(t, t.gen) # {}
      f == PromoteSteers(WithReceipt(t, "fail"), t.gen)
      r == [f EXCEPT !.retry = @ + 1]
  IN  CASE Superseded(f) -> [f EXCEPT !.state = "queued"]
        [] ~Superseded(f) /\ (owed \/ r.retry >= RetryLimit) -> Advance(r, "failed")
        [] OTHER -> [r EXCEPT !.state = "queued"]

\* A heartbeat renews the liveness clock, never the execution deadline, which
\* AcceptLease has just found in the future.
RenewLease(t, ids) == NextSteer(ReceiveSteers([t EXCEPT !.lapsed = FALSE], ids), t.gen)

\* Complete by a live holder with a valid artifact; acks are the steers the
\* runner says it delivered.
AckSteers(t, acks) ==
  [t EXCEPT !.steers = {s \in @ : s.seq \notin acks},
            !.acked = @ \cup acks]

CompleteLease(t, acks) ==
  LET p == PromoteSteers(WithReceipt(AckSteers(t, acks), "complete"), t.gen)
  IN  IF Superseded(p) THEN [p EXCEPT !.state = "queued"]
                       ELSE Advance(p, "completed")

\* Fail: past the deadline it fails closed, otherwise it is an attempt.
FailLease(t) == IF t.overdue THEN FailClosed(t, FALSE) ELSE FinalizeFailure(t)

\* A claim whose environment turned out to be busy goes back to the queue.
RequeueBusy(t) == [t EXCEPT !.state = "queued", !.lapsed = FALSE, !.overdue = FALSE]

\* Restore re-opens a copy of the database.
SanitizeRestored(t) ==
  IF t.state = "leased" THEN [t EXCEPT !.state = "queued", !.lapsed = FALSE] ELSE t

-----------------------------------------------------------------------------
(* Operator actions on the turn (cancel.go, halt.go, archive.go, engine.go).*)

CancelLeased(t) ==
  LET owed == OwedSteers(t, t.gen) # {}
      c == PromoteSteers(WithReceipt(t, "cancelled"), t.gen)
  IN  CASE Superseded(c) -> [c EXCEPT !.state = "queued"]
        [] ~Superseded(c) /\ owed ->
             ApplyNextFollowUp([c EXCEPT !.state = "queued", !.retry = 0])
        [] OTHER -> [c EXCEPT !.state = "failed"]

\* cancelTurnTx: a queued turn ends without a receipt.
CancelTurn(t) ==
  CASE t.state = "queued" -> [t EXCEPT !.state = "failed"]
    [] t.state = "leased" -> CancelLeased(t)
    [] OTHER -> t

\* cancelOneSession drops the queued prompts first, in the same transaction.
CancelSession(t) == CancelTurn(ConsumeQueued(t))

HaltLeasedTurn(t) ==
  LET owed == OwedSteers(t, t.gen) # {}
      h == PromoteSteers(WithReceipt(t, "halted"), t.gen)
      q == [h EXCEPT !.gen = @ + 1, !.state = "queued",
                     !.retry = IF owed THEN 0 ELSE @]
  IN  IF t.state # "leased" THEN t
      ELSE IF owed /\ ~Superseded(q) THEN ApplyNextFollowUp(q) ELSE q

FailArchivedTurn(t) ==
  LET c == CancelTurn(t)
  IN  [c EXCEPT !.state = IF @ = "queued" THEN "failed" ELSE @]

\* Mutant: the live lease moves to the new revision.
AdmitRevision_Moves(t) ==
  Requeue([t EXCEPT !.pending = @ + 1, !.snap = Append(@, 0), !.retry = 0,
                    !.claimed = IF t.state = "leased" THEN t.pending + 1 ELSE @])

\* A changed item becomes the next revision.
AdmitRevision(t) ==
  Requeue([t EXCEPT !.pending = @ + 1, !.snap = Append(@, 0), !.retry = 0])

-----------------------------------------------------------------------------
(* What the properties say of a turn.                                      *)

\* The prompts that became revisions, and those that wait.
AppliedPrompts(t) == {t.snap[i] : i \in DOMAIN t.snap} \ {0}
FifoPrompts(t) == {f.seq : f \in t.fifo}
SteerPrompts(t) == {s.seq : s \in t.steers}
WaitingPrompts(t) == FifoPrompts(t) \cup SteerPrompts(t)

Accounted(t) ==
  /\ 1..(t.nextSeq - 1) =
       WaitingPrompts(t) \cup AppliedPrompts(t) \cup t.acked \cup t.dropped
  /\ FifoPrompts(t) \cap SteerPrompts(t) = {}
  /\ WaitingPrompts(t) \cap (AppliedPrompts(t) \cup t.acked \cup t.dropped) = {}
  /\ AppliedPrompts(t) \cap (t.acked \cup t.dropped) = {}
  /\ t.acked \cap t.dropped = {}

InOrder(t) ==
  /\ \A i, j \in DOMAIN t.snap : i < j /\ t.snap[j] # 0 => t.snap[i] < t.snap[j]
  /\ \A a \in AppliedPrompts(t), w \in WaitingPrompts(t) : a < w

\* No generation has two receipts, and the running lease has none.
Fenced(t) ==
  /\ \A r, x \in t.receipts : r.gen = x.gen => r = x
  /\ \A r \in t.receipts : r.gen <= t.gen
  /\ t.state = "leased" => \A r \in t.receipts : r.gen < t.gen

CompletedRevision(t, rev) ==
  \E r \in t.receipts : r.kind = "complete" /\ r.claimed = rev

\* The strengthening of Accounted and InOrder that every transaction keeps:
\* each revision has its snapshot and no two waiting prompts share a number.
PromptsOK(t) ==
  /\ Len(t.snap) = t.pending
  /\ \A f, x \in t.fifo : f.seq = x.seq => f = x
  /\ \A s, x \in t.steers : s.seq = x.seq => s = x
  /\ Accounted(t)
  /\ InOrder(t)

\* The strengthening of Fenced: no steer is aimed at a lease not yet granted,
\* no receipt names a revision not yet claimed, and once the claimed revision
\* is completed the turn has either ended, owing nothing, or moved on.
LeasesOK(t) ==
  /\ Fenced(t)
  /\ t.claimed <= t.pending
  /\ \A s \in t.steers : s.gen <= t.gen
  /\ \A r \in t.receipts : r.claimed <= t.claimed
  /\ CompletedRevision(t, t.claimed) =>
       \/ t.state = "completed"
       \/ t.state # "leased" /\ Superseded(t)
  /\ t.state = "completed" => ~Superseded(t) /\ WaitingPrompts(t) = {}
=============================================================================
