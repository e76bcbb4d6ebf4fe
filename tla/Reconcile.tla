------------------------------ MODULE Reconcile -----------------------------
(***************************************************************************)
(* Reconciliation of GitHub webhook deliveries: the deliveries GitHub kept *)
(* are listed, and the ones the plane may have missed are fetched and      *)
(* ingested again, oldest first (engine.ReconcileDeliveries).  A delivery  *)
(* that cannot be fetched holds up the later ones until it has failed      *)
(* RetryCap times.                                                         *)
(***************************************************************************)
EXTENDS Integers, FiniteSets

CONSTANTS
    MaxDelivery,  \* bound on deliveries; their ids grow with time
    RetryCap,     \* RefreshRetryLimit
    MaxMisses     \* bound on failing GitHub calls and crashes

ASSUME ReconcileAssumption == MaxDelivery \in Nat /\ RetryCap \in Nat /\ MaxMisses \in Nat

VARIABLES
    kept,         \* newest delivery GitHub lists
    ingested,     \* deliveries whose observation was recorded
    unreadable,   \* deliveries ParseWebhook rejects
    lost,         \* deliveries GetDelivery cannot read any more
    checkpoint,   \* reconcile_checkpoints: last delivery id, 0 when none
    fails,        \* failed_deliveries: delivery -> retries
    pass,         \* the pass in progress: [on, top, next, mark]
    misses

recVars == <<kept, ingested, unreadable, lost, checkpoint, fails, pass, misses>>

Ids == 1 .. MaxDelivery
NoPass == [on |-> FALSE, top |-> 0, next |-> 0, mark |-> 0]

RecTypeOK ==
    /\ kept \in 0 .. MaxDelivery /\ checkpoint \in 0 .. kept
    /\ ingested \subseteq 1 .. kept
    /\ fails \in [Ids -> 0 .. RetryCap + MaxMisses]
    /\ pass.next \in 0 .. MaxDelivery + 1

RecInit ==
    /\ kept = 0 /\ ingested = {} /\ unreadable = {} /\ lost = {}
    /\ checkpoint = 0
    /\ fails = [d \in Ids |-> 0]
    /\ pass = NoPass
    /\ misses = 0

\* GitHub sends a delivery; the plane may miss it, it may be of an event
\* the plane cannot parse.
Send ==
    /\ kept < MaxDelivery
    /\ kept' = kept + 1
    /\ \/ ingested' = ingested \cup {kept'} /\ UNCHANGED <<unreadable, lost>>
       \/ UNCHANGED <<ingested, unreadable, lost>>
       \/ unreadable' = unreadable \cup {kept'} /\ UNCHANGED <<ingested, lost>>
       \/ lost' = lost \cup {kept'} /\ UNCHANGED <<ingested, unreadable>>
    /\ UNCHANGED <<checkpoint, fails, pass, misses>>

\* ListDeliveries and the checkpoint.
ReconcileDeliveries ==
    /\ ~pass.on /\ kept > 0
    /\ pass' = [on |-> TRUE, top |-> kept, next |-> 1, mark |-> checkpoint]
    /\ UNCHANGED <<kept, ingested, unreadable, lost, checkpoint, fails, misses>>

Onto == pass' = IF pass.next = pass.top THEN NoPass ELSE [pass EXCEPT !.next = @ + 1]


\* GetDelivery failed: the failure is counted; below the cap the pass ends,
\* at the cap the delivery is given up and the checkpoint moves.
GetDeliveryFails(d) ==
    /\ fails' = [fails EXCEPT ![d] = IF @ < RetryCap + MaxMisses THEN @ + 1 ELSE @]
    /\ IF fails[d] + 1 >= RetryCap THEN checkpoint' = d /\ Onto
       ELSE pass' = NoPass /\ UNCHANGED checkpoint
    /\ UNCHANGED <<kept, ingested, unreadable, lost>>

\* The next delivery, oldest first: skipped when it was the checkpoint or
\* cannot be parsed, otherwise ingested.
ReconcileOne ==
    /\ pass.on
    /\ LET d == pass.next IN
       \/ /\ d = pass.mark \/ (d \in unreadable /\ d \notin lost)
          /\ Onto
          /\ UNCHANGED <<kept, ingested, unreadable, lost, checkpoint, fails, misses>>
       \/ /\ d # pass.mark /\ d \in lost
          /\ GetDeliveryFails(d) /\ UNCHANGED misses
       \/ /\ d # pass.mark /\ d \notin unreadable \cup lost
          /\ ingested' = ingested \cup {d} /\ checkpoint' = d
          /\ Onto
          /\ UNCHANGED <<kept, unreadable, lost, fails, misses>>

\* A call of GitHub fails for now, or the plane stops.
ReconcileFails ==
    /\ pass.on /\ misses < MaxMisses /\ misses' = misses + 1
    /\ \/ pass.next # pass.mark /\ GetDeliveryFails(pass.next)
       \/ pass' = NoPass /\ UNCHANGED <<kept, ingested, unreadable, lost, checkpoint, fails>>

RecNext == Send \/ ReconcileDeliveries \/ ReconcileOne \/ ReconcileFails

\* The scheduler reconciles each repository on a ticker (main.runScheduler).
RecFairness == WF_recVars(ReconcileDeliveries) /\ WF_recVars(ReconcileOne)

-----------------------------------------------------------------------------
(* Properties. *)

Settled(d) == d \in ingested \/ d \in unreadable \/ fails[d] >= RetryCap

\* The checkpoint never hides a delivery: everything up to it was ingested,
\* cannot be parsed, or failed often enough to be given up.
CheckpointIsSettled == \A d \in 1 .. checkpoint : Settled(d)

=============================================================================
