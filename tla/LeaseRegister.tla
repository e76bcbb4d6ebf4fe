---------------------------- MODULE LeaseRegister ----------------------------
(***************************************************************************)
(* What the plane promises a runner about one turn, without prompts,       *)
(* retries or clocks: revisions are offered, the newest one is granted to  *)
(* one holder at a time under a generation never used before, a grant ends *)
(* with at most one recorded outcome, and a revision whose outcome is      *)
(* complete is never granted again.                                        *)
(***************************************************************************)
EXTENDS Naturals

CONSTANT Outcomes      \* the kinds of recorded outcome

VARIABLES latest,      \* the newest revision
          top,         \* the highest generation used
          holder,      \* the live grant, or NoHolder
          outcomes     \* the recorded outcomes of past grants

rvars == <<latest, top, holder, outcomes>>

NoHolder == [gen |-> 0, rev |-> 0]

RInit == /\ latest = 1
         /\ top = 0
         /\ holder = NoHolder
         /\ outcomes = {}

Outcome(k) == [gen |-> holder.gen, claimed |-> holder.rev, kind |-> k]

CompletedRev(r) == \E o \in outcomes' : o.kind = "complete" /\ o.claimed = r

\* New work may arrive with any step, one revision at a time.
Offered == latest' \in {latest, latest + 1}

Offer == /\ Offered
         /\ UNCHANGED <<top, holder, outcomes>>

\* The live grant ends, with one outcome or, when it lapses, with none.
Closed(o) == holder # NoHolder /\ outcomes' = outcomes \cup o

End == /\ \/ Closed({})
          \/ \E k \in Outcomes : Closed({Outcome(k)})
       /\ holder' = NoHolder
       /\ top' \in {top, top + 1}      \* a generation may be retired unused
       /\ Offered

Granted == /\ top' > top
           /\ holder' = [gen |-> top', rev |-> latest']
           /\ ~CompletedRev(latest')

Grant == /\ holder = NoHolder
         /\ outcomes' = outcomes
         /\ latest' = latest
         /\ Granted

\* A claim that finds the live grant overdue ends it and takes the turn.
TakeOver == /\ Closed({}) \/ Closed({Outcome("fail")})
            /\ Offered
            /\ Granted

RNext == Offer \/ End \/ Grant \/ TakeOver

RSpec == RInit /\ [][RNext]_rvars
=============================================================================
