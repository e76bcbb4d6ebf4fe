------------------------------ MODULE MCRefresh ------------------------------
(* Instances of Refresh for TLC: the faults each run draws from. *)
EXTENDS Refresh

\* A draft that becomes ready.
LateEligible == {2}
AllEligible == Versions

\* Doubted evidence, and what can come between it and its refresh.  The policy
\* stays: with reviews off, or the repository at another tenant, the owner gives
\* a forced refresh up.
ReviewFaults == FaultKinds \ {"policy"}

AllFaults == FaultKinds
NoFaults == {}

\* Changes of the item and prompts share a budget of two.
SharedBudget ==
  (version - 1) + Cardinality({i \in DOMAIN job.snap : job.snap[i] = 0}) <= 2
=============================================================================
