----------------------------- MODULE MCTurnLease -----------------------------
(* Instances of TurnLease for TLC: the disturbances each run draws from. *)
EXTENDS TurnLease

\* What the plane does to a lease behind its runner's back.  An operator's pause
\* is left to AllOps: it may last, and then nothing progresses.
PlaneOps == {"busy", "restore", "restart", "drop"}

AllOps == Disturbances
BusyCancelOps == {"busy", "cancel"}

\* Item changes and disturbances share a budget of two.
SharedBudget == admits + disturbed <= 2
=============================================================================
