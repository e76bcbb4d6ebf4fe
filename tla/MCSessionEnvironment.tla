------------------------ MODULE MCSessionEnvironment ------------------------
(* Instances of SessionEnvironment for TLC: the handlers beside the claims. *)
EXTENDS SessionEnvironment

AllDisturbances == Kinds
Wakes == {"sleep", "wake"}
=============================================================================
