----------------------------- MODULE ItemMirror -----------------------------
(***************************************************************************)
(* What the plane promises about its copy of a GitHub item: the copies it  *)
(* takes are states the item was really in, none older than the one        *)
(* before.  The operator's prompts stand between them.  A state is copied  *)
(* again only when a prompt came after its copy, or to settle doubts about *)
(* the evidence of earlier reviews, and then settles all of them.          *)
(***************************************************************************)
EXTENDS Naturals, Sequences

VARIABLES live,      \* the state of the item, numbered by its changes
          mirror,    \* the copies the plane took, and 0 for each prompt
          doubts     \* unsettled doubts about the evidence of reviews

mvars == <<live, mirror, doubts>>

\* The states a copy may be of: none goes back behind an earlier copy.
Current == {v \in 1..live : \A i \in DOMAIN mirror : mirror[i] <= v}

Newest == IF mirror = <<>> THEN 0 ELSE mirror[Len(mirror)]

MInit == live = 1 /\ mirror = <<>> /\ doubts = {}

Edit == /\ live' = live + 1
        /\ UNCHANGED <<mirror, doubts>>

Copy == /\ \E v \in Current \ {Newest} : mirror' = Append(mirror, v)
        /\ UNCHANGED <<live, doubts>>

Ask == /\ mirror # <<>>
       /\ mirror' = Append(mirror, 0)
       /\ UNCHANGED <<live, doubts>>

Doubt == /\ \E r \in DOMAIN mirror : mirror[r] # 0 /\ doubts' = doubts \cup {r}
         /\ UNCHANGED <<live, mirror>>

Recheck == /\ doubts # {}
           /\ \E v \in Current : mirror' = Append(mirror, v)
           /\ doubts' = {}
           /\ UNCHANGED live

MNext == Edit \/ Copy \/ Ask \/ Doubt \/ Recheck

MSpec == MInit /\ [][MNext]_mvars
=============================================================================
