------------------------------- MODULE MCHosts -------------------------------
(***************************************************************************)
(* The safety of what runs around a guest: the runner's turn, the native   *)
(* protocols and their transcript, the terminal, the followed read, the    *)
(* model receipts and the guest link.                                      *)
(* The parts share no state; a behaviour explores one.  Budgets keep the   *)
(* disturbances of one behaviour few while every kind still meets every    *)
(* other.                                                                  *)
(***************************************************************************)
EXTENDS Guest, NativeTurn, Terminals, Follow, ModelReceipts, GuestLink

VARIABLE part

Parts == {"guest", "native", "term", "follow", "receipts", "link"}

vars == <<part, guestVars, nativeVars, termVars, followVars, receiptVars, linkVars>>

\* The combinations of a guest's host, mode and rules that differ in what
\* the gate answers; elsewhere a setting that is not read has one value.
GuestSettings ==
    /\ host = "acp" \/ mode = "plain"
    /\ mode = "plain" \/ rules # "reject"
    /\ host # "process" \/ rules = "none"
    /\ mode = "gated" \/ ~granted
    /\ file = NoPrompt \/ (mode = "plain" /\ rules = "none")

Init ==
    /\ part \in Parts
    /\ GuestInit /\ NativeInit /\ TermInit /\ FollowInit /\ ReceiptInit /\ LinkInit
    /\ GuestSettings
    /\ part = "guest" \/ (host = "acp" /\ mode = "plain" /\ rules = "none" /\ file = NoPrompt)
    /\ part = "native" \/ (dialect = "claude" /\ stored = NoThread)

\* At most this many losses, changes, asks and steers together.
GuestBudget == losses + changes + asks + Cardinality({s \in Steers : steerRow[s] # "none"}) <= 2

FollowBudget ==
    Len(entries) + requeues + breaks + (pendingRev - 1) + Cardinality(decisions)
      + (IF stopped THEN 1 ELSE 0) <= 3

Next ==
    /\ UNCHANGED part
    /\ \/ /\ part = "guest" /\ GuestNext /\ GuestBudget'
          /\ UNCHANGED <<nativeVars, termVars, followVars, receiptVars, linkVars>>
       \/ part = "native" /\ NativeNext /\ UNCHANGED <<guestVars, termVars, followVars, receiptVars, linkVars>>
       \/ part = "term" /\ TermNext /\ UNCHANGED <<guestVars, nativeVars, followVars, receiptVars, linkVars>>
       \/ /\ part = "follow" /\ FollowNext /\ FollowBudget'
          /\ UNCHANGED <<guestVars, nativeVars, termVars, receiptVars, linkVars>>
       \/ part = "receipts" /\ ReceiptNext /\ UNCHANGED <<guestVars, nativeVars, termVars, followVars, linkVars>>
       \/ part = "link" /\ LinkNext /\ UNCHANGED <<guestVars, nativeVars, termVars, followVars, receiptVars>>

Spec == Init /\ [][Next]_vars
=============================================================================
