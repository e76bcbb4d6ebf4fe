----------------------------- MODULE TurnProofs -----------------------------
(***************************************************************************)
(* Lemmas about the transaction bodies of Turn: what each one does to the  *)
(* fields of the record, and that each keeps PromptsOK and LeasesOK.       *)
(***************************************************************************)
EXTENDS Turn, WellFoundedInduction, TLAPS

\* Append.
LEMMA SeqAppend ==
    ASSUME NEW S, NEW s \in Seq(S), NEW x \in S
    PROVE  /\ Append(s, x) \in Seq(S) /\ Append(s, x) # <<>>
           /\ Len(Append(s, x)) = Len(s) + 1 /\ Append(s, x)[Len(s) + 1] = x
           /\ \A k \in 1 .. Len(s) : Append(s, x)[k] = s[k]
OBVIOUS

-----------------------------------------------------------------------------
(* Least elements.                                                         *)

\* A non-empty set of naturals has a least member.
LEMMA MinExists ==
  ASSUME NEW S, S \subseteq Nat, S # {}
  PROVE  \E m \in S : \A x \in S : m <= x
<1>1. IsWellFoundedOn(OpToRel(<, Nat), Nat)
  BY Zenon, NatLessThanWellFounded
<1>2. PICK m \in S : \A y \in S : ~ (<<y, m>> \in OpToRel(<, Nat))
  BY Zenon, <1>1, WFMin
<1>3. ASSUME NEW y \in S PROVE m <= y
  <2>1. y \in Nat /\ m \in Nat
    OBVIOUS
  <2>2. <<y, m>> \notin {ss \in Nat \X Nat : ss[1] < ss[2]}
    BY <1>2, Zenon DEF OpToRel
  <2>. QED
    BY <2>1, <2>2, SMT
<1>. QED
  BY <1>3

\* NextFollowUpTx returns the waiting prompt with the lowest number.
LEMMA FifoHeadIsLeast ==
  ASSUME NEW t \in TurnType, t.fifo # {}
  PROVE  /\ FifoHead(t) \in t.fifo
         /\ \A x \in t.fifo : FifoHead(t).seq <= x.seq
<1>1. t.fifo \subseteq FollowUp
  BY DEF TurnType
<1>2. FifoPrompts(t) \subseteq Nat /\ FifoPrompts(t) # {}
  BY <1>1 DEF FifoPrompts, FollowUp, Prompts
<1>3. PICK m \in FifoPrompts(t) : \A x \in FifoPrompts(t) : m <= x
  BY <1>2, MinExists
<1>4. PICK f \in t.fifo : f.seq = m
  BY DEF FifoPrompts
<1>5. \A x \in t.fifo : f.seq <= x.seq
  BY <1>3, <1>4 DEF FifoPrompts
<1>. QED
  BY <1>5, Zenon DEF FifoHead

-----------------------------------------------------------------------------
(* What the basic operators do to the fields.                              *)

\* t and u hold the same prompts in the same places.
SamePrompts(t, u) ==
  /\ u.pending = t.pending /\ u.snap = t.snap
  /\ u.fifo = t.fifo /\ u.steers = t.steers
  /\ u.acked = t.acked /\ u.dropped = t.dropped /\ u.nextSeq = t.nextSeq

\* t and u stand at the same point of the lease protocol.
SameLease(t, u) ==
  /\ u.state = t.state /\ u.gen = t.gen /\ u.claimed = t.claimed
  /\ u.receipts = t.receipts

\* PromoteSteersTx moves the owed steers into the FIFO and touches nothing else.
LEMMA PromoteSteersFields ==
  ASSUME NEW t \in TurnType, NEW g \in Nat,
         NEW p, p = PromoteSteers(t, g)
  PROVE  /\ p \in TurnType
         /\ SameLease(t, p)
         /\ p.steers = t.steers \ OwedSteers(t, g)
         /\ p.fifo = t.fifo \cup {[seq |-> s.seq, queued |-> FALSE] : s \in OwedSteers(t, g)}
         /\ p.pending = t.pending /\ p.retry = t.retry
         /\ p.snap = t.snap /\ p.acked = t.acked /\ p.dropped = t.dropped
         /\ p.nextSeq = t.nextSeq
<1> DEFINE ow == OwedSteers(t, g)
           new == {[seq |-> s.seq, queued |-> FALSE] : s \in ow}
<1>1. ow \subseteq Steer
  BY DEF OwedSteers, TurnType
<1>2. new \subseteq FollowUp
  <2> SUFFICES ASSUME NEW s \in ow PROVE [seq |-> s.seq, queued |-> FALSE] \in FollowUp
    OBVIOUS
  <2>. QED
    BY <1>1 DEF Steer, FollowUp
<1>3. t.steers \ ow \in SUBSET Steer
  BY DEF TurnType
<1>4. t.fifo \cup new \in SUBSET FollowUp
  BY <1>2 DEF TurnType
<1>5. p = [t EXCEPT !.steers = t.steers \ ow, !.fifo = t.fifo \cup new]
  BY DEF PromoteSteers
<1> HIDE DEF ow, new
<1>6. p \in TurnType
  BY Zenon, <1>3, <1>4, <1>5 DEF TurnType
<1>7. p.steers = t.steers \ ow /\ p.fifo = t.fifo \cup new
  BY <1>5 DEF TurnType
<1>8. /\ p.pending = t.pending /\ p.retry = t.retry
      /\ p.snap = t.snap /\ p.acked = t.acked /\ p.dropped = t.dropped
      /\ p.nextSeq = t.nextSeq /\ SameLease(t, p)
  BY <1>5 DEF TurnType, SameLease
<1>. QED
  BY <1>6, <1>7, <1>8 DEF ow, new

\* ApplyFollowUpTx makes one FIFO row the pending revision, with a fresh retry count.
LEMMA ApplyFollowUpFields ==
  ASSUME NEW t \in TurnType, NEW f \in t.fifo,
         NEW p, p = ApplyFollowUp(t, f)
  PROVE  /\ p \in TurnType
         /\ SameLease(t, p)
         /\ p.fifo = t.fifo \ {f}
         /\ p.pending = t.pending + 1
         /\ p.snap = Append(t.snap, f.seq)
         /\ p.retry = 0
         /\ p.steers = t.steers /\ p.acked = t.acked /\ p.dropped = t.dropped
         /\ p.nextSeq = t.nextSeq
<1>1. f.seq \in Nat
  BY DEF TurnType, FollowUp, Prompts
<1>2. Append(t.snap, f.seq) \in Seq(Nat) /\ t.pending + 1 \in Nat
  BY <1>1 DEF TurnType
<1>3. t.fifo \ {f} \in SUBSET FollowUp
  BY SMTT(30) DEF TurnType
<1>. QED
  BY Zenon, <1>2, <1>3 DEF ApplyFollowUp, TurnType, SameLease

\* ConsumeQueuedFollowUpsTx only drops queued prompts that still wait.
LEMMA ConsumeQueuedFields ==
  ASSUME NEW t \in TurnType, NEW p, p = ConsumeQueued(t)
  PROVE  /\ p \in TurnType
         /\ SameLease(t, p)
         /\ p.fifo = t.fifo \ QueuedPrompts(t)
         /\ p.dropped = t.dropped \cup {f.seq : f \in QueuedPrompts(t)}
         /\ p.pending = t.pending /\ p.retry = t.retry
         /\ p.snap = t.snap /\ p.acked = t.acked /\ p.steers = t.steers
         /\ p.nextSeq = t.nextSeq
<1>1. {f.seq : f \in QueuedPrompts(t)} \subseteq Prompts
  BY DEF QueuedPrompts, TurnType, FollowUp
<1>2. t.dropped \cup {f.seq : f \in QueuedPrompts(t)} \in SUBSET Prompts
  BY <1>1 DEF TurnType
<1>3. t.fifo \ QueuedPrompts(t) \in SUBSET FollowUp
  BY DEF TurnType
<1>. QED
  BY Zenon, <1>2, <1>3 DEF ConsumeQueued, TurnType, SameLease

\* InsertReceiptTx adds one receipt to those stored.
LEMMA WithReceiptFields ==
  ASSUME NEW t \in TurnType, NEW k \in Kinds, NEW p, p = WithReceipt(t, k)
  PROVE  /\ p \in TurnType
         /\ SamePrompts(t, p)
         /\ p.state = t.state /\ p.gen = t.gen /\ p.claimed = t.claimed
         /\ p.retry = t.retry
         /\ p.receipts = t.receipts \cup
              {[gen |-> t.gen, claimed |-> t.claimed, kind |-> k]}
<1> DEFINE rs == t.receipts \cup {[gen |-> t.gen, claimed |-> t.claimed, kind |-> k]}
<1>1. rs \in SUBSET Receipt
  BY DEF TurnType, Receipt
<1>2. p = [t EXCEPT !.receipts = rs]
  BY DEF WithReceipt
<1> HIDE DEF rs
<1>3. p \in TurnType /\ p.receipts = rs
  BY SMTT(30), <1>1, <1>2 DEF TurnType
<1>4. /\ SamePrompts(t, p) /\ p.retry = t.retry
      /\ p.state = t.state /\ p.gen = t.gen /\ p.claimed = t.claimed
  BY <1>2 DEF TurnType, SamePrompts
<1>. QED
  BY <1>3, <1>4 DEF rs

\* AcknowledgeSteerTx takes the acknowledged steers off the lease.
LEMMA AckSteersFields ==
  ASSUME NEW t \in TurnType, NEW acks, acks \subseteq SteerPrompts(t),
         NEW p, p = AckSteers(t, acks)
  PROVE  /\ p \in TurnType
         /\ SameLease(t, p)
         /\ p.steers = {s \in t.steers : s.seq \notin acks}
         /\ p.acked = t.acked \cup acks
         /\ p.pending = t.pending /\ p.retry = t.retry
         /\ p.snap = t.snap /\ p.fifo = t.fifo /\ p.dropped = t.dropped
         /\ p.nextSeq = t.nextSeq
<1>1. acks \subseteq Prompts
  BY DEF SteerPrompts, TurnType, Steer
<1>2. t.acked \cup acks \in SUBSET Prompts
  BY <1>1 DEF TurnType
<1>3. {s \in t.steers : s.seq \notin acks} \in SUBSET Steer
  BY DEF TurnType
<1>. QED
  BY Zenon, <1>2, <1>3 DEF AckSteers, TurnType, SameLease

-----------------------------------------------------------------------------
(* Every operator keeps the prompts accounted for and in order.            *)

\* PromptsOK reads only where the prompts are.
LEMMA SamePromptsOK ==
  ASSUME NEW t, NEW u, PromptsOK(t), SamePrompts(t, u)
  PROVE  PromptsOK(u)
<1>1. /\ FifoPrompts(u) = FifoPrompts(t)
      /\ SteerPrompts(u) = SteerPrompts(t)
      /\ WaitingPrompts(u) = WaitingPrompts(t)
      /\ AppliedPrompts(u) = AppliedPrompts(t)
  BY Zenon DEF SamePrompts, AppliedPrompts, FifoPrompts, SteerPrompts, WaitingPrompts
<1>2. Accounted(u)
  BY <1>1, Zenon DEF PromptsOK, SamePrompts, Accounted
<1>3. InOrder(u)
  BY <1>1, Zenon DEF PromptsOK, SamePrompts, InOrder
<1>. QED
  BY <1>2, <1>3, Zenon DEF PromptsOK, SamePrompts

\* A waiting prompt has exactly one of the two ways of waiting.
LEMMA PromoteSteersPrompts ==
  ASSUME NEW t \in TurnType, NEW g \in Nat, PromptsOK(t)
  PROVE  PromptsOK(PromoteSteers(t, g))
<1> DEFINE p == PromoteSteers(t, g)
           ow == OwedSteers(t, g)
<1>1. /\ p \in TurnType
      /\ p.steers = t.steers \ ow
      /\ p.fifo = t.fifo \cup {[seq |-> s.seq, queued |-> FALSE] : s \in ow}
      /\ p.pending = t.pending /\ p.snap = t.snap /\ p.acked = t.acked
      /\ p.dropped = t.dropped /\ p.nextSeq = t.nextSeq
  BY PromoteSteersFields
<1>2. ow \subseteq t.steers
  BY DEF OwedSteers
<1> HIDE DEF p, ow
<1>3. FifoPrompts(p) = FifoPrompts(t) \cup {s.seq : s \in ow}
  <2>1. ASSUME NEW f \in p.fifo PROVE f.seq \in FifoPrompts(t) \cup {s.seq : s \in ow}
    <3>1. CASE f \in t.fifo
      BY <3>1 DEF FifoPrompts
    <3>2. CASE f \notin t.fifo
      <4>1. PICK s \in ow : f = [seq |-> s.seq, queued |-> FALSE]
        BY <1>1, <3>2
      <4>. QED
        BY <4>1
    <3>. QED
      BY <3>1, <3>2
  <2>2. ASSUME NEW s \in ow PROVE s.seq \in FifoPrompts(p)
    <3>1. [seq |-> s.seq, queued |-> FALSE] \in p.fifo
      BY Zenon, <1>1
    <3>. QED
      BY <3>1 DEF FifoPrompts
  <2>3. ASSUME NEW f \in t.fifo PROVE f.seq \in FifoPrompts(p)
    BY <1>1 DEF FifoPrompts
  <2>. QED
    BY <2>1, <2>2, <2>3 DEF FifoPrompts
<1>4. SteerPrompts(p) = SteerPrompts(t) \ {s.seq : s \in ow}
  BY <1>1, <1>2 DEF SteerPrompts, PromptsOK
<1>5. {s.seq : s \in ow} \subseteq SteerPrompts(t)
  BY <1>2 DEF SteerPrompts
<1>6. WaitingPrompts(p) = WaitingPrompts(t)
  BY <1>3, <1>4, <1>5 DEF WaitingPrompts
<1>7. AppliedPrompts(p) = AppliedPrompts(t)
  BY <1>1 DEF AppliedPrompts
<1>8. FifoPrompts(p) \cap SteerPrompts(p) = {}
  BY <1>3, <1>4 DEF PromptsOK, Accounted
<1>9. Accounted(p)
  BY <1>1, <1>6, <1>7, <1>8 DEF PromptsOK, Accounted
<1>10. InOrder(p)
  BY <1>1, <1>6, <1>7 DEF PromptsOK, InOrder
<1>11. \A f, x \in p.fifo : f.seq = x.seq => f = x
  <2> SUFFICES ASSUME NEW f \in p.fifo, NEW x \in p.fifo, f.seq = x.seq
               PROVE  f = x
    OBVIOUS
  <2>1. CASE f \in t.fifo /\ x \in t.fifo
    BY <2>1 DEF PromptsOK
  <2>2. CASE f \in t.fifo /\ x \notin t.fifo
    <3>1. f.seq \in FifoPrompts(t) /\ x.seq \in SteerPrompts(t)
      BY <1>1, <1>2, <2>2 DEF FifoPrompts, SteerPrompts
    <3>. QED
      BY <3>1 DEF PromptsOK, Accounted
  <2>3. CASE f \notin t.fifo /\ x \in t.fifo
    <3>1. x.seq \in FifoPrompts(t) /\ f.seq \in SteerPrompts(t)
      BY <1>1, <1>2, <2>3 DEF FifoPrompts, SteerPrompts
    <3>. QED
      BY <3>1 DEF PromptsOK, Accounted
  <2>4. CASE f \notin t.fifo /\ x \notin t.fifo
    <3>1. PICK s \in ow : f = [seq |-> s.seq, queued |-> FALSE]
      BY <1>1, <2>4
    <3>2. PICK y \in ow : x = [seq |-> y.seq, queued |-> FALSE]
      BY <1>1, <2>4
    <3>. QED
      BY Zenon, <3>1, <3>2
  <2>. QED
    BY <2>1, <2>2, <2>3, <2>4
<1>12. \A s, x \in p.steers : s.seq = x.seq => s = x
  BY <1>1 DEF PromptsOK
<1>13. Len(p.snap) = p.pending
  BY <1>1 DEF PromptsOK
<1>. QED
  BY <1>9, <1>10, <1>11, <1>12, <1>13 DEF PromptsOK, p

\* The sequence numbers of waiting prompts are numbers that can be compared.
LEMMA WaitingPromptsAreNat ==
  ASSUME NEW t \in TurnType
  PROVE  WaitingPrompts(t) \subseteq Prompts /\ Prompts \subseteq Nat
<1>1. t.fifo \subseteq FollowUp /\ t.steers \subseteq Steer
  BY DEF TurnType
<1>2. FifoPrompts(t) \subseteq Prompts
  BY <1>1 DEF FifoPrompts, FollowUp
<1>3. SteerPrompts(t) \subseteq Prompts
  BY <1>1 DEF SteerPrompts, Steer
<1>. QED
  BY <1>2, <1>3 DEF WaitingPrompts, Prompts

\* The head of the FIFO may become a revision when no steer is older.
LEMMA ApplyHeadPrompts ==
  ASSUME NEW t \in TurnType, PromptsOK(t), t.fifo # {},
         ~EarlierSteer(t, FifoHead(t).seq)
  PROVE  PromptsOK(ApplyFollowUp(t, FifoHead(t)))
<1> DEFINE f == FifoHead(t)
           p == ApplyFollowUp(t, f)
<1>1. f \in t.fifo /\ \A x \in t.fifo : f.seq <= x.seq
  BY FifoHeadIsLeast
<1>2. /\ p \in TurnType
      /\ p.fifo = t.fifo \ {f}
      /\ p.pending = t.pending + 1
      /\ p.snap = Append(t.snap, f.seq)
      /\ p.steers = t.steers /\ p.acked = t.acked /\ p.dropped = t.dropped
      /\ p.nextSeq = t.nextSeq
  BY <1>1, ApplyFollowUpFields
<1>3. f.seq \in Nat /\ f.seq # 0
  BY <1>1 DEF TurnType, FollowUp, Prompts
<1>3a. ~EarlierSteer(t, f.seq)
  OBVIOUS
<1> HIDE DEF f, p
<1>4. FifoPrompts(p) = FifoPrompts(t) \ {f.seq}
  BY <1>1, <1>2 DEF FifoPrompts, PromptsOK
<1>5. SteerPrompts(p) = SteerPrompts(t)
  BY <1>2 DEF SteerPrompts
<1>6. f.seq \in FifoPrompts(t)
  BY <1>1 DEF FifoPrompts
<1>7. /\ t.snap \in Seq(Nat) /\ Len(t.snap) = t.pending /\ t.pending \in Nat
      /\ DOMAIN t.snap = 1..t.pending
      /\ DOMAIN p.snap = 1..(t.pending + 1)
      /\ \A i \in 1..t.pending : p.snap[i] = t.snap[i]
      /\ p.snap[t.pending + 1] = f.seq
      /\ \A i \in 1..t.pending : t.snap[i] \in Nat
  <2>1. t.snap \in Seq(Nat) /\ Len(t.snap) = t.pending /\ t.pending \in Nat
    BY DEF TurnType, PromptsOK
  <2>2. /\ Append(t.snap, f.seq) \in Seq(Nat)
        /\ Len(Append(t.snap, f.seq)) = t.pending + 1
        /\ \A i \in 1..t.pending : Append(t.snap, f.seq)[i] = t.snap[i]
        /\ Append(t.snap, f.seq)[t.pending + 1] = f.seq
    BY <1>3, <2>1, SeqAppend
  <2>3. /\ DOMAIN t.snap = 1..t.pending
        /\ \A i \in 1..t.pending : t.snap[i] \in Nat
    BY <2>1
  <2>4. DOMAIN Append(t.snap, f.seq) = 1..(t.pending + 1)
    BY <2>1, <2>2
  <2>. QED
    BY <1>2, <2>1, <2>2, <2>3, <2>4
<1>8. AppliedPrompts(p) = AppliedPrompts(t) \cup {f.seq}
  <2>1. ASSUME NEW i \in DOMAIN p.snap
        PROVE  p.snap[i] \in {t.snap[j] : j \in DOMAIN t.snap} \cup {f.seq}
    BY SMTT(30), <1>7
  <2>2. ASSUME NEW j \in DOMAIN t.snap
        PROVE  t.snap[j] \in {p.snap[i] : i \in DOMAIN p.snap}
    <3>1. j \in DOMAIN p.snap /\ p.snap[j] = t.snap[j]
      BY <1>7
    <3>. QED
      BY <3>1
  <2>3. f.seq \in {p.snap[i] : i \in DOMAIN p.snap}
    <3>1. t.pending + 1 \in DOMAIN p.snap
      BY <1>7
    <3>. QED
      BY <1>7, <3>1
  <2>. QED
    BY <1>3, <2>1, <2>2, <2>3 DEF AppliedPrompts
<1>9. WaitingPrompts(p) = WaitingPrompts(t) \ {f.seq}
  BY <1>4, <1>5, <1>6 DEF WaitingPrompts, PromptsOK, Accounted
<1>10. Accounted(p)
  <2>1. f.seq \in WaitingPrompts(t)
    BY <1>6 DEF WaitingPrompts
  <2>. QED
    BY <1>2, <1>4, <1>5, <1>8, <1>9, <2>1 DEF PromptsOK, Accounted
<1>11. \A w \in WaitingPrompts(p) : f.seq < w
  <2> SUFFICES ASSUME NEW w \in WaitingPrompts(p) PROVE f.seq < w
    OBVIOUS
  <2>1. w \in Nat /\ w # f.seq
    BY <1>9, WaitingPromptsAreNat
  <2>2. f.seq <= w
    <3>1. CASE w \in FifoPrompts(t)
      BY <1>1, <3>1 DEF FifoPrompts
    <3>2. CASE w \in SteerPrompts(t)
      BY <1>3a, <1>3, <2>1, <3>2 DEF SteerPrompts, EarlierSteer
    <3>. QED
      BY <1>9, <3>1, <3>2 DEF WaitingPrompts
  <2>. QED
    BY <1>3, <2>1, <2>2
<1>12. \A a \in AppliedPrompts(t) : a < f.seq
  BY <1>6 DEF PromptsOK, InOrder, WaitingPrompts
<1>13. InOrder(p)
  <2>1. \A a \in AppliedPrompts(p), w \in WaitingPrompts(p) : a < w
    BY <1>8, <1>9, <1>11 DEF PromptsOK, InOrder
  <2>2. ASSUME NEW i \in DOMAIN p.snap, NEW j \in DOMAIN p.snap, i < j, p.snap[j] # 0
        PROVE  p.snap[i] < p.snap[j]
    <3>1. CASE j \in 1..t.pending
      <4>1. i \in 1..t.pending
        BY <1>7, <2>2, <3>1
      <4>2. p.snap[i] = t.snap[i] /\ p.snap[j] = t.snap[j]
        BY Zenon, <1>7, <3>1, <4>1
      <4>3. i \in DOMAIN t.snap /\ j \in DOMAIN t.snap
        BY <1>7, <3>1, <4>1
      <4>. QED
        BY <2>2, <4>2, <4>3 DEF PromptsOK, InOrder
    <3>2. CASE j = t.pending + 1
      <4>1. i \in 1..t.pending /\ p.snap[i] = t.snap[i]
        <5>1. i \in 1..t.pending
          BY <1>7, <2>2, <3>2
        <5>. QED
          BY Zenon, <1>7, <5>1
      <4>2. CASE t.snap[i] = 0
        BY SMTT(30), <1>3, <1>7, <3>2, <4>1, <4>2
      <4>3. CASE t.snap[i] # 0
        BY <1>7, <1>12, <3>2, <4>1, <4>3 DEF AppliedPrompts
      <4>. QED
        BY <4>2, <4>3
    <3>. QED
      BY <1>7, <3>1, <3>2
  <2>. QED
    BY <2>1, <2>2 DEF InOrder
<1>14. Len(p.snap) = p.pending
  BY <1>2, <1>3, <1>7
<1>15. /\ \A a, x \in p.fifo : a.seq = x.seq => a = x
       /\ \A s, x \in p.steers : s.seq = x.seq => s = x
  BY <1>2 DEF PromptsOK
<1>. QED
  BY <1>10, <1>13, <1>14, <1>15 DEF PromptsOK, p, f

\* Dropping queued prompts moves them from waiting to dropped.
LEMMA ConsumeQueuedPrompts ==
  ASSUME NEW t \in TurnType, PromptsOK(t)
  PROVE  PromptsOK(ConsumeQueued(t))
<1> DEFINE p == ConsumeQueued(t)
           gone == {f.seq : f \in QueuedPrompts(t)}
<1>1. /\ p \in TurnType
      /\ p.fifo = t.fifo \ QueuedPrompts(t)
      /\ p.dropped = t.dropped \cup gone
      /\ p.pending = t.pending /\ p.snap = t.snap /\ p.acked = t.acked
      /\ p.steers = t.steers /\ p.nextSeq = t.nextSeq
  BY ConsumeQueuedFields
<1>2. QueuedPrompts(t) \subseteq t.fifo
  BY DEF QueuedPrompts
<1>3. gone \subseteq FifoPrompts(t)
  BY <1>2 DEF FifoPrompts
<1>4. FifoPrompts(p) = FifoPrompts(t) \ gone
  BY <1>1, <1>2 DEF FifoPrompts, PromptsOK
<1> HIDE DEF p, gone
<1>5. SteerPrompts(p) = SteerPrompts(t) /\ AppliedPrompts(p) = AppliedPrompts(t)
  BY <1>1 DEF SteerPrompts, AppliedPrompts
<1>6. WaitingPrompts(p) = WaitingPrompts(t) \ gone
  BY <1>3, <1>4, <1>5 DEF WaitingPrompts, PromptsOK, Accounted
<1>7. gone \subseteq WaitingPrompts(t)
  BY <1>3 DEF WaitingPrompts
<1>8. Accounted(p)
  BY <1>1, <1>4, <1>5, <1>6, <1>7 DEF PromptsOK, Accounted
<1>9. InOrder(p)
  BY <1>1, <1>5, <1>6 DEF PromptsOK, InOrder
<1>. QED
  BY <1>1, <1>8, <1>9 DEF PromptsOK, p

\* An acknowledged steer was delivered to its lease and waits no more.
LEMMA AckSteersPrompts ==
  ASSUME NEW t \in TurnType, PromptsOK(t), NEW acks, acks \subseteq SteerPrompts(t)
  PROVE  PromptsOK(AckSteers(t, acks))
<1> DEFINE p == AckSteers(t, acks)
<1>1. /\ p \in TurnType
      /\ p.steers = {s \in t.steers : s.seq \notin acks}
      /\ p.acked = t.acked \cup acks
      /\ p.pending = t.pending /\ p.snap = t.snap /\ p.dropped = t.dropped
      /\ p.fifo = t.fifo /\ p.nextSeq = t.nextSeq
  BY AckSteersFields
<1> HIDE DEF p
<1>2. SteerPrompts(p) = SteerPrompts(t) \ acks
  BY <1>1 DEF SteerPrompts
<1>3. FifoPrompts(p) = FifoPrompts(t) /\ AppliedPrompts(p) = AppliedPrompts(t)
  BY <1>1 DEF FifoPrompts, AppliedPrompts
<1>4. WaitingPrompts(p) = WaitingPrompts(t) \ acks
  BY <1>2, <1>3 DEF WaitingPrompts, PromptsOK, Accounted
<1>5. acks \subseteq WaitingPrompts(t)
  BY DEF WaitingPrompts
<1>6. Accounted(p)
  BY <1>1, <1>2, <1>3, <1>4, <1>5 DEF PromptsOK, Accounted
<1>7. InOrder(p)
  BY <1>1, <1>3, <1>4 DEF PromptsOK, InOrder
<1>. QED
  BY <1>1, <1>6, <1>7 DEF PromptsOK, p

\* A new prompt takes the next number, larger than every number given before.
LEMMA NextSeqIsNew ==
  ASSUME NEW t \in TurnType, PromptsOK(t)
  PROVE  /\ t.nextSeq \in Nat /\ t.nextSeq > 0
         /\ \A x \in WaitingPrompts(t) \cup AppliedPrompts(t) \cup t.acked \cup t.dropped :
              x \in Nat /\ x < t.nextSeq
         /\ 1..(t.nextSeq + 1 - 1) = 1..(t.nextSeq - 1) \cup {t.nextSeq}
<1>1. t.nextSeq \in Nat /\ t.nextSeq > 0
  BY DEF TurnType, Prompts
<1>2. \A x \in 1..(t.nextSeq - 1) : x \in Nat /\ x < t.nextSeq
  BY <1>1
<1>3. 1..(t.nextSeq + 1 - 1) = 1..(t.nextSeq - 1) \cup {t.nextSeq}
  BY <1>1
<1>. QED
  BY <1>1, <1>2, <1>3 DEF PromptsOK, Accounted

\* Storing a follow-up row keeps every other prompt where it is.
LEMMA EnqueueFollowUpPrompts ==
  ASSUME NEW t \in TurnType, PromptsOK(t), NEW q \in BOOLEAN,
         NEW p, p = EnqueueFollowUp(t, q)
  PROVE  /\ p \in TurnType /\ PromptsOK(p)
         /\ SameLease(t, p)
         /\ p.fifo = t.fifo \cup {[seq |-> t.nextSeq, queued |-> q]}
         /\ p.steers = t.steers /\ p.pending = t.pending /\ p.retry = t.retry
<1> DEFINE new == [seq |-> t.nextSeq, queued |-> q]
           fs == t.fifo \cup {new}
<1>0. p = [t EXCEPT !.fifo = fs, !.nextSeq = t.nextSeq + 1]
  BY DEF EnqueueFollowUp
<1>1. fs \in SUBSET FollowUp /\ t.nextSeq + 1 \in Prompts /\ new.seq = t.nextSeq
  BY DEF TurnType, FollowUp, Prompts
<1> HIDE DEF fs, new
<1>2. /\ p \in TurnType
      /\ p.fifo = fs /\ p.nextSeq = t.nextSeq + 1
      /\ p.pending = t.pending /\ p.snap = t.snap /\ p.dropped = t.dropped
      /\ p.steers = t.steers /\ p.acked = t.acked /\ p.retry = t.retry
      /\ SameLease(t, p)
  BY ZenonT(40), <1>0, <1>1 DEF TurnType, SameLease
<1>3. FifoPrompts(p) = FifoPrompts(t) \cup {t.nextSeq}
  BY <1>1, <1>2 DEF FifoPrompts, fs
<1>4. SteerPrompts(p) = SteerPrompts(t) /\ AppliedPrompts(p) = AppliedPrompts(t)
  BY <1>2 DEF SteerPrompts, AppliedPrompts
<1>5. WaitingPrompts(p) = WaitingPrompts(t) \cup {t.nextSeq}
  BY <1>3, <1>4 DEF WaitingPrompts
<1>6. /\ t.nextSeq \notin WaitingPrompts(t)
      /\ t.nextSeq \notin AppliedPrompts(t) \cup t.acked \cup t.dropped
  BY NextSeqIsNew
<1>7. t.nextSeq \notin FifoPrompts(t) /\ t.nextSeq \notin SteerPrompts(t)
  BY <1>6 DEF WaitingPrompts
<1>8. 1..(p.nextSeq - 1) = 1..(t.nextSeq - 1) \cup {t.nextSeq}
  BY <1>2, NextSeqIsNew
<1>9. Accounted(p)
  BY <1>2, <1>3, <1>4, <1>5, <1>6, <1>7, <1>8 DEF PromptsOK, Accounted
<1>10. InOrder(p)
  BY <1>2, <1>4, <1>5, NextSeqIsNew DEF PromptsOK, InOrder
<1>11. \A f, x \in p.fifo : f.seq = x.seq => f = x
  BY <1>1, <1>2, <1>7 DEF PromptsOK, FifoPrompts, fs
<1>. QED
  BY <1>2, <1>9, <1>10, <1>11 DEF PromptsOK, fs, new

\* Storing a steer keeps every other prompt where it is.
LEMMA EnqueueSteerPrompts ==
  ASSUME NEW t \in TurnType, PromptsOK(t), NEW p, p = EnqueueSteer(t)
  PROVE  /\ p \in TurnType /\ PromptsOK(p)
         /\ SameLease(t, p)
         /\ p.fifo = t.fifo /\ p.pending = t.pending
         /\ \A s \in p.steers : s \in t.steers \/ s.gen = t.gen
<1> DEFINE new == [seq |-> t.nextSeq, gen |-> t.gen, offered |-> FALSE, received |-> FALSE]
           ss == t.steers \cup {new}
<1>0. p = [t EXCEPT !.steers = ss, !.nextSeq = t.nextSeq + 1]
  BY DEF EnqueueSteer
<1>1. ss \in SUBSET Steer /\ t.nextSeq + 1 \in Prompts /\ new.seq = t.nextSeq /\ new.gen = t.gen
  <2>1. t.nextSeq \in Prompts /\ t.gen \in Nat /\ t.steers \subseteq Steer
    BY DEF TurnType
  <2>2. new \in Steer
    BY <2>1 DEF Steer
  <2>3. t.nextSeq + 1 \in Prompts
    BY <2>1 DEF Prompts
  <2>. QED
    BY Zenon, <2>1, <2>2, <2>3
<1> HIDE DEF ss, new
<1>2. /\ p \in TurnType
      /\ p.steers = ss /\ p.nextSeq = t.nextSeq + 1
      /\ p.pending = t.pending /\ p.snap = t.snap /\ p.dropped = t.dropped
      /\ p.fifo = t.fifo /\ p.acked = t.acked
      /\ SameLease(t, p)
  BY Zenon, <1>0, <1>1 DEF TurnType, SameLease
<1>3. SteerPrompts(p) = SteerPrompts(t) \cup {t.nextSeq}
  BY <1>1, <1>2 DEF SteerPrompts, ss
<1>4. FifoPrompts(p) = FifoPrompts(t) /\ AppliedPrompts(p) = AppliedPrompts(t)
  BY <1>2 DEF FifoPrompts, AppliedPrompts
<1>5. WaitingPrompts(p) = WaitingPrompts(t) \cup {t.nextSeq}
  BY <1>3, <1>4 DEF WaitingPrompts
<1>6. /\ t.nextSeq \notin WaitingPrompts(t)
      /\ t.nextSeq \notin AppliedPrompts(t) \cup t.acked \cup t.dropped
  BY NextSeqIsNew
<1>7. t.nextSeq \notin FifoPrompts(t) /\ t.nextSeq \notin SteerPrompts(t)
  BY <1>6 DEF WaitingPrompts
<1>8. 1..(p.nextSeq - 1) = 1..(t.nextSeq - 1) \cup {t.nextSeq}
  BY <1>2, NextSeqIsNew
<1>9. Accounted(p)
  BY <1>2, <1>3, <1>4, <1>5, <1>6, <1>7, <1>8 DEF PromptsOK, Accounted
<1>10. InOrder(p)
  BY <1>2, <1>4, <1>5, NextSeqIsNew DEF PromptsOK, InOrder
<1>11. \A s, x \in p.steers : s.seq = x.seq => s = x
  BY <1>1, <1>2, <1>7 DEF PromptsOK, SteerPrompts, ss
<1>. QED
  BY <1>1, <1>2, <1>9, <1>10, <1>11 DEF PromptsOK, ss

WithSteers(t, ss) == [t EXCEPT !.steers = ss]

\* ss are the steers of t with other marks.
SameSteers(t, ss) ==
  /\ ss \in SUBSET Steer
  /\ \A x \in ss : \E s \in t.steers : x.seq = s.seq /\ x.gen = s.gen
  /\ \A s \in t.steers : \E x \in ss : x.seq = s.seq
  /\ \A x, y \in ss : x.seq = y.seq => x = y

\* Marking a steer offered or received leaves it waiting under its number.
LEMMA MarkedSteersPrompts ==
  ASSUME NEW t \in TurnType, PromptsOK(t), NEW ss, SameSteers(t, ss),
         NEW p, p = WithSteers(t, ss)
  PROVE  /\ p \in TurnType /\ PromptsOK(p)
         /\ SameLease(t, p)
         /\ p.fifo = t.fifo /\ p.pending = t.pending
         /\ \A x \in p.steers : \E s \in t.steers : x.gen = s.gen
<1>1. /\ p \in TurnType /\ SameLease(t, p) /\ p.steers = ss
      /\ p.pending = t.pending /\ p.snap = t.snap /\ p.dropped = t.dropped
      /\ p.fifo = t.fifo /\ p.acked = t.acked /\ p.nextSeq = t.nextSeq
  BY DEF TurnType, SameLease, SameSteers, WithSteers
<1>2. SteerPrompts(p) = SteerPrompts(t)
  BY <1>1 DEF SteerPrompts, SameSteers
<1>3. FifoPrompts(p) = FifoPrompts(t) /\ AppliedPrompts(p) = AppliedPrompts(t)
  BY <1>1 DEF FifoPrompts, AppliedPrompts
<1>4. WaitingPrompts(p) = WaitingPrompts(t)
  BY <1>2, <1>3 DEF WaitingPrompts
<1>5. Accounted(p) /\ InOrder(p)
  BY <1>1, <1>2, <1>3, <1>4 DEF PromptsOK, Accounted, InOrder
<1>. QED
  BY <1>1, <1>5 DEF PromptsOK, SameSteers

\* Marking steers received changes no prompt's place.
LEMMA ReceiveSteersPrompts ==
  ASSUME NEW t \in TurnType, PromptsOK(t), NEW ids, NEW p, p = ReceiveSteers(t, ids)
  PROVE  /\ p \in TurnType /\ PromptsOK(p)
         /\ SameLease(t, p)
         /\ p.fifo = t.fifo /\ p.pending = t.pending
         /\ \A x \in p.steers : \E s \in t.steers : x.gen = s.gen
<1> DEFINE M(s) == [s EXCEPT !.received = @ \/ s.seq \in ids]
           ss == {M(s) : s \in t.steers}
<1>1. \A s \in t.steers : M(s) \in Steer /\ M(s).seq = s.seq /\ M(s).gen = s.gen
  BY Zenon DEF TurnType, Steer
<1>2. p = WithSteers(t, ss)
  BY DEF ReceiveSteers, WithSteers
<1> HIDE DEF M
<1>3. ss \in SUBSET Steer
  BY <1>1
<1>4. \A x \in ss : \E s \in t.steers : x = M(s) /\ x.seq = s.seq /\ x.gen = s.gen
  BY <1>1
<1>5. \A s \in t.steers : \E x \in ss : x.seq = s.seq
  BY <1>1
<1>6. \A x, y \in ss : x.seq = y.seq => x = y
  BY <1>4 DEF PromptsOK
<1> HIDE DEF ss
<1>7. SameSteers(t, ss)
  BY <1>3, <1>4, <1>5, <1>6 DEF SameSteers
<1>. QED
  BY <1>2, <1>7, MarkedSteersPrompts

\* Handing a steer to the runner changes no prompt's place.
LEMMA NextSteerPrompts ==
  ASSUME NEW t \in TurnType, PromptsOK(t), NEW g, NEW p, p = NextSteer(t, g)
  PROVE  /\ p \in TurnType /\ PromptsOK(p)
         /\ SameLease(t, p)
         /\ p.fifo = t.fifo /\ p.pending = t.pending
         /\ \A x \in p.steers : \E s \in t.steers : x.gen = s.gen
<1> DEFINE Due(s) == /\ s \in UnreceivedSteers(t, g)
                     /\ \A x \in UnreceivedSteers(t, g) : s.seq <= x.seq
           M(s) == [s EXCEPT !.offered = @ \/ Due(s)]
           ss == {M(s) : s \in t.steers}
<1>0. \A s \in t.steers : Due(s) \in BOOLEAN
  OBVIOUS
<1>1. p = WithSteers(t, ss)
  BY DEF NextSteer, WithSteers
<1> HIDE DEF Due
<1>2. \A s \in t.steers : M(s) \in Steer /\ M(s).seq = s.seq /\ M(s).gen = s.gen
  BY <1>0 DEF TurnType, Steer
<1> HIDE DEF M
<1>3. ss \in SUBSET Steer
  BY <1>2
<1>4. \A x \in ss : \E s \in t.steers : x = M(s) /\ x.seq = s.seq /\ x.gen = s.gen
  BY <1>2
<1>5. \A s \in t.steers : \E x \in ss : x.seq = s.seq
  BY <1>2
<1>6. \A x, y \in ss : x.seq = y.seq => x = y
  BY <1>4 DEF PromptsOK
<1> HIDE DEF ss
<1>7. SameSteers(t, ss)
  BY <1>3, <1>4, <1>5, <1>6 DEF SameSteers
<1>. QED
  BY <1>1, <1>7, MarkedSteersPrompts

-----------------------------------------------------------------------------
(* How a lease ends.                                                       *)

\* Promoting the head of the FIFO makes it the pending revision or changes nothing.
LEMMA ApplyNextEffect ==
  ASSUME NEW t \in TurnType, PromptsOK(t), t.steers = {},
         NEW n, n = ApplyNextFollowUp(t)
  PROVE  /\ n \in TurnType /\ PromptsOK(n)
         /\ SameLease(t, n)
         /\ n.steers = {}
         /\ \/ n.pending = t.pending + 1
            \/ n.pending = t.pending /\ n.fifo = {}
<1>1. CASE t.fifo = {}
  BY <1>1 DEF ApplyNextFollowUp, SameLease
<1>2. CASE t.fifo # {}
  <2>1. n = ApplyFollowUp(t, FifoHead(t)) /\ FifoHead(t) \in t.fifo
    BY <1>2, FifoHeadIsLeast DEF ApplyNextFollowUp
  <2>2. /\ n \in TurnType /\ SameLease(t, n)
        /\ n.pending = t.pending + 1 /\ n.steers = t.steers
    BY <2>1, ApplyFollowUpFields
  <2>3. ~EarlierSteer(t, FifoHead(t).seq)
    BY DEF EarlierSteer
  <2>4. PromptsOK(n)
    BY <1>2, <2>1, <2>3, ApplyHeadPrompts
  <2>. QED
    BY <2>2, <2>4
<1>. QED
  BY <1>1, <1>2

\* The step taken after a lease ended: promote, then queue the turn or leave it ended.
LEMMA AdvanceEffect ==
  ASSUME NEW t \in TurnType, PromptsOK(t), t.steers = {},
         NEW terminal \in {"completed", "failed"},
         NEW u, u = Advance(t, terminal)
  PROVE  /\ u \in TurnType /\ PromptsOK(u)
         /\ u.gen = t.gen /\ u.claimed = t.claimed /\ u.receipts = t.receipts
         /\ u.steers = {}
         /\ \/ u.pending = t.pending + 1 /\ u.state = "queued"
            \/ u.pending = t.pending /\ u.state = terminal /\ u.fifo = {}
<1> DEFINE n == ApplyNextFollowUp(t)
           st == IF n.pending > t.pending THEN "queued" ELSE terminal
<1>1. /\ n \in TurnType /\ PromptsOK(n) /\ SameLease(t, n) /\ n.steers = {}
      /\ \/ n.pending = t.pending + 1
         \/ n.pending = t.pending /\ n.fifo = {}
  BY ApplyNextEffect
<1>2. u = [n EXCEPT !.state = st]
  BY DEF Advance
<1>3. t.pending \in Nat
  BY DEF TurnType
<1> HIDE DEF n
<1>4. st \in States /\ \/ n.pending = t.pending + 1 /\ st = "queued"
                       \/ n.pending = t.pending /\ n.fifo = {} /\ st = terminal
  BY <1>1, <1>3 DEF States
<1> HIDE DEF st
<1>5. /\ u \in TurnType /\ SamePrompts(n, u) /\ u.state = st
      /\ u.gen = n.gen /\ u.claimed = n.claimed /\ u.receipts = n.receipts
  BY Zenon, <1>1, <1>2, <1>4 DEF TurnType, SamePrompts
<1>6. PromptsOK(u)
  BY <1>1, <1>5, SamePromptsOK
<1>. QED
  BY <1>1, <1>4, <1>5, <1>6 DEF SamePrompts, SameLease

\* After a lease has ended with its steers promoted no steer waits.
LEMMA NoSteerOutlivesItsLease ==
  ASSUME NEW t \in TurnType, \A s \in t.steers : s.gen <= t.gen,
         NEW p, p = PromoteSteers(t, t.gen)
  PROVE  p.steers = {}
<1>1. t.gen \in Nat
  BY DEF TurnType
<1>2. p.steers = t.steers \ OwedSteers(t, t.gen)
  BY <1>1, PromoteSteersFields
<1>3. OwedSteers(t, t.gen) = t.steers
  BY DEF OwedSteers
<1>. QED
  BY <1>2, <1>3

\* The outcome a lease of t leaves in u: one receipt, or none when it lapsed.
Recorded(t, u, k) ==
  u.receipts = t.receipts \cup {[gen |-> t.gen, claimed |-> t.claimed, kind |-> k]}

\* u is t with its lease over and every steer promoted.
Ended(t, u) ==
  /\ u \in TurnType /\ PromptsOK(u)
  /\ u.claimed = t.claimed
  /\ u.gen \in {t.gen, t.gen + 1}
  /\ u.pending \in {t.pending, t.pending + 1}
  /\ u.steers = {}
  /\ \/ /\ u.receipts = t.receipts \/ \E k \in Kinds \ {"complete"} : Recorded(t, u, k)
        /\ u.state \in {"queued", "failed"}
     \/ /\ Recorded(t, u, "complete")
        /\ \/ u.state = "queued" /\ u.claimed < u.pending
           \/ u.state = "completed" /\ u.claimed = u.pending /\ u.fifo = {}

\* A live lease with the invariants every lease-ending transaction starts from.
Live(t) == t \in TurnType /\ PromptsOK(t) /\ LeasesOK(t) /\ t.state = "leased"

\* A receipt and the promotion of owed steers together end the lease's claim on its prompts.
LEMMA SettleAndPromote ==
  ASSUME NEW t \in TurnType, PromptsOK(t), \A s \in t.steers : s.gen <= t.gen,
         NEW k \in Kinds, NEW f, f = PromoteSteers(WithReceipt(t, k), t.gen)
  PROVE  /\ f \in TurnType /\ PromptsOK(f)
         /\ Recorded(t, f, k)
         /\ f.state = t.state /\ f.gen = t.gen /\ f.claimed = t.claimed
         /\ f.pending = t.pending /\ f.retry = t.retry
         /\ f.steers = {}
<1> DEFINE w == WithReceipt(t, k)
<1>1. /\ w \in TurnType /\ SamePrompts(t, w) /\ Recorded(t, w, k)
      /\ w.state = t.state /\ w.gen = t.gen /\ w.claimed = t.claimed
      /\ w.retry = t.retry
  BY WithReceiptFields DEF Recorded
<1> HIDE DEF w
<1>2. PromptsOK(w)
  BY <1>1, SamePromptsOK
<1>3. f = PromoteSteers(w, w.gen) /\ w.gen \in Nat
  BY <1>1 DEF w, TurnType
<1>4. /\ f \in TurnType /\ SameLease(w, f) /\ f.pending = w.pending /\ f.retry = w.retry
  BY <1>1, <1>3, PromoteSteersFields
<1>5. PromptsOK(f)
  BY <1>1, <1>2, <1>3, PromoteSteersPrompts
<1>6. \A s \in w.steers : s.gen <= w.gen
  BY <1>1 DEF SamePrompts
<1>7. f.steers = {}
  BY <1>1, <1>3, <1>6, NoSteerOutlivesItsLease
<1>. QED
  BY <1>1, <1>4, <1>5, <1>7 DEF SameLease, SamePrompts, Recorded

\* The three ways a settled lease goes on: superseded, advanced, or retried.
LEMMA RequeuedEnds ==
  ASSUME NEW t, Live(t), NEW f \in TurnType, PromptsOK(f), f.steers = {},
         f.claimed = t.claimed, f.pending \in {t.pending, t.pending + 1},
         f.gen \in {t.gen, t.gen + 1},
         \/ f.receipts = t.receipts \/ \E k \in Kinds \ {"complete"} : Recorded(t, f, k)
         \/ Recorded(t, f, "complete") /\ f.claimed < f.pending,
         NEW u, u \in TurnType, SamePrompts(f, u), u.receipts = f.receipts,
         u.claimed = f.claimed, u.gen = f.gen, u.state = "queued"
  PROVE  Ended(t, u)
<1>1. PromptsOK(u)
  BY SamePromptsOK
<1>. QED
  BY <1>1 DEF Ended, Recorded, SamePrompts

\* A settled lease that is advanced has ended as Ended says.
LEMMA AdvancedEnds ==
  ASSUME NEW t, Live(t), NEW f \in TurnType, PromptsOK(f), f.steers = {},
         f.claimed = t.claimed, f.pending = t.pending, f.gen \in {t.gen, t.gen + 1},
         f.receipts = t.receipts \/ \E k \in Kinds \ {"complete"} : Recorded(t, f, k),
         NEW u, u = Advance(f, "failed")
  PROVE  Ended(t, u)
<1>1. /\ u \in TurnType /\ PromptsOK(u)
      /\ u.gen = f.gen /\ u.claimed = f.claimed /\ u.receipts = f.receipts
      /\ u.steers = {}
      /\ \/ u.pending = f.pending + 1 /\ u.state = "queued"
         \/ u.pending = f.pending /\ u.state = "failed" /\ u.fifo = {}
  BY AdvanceEffect
<1>. QED
  BY <1>1 DEF Ended, Recorded

\* failClosedTx ends the lease.
LEMMA FailClosedEnds ==
  ASSUME NEW t, Live(t), NEW bump \in BOOLEAN, NEW u, u = FailClosed(t, bump)
  PROVE  Ended(t, u)
<1> DEFINE f == PromoteSteers(WithReceipt(t, "fail"), t.gen)
           b == [f EXCEPT !.gen = IF bump THEN @ + 1 ELSE @]
<1>1. /\ f \in TurnType /\ PromptsOK(f) /\ Recorded(t, f, "fail")
      /\ f.gen = t.gen /\ f.claimed = t.claimed /\ f.pending = t.pending
      /\ f.steers = {}
  BY SettleAndPromote DEF Live, LeasesOK, Kinds
<1>2. u = IF Superseded(b) THEN [b EXCEPT !.state = "queued"] ELSE Advance(b, "failed")
  BY DEF FailClosed
<1> HIDE DEF f
<1> DEFINE g == IF bump THEN f.gen + 1 ELSE f.gen
<1>2a. b = [f EXCEPT !.gen = g]
  OBVIOUS
<1>2b. g \in Nat /\ g \in {f.gen, f.gen + 1}
  BY <1>1 DEF TurnType
<1> HIDE DEF b, g
<1>3. /\ b \in TurnType /\ SamePrompts(f, b) /\ b.receipts = f.receipts
      /\ b.claimed = f.claimed /\ b.gen \in {f.gen, f.gen + 1}
  BY SMTT(30), <1>1, <1>2a, <1>2b DEF TurnType, SamePrompts
<1>4. PromptsOK(b) /\ b.steers = {}
  BY <1>1, <1>3, SamePromptsOK DEF SamePrompts
<1>5. b.pending = t.pending /\ \E k \in Kinds \ {"complete"} : Recorded(t, b, k)
  BY <1>1, <1>3 DEF Recorded, SamePrompts, Kinds
<1>6. CASE Superseded(b)
  <2>1. u = [b EXCEPT !.state = "queued"]
    BY <1>2, <1>6
  <2>2. /\ u \in TurnType /\ SamePrompts(b, u) /\ u.receipts = b.receipts
        /\ u.claimed = b.claimed /\ u.gen = b.gen /\ u.state = "queued"
    BY Zenon, <1>3, <2>1 DEF TurnType, SamePrompts, States
  <2>. QED
    BY <1>1, <1>3, <1>4, <1>5, <2>2, RequeuedEnds
<1>7. CASE ~Superseded(b)
  BY <1>1, <1>2, <1>3, <1>4, <1>5, <1>7, AdvancedEnds
<1>. QED
  BY <1>6, <1>7

\* finalizeFailureTx ends the lease.
LEMMA FinalizeFailureEnds ==
  ASSUME NEW t, Live(t), NEW u, u = FinalizeFailure(t)
  PROVE  Ended(t, u)
<1> DEFINE f == PromoteSteers(WithReceipt(t, "fail"), t.gen)
           r == [f EXCEPT !.retry = @ + 1]
           Exhausted == OwedSteers(t, t.gen) # {} \/ r.retry >= RetryLimit
<1>1. /\ f \in TurnType /\ PromptsOK(f) /\ Recorded(t, f, "fail")
      /\ f.gen = t.gen /\ f.claimed = t.claimed /\ f.pending = t.pending
      /\ f.steers = {}
  BY ZenonT(40), SettleAndPromote DEF Live, LeasesOK, Kinds
<1>2. \/ u = [f EXCEPT !.state = "queued"]
      \/ u = Advance(r, "failed")
      \/ u = [r EXCEPT !.state = "queued"]
  BY Zenon DEF FinalizeFailure
<1>3. \E k \in Kinds \ {"complete"} : Recorded(t, f, k)
  BY <1>1 DEF Kinds
<1> HIDE DEF f
<1>3a. f.retry + 1 \in Nat
  BY <1>1 DEF TurnType
<1>4. /\ r \in TurnType /\ SamePrompts(f, r) /\ r.receipts = f.receipts
      /\ r.claimed = f.claimed /\ r.gen = f.gen
  BY <1>1, <1>3a DEF TurnType, SamePrompts
<1> HIDE DEF r
<1>5. PromptsOK(r) /\ r.steers = {} /\ r.pending = t.pending
  BY <1>1, <1>4, SamePromptsOK DEF SamePrompts
<1>5a. \E k \in Kinds \ {"complete"} : Recorded(t, r, k)
  BY <1>3, <1>4 DEF Recorded
<1>6. CASE u = [f EXCEPT !.state = "queued"]
  <2>1. /\ u \in TurnType /\ SamePrompts(f, u) /\ u.receipts = f.receipts
        /\ u.claimed = f.claimed /\ u.gen = f.gen /\ u.state = "queued"
    BY <1>1, <1>6 DEF TurnType, SamePrompts, States
  <2>. QED
    BY <1>1, <1>3, <2>1, RequeuedEnds
<1>7. CASE u = Advance(r, "failed")
  BY <1>1, <1>4, <1>5, <1>5a, <1>7, AdvancedEnds
<1>8. CASE u = [r EXCEPT !.state = "queued"]
  <2>1. /\ u \in TurnType /\ SamePrompts(r, u) /\ u.receipts = r.receipts
        /\ u.claimed = r.claimed /\ u.gen = r.gen /\ u.state = "queued"
    BY <1>4, <1>8 DEF TurnType, SamePrompts, States
  <2>. QED
    BY <1>1, <1>4, <1>5, <1>5a, <2>1, RequeuedEnds
<1>. QED
  BY <1>2, <1>6, <1>7, <1>8

\* A follow-up applied to a turn that is already queued.
LEMMA AppliedEnds ==
  ASSUME NEW t, Live(t), NEW f \in TurnType, PromptsOK(f), f.steers = {},
         f.claimed = t.claimed, f.pending = t.pending, f.gen \in {t.gen, t.gen + 1},
         f.receipts = t.receipts \/ \E k \in Kinds \ {"complete"} : Recorded(t, f, k),
         f.state = "queued", NEW u, u = ApplyNextFollowUp(f)
  PROVE  Ended(t, u)
<1>1. /\ u \in TurnType /\ PromptsOK(u) /\ SameLease(f, u) /\ u.steers = {}
      /\ u.pending \in {f.pending, f.pending + 1}
  BY ApplyNextEffect
<1>. QED
  BY <1>1 DEF Ended, Recorded, SameLease

\* A lapsed lease that is requeued or failed has ended.
LEMMA LapseLeaseEnds ==
  ASSUME NEW t, Live(t), NEW u, u = LapseLease(t)
  PROVE  Ended(t, u)
<1> DEFINE p == PromoteSteers(t, t.gen)
           n == IF Superseded(p) THEN p.retry ELSE p.retry + 1
           r == [p EXCEPT !.retry = n, !.gen = p.gen + 1]
           q == [r EXCEPT !.state = "queued"]
           z == [q EXCEPT !.retry = 0]
<1>0. t \in TurnType /\ PromptsOK(t) /\ t.gen \in Nat /\ \A s \in t.steers : s.gen <= t.gen
  BY DEF Live, LeasesOK, TurnType
<1>1a. p \in TurnType /\ SameLease(t, p) /\ p.pending = t.pending
  BY <1>0, PromoteSteersFields
<1>1b. PromptsOK(p)
  BY <1>0, PromoteSteersPrompts
<1>1c. p.steers = {}
  BY <1>0, NoSteerOutlivesItsLease
<1>1. /\ p \in TurnType /\ PromptsOK(p) /\ SameLease(t, p) /\ p.pending = t.pending
      /\ p.steers = {}
  BY <1>1a, <1>1b, <1>1c
<1>2. \/ u = z
      \/ u = ApplyNextFollowUp(z)
      \/ u = Advance(r, "failed")
      \/ u = q
  BY DEF LapseLease
<1> HIDE DEF p
<1>3. n \in Nat /\ p.gen + 1 \in Nat /\ 0 \in Nat /\ "queued" \in States
  BY <1>1 DEF TurnType, States
<1> HIDE DEF n
<1>4. /\ r \in TurnType /\ SamePrompts(p, r) /\ r.receipts = p.receipts
      /\ r.claimed = p.claimed /\ r.gen = p.gen + 1
  BY Zenon, <1>1, <1>3 DEF TurnType, SamePrompts
<1> HIDE DEF r
<1>5. /\ q \in TurnType /\ SamePrompts(r, q) /\ q.receipts = r.receipts
      /\ q.claimed = r.claimed /\ q.gen = r.gen /\ q.state = "queued"
  BY <1>3, <1>4 DEF TurnType, SamePrompts
<1> HIDE DEF q
<1>6. /\ z \in TurnType /\ SamePrompts(q, z) /\ z.receipts = q.receipts
      /\ z.claimed = q.claimed /\ z.gen = q.gen /\ z.state = "queued"
  BY SMTT(30), <1>3, <1>5 DEF TurnType, SamePrompts
<1> HIDE DEF z
<1>7. /\ PromptsOK(r) /\ r.steers = {} /\ r.pending = t.pending
      /\ r.claimed = t.claimed /\ r.gen = t.gen + 1 /\ r.receipts = t.receipts
  BY <1>1, <1>4, SamePromptsOK DEF SamePrompts, SameLease
<1>8. /\ PromptsOK(q) /\ q.steers = {} /\ q.pending = t.pending
      /\ q.claimed = t.claimed /\ q.gen = t.gen + 1 /\ q.receipts = t.receipts
  BY <1>5, <1>7, SamePromptsOK DEF SamePrompts
<1>9. /\ PromptsOK(z) /\ z.steers = {} /\ z.pending = t.pending
      /\ z.claimed = t.claimed /\ z.gen = t.gen + 1 /\ z.receipts = t.receipts
  BY <1>6, <1>8, SamePromptsOK DEF SamePrompts
<1>10. CASE u = z
  BY <1>6, <1>9, <1>10 DEF Ended
<1>11. CASE u = ApplyNextFollowUp(z)
  BY <1>6, <1>9, <1>11, AppliedEnds
<1>12. CASE u = Advance(r, "failed")
  BY <1>4, <1>7, <1>12, AdvancedEnds
<1>13. CASE u = q
  BY <1>5, <1>8, <1>13 DEF Ended
<1>. QED
  BY <1>2, <1>10, <1>11, <1>12, <1>13

\* Whatever expires a due lease ends it.
LEMMA ExpireLeaseEnds ==
  ASSUME NEW t, Live(t), LeaseDue(t), NEW u, u = ExpireLease(t)
  PROVE  Ended(t, u)
<1>1. u = FailClosed(t, TRUE) \/ u = LapseLease(t)
  BY Zenon DEF ExpireLease
<1>. QED
  BY Zenon, <1>1, FailClosedEnds, LapseLeaseEnds

\* Fail by the holder ends its lease.
LEMMA FailLeaseEnds ==
  ASSUME NEW t, Live(t), NEW u, u = FailLease(t)
  PROVE  Ended(t, u)
<1>1. u = FailClosed(t, FALSE) \/ u = FinalizeFailure(t)
  BY Zenon DEF FailLease
<1>. QED
  BY Zenon, <1>1, FailClosedEnds, FinalizeFailureEnds

\* An accepted completion ends the holder's lease.
LEMMA CompleteLeaseEnds ==
  ASSUME NEW t, Live(t), NEW acks, acks \subseteq SteerPrompts(t),
         NEW u, u = CompleteLease(t, acks)
  PROVE  Ended(t, u)
<1> DEFINE a == AckSteers(t, acks)
           p == PromoteSteers(WithReceipt(a, "complete"), t.gen)
<1>0. t \in TurnType /\ PromptsOK(t) /\ \A s \in t.steers : s.gen <= t.gen
  BY DEF Live, LeasesOK
<1>1. /\ a \in TurnType /\ SameLease(t, a) /\ a.pending = t.pending /\ PromptsOK(a)
      /\ a.steers = {s \in t.steers : s.seq \notin acks}
  BY <1>0, AckSteersFields, AckSteersPrompts
<1>2. u = IF Superseded(p) THEN [p EXCEPT !.state = "queued"] ELSE Advance(p, "completed")
  BY DEF CompleteLease
<1>2a. p = PromoteSteers(WithReceipt(a, "complete"), a.gen)
  BY <1>1 DEF SameLease
<1>2b. \A s \in a.steers : s.gen <= a.gen
  BY <1>0, <1>1 DEF SameLease
<1> HIDE DEF a, p
<1>3. /\ p \in TurnType /\ PromptsOK(p) /\ Recorded(a, p, "complete")
      /\ p.gen = a.gen /\ p.claimed = a.claimed /\ p.pending = a.pending
      /\ p.steers = {}
  BY <1>1, <1>2a, <1>2b, SettleAndPromote DEF Kinds
<1>4. /\ Recorded(t, p, "complete") /\ p.gen = t.gen /\ p.claimed = t.claimed
      /\ p.pending = t.pending
  BY <1>1, <1>3 DEF Recorded, SameLease
<1>5. CASE Superseded(p)
  <2>1. u = [p EXCEPT !.state = "queued"]
    BY <1>2, <1>5
  <2>2. /\ u \in TurnType /\ SamePrompts(p, u) /\ u.receipts = p.receipts
        /\ u.claimed = p.claimed /\ u.gen = p.gen /\ u.state = "queued"
    BY <1>3, <2>1 DEF TurnType, SamePrompts, States
  <2>. QED
    BY <1>3, <1>4, <1>5, <2>2, RequeuedEnds DEF Superseded
<1>6. CASE ~Superseded(p)
  <2>1. /\ u \in TurnType /\ PromptsOK(u)
        /\ u.gen = p.gen /\ u.claimed = p.claimed /\ u.receipts = p.receipts
        /\ u.steers = {}
        /\ \/ u.pending = p.pending + 1 /\ u.state = "queued"
           \/ u.pending = p.pending /\ u.state = "completed" /\ u.fifo = {}
    BY <1>2, <1>3, <1>6, AdvanceEffect
  <2>2. p.claimed = p.pending /\ p.pending \in Nat
    BY <1>3, <1>4, <1>6 DEF Superseded, Live, LeasesOK, TurnType
  <2>. QED
    BY <1>4, <2>1, <2>2 DEF Ended, Recorded
<1>. QED
  BY <1>5, <1>6

\* u is the settled turn f with a new state, attempt count or generation.
LEMMA StoppedEnds ==
  ASSUME NEW t, Live(t), NEW k \in Kinds \ {"complete"},
         NEW f \in TurnType, PromptsOK(f), Recorded(t, f, k), f.steers = {},
         f.claimed = t.claimed, f.pending = t.pending, f.gen = t.gen,
         NEW u \in TurnType, SamePrompts(f, u), u.receipts = f.receipts,
         u.claimed = f.claimed, u.gen \in {f.gen, f.gen + 1},
         u.state \in {"queued", "failed"}
  PROVE  Ended(t, u)
<1>1. PromptsOK(u)
  BY SamePromptsOK
<1>2. Recorded(t, u, k)
  BY DEF Recorded
<1>. QED
  BY <1>1, <1>2 DEF Ended, SamePrompts

\* Cancelling a leased turn ends its lease.
LEMMA CancelLeasedEnds ==
  ASSUME NEW t, Live(t), NEW u, u = CancelLeased(t)
  PROVE  Ended(t, u)
<1> DEFINE c == PromoteSteers(WithReceipt(t, "cancelled"), t.gen)
           q == [c EXCEPT !.state = "queued"]
           z == [c EXCEPT !.state = "queued", !.retry = 0]
           x == [c EXCEPT !.state = "failed"]
<1>1. /\ c \in TurnType /\ PromptsOK(c) /\ Recorded(t, c, "cancelled")
      /\ c.gen = t.gen /\ c.claimed = t.claimed /\ c.pending = t.pending
      /\ c.steers = {}
  BY Zenon, SettleAndPromote DEF Live, LeasesOK, Kinds
<1>2. u = q \/ u = ApplyNextFollowUp(z) \/ u = x
  BY DEF CancelLeased
<1>3. "cancelled" \in Kinds \ {"complete"}
  BY DEF Kinds
<1> HIDE DEF c
<1>4. CASE u = q
  <2>1. /\ u \in TurnType /\ SamePrompts(c, u) /\ u.receipts = c.receipts
        /\ u.claimed = c.claimed /\ u.gen = c.gen /\ u.state = "queued"
    BY <1>1, <1>4 DEF TurnType, SamePrompts, States
  <2>. QED
    BY <1>1, <1>3, <2>1, StoppedEnds
<1>5. CASE u = x
  <2>1. /\ u \in TurnType /\ SamePrompts(c, u) /\ u.receipts = c.receipts
        /\ u.claimed = c.claimed /\ u.gen = c.gen /\ u.state = "failed"
    BY <1>1, <1>5 DEF TurnType, SamePrompts, States
  <2>. QED
    BY <1>1, <1>3, <2>1, StoppedEnds
<1>6. CASE u = ApplyNextFollowUp(z)
  <2>1. /\ z \in TurnType /\ SamePrompts(c, z) /\ z.receipts = c.receipts
        /\ z.claimed = c.claimed /\ z.gen = c.gen /\ z.state = "queued"
    BY Zenon, <1>1 DEF TurnType, SamePrompts, States
  <2> HIDE DEF z
  <2>2. /\ PromptsOK(z) /\ z.steers = {} /\ z.pending = t.pending
        /\ z.claimed = t.claimed /\ z.gen = t.gen /\ Recorded(t, z, "cancelled")
    BY Zenon, <1>1, <2>1, SamePromptsOK DEF SamePrompts, Recorded
  <2>. QED
    BY <1>3, <1>6, <2>1, <2>2, AppliedEnds
<1>. QED
  BY <1>2, <1>4, <1>5, <1>6

\* Halting a leased turn ends its lease.
LEMMA HaltLeasedTurnEnds ==
  ASSUME NEW t, Live(t), NEW u, u = HaltLeasedTurn(t)
  PROVE  Ended(t, u)
<1> DEFINE h == PromoteSteers(WithReceipt(t, "halted"), t.gen)
           n == IF OwedSteers(t, t.gen) # {} THEN 0 ELSE h.retry
           g == h.gen + 1
           q == [h EXCEPT !.gen = g, !.state = "queued", !.retry = n]
<1>1. /\ h \in TurnType /\ PromptsOK(h) /\ Recorded(t, h, "halted")
      /\ h.gen = t.gen /\ h.claimed = t.claimed /\ h.pending = t.pending
      /\ h.steers = {}
  BY SettleAndPromote DEF Live, LeasesOK, Kinds
<1>2. u = q \/ u = ApplyNextFollowUp(q)
  BY DEF HaltLeasedTurn, Live
<1>3. "halted" \in Kinds \ {"complete"}
  BY DEF Kinds
<1> HIDE DEF h
<1>4. n \in Nat /\ g \in Nat /\ g = h.gen + 1
  BY <1>1 DEF TurnType
<1> HIDE DEF n, g
<1>5. /\ q \in TurnType /\ SamePrompts(h, q) /\ q.receipts = h.receipts
      /\ q.claimed = h.claimed /\ q.gen = g /\ q.state = "queued"
  BY Zenon, <1>1, <1>4 DEF TurnType, SamePrompts, States
<1> HIDE DEF q
<1>6. /\ PromptsOK(q) /\ q.steers = {} /\ q.pending = t.pending
      /\ q.claimed = t.claimed /\ q.gen = t.gen + 1 /\ Recorded(t, q, "halted")
  BY Zenon, <1>1, <1>4, <1>5, SamePromptsOK DEF SamePrompts, Recorded
<1>7. CASE u = q
  BY <1>1, <1>3, <1>4, <1>5, <1>7, StoppedEnds
<1>8. CASE u = ApplyNextFollowUp(q)
  BY <1>3, <1>5, <1>6, <1>8, AppliedEnds
<1>. QED
  BY <1>2, <1>7, <1>8

\* However the lease ended, the turn it leaves is fenced: the new receipt is
\* the only one of its generation, and a completed revision is not claimable.
LEMMA EndedKeepsLeases ==
  ASSUME NEW t, Live(t), NEW u, Ended(t, u)
  PROVE  LeasesOK(u)
<1>1. /\ t \in TurnType /\ t.state = "leased" /\ Fenced(t) /\ t.claimed <= t.pending
      /\ \A r \in t.receipts : r.claimed <= t.claimed
      /\ ~CompletedRevision(t, t.claimed)
  BY DEF Live, LeasesOK
<1>2. /\ u \in TurnType /\ u.claimed = t.claimed /\ u.steers = {}
      /\ u.gen \in {t.gen, t.gen + 1} /\ u.pending \in {t.pending, t.pending + 1}
      /\ u.state # "leased"
  BY DEF Ended
<1>3. /\ t.gen \in Nat /\ t.pending \in Nat /\ t.claimed \in Nat
      /\ u.gen \in Nat /\ u.pending \in Nat /\ u.claimed \in Nat
      /\ t.receipts \subseteq Receipt /\ u.receipts \subseteq Receipt
  BY <1>1, <1>2 DEF TurnType
<1>4. \/ u.receipts = t.receipts
      \/ \E k \in Kinds :
           u.receipts = t.receipts \cup {[gen |-> t.gen, claimed |-> t.claimed, kind |-> k]}
  BY DEF Ended, Recorded, Kinds
<1>5. \A r, x \in u.receipts : r.gen = x.gen => r = x
  BY <1>1, <1>3, <1>4 DEF Fenced, Receipt
<1>6. \A r \in u.receipts : r.gen <= u.gen
  BY <1>1, <1>2, <1>3, <1>4 DEF Fenced, Receipt
<1>7. \A r \in u.receipts : r.claimed <= u.claimed
  BY <1>1, <1>2, <1>3, <1>4
<1>8. u.claimed <= u.pending
  BY <1>1, <1>2, <1>3
<1>9. Fenced(u)
  BY <1>2, <1>5, <1>6 DEF Fenced
<1>10. CASE u.receipts = t.receipts \/ \E k \in Kinds \ {"complete"} : Recorded(t, u, k)
  <2>1. ~CompletedRevision(u, u.claimed)
    BY <1>1, <1>2, <1>3, <1>10 DEF CompletedRevision, Recorded, Receipt
  <2>2. u.state # "completed"
    <3>1. CASE u.state = "completed"
      <4>1. Recorded(t, u, "complete")
        BY <3>1 DEF Ended
      <4>2. CompletedRevision(u, u.claimed)
        <5> DEFINE r == [gen |-> t.gen, claimed |-> t.claimed, kind |-> "complete"]
        <5>1. r \in u.receipts
          BY <4>1 DEF Recorded
        <5>2. r.kind = "complete" /\ r.claimed = u.claimed
          BY <1>2
        <5>. QED
          BY <5>1, <5>2 DEF CompletedRevision
      <4>. QED
        BY <2>1, <4>2
    <3>. QED
      BY <3>1
  <2>. QED
    BY <1>2, <1>7, <1>8, <1>9, <2>1, <2>2 DEF LeasesOK
<1>11. CASE ~(u.receipts = t.receipts \/ \E k \in Kinds \ {"complete"} : Recorded(t, u, k))
  <2>1. \/ u.state = "queued" /\ u.claimed < u.pending
        \/ u.state = "completed" /\ u.claimed = u.pending /\ u.fifo = {}
    BY <1>11 DEF Ended
  <2>2. CASE u.state = "queued" /\ u.claimed < u.pending
    BY <1>2, <1>7, <1>8, <1>9, <2>2 DEF LeasesOK, Superseded
  <2>3. CASE u.state = "completed" /\ u.claimed = u.pending /\ u.fifo = {}
    <3>1. WaitingPrompts(u) = {}
      BY <1>2, <2>3 DEF WaitingPrompts, FifoPrompts, SteerPrompts
    <3>2. ~Superseded(u)
      BY <1>3, <2>3 DEF Superseded
    <3>. QED
      BY <1>2, <1>7, <1>8, <1>9, <2>3, <3>1, <3>2 DEF LeasesOK
  <2>. QED
    BY <2>1, <2>2, <2>3
<1>. QED
  BY <1>10, <1>11

-----------------------------------------------------------------------------
(* Every transaction keeps the turn sound.                                 *)

Sound(t) == t \in TurnType /\ PromptsOK(t) /\ LeasesOK(t)

\* Whatever ends a lease in the way Ended says leaves a sound turn.
LEMMA EndedSound ==
  ASSUME NEW t, Live(t), NEW u, Ended(t, u)
  PROVE  Sound(u) /\ u.state # "leased"
BY EndedKeepsLeases DEF Ended, Sound

\* A turn that keeps its lease fields and its revisions, while prompts may
\* leave the FIFO and steers may be marked.
LEMMA SameLeaseSound ==
  ASSUME NEW t, Sound(t), NEW u \in TurnType, PromptsOK(u), SameLease(t, u),
         u.pending = t.pending, \A s \in u.steers : s.gen <= u.gen,
         t.state = "completed" => WaitingPrompts(u) = {}
  PROVE  Sound(u)
<1>1. LeasesOK(t)
  BY DEF Sound
<1>2. Fenced(u)
  BY <1>1 DEF LeasesOK, Fenced, SameLease
<1>3. CompletedRevision(u, u.claimed) <=> CompletedRevision(t, t.claimed)
  BY DEF CompletedRevision, SameLease
<1>4. Superseded(u) <=> Superseded(t)
  BY DEF Superseded, SameLease
<1>. QED
  BY <1>1, <1>2, <1>3, <1>4 DEF Sound, LeasesOK, SameLease

\* A turn that is not completed may be queued, or failed, at any time.
LEMMA RestatedSound ==
  ASSUME NEW t, Sound(t), t.state # "completed",
         NEW u \in TurnType, SamePrompts(t, u), u.gen = t.gen, u.claimed = t.claimed,
         u.receipts = t.receipts, u.state \in {"queued", "failed"}
  PROVE  Sound(u)
<1>1. LeasesOK(t) /\ PromptsOK(u)
  BY SamePromptsOK DEF Sound
<1>2. Fenced(u)
  BY <1>1 DEF LeasesOK, Fenced
<1>3. CompletedRevision(u, u.claimed) <=> CompletedRevision(t, t.claimed)
  BY DEF CompletedRevision
<1>4. Superseded(u) <=> Superseded(t)
  BY DEF Superseded, SamePrompts
<1>. QED
  BY <1>1, <1>2, <1>3, <1>4 DEF Sound, LeasesOK, SamePrompts

\* Granting a queued turn never re-grants a completed revision.
LEMMA GrantLeaseSound ==
  ASSUME NEW t, Sound(t), t.state = "queued", NEW u, u = GrantLease(t)
  PROVE  Sound(u) /\ u.state = "leased" /\ u.gen = t.gen + 1 /\ u.claimed = t.pending
         /\ u.pending = t.pending /\ u.receipts = t.receipts
<1>0. /\ LeasesOK(t) /\ PromptsOK(t) /\ t \in TurnType
      /\ t.gen \in Nat /\ t.claimed \in Nat /\ t.pending \in Nat
      /\ t.receipts \subseteq Receipt /\ t.steers \subseteq Steer
  BY DEF Sound, TurnType
<1> DEFINE g == t.gen + 1
<1>1. g \in Nat /\ g > t.gen
  BY <1>0
<1>2. u = [t EXCEPT !.gen = g, !.claimed = t.pending, !.state = "leased",
                    !.lapsed = FALSE, !.overdue = FALSE]
  BY DEF GrantLease
<1> HIDE DEF g
<1>3. /\ u \in TurnType /\ SamePrompts(t, u) /\ u.gen = g /\ u.claimed = t.pending
      /\ u.state = "leased" /\ u.receipts = t.receipts
  <2>1. u \in TurnType
    <3> DEFINE v == [t EXCEPT !.gen = g, !.claimed = t.pending]
    <3>1. v \in TurnType
      BY Zenon, <1>0, <1>1 DEF TurnType
    <3>2. u = [v EXCEPT !.state = "leased", !.lapsed = FALSE, !.overdue = FALSE]
      BY <1>0, <1>2 DEF TurnType
    <3> HIDE DEF v
    <3>. QED
      BY Zenon, <3>1, <3>2 DEF TurnType, States
  <2>2. SamePrompts(t, u)
    BY <1>0, <1>2 DEF TurnType, SamePrompts
  <2>3. /\ u.gen = g /\ u.claimed = t.pending
        /\ u.state = "leased" /\ u.receipts = t.receipts
    BY <1>0, <1>2 DEF TurnType
  <2>. QED
    BY <2>1, <2>2, <2>3
<1>4. PromptsOK(u)
  BY <1>0, <1>3, SamePromptsOK
<1>5. Fenced(u)
  BY <1>0, <1>1, <1>3 DEF LeasesOK, Fenced, Receipt
<1>6. \A s \in u.steers : s.gen <= u.gen
  BY <1>0, <1>1, <1>3 DEF LeasesOK, SamePrompts, Steer
<1>7. \A r \in u.receipts : r.claimed <= u.claimed
  BY <1>0, <1>3 DEF LeasesOK, Receipt
<1>8. ~CompletedRevision(u, u.claimed)
  <2>1. CASE t.claimed = t.pending
    <3>1. ~CompletedRevision(t, t.claimed)
      BY <1>0, <2>1 DEF LeasesOK, Superseded
    <3>. QED
      BY <1>3, <2>1, <3>1 DEF CompletedRevision
  <2>2. CASE t.claimed < t.pending
    <3>1. \A r \in t.receipts : r.claimed # t.pending
      BY <1>0, <2>2 DEF LeasesOK, Receipt
    <3>. QED
      BY <1>3, <3>1 DEF CompletedRevision
  <2>. QED
    BY <1>0, <2>1, <2>2 DEF LeasesOK
<1>9. u.claimed <= u.pending
  BY <1>0, <1>3 DEF SamePrompts
<1>10. LeasesOK(u)
  BY <1>3, <1>5, <1>6, <1>7, <1>8, <1>9 DEF LeasesOK
<1>. QED
  BY <1>3, <1>4, <1>10 DEF Sound, SamePrompts, g

\* A busy environment, a restore, a retry, a cancel of a queued turn.
LEMMA RequeueBusySound ==
  ASSUME NEW t, Sound(t), t.state = "leased", NEW u, u = RequeueBusy(t)
  PROVE  Sound(u) /\ u.state = "queued" /\ u.gen = t.gen /\ u.claimed = t.claimed
         /\ u.pending = t.pending /\ u.receipts = t.receipts
<1>1. /\ u \in TurnType /\ SamePrompts(t, u) /\ u.gen = t.gen /\ u.claimed = t.claimed
      /\ u.receipts = t.receipts /\ u.state = "queued"
  BY Zenon DEF Sound, RequeueBusy, TurnType, SamePrompts, States
<1>. QED
  BY <1>1, RestatedSound DEF SamePrompts

\* Clearing the leases of a restored copy leaves a sound turn.
LEMMA SanitizeRestoredSound ==
  ASSUME NEW t, Sound(t), NEW u, u = SanitizeRestored(t)
  PROVE  Sound(u) /\ u.state # "leased" /\ u.gen = t.gen /\ u.claimed = t.claimed
         /\ u.pending = t.pending /\ u.receipts = t.receipts
<1>1. CASE t.state = "leased"
  <2>1. /\ u \in TurnType /\ SamePrompts(t, u) /\ u.gen = t.gen /\ u.claimed = t.claimed
        /\ u.receipts = t.receipts /\ u.state = "queued"
    BY Zenon, <1>1 DEF Sound, SanitizeRestored, TurnType, SamePrompts, States
  <2>. QED
    BY <1>1, <2>1, RestatedSound DEF SamePrompts
<1>2. CASE t.state # "leased"
  BY <1>2 DEF SanitizeRestored
<1>. QED
  BY <1>1, <1>2

\* The operator's retry leaves a sound turn.
LEMMA RetriedSound ==
  ASSUME NEW t, Sound(t), t.state = "failed",
         NEW u, u = [t EXCEPT !.retry = 0, !.state = "queued"]
  PROVE  Sound(u)
<1>1. /\ u \in TurnType /\ SamePrompts(t, u) /\ u.gen = t.gen /\ u.claimed = t.claimed
      /\ u.receipts = t.receipts /\ u.state = "queued"
  BY Zenon DEF Sound, TurnType, SamePrompts, States
<1>. QED
  BY Zenon, <1>1, RestatedSound

\* A lease whose clock ran out is still a sound turn.
LEMMA ClockSound ==
  ASSUME NEW t, Sound(t),
         NEW u, u = [t EXCEPT !.lapsed = TRUE] \/ u = [t EXCEPT !.overdue = TRUE]
                \/ u = [t EXCEPT !.lapsed = FALSE]
  PROVE  Sound(u) /\ u.state = t.state
<1>1. /\ u \in TurnType /\ SamePrompts(t, u) /\ SameLease(t, u)
  BY ZenonT(40) DEF Sound, TurnType, SamePrompts, SameLease
<1>2. PromptsOK(u)
  BY <1>1, SamePromptsOK DEF Sound
<1>3. \A s \in u.steers : s.gen <= u.gen
  BY <1>1 DEF Sound, LeasesOK, SamePrompts, SameLease
<1>4. WaitingPrompts(u) = WaitingPrompts(t)
  BY <1>1, Zenon DEF WaitingPrompts, FifoPrompts, SteerPrompts, SamePrompts
<1>5. t.state = "completed" => WaitingPrompts(u) = {}
  BY <1>4 DEF Sound, LeasesOK
<1>. QED
  BY <1>1, <1>2, <1>3, <1>5, SameLeaseSound DEF SamePrompts, SameLease

\* A heartbeat leaves a sound turn.
LEMMA RenewLeaseSound ==
  ASSUME NEW t, Sound(t), t.state = "leased", NEW ids, NEW u, u = RenewLease(t, ids)
  PROVE  Sound(u)
<1> DEFINE a == [t EXCEPT !.lapsed = FALSE]
           b == ReceiveSteers(a, ids)
<1>0. u = NextSteer(b, t.gen)
  BY DEF RenewLease
<1>1. Sound(a) /\ a.state = "leased"
  BY ClockSound
<1> HIDE DEF a
<1>2. /\ b \in TurnType /\ PromptsOK(b) /\ SameLease(a, b) /\ b.pending = a.pending
      /\ \A x \in b.steers : \E s \in a.steers : x.gen = s.gen
  BY <1>1, ReceiveSteersPrompts DEF Sound
<1> HIDE DEF b
<1>3. \A x \in b.steers : x.gen <= b.gen
  BY <1>1, <1>2 DEF Sound, LeasesOK, SameLease
<1>4. /\ u \in TurnType /\ PromptsOK(u) /\ SameLease(b, u) /\ u.pending = b.pending
      /\ \A x \in u.steers : \E s \in b.steers : x.gen = s.gen
  BY <1>0, <1>2, NextSteerPrompts
<1>5. \A x \in u.steers : x.gen <= u.gen
  BY <1>3, <1>4 DEF SameLease
<1>6. SameLease(a, u) /\ u.pending = a.pending
  BY <1>2, <1>4 DEF SameLease
<1>. QED
  BY <1>1, <1>4, <1>5, <1>6, SameLeaseSound

\* A stored steer leaves a sound turn.
LEMMA EnqueueSteerSound ==
  ASSUME NEW t, Sound(t), t.state = "leased", NEW u, u = EnqueueSteer(t)
  PROVE  Sound(u) /\ u.state = "leased"
<1>1. /\ u \in TurnType /\ PromptsOK(u) /\ SameLease(t, u) /\ u.pending = t.pending
      /\ \A s \in u.steers : s \in t.steers \/ s.gen = t.gen
  BY EnqueueSteerPrompts DEF Sound
<1>2. \A s \in u.steers : s.gen <= u.gen
  BY <1>1 DEF Sound, LeasesOK, SameLease, TurnType
<1>. QED
  BY <1>1, <1>2, SameLeaseSound DEF SameLease

\* Dropping the queued prompts leaves a sound turn.
LEMMA ConsumeQueuedSound ==
  ASSUME NEW t, Sound(t), NEW u, u = ConsumeQueued(t)
  PROVE  Sound(u) /\ SameLease(t, u) /\ u.pending = t.pending
<1>1. /\ u \in TurnType /\ SameLease(t, u) /\ u.fifo = t.fifo \ QueuedPrompts(t)
      /\ u.pending = t.pending /\ u.steers = t.steers
  BY ConsumeQueuedFields DEF Sound
<1>2. PromptsOK(u)
  BY ConsumeQueuedPrompts DEF Sound
<1>3. \A s \in u.steers : s.gen <= u.gen
  BY <1>1 DEF Sound, LeasesOK, SameLease
<1>4. WaitingPrompts(u) \subseteq WaitingPrompts(t)
  BY <1>1 DEF WaitingPrompts, FifoPrompts, SteerPrompts
<1>5. t.state = "completed" => WaitingPrompts(u) = {}
  BY <1>4 DEF Sound, LeasesOK
<1>. QED
  BY <1>1, <1>2, <1>3, <1>5, SameLeaseSound

\* cancelTurnTx leaves a sound turn, leased or not.
LEMMA CancelTurnSound ==
  ASSUME NEW t, Sound(t), NEW u, u = CancelTurn(t)
  PROVE  Sound(u) /\ u.state # "leased"
<1>1. CASE t.state = "queued"
  <2>1. u = [t EXCEPT !.state = "failed"]
    BY <1>1 DEF CancelTurn
  <2>2. /\ u \in TurnType /\ SamePrompts(t, u) /\ u.gen = t.gen /\ u.claimed = t.claimed
        /\ u.receipts = t.receipts /\ u.state = "failed"
    BY <2>1 DEF Sound, TurnType, SamePrompts, States
  <2>. QED
    BY <1>1, <2>2, RestatedSound
<1>2. CASE t.state = "leased"
  <2>1. Live(t) /\ u = CancelLeased(t)
    BY <1>2 DEF CancelTurn, Live, Sound
  <2>2. Ended(t, u)
    BY <2>1, CancelLeasedEnds
  <2>. QED
    BY <2>1, <2>2, EndedSound
<1>3. CASE t.state \notin {"queued", "leased"}
  BY <1>3 DEF CancelTurn
<1>. QED
  BY <1>1, <1>2, <1>3

\* CancelSession leaves a sound turn.
LEMMA CancelSessionSound ==
  ASSUME NEW t, Sound(t), NEW u, u = CancelSession(t)
  PROVE  Sound(u) /\ u.state # "leased"
<1> DEFINE c == ConsumeQueued(t)
<1>1. Sound(c)
  BY ConsumeQueuedSound
<1>2. u = CancelTurn(c)
  BY DEF CancelSession
<1> HIDE DEF c
<1>. QED
  BY <1>1, <1>2, CancelTurnSound

\* Failing the turn of an archived session leaves a sound turn.
LEMMA FailArchivedTurnSound ==
  ASSUME NEW t, Sound(t), NEW u, u = FailArchivedTurn(t)
  PROVE  Sound(u) /\ u.state \notin {"leased", "queued"}
<1> DEFINE c == CancelTurn(t)
<1>1. Sound(c) /\ c.state # "leased"
  BY CancelTurnSound
<1>2. u = [c EXCEPT !.state = IF c.state = "queued" THEN "failed" ELSE c.state]
  BY DEF FailArchivedTurn
<1> HIDE DEF c
<1>3. CASE c.state = "queued"
  <2>1. u = [c EXCEPT !.state = "failed"]
    BY <1>2, <1>3
  <2>2. /\ u \in TurnType /\ SamePrompts(c, u) /\ u.gen = c.gen /\ u.claimed = c.claimed
        /\ u.receipts = c.receipts /\ u.state = "failed"
    BY Zenon, <1>1, <2>1 DEF Sound, TurnType, SamePrompts, States
  <2>. QED
    BY <1>1, <1>3, <2>2, RestatedSound
<1>4. CASE c.state # "queued"
  <2>1. u = c
    BY <1>1, <1>2, <1>4 DEF Sound, TurnType
  <2>. QED
    BY <1>1, <1>4, <2>1
<1>. QED
  BY <1>3, <1>4

\* The halt's fence leaves a sound turn.
LEMMA HaltLeasedTurnSound ==
  ASSUME NEW t, Sound(t), NEW u, u = HaltLeasedTurn(t)
  PROVE  Sound(u) /\ u.state # "leased"
<1>1. CASE t.state = "leased"
  <2>1. Live(t)
    BY <1>1 DEF Live, Sound
  <2>2. Ended(t, u)
    BY <2>1, HaltLeasedTurnEnds
  <2>. QED
    BY <2>1, <2>2, EndedSound
<1>2. CASE t.state # "leased"
  BY <1>2 DEF HaltLeasedTurn
<1>. QED
  BY <1>1, <1>2

\* expireLeaseTx leaves a sound turn.
LEMMA ExpireLeaseSound ==
  ASSUME NEW t, Sound(t), NEW u, u = ExpireLease(t)
  PROVE  Sound(u) /\ (LeaseDue(t) => u.state # "leased") /\ (~LeaseDue(t) => u = t)
<1>1. CASE LeaseDue(t)
  <2>1. Live(t)
    BY <1>1 DEF Live, Sound, LeaseDue
  <2>2. Ended(t, u)
    BY <1>1, <2>1, ExpireLeaseEnds
  <2>. QED
    BY <1>1, <2>1, <2>2, EndedSound
<1>2. CASE ~LeaseDue(t)
  BY <1>2 DEF ExpireLease
<1>. QED
  BY <1>1, <1>2

\* A promoted follow-up is one new revision; the lease is left alone.
LEMMA PromoteFollowUpEffect ==
  ASSUME NEW t \in TurnType, PromptsOK(t), NEW u, u = PromoteFollowUp(t)
  PROVE  /\ u \in TurnType /\ PromptsOK(u) /\ SameLease(t, u)
         /\ u.steers = t.steers
         /\ \/ MayPromote(t) /\ u.pending = t.pending + 1
            \/ ~MayPromote(t) /\ u = t
<1>1. CASE MayPromote(t)
  <2>1. /\ u = ApplyFollowUp(t, FifoHead(t)) /\ t.fifo # {}
        /\ ~EarlierSteer(t, FifoHead(t).seq)
    BY <1>1 DEF PromoteFollowUp, MayPromote
  <2>2. FifoHead(t) \in t.fifo
    BY <2>1, FifoHeadIsLeast
  <2>3. PromptsOK(u)
    BY <2>1, ApplyHeadPrompts
  <2>4. u \in TurnType /\ SameLease(t, u) /\ u.pending = t.pending + 1 /\ u.steers = t.steers
    BY <2>1, <2>2, ApplyFollowUpFields
  <2>. QED
    BY <1>1, <2>3, <2>4
<1>2. CASE ~MayPromote(t)
  BY <1>2 DEF PromoteFollowUp, SameLease
<1>. QED
  BY <1>1, <1>2

\* Requeueing changes the state only.
LEMMA RequeueFields ==
  ASSUME NEW t \in TurnType, PromptsOK(t), NEW u, u = Requeue(t)
  PROVE  /\ u \in TurnType /\ PromptsOK(u) /\ SamePrompts(t, u)
         /\ u.gen = t.gen /\ u.claimed = t.claimed /\ u.receipts = t.receipts
         /\ u.state = IF t.state = "leased" THEN "leased" ELSE "queued"
<1> DEFINE s == IF t.state = "leased" THEN "leased" ELSE "queued"
<1>1. s \in States
  BY DEF States
<1>2. u = [t EXCEPT !.state = s]
  BY DEF Requeue
<1>3. s = IF t.state = "leased" THEN "leased" ELSE "queued"
  OBVIOUS
<1> HIDE DEF s
<1>4. /\ u \in TurnType /\ SamePrompts(t, u) /\ u.state = s
      /\ u.gen = t.gen /\ u.claimed = t.claimed /\ u.receipts = t.receipts
  BY Zenon, <1>1, <1>2 DEF TurnType, SamePrompts
<1>. QED
  BY <1>3, <1>4, SamePromptsOK

\* Requeueing is sound when whatever completed the claimed revision has been
\* followed by a newer one.
LEMMA RequeuedSound ==
  ASSUME NEW t, Sound(t), NEW p \in TurnType, PromptsOK(p), SameLease(t, p),
         p.pending \in {t.pending, t.pending + 1},
         t.state = "completed" => p.pending = t.pending + 1,
         \A s \in p.steers : s.gen <= p.gen,
         NEW u, u = Requeue(p)
  PROVE  Sound(u) /\ (u.state = "leased" <=> t.state = "leased") /\ u.state # "completed"
<1>1. /\ u \in TurnType /\ PromptsOK(u) /\ SamePrompts(p, u)
      /\ u.gen = p.gen /\ u.claimed = p.claimed /\ u.receipts = p.receipts
      /\ u.state = IF p.state = "leased" THEN "leased" ELSE "queued"
  BY RequeueFields
<1>2. /\ LeasesOK(t) /\ t.pending \in Nat /\ t.claimed \in Nat
  BY DEF Sound, TurnType
<1>3. /\ u.gen = t.gen /\ u.claimed = t.claimed /\ u.receipts = t.receipts
      /\ u.state = "leased" <=> t.state = "leased"
      /\ u.state \in {"leased", "queued"}
      /\ u.pending \in {t.pending, t.pending + 1}
  BY <1>1 DEF SameLease, SamePrompts
<1>4. Fenced(u)
  BY <1>2, <1>3 DEF LeasesOK, Fenced
<1>5. CompletedRevision(u, u.claimed) <=> CompletedRevision(t, t.claimed)
  BY <1>3 DEF CompletedRevision
<1>6. CompletedRevision(t, t.claimed) => u.state # "leased" /\ Superseded(u)
  <2> SUFFICES ASSUME CompletedRevision(t, t.claimed)
               PROVE  u.state # "leased" /\ Superseded(u)
    OBVIOUS
  <2>1. t.state = "completed" \/ (t.state # "leased" /\ Superseded(t))
    BY <1>2 DEF LeasesOK
  <2>2. CASE t.state = "completed"
    <3>1. u.pending = t.pending + 1 /\ t.claimed <= t.pending
      BY <1>1, <1>2, <2>2 DEF SamePrompts, LeasesOK
    <3>. QED
      BY <1>2, <1>3, <2>2, <3>1 DEF Superseded
  <2>3. CASE t.state # "leased" /\ Superseded(t)
    BY <1>2, <1>3, <2>3 DEF Superseded
  <2>. QED
    BY <2>1, <2>2, <2>3
<1>7. \A s \in u.steers : s.gen <= u.gen
  BY SMTT(30), <1>1 DEF SamePrompts
<1>8. u.claimed <= u.pending /\ \A r \in u.receipts : r.claimed <= u.claimed
  BY <1>2, <1>3 DEF LeasesOK
<1>9. LeasesOK(u)
  BY SMTT(30), <1>3, <1>4, <1>5, <1>6, <1>7, <1>8 DEF LeasesOK
<1>. QED
  BY <1>1, <1>3, <1>9 DEF Sound

\* A prompt to a completed turn finds nothing ahead of it, so it becomes the
\* next revision at once.
LEMMA EnqueuePromptSound ==
  ASSUME NEW t, Sound(t), NEW q \in BOOLEAN, NEW u, u = EnqueuePrompt(t, q)
  PROVE  Sound(u) /\ (u.state = "leased" <=> t.state = "leased")
<1> DEFINE e == EnqueueFollowUp(t, q)
           p == PromoteFollowUp(e)
<1>1. /\ e \in TurnType /\ PromptsOK(e) /\ SameLease(t, e)
      /\ e.fifo = t.fifo \cup {[seq |-> t.nextSeq, queued |-> q]}
      /\ e.steers = t.steers /\ e.pending = t.pending
  BY EnqueueFollowUpPrompts DEF Sound
<1>2. u = Requeue(p)
  BY DEF EnqueuePrompt
<1> HIDE DEF e
<1>3. /\ p \in TurnType /\ PromptsOK(p) /\ SameLease(e, p) /\ p.steers = e.steers
      /\ \/ MayPromote(e) /\ p.pending = e.pending + 1
         \/ ~MayPromote(e) /\ p = e
  BY <1>1, PromoteFollowUpEffect
<1> HIDE DEF p
<1>4. t.state = "completed" => MayPromote(e)
  <2> SUFFICES ASSUME t.state = "completed" PROVE MayPromote(e)
    OBVIOUS
  <2>1. t.claimed = t.pending /\ WaitingPrompts(t) = {} /\ t.claimed \in Nat
    BY DEF Sound, LeasesOK, Superseded, TurnType
  <2>2. e.steers = {}
    BY <1>1, <2>1 DEF WaitingPrompts, SteerPrompts
  <2>3. ~HasUnclaimedFollowUp(e)
    BY <1>1, <2>1 DEF HasUnclaimedFollowUp, SameLease
  <2>4. e.fifo # {} /\ e.state = "completed"
    BY Zenon, <1>1 DEF SameLease
  <2>. QED
    BY <2>2, <2>3, <2>4 DEF MayPromote, EarlierSteer
<1>5. SameLease(t, p) /\ p.pending \in {t.pending, t.pending + 1}
      /\ (t.state = "completed" => p.pending = t.pending + 1)
  BY <1>1, <1>3, <1>4 DEF SameLease
<1>6. \A s \in p.steers : s.gen <= p.gen
  BY <1>1, <1>3, <1>5 DEF SameLease, Sound, LeasesOK
<1>. QED
  BY <1>2, <1>3, <1>5, <1>6, RequeuedSound

\* DropQueued leaves a sound turn.
LEMMA DropQueuedSound ==
  ASSUME NEW t, Sound(t), NEW u, u = DropQueued(t)
  PROVE  Sound(u) /\ (u.state = "leased" <=> t.state = "leased")
<1> DEFINE d == ConsumeQueued(t)
           p == PromoteFollowUp(d)
<1>1. Sound(d) /\ SameLease(t, d) /\ d.pending = t.pending
  BY ConsumeQueuedSound
<1>2. u = t \/ u = d \/ (QueuedPrompts(t) # {} /\ u = Requeue(p))
  BY DEF DropQueued
<1> HIDE DEF d
<1>3. /\ p \in TurnType /\ PromptsOK(p) /\ SameLease(d, p) /\ p.steers = d.steers
      /\ \/ MayPromote(d) /\ p.pending = d.pending + 1
         \/ ~MayPromote(d) /\ p = d
  BY <1>1, PromoteFollowUpEffect DEF Sound
<1> HIDE DEF p
<1>4. CASE QueuedPrompts(t) # {} /\ u = Requeue(p)
  <2>1. t.state # "completed"
    <3>1. WaitingPrompts(t) # {}
      BY <1>4 DEF QueuedPrompts, WaitingPrompts, FifoPrompts
    <3>. QED
      BY <3>1 DEF Sound, LeasesOK
  <2>2. \A s \in p.steers : s.gen <= p.gen
    BY <1>1, <1>3 DEF SameLease, Sound, LeasesOK
  <2>3. d.state # "completed" /\ p.pending \in {d.pending, d.pending + 1}
    BY <1>1, <1>3, <2>1 DEF SameLease
  <2>. QED
    BY SMTT(30), <1>1, <1>3, <1>4, <2>2, <2>3, RequeuedSound DEF SameLease
<1>. QED
  BY <1>1, <1>2, <1>4 DEF SameLease

\* Admitting a changed item leaves a sound turn.
LEMMA AdmitRevisionSound ==
  ASSUME NEW t, Sound(t), NEW u, u = AdmitRevision(t)
  PROVE  Sound(u) /\ (u.state = "leased" <=> t.state = "leased")
<1> DEFINE n == t.pending + 1
           ss == Append(t.snap, 0)
           p == [t EXCEPT !.pending = n, !.snap = ss, !.retry = 0]
<1>0. t \in TurnType /\ PromptsOK(t) /\ t.snap \in Seq(Nat) /\ t.pending \in Nat
      /\ Len(t.snap) = t.pending
  BY DEF Sound, TurnType, PromptsOK
<1>1. n \in Nat /\ n = t.pending + 1
  BY <1>0
<1>2. ss \in Seq(Nat) /\ Len(ss) = n /\ DOMAIN ss = 1..n
      /\ ss[n] = 0 /\ \A i \in 1..t.pending : ss[i] = t.snap[i]
  BY <1>0, SeqAppend
<1>2a. DOMAIN t.snap = 1..t.pending
  BY <1>0
<1>3. u = Requeue(p)
  BY DEF AdmitRevision
<1> HIDE DEF n, ss
<1>4. /\ p \in TurnType /\ SameLease(t, p) /\ p.pending = n /\ p.snap = ss
      /\ p.fifo = t.fifo /\ p.steers = t.steers /\ p.acked = t.acked
      /\ p.dropped = t.dropped /\ p.nextSeq = t.nextSeq
  BY Zenon, <1>0, <1>1, <1>2 DEF TurnType, SameLease
<1> HIDE DEF p
<1>5. AppliedPrompts(p) = AppliedPrompts(t)
  <2>1. ASSUME NEW i \in DOMAIN ss, ss[i] # 0
        PROVE  i \in DOMAIN t.snap /\ t.snap[i] = ss[i]
    <3>1. i \in 1..n /\ i # n
      BY <1>2, <2>1
    <3>2. i \in 1..t.pending
      BY <1>0, <1>1, <3>1
    <3>. QED
      BY <1>2, <1>2a, <3>2
  <2>2. ASSUME NEW i \in DOMAIN t.snap
        PROVE  i \in DOMAIN ss /\ ss[i] = t.snap[i]
    BY <1>0, <1>1, <1>2, <1>2a
  <2>3. AppliedPrompts(p) = {ss[i] : i \in DOMAIN ss} \ {0}
    BY <1>4 DEF AppliedPrompts
  <2>. QED
    BY <2>1, <2>2, <2>3 DEF AppliedPrompts
<1>6. WaitingPrompts(p) = WaitingPrompts(t) /\ FifoPrompts(p) = FifoPrompts(t)
      /\ SteerPrompts(p) = SteerPrompts(t)
  BY <1>4, Zenon DEF WaitingPrompts, FifoPrompts, SteerPrompts
<1>7. Accounted(p)
  BY <1>0, <1>4, <1>5, <1>6, Zenon DEF PromptsOK, Accounted
<1>8. \A i, j \in DOMAIN p.snap : i < j /\ p.snap[j] # 0 => p.snap[i] < p.snap[j]
  <2> SUFFICES ASSUME NEW i \in 1..n, NEW j \in 1..n, i < j, ss[j] # 0
               PROVE  ss[i] < ss[j]
    BY <1>2, <1>4
  <2>1. i \in 1..t.pending /\ j \in 1..t.pending
    BY SMTT(30), <1>0, <1>1, <1>2
  <2>. QED
    BY Zenon, <1>0, <1>2, <1>2a, <2>1 DEF PromptsOK, InOrder
<1>9. InOrder(p)
  BY <1>0, <1>5, <1>6, <1>8 DEF PromptsOK, InOrder
<1>10. PromptsOK(p)
  BY SMTT(30), <1>0, <1>2, <1>4, <1>7, <1>9 DEF PromptsOK
<1>11. \A s \in p.steers : s.gen <= p.gen
  BY <1>4 DEF Sound, LeasesOK, SameLease
<1>. QED
  BY <1>1, <1>3, <1>4, <1>10, <1>11, RequeuedSound

-----------------------------------------------------------------------------
(* What a transaction does to the lease, the revisions and the attempts.   *)

\* An ended turn that owes nothing and has no newer revision.
Resting(t) ==
  /\ t.state \in {"completed", "failed"}
  /\ t.fifo = {} /\ t.steers = {} /\ ~Superseded(t)

\* What becomes of the lease: it is kept (or there is none), it is lost
\* without a receipt, or it ends with a receipt of kind k.
LeaseStep(t, u, k) ==
  /\ u.claimed = t.claimed
  /\ \/ /\ k = "kept" /\ u.gen = t.gen /\ u.receipts = t.receipts
        /\ (u.state = "leased") <=> (t.state = "leased")
     \/ /\ k # "kept" /\ t.state = "leased" /\ u.state # "leased"
        /\ u.gen \in {t.gen, t.gen + 1}
        /\ \/ k = "lost" /\ u.receipts = t.receipts
           \/ k \in Kinds /\ Recorded(t, u, k)

SameRevisions(t, u) == u.pending = t.pending /\ u.snap = t.snap

NewRevision(t, u, x) ==
  u.pending = t.pending + 1 /\ u.snap = Append(t.snap, x) /\ u.retry = 0

\* A prompt becomes the next revision, and overtakes none.
Followed(t, u) == ~HasUnclaimedFollowUp(t) /\ \E x \in Prompts : NewRevision(t, u, x)

\* What becomes of the revisions and the attempt count.
RevisionStep(t, u, k) ==
  \/ /\ SameRevisions(t, u) /\ u.retry = t.retry
     /\ k # "fail" \/ Superseded(t) \/ Resting(u)
     /\ Resting(t) => Resting(u)
  \/ /\ SameRevisions(t, u) /\ u.retry = t.retry + 1
     /\ t.state = "leased" /\ ~Superseded(t)
     /\ u.retry < RetryLimit \/ Resting(u)
  \/ SameRevisions(t, u) /\ u.retry = 0 /\ Superseded(t)
  \/ Followed(t, u)

Moved(t, u, k) == LeaseStep(t, u, k) /\ RevisionStep(t, u, k)

Answers == {"kept", "lost"} \cup Kinds

\* A turn that holds its newest revision has no unclaimed follow-up.
LEMMA NothingUnclaimed ==
  ASSUME NEW t \in TurnType, ~Superseded(t)
  PROVE  ~HasUnclaimedFollowUp(t)
BY DEF Superseded, HasUnclaimedFollowUp, TurnType

\* Moved reads the turn it starts from through these fields only.
LEMMA MovedFrom ==
  ASSUME NEW t, NEW c, NEW u, NEW k, Moved(c, u, k), SameLease(t, c),
         SameRevisions(t, c), c.retry = t.retry, Resting(t) => Resting(c)
  PROVE  Moved(t, u, k)
<1>1. LeaseStep(t, u, k)
  BY DEF Moved, LeaseStep, SameLease, Recorded
<1>2. Superseded(t) <=> Superseded(c)
  BY DEF Superseded, SameLease, SameRevisions
<1>3. Followed(c, u) => Followed(t, u)
  BY DEF Followed, HasUnclaimedFollowUp, NewRevision, SameLease, SameRevisions
<1>4. RevisionStep(t, u, k)
  BY <1>2, <1>3 DEF Moved, RevisionStep, SameLease, SameRevisions
<1>. QED
  BY <1>1, <1>4 DEF Moved

\* The FIFO's head becomes the next revision.
LEMMA ApplyHeadRevisions ==
  ASSUME NEW t \in TurnType, t.fifo # {}, NEW u, u = ApplyFollowUp(t, FifoHead(t))
  PROVE  /\ u \in TurnType /\ SameLease(t, u) /\ u.steers = t.steers
         /\ \E x \in Prompts : NewRevision(t, u, x)
<1>1. FifoHead(t) \in t.fifo
  BY FifoHeadIsLeast
<1>2. FifoHead(t).seq \in Prompts
  BY <1>1 DEF TurnType, FollowUp
<1>. QED
  BY <1>1, <1>2, ApplyFollowUpFields DEF NewRevision

\* Advance starts the next prompt, or ends the turn when none waits.
LEMMA AdvanceRevisions ==
  ASSUME NEW t \in TurnType, NEW terminal \in {"completed", "failed"},
         NEW u, u = Advance(t, terminal)
  PROVE  /\ u.gen = t.gen /\ u.claimed = t.claimed /\ u.receipts = t.receipts
         /\ u.steers = t.steers
         /\ \/ u.state = "queued" /\ \E x \in Prompts : NewRevision(t, u, x)
            \/ /\ u.state = terminal /\ u.fifo = {} /\ SameRevisions(t, u)
               /\ u.retry = t.retry
<1> DEFINE n == ApplyNextFollowUp(t)
           st == IF n.pending > t.pending THEN "queued" ELSE terminal
<1>1. u = [n EXCEPT !.state = st] /\ st = IF n.pending > t.pending THEN "queued" ELSE terminal
  BY DEF Advance
<1>2. t.pending \in Nat
  BY DEF TurnType
<1>3. CASE t.fifo = {}
  <2>1. n = t
    BY <1>3 DEF ApplyNextFollowUp
  <2>2. st = terminal
    BY <1>2, <2>1
  <2> HIDE DEF n, st
  <2>. QED
    BY <1>1, <1>3, <2>1, <2>2 DEF TurnType, SameRevisions
<1>4. CASE t.fifo # {}
  <2>1. /\ n \in TurnType /\ SameLease(t, n) /\ n.steers = t.steers
        /\ \E x \in Prompts : NewRevision(t, n, x)
    BY <1>4, ApplyHeadRevisions DEF ApplyNextFollowUp
  <2>2. n.pending > t.pending
    BY <1>2, <2>1 DEF NewRevision
  <2>3. st = "queued"
    BY <2>2
  <2> HIDE DEF n, st
  <2>4. /\ u.gen = n.gen /\ u.claimed = n.claimed /\ u.receipts = n.receipts
        /\ u.steers = n.steers /\ u.pending = n.pending /\ u.snap = n.snap
        /\ u.retry = n.retry /\ u.state = "queued"
    BY <1>1, <2>1, <2>3 DEF TurnType
  <2>. QED
    BY <2>1, <2>4 DEF NewRevision, SameLease
<1>. QED
  BY <1>3, <1>4

\* A receipt and the promotion of the owed steers leave the revisions alone.
LEMMA SettledRevisions ==
  ASSUME NEW t \in TurnType, NEW k \in Kinds, \A s \in t.steers : s.gen <= t.gen,
         NEW f, f = PromoteSteers(WithReceipt(t, k), t.gen)
  PROVE  /\ f \in TurnType /\ Recorded(t, f, k)
         /\ f.state = t.state /\ f.gen = t.gen /\ f.claimed = t.claimed
         /\ SameRevisions(t, f) /\ f.retry = t.retry /\ f.steers = {}
         /\ OwedSteers(t, t.gen) # {} => f.fifo # {}
<1> DEFINE w == WithReceipt(t, k)
<1>1. /\ w \in TurnType /\ SamePrompts(t, w) /\ Recorded(t, w, k)
      /\ w.state = t.state /\ w.gen = t.gen /\ w.claimed = t.claimed /\ w.retry = t.retry
  BY WithReceiptFields DEF Recorded
<1>2. f = PromoteSteers(w, w.gen) /\ w.gen \in Nat
  BY <1>1 DEF TurnType
<1>3. OwedSteers(w, w.gen) = OwedSteers(t, t.gen)
  BY <1>1 DEF OwedSteers, SamePrompts
<1> HIDE DEF w
<1>4. /\ f \in TurnType /\ SameLease(w, f) /\ f.pending = w.pending /\ f.retry = w.retry
      /\ f.snap = w.snap
      /\ f.fifo = w.fifo \cup {[seq |-> s.seq, queued |-> FALSE] : s \in OwedSteers(w, w.gen)}
  BY <1>1, <1>2, PromoteSteersFields
<1>5. f.steers = {}
  BY <1>1, <1>2, NoSteerOutlivesItsLease DEF SamePrompts
<1>6. OwedSteers(t, t.gen) # {} => f.fifo # {}
  BY Zenon, <1>3, <1>4
<1>. QED
  BY SMTT(30), <1>1, <1>4, <1>5, <1>6 DEF SameLease, SamePrompts, SameRevisions, Recorded

\* The turn f that settled the lease of t goes on: it is queued, or it advances.
LEMMA SettledMoves ==
  ASSUME NEW t \in TurnType, t.state = "leased", t.claimed <= t.pending, NEW k \in {"lost"} \cup Kinds,
         NEW f \in TurnType, f.claimed = t.claimed, f.gen \in {t.gen, t.gen + 1}, f.steers = {},
         SameRevisions(t, f), IF k = "lost" THEN f.receipts = t.receipts ELSE Recorded(t, f, k),
         NEW u,
         \/ /\ u.state \in {"queued", "failed"} /\ u.gen = f.gen /\ u.claimed = f.claimed
            /\ u.receipts = f.receipts /\ SameRevisions(f, u)
            /\ \/ u.retry = t.retry /\ (k # "fail" \/ Superseded(t))
               \/ u.retry = t.retry + 1 /\ ~Superseded(t) /\ u.retry < RetryLimit
               \/ u.retry = 0 /\ Superseded(t)
         \/ /\ ~Superseded(t) /\ \E terminal \in {"completed", "failed"} : u = Advance(f, terminal)
            /\ f.retry \in {t.retry, t.retry + 1}
         \/ /\ ~Superseded(t) /\ f.fifo # {} /\ f.state # "leased" /\ u = ApplyNextFollowUp(f)
  PROVE  Moved(t, u, k)
<1> USE DEF Kinds
<1>r. ~Resting(t)
  BY DEF Resting
<1>1. CASE /\ u.state \in {"queued", "failed"} /\ u.gen = f.gen /\ u.claimed = f.claimed
           /\ u.receipts = f.receipts /\ SameRevisions(f, u)
           /\ \/ u.retry = t.retry /\ (k # "fail" \/ Superseded(t))
              \/ u.retry = t.retry + 1 /\ ~Superseded(t) /\ u.retry < RetryLimit
              \/ u.retry = 0 /\ Superseded(t)
  <2>1. LeaseStep(t, u, k)
    BY <1>1 DEF LeaseStep, Recorded
  <2>2. SameRevisions(t, u)
    BY <1>1 DEF SameRevisions
  <2>3. RevisionStep(t, u, k)
    BY <1>1, <1>r, <2>2 DEF RevisionStep
  <2>. QED
    BY <2>1, <2>3 DEF Moved
<1>2. ASSUME ~Superseded(t), f.retry \in {t.retry, t.retry + 1},
             NEW terminal \in {"completed", "failed"}, u = Advance(f, terminal)
      PROVE  Moved(t, u, k)
  <2>1. /\ u.gen = f.gen /\ u.claimed = f.claimed /\ u.receipts = f.receipts /\ u.steers = f.steers
        /\ \/ u.state = "queued" /\ \E x \in Prompts : NewRevision(f, u, x)
           \/ /\ u.state = terminal /\ u.fifo = {} /\ SameRevisions(f, u)
              /\ u.retry = f.retry
    BY SMTT(30), <1>2, AdvanceRevisions
  <2>2. LeaseStep(t, u, k)
    BY SMTT(30), <2>1 DEF LeaseStep, Recorded
  <2>3. CASE \E x \in Prompts : NewRevision(f, u, x)
    <3>1. Followed(t, u)
      BY <1>2, <2>3, NothingUnclaimed DEF Followed, NewRevision, SameRevisions
    <3>. QED
      BY SMTT(30), <2>2, <3>1 DEF Moved, RevisionStep
  <2>4. CASE u.state = terminal /\ u.fifo = {} /\ SameRevisions(f, u) /\ u.retry = f.retry
    <3>1. SameRevisions(t, u)
      BY <2>4 DEF SameRevisions
    <3>2. Resting(u)
      BY SMTT(30), <1>2, <2>1, <2>4, <3>1 DEF Resting, Superseded, SameRevisions
    <3>3. RevisionStep(t, u, k)
      BY SMTT(30), <1>2, <2>4, <3>1, <3>2 DEF RevisionStep
    <3>. QED
      BY <2>2, <3>3 DEF Moved
  <2>. QED
    BY <2>1, <2>3, <2>4
<1>3. CASE ~Superseded(t) /\ f.fifo # {} /\ f.state # "leased" /\ u = ApplyNextFollowUp(f)
  <2>1. SameLease(f, u) /\ \E x \in Prompts : NewRevision(f, u, x)
    BY SMTT(30), <1>3, ApplyHeadRevisions DEF ApplyNextFollowUp
  <2>2. LeaseStep(t, u, k)
    BY SMTT(30), <1>3, <2>1 DEF LeaseStep, Recorded, SameLease
  <2>3. Followed(t, u)
    BY SMTT(30), <1>3, <2>1, NothingUnclaimed DEF Followed, NewRevision, SameRevisions
  <2>. QED
    BY SMTT(30), <2>2, <2>3 DEF Moved, RevisionStep
<1>. QED
  BY <1>1, <1>2, <1>3

\* failClosedTx records a failure and tries the exhausted revision no more.
LEMMA FailClosedMoves ==
  ASSUME NEW t, Live(t), NEW bump \in BOOLEAN, NEW u, u = FailClosed(t, bump)
  PROVE  Moved(t, u, "fail")
<1> DEFINE f == PromoteSteers(WithReceipt(t, "fail"), t.gen)
           g == IF bump THEN f.gen + 1 ELSE f.gen
           b == [f EXCEPT !.gen = g]
<1>0. t \in TurnType /\ t.state = "leased" /\ t.claimed <= t.pending /\ \A s \in t.steers : s.gen <= t.gen
  BY SMTT(30) DEF Live, LeasesOK
<1>1. /\ f \in TurnType /\ Recorded(t, f, "fail") /\ f.gen = t.gen /\ f.claimed = t.claimed
      /\ SameRevisions(t, f) /\ f.retry = t.retry /\ f.steers = {}
  BY <1>0, SettledRevisions DEF Kinds
<1>2. u = IF Superseded(b) THEN [b EXCEPT !.state = "queued"] ELSE Advance(b, "failed")
  BY DEF FailClosed
<1> HIDE DEF f
<1>3. g \in Nat /\ g \in {t.gen, t.gen + 1}
  BY <1>1 DEF TurnType
<1> HIDE DEF g
<1>4. /\ b \in TurnType /\ b.gen = g /\ b.claimed = f.claimed /\ b.receipts = f.receipts
      /\ SameRevisions(f, b) /\ b.retry = f.retry /\ b.steers = f.steers
  BY ZenonT(40), <1>1, <1>3 DEF TurnType, SameRevisions
<1> HIDE DEF b
<1>5. /\ SameRevisions(t, b) /\ Recorded(t, b, "fail") /\ (Superseded(b) <=> Superseded(t))
  BY <1>1, <1>4 DEF SameRevisions, Recorded, Superseded
<1>6. CASE Superseded(b)
  <2>1. /\ u.state = "queued" /\ u.gen = b.gen /\ u.claimed = b.claimed /\ u.receipts = b.receipts
        /\ SameRevisions(b, u) /\ u.retry = b.retry
    BY <1>2, <1>4, <1>6 DEF TurnType, SameRevisions
  <2>. QED
    BY <1>0, <1>1, <1>3, <1>4, <1>5, <1>6, <2>1, SettledMoves DEF Kinds
<1>7. CASE ~Superseded(b)
  BY SMTT(30), <1>0, <1>1, <1>2, <1>3, <1>4, <1>5, <1>7, SettledMoves DEF Kinds
<1>. QED
  BY <1>6, <1>7

\* finalizeFailureTx counts one attempt, unless a newer revision waits.
LEMMA FinalizeFailureMoves ==
  ASSUME NEW t, Live(t), NEW u, u = FinalizeFailure(t)
  PROVE  Moved(t, u, "fail")
<1> DEFINE f == PromoteSteers(WithReceipt(t, "fail"), t.gen)
           r == [f EXCEPT !.retry = @ + 1]
<1>0. t \in TurnType /\ t.state = "leased" /\ t.claimed <= t.pending /\ \A s \in t.steers : s.gen <= t.gen
  BY SMTT(30) DEF Live, LeasesOK
<1>1. /\ f \in TurnType /\ Recorded(t, f, "fail") /\ f.gen = t.gen /\ f.claimed = t.claimed
      /\ SameRevisions(t, f) /\ f.retry = t.retry /\ f.steers = {}
  <2>1. "fail" \in Kinds
    BY DEF Kinds
  <2>. QED
    BY <1>0, <2>1, SettledRevisions
<1>2. \/ Superseded(f) /\ u = [f EXCEPT !.state = "queued"]
      \/ ~Superseded(f) /\ u = Advance(r, "failed")
      \/ ~Superseded(f) /\ ~(r.retry >= RetryLimit) /\ u = [r EXCEPT !.state = "queued"]
  BY Zenon DEF FinalizeFailure
<1> HIDE DEF f
<1>3. f.retry + 1 \in Nat
  BY <1>1 DEF TurnType
<1>4. /\ r \in TurnType /\ r.gen = f.gen /\ r.claimed = f.claimed /\ r.receipts = f.receipts
      /\ SameRevisions(f, r) /\ r.retry = f.retry + 1 /\ r.steers = f.steers
  BY Zenon, <1>1, <1>3 DEF TurnType, SameRevisions
<1> HIDE DEF r
<1>5. /\ SameRevisions(t, r) /\ Recorded(t, r, "fail") /\ (Superseded(f) <=> Superseded(t))
  BY <1>1, <1>4 DEF SameRevisions, Recorded, Superseded
<1>6. CASE Superseded(f) /\ u = [f EXCEPT !.state = "queued"]
  <2>1. /\ u.state = "queued" /\ u.gen = f.gen /\ u.claimed = f.claimed /\ u.receipts = f.receipts
        /\ SameRevisions(f, u) /\ u.retry = f.retry
    BY <1>1, <1>6 DEF TurnType, SameRevisions
  <2>. QED
    BY Zenon, <1>0, <1>1, <1>5, <1>6, <2>1, SettledMoves DEF Kinds
<1>7. CASE ~Superseded(f) /\ u = Advance(r, "failed")
  BY <1>0, <1>1, <1>4, <1>5, <1>7, SettledMoves DEF Kinds
<1>8. CASE ~Superseded(f) /\ ~(r.retry >= RetryLimit) /\ u = [r EXCEPT !.state = "queued"]
  <2>1. /\ u.state = "queued" /\ u.gen = r.gen /\ u.claimed = r.claimed /\ u.receipts = r.receipts
        /\ SameRevisions(r, u) /\ u.retry = r.retry
    BY <1>4, <1>8 DEF TurnType, SameRevisions
  <2>2. u.retry = t.retry + 1 /\ u.retry < RetryLimit
    BY <1>1, <1>3, <1>4, <1>8, <2>1, RetryLimitAssumption
  <2>. QED
    BY Zenon, <1>0, <1>1, <1>4, <1>5, <1>8, <2>1, <2>2, SettledMoves DEF Kinds
<1>. QED
  BY SMTT(30), <1>2, <1>6, <1>7, <1>8

\* A lost heartbeat counts one attempt without a receipt, unless a newer
\* revision or a promoted steer waits.
LEMMA LapseLeaseMoves ==
  ASSUME NEW t, Live(t), NEW u, u = LapseLease(t)
  PROVE  Moved(t, u, "lost")
<1> DEFINE owed == OwedSteers(t, t.gen) # {}
           p == PromoteSteers(t, t.gen)
           n == IF Superseded(p) THEN p.retry ELSE p.retry + 1
           r == [p EXCEPT !.retry = n, !.gen = p.gen + 1]
           q == [r EXCEPT !.state = "queued"]
           z == [q EXCEPT !.retry = 0]
<1>0. /\ t \in TurnType /\ t.state = "leased" /\ t.claimed <= t.pending /\ t.gen \in Nat
      /\ \A s \in t.steers : s.gen <= t.gen
  BY DEF Live, LeasesOK, TurnType
<1>1. /\ p \in TurnType /\ SameLease(t, p) /\ SameRevisions(t, p) /\ p.retry = t.retry
      /\ p.fifo = t.fifo \cup {[seq |-> s.seq, queued |-> FALSE] : s \in OwedSteers(t, t.gen)}
  BY <1>0, PromoteSteersFields DEF SameRevisions
<1>2. p.steers = {} /\ (owed => p.fifo # {})
  BY ZenonT(40), <1>0, <1>1, NoSteerOutlivesItsLease
<1>3. \/ owed /\ Superseded(z) /\ u = z
      \/ owed /\ ~Superseded(z) /\ u = ApplyNextFollowUp(z)
      \/ ~Superseded(r) /\ u = Advance(r, "failed")
      \/ (Superseded(r) \/ ~(r.retry >= RetryLimit)) /\ u = q
  BY Zenon DEF LapseLease
<1> HIDE DEF p, owed
<1>4. n \in Nat /\ p.gen + 1 \in Nat
  BY <1>1 DEF TurnType
<1>5. /\ Superseded(p) <=> Superseded(t)
      /\ n = IF Superseded(t) THEN t.retry ELSE t.retry + 1
  BY <1>1 DEF Superseded, SameLease, SameRevisions
<1> HIDE DEF n
<1>6. /\ r \in TurnType /\ r.gen = t.gen + 1 /\ r.claimed = t.claimed /\ r.receipts = t.receipts
      /\ SameRevisions(t, r) /\ r.retry = n /\ r.steers = {} /\ r.fifo = p.fifo
  BY Zenon, <1>1, <1>2, <1>4 DEF TurnType, SameRevisions, SameLease
<1> HIDE DEF r
<1>7. /\ q \in TurnType /\ q.gen = t.gen + 1 /\ q.claimed = t.claimed /\ q.receipts = t.receipts
      /\ SameRevisions(t, q) /\ q.retry = n /\ q.steers = {} /\ q.fifo = p.fifo /\ q.state = "queued"
  BY Zenon, <1>6 DEF TurnType, SameRevisions, States
<1> HIDE DEF q
<1>8. /\ z \in TurnType /\ z.gen = t.gen + 1 /\ z.claimed = t.claimed /\ z.receipts = t.receipts
      /\ SameRevisions(t, z) /\ z.retry = 0 /\ z.steers = {} /\ z.fifo = p.fifo /\ z.state = "queued"
  BY Zenon, <1>7 DEF TurnType, SameRevisions, States
<1> HIDE DEF z
<1>9. (Superseded(r) <=> Superseded(t)) /\ (Superseded(z) <=> Superseded(t))
  BY <1>6, <1>8 DEF Superseded, SameRevisions
<1>10. CASE owed /\ Superseded(z) /\ u = z
  <2>1. SameRevisions(z, u)
    BY SMTT(30), <1>10 DEF SameRevisions
  <2>. QED
    BY <1>0, <1>8, <1>9, <1>10, <2>1, SettledMoves
<1>11. CASE owed /\ ~Superseded(z) /\ u = ApplyNextFollowUp(z)
  BY SMTT(30), <1>0, <1>2, <1>8, <1>9, <1>11, SettledMoves
<1>12. CASE ~Superseded(r) /\ u = Advance(r, "failed")
  BY <1>0, <1>5, <1>6, <1>9, <1>12, SettledMoves
<1>13. CASE (Superseded(r) \/ ~(r.retry >= RetryLimit)) /\ u = q
  <2>1. SameRevisions(q, u)
    BY SMTT(30), <1>13 DEF SameRevisions
  <2>2. CASE Superseded(r)
    BY SMTT(30), <1>0, <1>5, <1>7, <1>9, <1>13, <2>1, <2>2, SettledMoves
  <2>3. CASE ~Superseded(r) /\ ~(r.retry >= RetryLimit)
    <3>1. u.retry = t.retry + 1 /\ u.retry < RetryLimit
      BY SMTT(30), <1>4, <1>5, <1>6, <1>7, <1>9, <1>13, <2>3, RetryLimitAssumption
    <3>. QED
      BY SMTT(30), <1>0, <1>7, <1>9, <1>13, <2>1, <2>3, <3>1, SettledMoves
  <2>. QED
    BY <1>13, <2>2, <2>3
<1>. QED
  BY SMTT(30), <1>3, <1>10, <1>11, <1>12, <1>13

\* Whatever expires a due lease moves the turn so.
LEMMA ExpireLeaseMoves ==
  ASSUME NEW t, Live(t), LeaseDue(t), NEW u, u = ExpireLease(t)
  PROVE  Moved(t, u, "fail") \/ Moved(t, u, "lost")
<1>1. u = FailClosed(t, TRUE) \/ u = LapseLease(t)
  BY Zenon DEF ExpireLease
<1>. QED
  BY Zenon, <1>1, FailClosedMoves, LapseLeaseMoves

\* Fail by the holder moves the turn so.
LEMMA FailLeaseMoves ==
  ASSUME NEW t, Live(t), NEW u, u = FailLease(t)
  PROVE  Moved(t, u, "fail")
<1>1. u = FailClosed(t, FALSE) \/ u = FinalizeFailure(t)
  BY Zenon DEF FailLease
<1>. QED
  BY Zenon, <1>1, FailClosedMoves, FinalizeFailureMoves

\* An accepted completion leaves the attempt count alone.
LEMMA CompleteLeaseMoves ==
  ASSUME NEW t, Live(t), NEW acks, acks \subseteq SteerPrompts(t),
         NEW u, u = CompleteLease(t, acks)
  PROVE  Moved(t, u, "complete")
<1> DEFINE a == AckSteers(t, acks)
           p == PromoteSteers(WithReceipt(a, "complete"), t.gen)
<1>0. t \in TurnType /\ t.state = "leased" /\ t.claimed <= t.pending /\ \A s \in t.steers : s.gen <= t.gen
  BY DEF Live, LeasesOK
<1>1. /\ a \in TurnType /\ SameLease(t, a) /\ SameRevisions(t, a) /\ a.retry = t.retry
      /\ a.steers = {s \in t.steers : s.seq \notin acks}
  BY <1>0, AckSteersFields DEF SameRevisions
<1>2. u = IF Superseded(p) THEN [p EXCEPT !.state = "queued"] ELSE Advance(p, "completed")
  BY DEF CompleteLease
<1>3. p = PromoteSteers(WithReceipt(a, "complete"), a.gen)
  BY <1>1 DEF SameLease
<1>4. \A s \in a.steers : s.gen <= a.gen
  BY <1>0, <1>1 DEF SameLease
<1> HIDE DEF a, p
<1>5. /\ p \in TurnType /\ Recorded(a, p, "complete") /\ p.gen = a.gen /\ p.claimed = a.claimed
      /\ SameRevisions(a, p) /\ p.retry = a.retry /\ p.steers = {}
  BY <1>1, <1>3, <1>4, SettledRevisions DEF Kinds
<1>6. /\ Recorded(t, p, "complete") /\ p.gen = t.gen /\ p.claimed = t.claimed
      /\ SameRevisions(t, p) /\ p.retry = t.retry
  BY <1>1, <1>5 DEF Recorded, SameLease, SameRevisions
<1>7. Superseded(p) <=> Superseded(t)
  BY SMTT(30), <1>6 DEF Superseded, SameRevisions
<1>8. CASE Superseded(p)
  <2>1. /\ u.state = "queued" /\ u.gen = p.gen /\ u.claimed = p.claimed /\ u.receipts = p.receipts
        /\ SameRevisions(p, u) /\ u.retry = p.retry
    BY <1>2, <1>5, <1>8 DEF TurnType, SameRevisions
  <2>. QED
    BY <1>0, <1>5, <1>6, <2>1, SettledMoves DEF Kinds
<1>9. CASE ~Superseded(p)
  BY <1>0, <1>2, <1>5, <1>6, <1>7, <1>9, SettledMoves DEF Kinds
<1>. QED
  BY <1>8, <1>9

\* Cancelling a leased turn.
LEMMA CancelLeasedMoves ==
  ASSUME NEW t, Live(t), NEW u, u = CancelLeased(t)
  PROVE  Moved(t, u, "cancelled")
<1> DEFINE owed == OwedSteers(t, t.gen) # {}
           c == PromoteSteers(WithReceipt(t, "cancelled"), t.gen)
           z == [c EXCEPT !.state = "queued", !.retry = 0]
<1>0. t \in TurnType /\ t.state = "leased" /\ t.claimed <= t.pending /\ \A s \in t.steers : s.gen <= t.gen
  BY SMTT(30) DEF Live, LeasesOK
<1>1. /\ c \in TurnType /\ Recorded(t, c, "cancelled") /\ c.gen = t.gen /\ c.claimed = t.claimed
      /\ SameRevisions(t, c) /\ c.retry = t.retry /\ c.steers = {} /\ (owed => c.fifo # {})
  BY ZenonT(40), <1>0, SettledRevisions DEF Kinds
<1>2. \/ \E st \in {"queued", "failed"} : u = [c EXCEPT !.state = st]
      \/ owed /\ ~Superseded(c) /\ u = ApplyNextFollowUp(z)
  BY Zenon DEF CancelLeased
<1> HIDE DEF c, owed
<1>3. /\ z \in TurnType /\ z.gen = c.gen /\ z.claimed = c.claimed /\ z.receipts = c.receipts
      /\ SameRevisions(c, z) /\ z.steers = c.steers /\ z.fifo = c.fifo /\ z.state = "queued"
  BY Zenon, <1>1 DEF TurnType, SameRevisions, States
<1> HIDE DEF z
<1>4. /\ Recorded(t, z, "cancelled") /\ SameRevisions(t, z) /\ (Superseded(c) <=> Superseded(t))
  BY <1>1, <1>3 DEF Recorded, SameRevisions, Superseded
<1>5. ASSUME NEW st \in {"queued", "failed"}, u = [c EXCEPT !.state = st]
      PROVE  Moved(t, u, "cancelled")
  <2>1. /\ u.state = st /\ u.gen = c.gen /\ u.claimed = c.claimed /\ u.receipts = c.receipts
        /\ SameRevisions(c, u) /\ u.retry = c.retry
    BY SMTT(30), <1>1, <1>5 DEF TurnType, SameRevisions
  <2>. QED
    BY <1>0, <1>1, <2>1, SettledMoves DEF Kinds
<1>6. CASE owed /\ ~Superseded(c) /\ u = ApplyNextFollowUp(z)
  BY <1>0, <1>1, <1>3, <1>4, <1>6, SettledMoves DEF Kinds
<1>. QED
  BY <1>2, <1>5, <1>6

\* The halt's fence on a live lease.
LEMMA HaltLeasedTurnMoves ==
  ASSUME NEW t, Live(t), NEW u, u = HaltLeasedTurn(t)
  PROVE  Moved(t, u, "halted")
<1> DEFINE owed == OwedSteers(t, t.gen) # {}
           h == PromoteSteers(WithReceipt(t, "halted"), t.gen)
           n == IF owed THEN 0 ELSE h.retry
           g == h.gen + 1
           q == [h EXCEPT !.gen = g, !.state = "queued", !.retry = n]
<1>0. t \in TurnType /\ t.state = "leased" /\ t.claimed <= t.pending /\ \A s \in t.steers : s.gen <= t.gen
  BY SMTT(30) DEF Live, LeasesOK
<1>1. /\ h \in TurnType /\ Recorded(t, h, "halted") /\ h.gen = t.gen /\ h.claimed = t.claimed
      /\ SameRevisions(t, h) /\ h.retry = t.retry /\ h.steers = {} /\ (owed => h.fifo # {})
  BY ZenonT(40), <1>0, SettledRevisions DEF Kinds
<1>2. u = IF owed /\ ~Superseded(q) THEN ApplyNextFollowUp(q) ELSE q
  BY <1>0 DEF HaltLeasedTurn
<1> HIDE DEF h
<1>3. g \in Nat /\ g = t.gen + 1 /\ n \in Nat /\ n = IF owed THEN 0 ELSE t.retry
  BY <1>1 DEF TurnType
<1> HIDE DEF n, g, owed
<1>4. /\ q \in TurnType /\ q.gen = g /\ q.claimed = h.claimed /\ q.receipts = h.receipts
      /\ SameRevisions(h, q) /\ q.steers = h.steers /\ q.fifo = h.fifo /\ q.state = "queued"
      /\ q.retry = n
  BY Zenon, <1>1, <1>3 DEF TurnType, SameRevisions, States
<1> HIDE DEF q
<1>5. /\ Recorded(t, q, "halted") /\ SameRevisions(t, q) /\ (Superseded(q) <=> Superseded(t))
      /\ SameRevisions(q, q)
  BY SMTT(30), <1>1, <1>4 DEF Recorded, SameRevisions, Superseded
<1>6. CASE owed /\ ~Superseded(q)
  BY SMTT(30), <1>0, <1>1, <1>2, <1>3, <1>4, <1>5, <1>6, SettledMoves DEF Kinds
<1>7. CASE ~(owed /\ ~Superseded(q))
  BY <1>0, <1>1, <1>2, <1>3, <1>4, <1>5, <1>7, SettledMoves DEF Kinds
<1>. QED
  BY SMTT(30), <1>6, <1>7

\* The lease, the revisions and the attempts stay as they are.
LEMMA UntouchedMoves ==
  ASSUME NEW t, NEW u, SameLease(t, u), SameRevisions(t, u), u.retry = t.retry,
         Resting(t) => Resting(u)
  PROVE  Moved(t, u, "kept")
BY DEF Moved, LeaseStep, RevisionStep, SameLease

\* A clock that runs out, a heartbeat and a stored steer touch neither the
\* revisions nor the attempts.
LEMMA ClockMoves ==
  ASSUME NEW t \in TurnType, t.state = "leased",
         NEW u, u = [t EXCEPT !.lapsed = TRUE] \/ u = [t EXCEPT !.overdue = TRUE]
                \/ u = [t EXCEPT !.lapsed = FALSE]
  PROVE  Moved(t, u, "kept")
<1>1. SameLease(t, u) /\ SameRevisions(t, u) /\ u.retry = t.retry
  BY DEF TurnType, SameLease, SameRevisions
<1>. QED
  BY <1>1, UntouchedMoves DEF Resting

\* A heartbeat keeps the lease.
LEMMA RenewLeaseMoves ==
  ASSUME NEW t \in TurnType, t.state = "leased", NEW ids, NEW u, u = RenewLease(t, ids)
  PROVE  Moved(t, u, "kept")
<1> DEFINE a == [t EXCEPT !.lapsed = FALSE]
           ra == {[s EXCEPT !.received = @ \/ s.seq \in ids] : s \in a.steers}
           b == [a EXCEPT !.steers = ra]
           rb == {[s EXCEPT !.offered = @ \/ (/\ s \in UnreceivedSteers(b, t.gen)
                                  /\ \A x \in UnreceivedSteers(b, t.gen) : s.seq <= x.seq)] :
                    s \in b.steers}
<1>1. u = [b EXCEPT !.steers = rb]
  BY DEF RenewLease, NextSteer, ReceiveSteers
<1> HIDE DEF ra, rb
<1>2. SameLease(t, u) /\ SameRevisions(t, u) /\ u.retry = t.retry
  BY <1>1 DEF TurnType, SameLease, SameRevisions
<1>. QED
  BY <1>2, UntouchedMoves DEF Resting

\* A steer sent to a running turn keeps the lease.
LEMMA EnqueueSteerMoves ==
  ASSUME NEW t \in TurnType, t.state = "leased", NEW u, u = EnqueueSteer(t)
  PROVE  Moved(t, u, "kept")
<1>1. SameLease(t, u) /\ SameRevisions(t, u) /\ u.retry = t.retry
  BY DEF EnqueueSteer, TurnType, SameLease, SameRevisions
<1>. QED
  BY <1>1, UntouchedMoves DEF Resting

\* A lease handed back, or cleared in a restored copy, is lost without a count.
LEMMA ClearedMoves ==
  ASSUME NEW t \in TurnType, t.state = "leased",
         NEW u, u = RequeueBusy(t) \/ u = SanitizeRestored(t)
  PROVE  Moved(t, u, "lost")
<1>1. /\ u.state = "queued" /\ u.gen = t.gen /\ u.claimed = t.claimed /\ u.receipts = t.receipts
      /\ SameRevisions(t, u) /\ u.retry = t.retry
  BY ZenonT(40) DEF RequeueBusy, SanitizeRestored, TurnType, SameRevisions
<1>. QED
  BY <1>1 DEF Moved, LeaseStep, RevisionStep, Resting

\* Dropping the queued prompts leaves the rest of the turn alone.
LEMMA ConsumeQueuedMoves ==
  ASSUME NEW t \in TurnType, NEW u, u = ConsumeQueued(t)
  PROVE  /\ u \in TurnType /\ SameLease(t, u) /\ SameRevisions(t, u) /\ u.retry = t.retry
         /\ u.steers = t.steers /\ (Resting(t) => Resting(u))
<1>1. /\ u \in TurnType /\ SameLease(t, u) /\ u.fifo = t.fifo \ QueuedPrompts(t)
      /\ SameRevisions(t, u) /\ u.retry = t.retry /\ u.steers = t.steers
  BY ConsumeQueuedFields DEF SameRevisions
<1>. QED
  BY <1>1 DEF Resting, Superseded, SameLease, SameRevisions

\* cancelTurnTx: only a live lease leaves a receipt.
LEMMA CancelTurnMoves ==
  ASSUME NEW t, Sound(t), NEW u, u = CancelTurn(t)
  PROVE  Moved(t, u, "kept") \/ Moved(t, u, "cancelled")
<1>1. CASE t.state = "queued"
  <2>1. /\ u.state = "failed" /\ u.gen = t.gen /\ u.claimed = t.claimed /\ u.receipts = t.receipts
        /\ SameRevisions(t, u) /\ u.retry = t.retry
    BY <1>1 DEF CancelTurn, Sound, TurnType, SameRevisions
  <2>. QED
    BY <1>1, <2>1 DEF Moved, LeaseStep, RevisionStep, Resting
<1>2. CASE t.state = "leased"
  <2>1. Live(t) /\ u = CancelLeased(t)
    BY <1>2 DEF CancelTurn, Live, Sound
  <2>. QED
    BY <2>1, CancelLeasedMoves
<1>3. CASE t.state \notin {"queued", "leased"}
  <2>1. u = t
    BY <1>3 DEF CancelTurn
  <2>. QED
    BY <2>1, UntouchedMoves DEF SameLease, SameRevisions
<1>. QED
  BY <1>1, <1>2, <1>3

\* Cancelling the session ends the lease as cancelled, or finds none.
LEMMA CancelSessionMoves ==
  ASSUME NEW t, Sound(t), NEW u, u = CancelSession(t)
  PROVE  Moved(t, u, "kept") \/ Moved(t, u, "cancelled")
<1> DEFINE c == ConsumeQueued(t)
<1>1. Sound(c)
  BY ConsumeQueuedSound
<1>2. SameLease(t, c) /\ SameRevisions(t, c) /\ c.retry = t.retry /\ (Resting(t) => Resting(c))
  BY ConsumeQueuedMoves DEF Sound
<1>3. u = CancelTurn(c)
  BY DEF CancelSession
<1> HIDE DEF c
<1>4. Moved(c, u, "kept") \/ Moved(c, u, "cancelled")
  BY <1>1, <1>3, CancelTurnMoves
<1>. QED
  BY <1>2, <1>4, MovedFrom

\* The last step of an archive fails what cancelTurnTx left queued.
LEMMA FailArchivedTurnMoves ==
  ASSUME NEW t, Sound(t), NEW u, u = FailArchivedTurn(t)
  PROVE  Moved(t, u, "kept") \/ Moved(t, u, "cancelled")
<1> DEFINE c == CancelTurn(t)
<1>1. Sound(c) /\ c.state # "leased"
  BY CancelTurnSound
<1>2. PICK k \in {"kept", "cancelled"} : Moved(t, c, k)
  BY CancelTurnMoves
<1>3. u = [c EXCEPT !.state = IF c.state = "queued" THEN "failed" ELSE c.state]
  BY DEF FailArchivedTurn
<1> HIDE DEF c
<1>4. CASE c.state = "queued"
  <2>1. u = [c EXCEPT !.state = "failed"]
    BY <1>3, <1>4
  <2>2. /\ u.state = "failed" /\ u.gen = c.gen /\ u.claimed = c.claimed /\ u.receipts = c.receipts
        /\ SameRevisions(c, u) /\ u.retry = c.retry
    BY <1>1, <2>1 DEF Sound, TurnType, SameRevisions
  <2>3. ~Resting(c)
    BY <1>4 DEF Resting
  <2>4. LeaseStep(t, u, k)
    BY <1>1, <1>2, <2>2 DEF Moved, LeaseStep, Recorded
  <2>5. RevisionStep(t, u, k)
    BY SMTT(30), <1>2, <2>2, <2>3 DEF Moved, RevisionStep, SameRevisions, Followed, NewRevision
  <2>. QED
    BY <2>4, <2>5 DEF Moved
<1>5. CASE c.state # "queued"
  <2>1. u = c
    BY <1>1, <1>3, <1>5 DEF Sound, TurnType
  <2>. QED
    BY <1>2, <2>1
<1>. QED
  BY <1>4, <1>5

\* The promotion of a follow-up, and the requeue after it.
LEMMA PromotedMoves ==
  ASSUME NEW t \in TurnType, NEW e \in TurnType, PromptsOK(e), SameLease(t, e), SameRevisions(t, e),
         e.retry = t.retry, Resting(t) => MayPromote(e),
         NEW p, p = PromoteFollowUp(e), NEW u, u = Requeue(p)
  PROVE  Moved(t, u, "kept")
<1>1. p \in TurnType /\ PromptsOK(p) /\ SameLease(e, p)
  BY PromoteFollowUpEffect
<1>2. /\ u.gen = p.gen /\ u.claimed = p.claimed /\ u.receipts = p.receipts
      /\ u.state = IF p.state = "leased" THEN "leased" ELSE "queued"
      /\ SameRevisions(p, u)
  BY <1>1, RequeueFields DEF SamePrompts, SameRevisions
<1>3. u.retry = p.retry
  BY <1>1 DEF Requeue, TurnType
<1>4. LeaseStep(t, u, "kept")
  BY <1>1, <1>2 DEF LeaseStep, SameLease
<1>5. CASE MayPromote(e)
  <2>1. p = ApplyFollowUp(e, FifoHead(e)) /\ e.fifo # {} /\ ~HasUnclaimedFollowUp(e)
    BY <1>5 DEF PromoteFollowUp, MayPromote
  <2>2. PICK x \in Prompts : NewRevision(e, p, x)
    BY SMTT(30), <2>1, ApplyHeadRevisions
  <2>3. NewRevision(t, u, x)
    BY SMTT(30), <1>2, <1>3, <2>2 DEF NewRevision, SameRevisions
  <2>4. ~HasUnclaimedFollowUp(t)
    BY <2>1 DEF HasUnclaimedFollowUp, SameLease, SameRevisions
  <2>. QED
    BY SMTT(30), <1>4, <2>3, <2>4 DEF Moved, RevisionStep, Followed
<1>6. CASE ~MayPromote(e)
  <2>1. p = e
    BY <1>6 DEF PromoteFollowUp
  <2>2. SameRevisions(t, u) /\ u.retry = t.retry
    BY SMTT(30), <1>2, <1>3, <2>1 DEF SameRevisions
  <2>. QED
    BY <1>4, <1>6, <2>2 DEF Moved, RevisionStep
<1>. QED
  BY <1>5, <1>6

\* A prompt stored behind nothing becomes the next revision at once; one stored
\* behind others leaves the revisions alone.
LEMMA EnqueuePromptMoves ==
  ASSUME NEW t, Sound(t), NEW q \in BOOLEAN, NEW u, u = EnqueuePrompt(t, q)
  PROVE  Moved(t, u, "kept")
<1> DEFINE e == EnqueueFollowUp(t, q)
           p == PromoteFollowUp(e)
<1>1. /\ e \in TurnType /\ PromptsOK(e) /\ SameLease(t, e)
      /\ e.fifo = t.fifo \cup {[seq |-> t.nextSeq, queued |-> q]}
      /\ e.steers = t.steers /\ e.pending = t.pending
  BY EnqueueFollowUpPrompts DEF Sound
<1>2. e.snap = t.snap /\ e.retry = t.retry
  BY DEF EnqueueFollowUp, Sound, TurnType
<1>3. u = Requeue(p)
  BY DEF EnqueuePrompt
<1> HIDE DEF e
<1>4. Resting(t) => MayPromote(e)
  <2> SUFFICES ASSUME Resting(t) PROVE MayPromote(e)
    OBVIOUS
  <2>1. ~HasUnclaimedFollowUp(t)
    BY NothingUnclaimed DEF Resting, Sound
  <2>2. ~HasUnclaimedFollowUp(e)
    BY <1>1, <2>1 DEF HasUnclaimedFollowUp, SameLease
  <2>3. e.fifo # {} /\ e.steers = {} /\ e.state \notin {"leased", "queued"}
    BY <1>1 DEF Resting, SameLease
  <2>. QED
    BY <2>2, <2>3 DEF MayPromote, EarlierSteer
<1> HIDE DEF p
<1>5. t \in TurnType /\ SameRevisions(t, e) /\ p = PromoteFollowUp(e)
  BY <1>1, <1>2 DEF Sound, SameRevisions, p
<1>. QED
  BY SMTT(30), <1>1, <1>2, <1>3, <1>4, <1>5, PromotedMoves

\* DropQueuedPrompts: a follow-up behind a dropped prompt may take its place.
LEMMA DropQueuedMoves ==
  ASSUME NEW t, Sound(t), NEW u, u = DropQueued(t)
  PROVE  Moved(t, u, "kept")
<1> DEFINE d == ConsumeQueued(t)
           p == PromoteFollowUp(d)
<1>1. /\ d \in TurnType /\ SameLease(t, d) /\ SameRevisions(t, d) /\ d.retry = t.retry
      /\ (Resting(t) => Resting(d))
  BY ConsumeQueuedMoves DEF Sound
<1>2. Sound(d)
  BY ConsumeQueuedSound
<1>3. u = t \/ u = d \/ (QueuedPrompts(t) # {} /\ u = Requeue(p))
  BY DEF DropQueued
<1> HIDE DEF d, p
<1>4. CASE u = t \/ u = d
  BY <1>1, <1>4, UntouchedMoves DEF SameLease, SameRevisions
<1>5. CASE QueuedPrompts(t) # {} /\ u = Requeue(p)
  <2>1. ~Resting(t)
    BY <1>5 DEF Resting, QueuedPrompts
  <2>2. t \in TurnType /\ PromptsOK(d) /\ p = PromoteFollowUp(d)
    BY <1>2 DEF Sound, p
  <2>. QED
    BY <1>1, <1>5, <2>1, <2>2, PromotedMoves
<1>. QED
  BY <1>3, <1>4, <1>5

\* An admitted change is the next revision and leaves a running lease alone.
LEMMA AdmitRevisionFields ==
  ASSUME NEW t, Sound(t), NEW u, u = AdmitRevision(t)
  PROVE  LeaseStep(t, u, "kept") /\ NewRevision(t, u, 0)
<1> DEFINE n == t.pending + 1
           ss == Append(t.snap, 0)
           st == IF t.state = "leased" THEN "leased" ELSE "queued"
<1>1. t \in TurnType /\ n \in Nat /\ ss \in Seq(Nat)
  BY DEF Sound, TurnType
<1>2. u = [t EXCEPT !.pending = n, !.snap = ss, !.retry = 0, !.state = st]
  BY Zenon, <1>1 DEF AdmitRevision, Requeue, TurnType
<1>3. st = "leased" <=> t.state = "leased"
  OBVIOUS
<1> HIDE DEF st
<1>4. /\ u.pending = n /\ u.snap = ss /\ u.retry = 0 /\ u.state = st
      /\ u.gen = t.gen /\ u.claimed = t.claimed /\ u.receipts = t.receipts
  BY <1>1, <1>2 DEF TurnType
<1>. QED
  BY <1>3, <1>4 DEF LeaseStep, NewRevision
=============================================================================
