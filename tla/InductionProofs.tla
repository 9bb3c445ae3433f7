-------------------------- MODULE InductionProofs --------------------------
(***************************************************************************)
(* Induction over intervals and sequences, for sets: what the proofs about *)
(* recursive functions rest on.  Each follows from a least counterexample. *)
(***************************************************************************)
EXTENDS Integers, Sequences, SequenceTheorems, WellFoundedInduction, TLAPS

(***************************************************************************)
(* A set of naturals that is not empty has a least element.                *)
(***************************************************************************)
LEMMA LeastNatural ==
  ASSUME NEW T, T \subseteq Nat, T # {}
  PROVE  \E m \in T : \A n \in T : m <= n
<1> DEFINE R == OpToRel(<, Nat)
<1>1. R = {ss \in Nat \X Nat : ss[1] < ss[2]}
  BY DEF OpToRel
<1>2. IsWellFoundedOn(R, Nat)
  BY NatLessThanWellFounded
<1> HIDE DEF R
<1>3. PICK m \in T : \A n \in T : ~(<<n, m>> \in R)
  BY <1>2, WFMin
<1>4. \A n \in T : ~(n < m)
  BY <1>1, <1>3
<1> QED BY <1>4

(***************************************************************************)
(* Induction over an interval and over sequences, for sets.                *)
(***************************************************************************)
LEMMA IntervalInduction ==
  ASSUME NEW N \in Nat, NEW T, 0 \in T, \A i \in 1..N : i - 1 \in T => i \in T
  PROVE  \A i \in 0..N : i \in T
<1> SUFFICES ASSUME (0..N) \ T # {} PROVE FALSE
  OBVIOUS
<1>1. PICK m \in (0..N) \ T : \A n \in (0..N) \ T : m <= n
  <2>1. (0..N) \ T \subseteq Nat
    OBVIOUS
  <2> QED BY <2>1, LeastNatural
<1>2. m \in 1..N /\ m - 1 \in 0..N
  BY <1>1
<1>3. m - 1 \in T
  BY <1>1, <1>2
<1> QED BY <1>1, <1>2, <1>3

LEMMA SeqInduction ==
  ASSUME NEW W, NEW K, <<>> \in K, \A j \in Seq(W), w \in W : j \in K => Append(j, w) \in K
  PROVE  Seq(W) \subseteq K
<1> SUFFICES ASSUME NEW q \in Seq(W) PROVE q \in K
  OBVIOUS
<1> DEFINE T == {n \in 0..Len(q) : SubSeq(q, 1, n) \in K}
<1>1. Len(q) \in Nat /\ \A i \in 1..Len(q) : q[i] \in W
  BY LenProperties, ElementOfSeq
<1>2. 0 \in T
  <2>1. SubSeq(q, 1, 0) = <<>>
    BY <1>1
  <2>2. SubSeq(q, 1, 0) \in K
    BY <2>1
  <2>3. 0 \in 0..Len(q)
    BY <1>1
  <2> QED BY <2>2, <2>3, Zenon
<1>3. \A i \in 1..Len(q) : i - 1 \in T => i \in T
  <2> SUFFICES ASSUME NEW i \in 1..Len(q), SubSeq(q, 1, i - 1) \in K
               PROVE  SubSeq(q, 1, i) \in K
    BY <1>1
  <2>1. SubSeq(q, 1, i - 1) \in Seq(W)
    BY <1>1, SubSeqProperties
  <2>2. SubSeq(q, 1, i) = Append(SubSeq(q, 1, i - 1), q[i])
    BY <1>1
  <2> QED BY <1>1, <2>1, <2>2
<1>4. Len(q) \in T
  <2> HIDE DEF T
  <2>1. \A i \in 0..Len(q) : i \in T
    BY <1>1, <1>2, <1>3, IntervalInduction
  <2> QED BY <1>1, <2>1
<1>5. SubSeq(q, 1, Len(q)) = q
  BY <1>1
<1> QED BY <1>4, <1>5
=============================================================================
