---------------------------- MODULE WsLogProofs -----------------------------
(***************************************************************************)
(* What TLAPS proves of the rules of the workspace log, for all devices,   *)
(* invitations and logs: the prefix that verify_chain is to accept exists  *)
(* and is the only one, and entries built on it are entries.               *)
(***************************************************************************)
EXTENDS WsLog, SequenceTheorems, FiniteSetTheorems, WellFoundedInduction, TLAPS

\* A nonempty set of natural numbers has a least element.
LEMMA LeastOfNats ==
    ASSUME NEW T, T \subseteq Nat, T # {}
    PROVE  \E m \in T : \A n \in T : m <= n
  <1>1. PICK m \in T : \A n \in T : ~ (<<n, m>> \in OpToRel(<, Nat))
    BY NatLessThanWellFounded, WFMin
  <1>2. \A n \in T : n \in Nat /\ m \in Nat
    OBVIOUS
  <1>3. \A n \in T : ~(n < m)
    BY <1>1, <1>2, Zenon DEF OpToRel
  <1> QED
    BY <1>2, <1>3

\* What verify_chain accepts fits, and is not followed by an entry that fits.
LEMMA AcceptedFits ==
    ASSUME NEW l \in Seq(Entry), l # <<>>
    PROVE  /\ Accepted(l) \in 1 .. Len(l)
           /\ \A i \in 2 .. Accepted(l) : Fits(l, i)
           /\ Accepted(l) < Len(l) => ~Fits(l, Accepted(l) + 1)
  <1> DEFINE Misfits == {i \in 2 .. Len(l) : ~Fits(l, i)}
             Longest(n) == /\ \A i \in 2 .. n : Fits(l, i)
                           /\ n < Len(l) => ~Fits(l, n + 1)
  <1>0. Len(l) \in Nat /\ Len(l) >= 1
    BY EmptySeq
  <1>1. CASE Misfits = {}
    <2>1. Len(l) \in 1 .. Len(l) /\ Longest(Len(l))
      BY <1>0, <1>1
    <2> QED
      BY <2>1 DEF Accepted
  <1>2. CASE Misfits # {}
    <2>1. Misfits \subseteq Nat
      BY <1>0
    <2>2. PICK m \in Misfits : \A n \in Misfits : m <= n
      BY <1>2, <2>1, LeastOfNats
    <2>3. m - 1 \in 1 .. Len(l) /\ m \in 2 .. Len(l) /\ (m - 1) + 1 = m
      BY <1>0, <2>2
    <2>4. \A i \in 2 .. (m - 1) : Fits(l, i)
      BY <1>0, <2>2, <2>3
    <2>5. Longest(m - 1)
      BY <2>2, <2>3, <2>4
    <2> QED
      BY <2>3, <2>5 DEF Accepted
  <1> QED
    BY <1>1, <1>2

\* The rules leave verify_chain no choice: a prefix that fits and is not followed
\* by an entry that fits is the one accepted, so all verifiers of a log agree.
THEOREM AcceptedUnique ==
    ASSUME NEW l \in Seq(Entry), l # <<>>,
           NEW n \in 1 .. Len(l),
           \A i \in 2 .. n : Fits(l, i),
           n < Len(l) => ~Fits(l, n + 1)
    PROVE  n = Accepted(l)
  <1>1. /\ Accepted(l) \in 1 .. Len(l)
        /\ \A i \in 2 .. Accepted(l) : Fits(l, i)
        /\ Accepted(l) < Len(l) => ~Fits(l, Accepted(l) + 1)
    BY AcceptedFits
  <1>2. Len(l) \in Nat
    BY LenProperties
  <1>3. ~(n < Accepted(l))
    BY <1>1, <1>2
  <1>4. ~(Accepted(l) < n)
    BY <1>1, <1>2
  <1> QED
    BY <1>1, <1>2, <1>3, <1>4

\* The epoch of a log is a natural number.
LEMMA EpochType ==
    ASSUME NEW l, NEW n \in Nat
    PROVE  EpochAfter(l, n) \in Nat
  <1>1. IsFiniteSet(1 .. n)
    BY FS_Interval
  <1>2. {j \in 1 .. n : l[j].body.type = "epoch"} \in SUBSET (1 .. n)
    OBVIOUS
  <1>3. IsFiniteSet({j \in 1 .. n : l[j].body.type = "epoch"})
    BY <1>1, <1>2, FS_Subset
  <1> QED
    BY <1>3, FS_CardinalityType DEF EpochAfter

\* An entry built on a log is one.
LEMMA BuildType ==
    ASSUME NEW l \in Seq(Entry), l # <<>>, NEW b \in Body
    PROVE  /\ BuildOn(l, b) \in Entry
           /\ MembersOf(l) \subseteq Device
           /\ EpochOf(l) \in Nat
  <1>1. Accepted(l) \in 1 .. Len(l) /\ Len(l) \in Nat
    BY AcceptedFits, EmptySeq
  <1>2. l[Accepted(l)] \in Entry
    BY <1>1, ElementOfSeq
  <1>3. HeadOf(l) \in Seq(Body)
    BY <1>2 DEF HeadOf, Hash, Entry
  <1>4. EpochOf(l) \in Nat
    BY <1>1, EpochType DEF EpochOf
  <1> QED
    BY <1>3, <1>4 DEF BuildOn, Entry, MembersOf, MembersAfter

\* The bodies that devices make are bodies.
LEMMA BodyType ==
    ASSUME NEW d \in Device
    PROVE  /\ \A s \in Device, g \in Grant : AddBody(d, s, g) \in Body
           /\ \A t \in Device : RemoveBody(d, t) \in Body
           /\ \A n \in Nat, S \in SUBSET Device : EpochBody(d, n, S) \in Body
  BY DEF AddBody, RemoveBody, EpochBody, Body
=============================================================================
