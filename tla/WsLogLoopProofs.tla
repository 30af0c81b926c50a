-------------------------- MODULE WsLogLoopProofs --------------------------
(***************************************************************************)
(* What TLAPS proves of WsLogLoop: whatever log it is given, of whatever   *)
(* length, the loop of verify_chain accepts the prefix that the rules say, *)
(* and derives the members, the epoch and the head from it.  The loop is a *)
(* recursion over the log; what holds after each of its turns is shown of  *)
(* the first turn after which it would not hold.                           *)
(***************************************************************************)
EXTENDS WsLogLoop, WsLogProofs

-----------------------------------------------------------------------------
(* The loop has a result.                                                  *)

\* f is what the loop has after each of its first n turns.
Runs(f, l, n) ==
    /\ f[1] = Start(l[1])
    /\ \A k \in 2 .. n : f[k] = Turn(f[k - 1], l[k])

\* The loop can run over a log of any length.
LEMMA LoopRuns ==
    ASSUME NEW l, Len(l) \in Nat
    PROVE  \A n \in 1 .. Len(l) : \E f : Runs(f, l, n)
  <1> DEFINE Stuck == {n \in 1 .. Len(l) : ~ \E f : Runs(f, l, n)}
  <1>1. SUFFICES ASSUME Stuck # {}
                 PROVE  FALSE
    OBVIOUS
  <1>2. PICK m \in Stuck : \A n \in Stuck : m <= n
    <2>1. Stuck \subseteq Nat
      OBVIOUS
    <2> HIDE DEF Stuck
    <2> QED
      BY <1>1, <2>1, LeastOfNats
  <1>3. m \in 1 .. Len(l) /\ ~ \E f : Runs(f, l, m)
    OBVIOUS
  <1>4. m # 1
    <2>1. Runs([k \in {1} |-> Start(l[1])], l, 1)
      BY DEF Runs
    <2> QED
      BY <1>3, <2>1
  <1>5. PICK g : Runs(g, l, m - 1)
    <2>1. m - 1 \in 1 .. Len(l) /\ ~(m <= m - 1)
      BY <1>3, <1>4
    <2> QED
      BY <1>2, <2>1
  <1> DEFINE h == [k \in 1 .. m |-> IF k = m THEN Turn(g[m - 1], l[m]) ELSE g[k]]
  <1>6. Runs(h, l, m)
    <2>1. h[1] = Start(l[1])
      BY <1>3, <1>4, <1>5 DEF Runs
    <2>2. ASSUME NEW k \in 2 .. m
          PROVE  h[k] = Turn(h[k - 1], l[k])
      <3>1. k - 1 \in 1 .. m /\ k - 1 # m /\ h[k - 1] = g[k - 1]
        BY <1>3
      <3>2. CASE k = m
        BY <1>3, <3>1, <3>2
      <3>3. CASE k # m
        <4>1. k \in 2 .. m - 1 /\ h[k] = g[k]
          BY <1>3, <3>3
        <4> QED
          BY <1>5, <3>1, <4>1 DEF Runs
      <3> QED
        BY <3>2, <3>3
    <2> HIDE DEF h
    <2> QED
      BY <2>1, <2>2 DEF Runs
  <1> QED
    BY <1>3, <1>6

\* verify_chain answers with what the loop has after its last turn.
LEMMA LoopResult ==
    ASSUME NEW l, Len(l) \in Nat, Len(l) >= 1
    PROVE  \E f : Runs(f, l, Len(l)) /\ VerifyChain(l) = f[Len(l)]
  <1> DEFINE Step(f) == [n \in 1 .. Len(l) |->
                            IF n = 1 THEN Start(l[1]) ELSE Turn(f[n - 1], l[n])]
             after == CHOOSE f : f = Step(f)
  <1>1. PICK g : Runs(g, l, Len(l))
    BY LoopRuns
  <1> DEFINE h == [n \in 1 .. Len(l) |-> g[n]]
  <1>2. h = Step(h)
    <2>1. ASSUME NEW n \in 1 .. Len(l)
          PROVE  h[n] = IF n = 1 THEN Start(l[1]) ELSE Turn(h[n - 1], l[n])
      <3>1. CASE n = 1
        BY <1>1, <3>1 DEF Runs
      <3>2. CASE n # 1
        <4>1. n \in 2 .. Len(l) /\ n - 1 \in 1 .. Len(l) /\ h[n - 1] = g[n - 1]
          BY <3>2
        <4> QED
          BY <1>1, <4>1 DEF Runs
      <3> QED
        BY <3>1, <3>2
    <2> QED
      BY <2>1
  <1>3. after = Step(after)
    BY <1>2
  <1>4. Runs(after, l, Len(l))
    <2>1. \A n \in 1 .. Len(l) :
              after[n] = IF n = 1 THEN Start(l[1]) ELSE Turn(after[n - 1], l[n])
      BY <1>3
    <2> HIDE DEF after
    <2> QED
      BY <2>1 DEF Runs
  <1>5. VerifyChain(l) = after[Len(l)]
    BY DEF VerifyChain
  <1> QED
    BY <1>4, <1>5

-----------------------------------------------------------------------------
(* What one more entry means.                                              *)

LEMMA MembersNext ==
    ASSUME NEW l, NEW n \in Nat
    PROVE  MembersAfter(l, n + 1) =
             {d \in MembersAfter(l, n) : ~Expels(l[n + 1].body, d)}
               \cup {d \in Device : Admits(l[n + 1].body, d)}
  <1>1. ASSUME NEW d \in Device, NEW j \in 1 .. n + 1, Admits(l[j].body, d),
               \A k \in j + 1 .. n + 1 : ~Expels(l[k].body, d), j # n + 1
        PROVE  d \in MembersAfter(l, n) /\ ~Expels(l[n + 1].body, d)
    <2>1. j \in 1 .. n /\ n + 1 \in j + 1 .. n + 1
      BY <1>1
    <2>2. \A k \in j + 1 .. n : k \in j + 1 .. n + 1
      BY <1>1
    <2> QED
      BY <1>1, <2>1, <2>2 DEF MembersAfter
  <1>2. ASSUME NEW d \in MembersAfter(l, n), ~Expels(l[n + 1].body, d)
        PROVE  d \in MembersAfter(l, n + 1)
    <2>1. PICK j \in 1 .. n : Admits(l[j].body, d) /\ \A k \in j + 1 .. n : ~Expels(l[k].body, d)
      BY <1>2 DEF MembersAfter
    <2>2. j \in 1 .. n + 1 /\ \A k \in j + 1 .. n + 1 : k \in j + 1 .. n \/ k = n + 1
      OBVIOUS
    <2> QED
      BY <1>2, <2>1, <2>2 DEF MembersAfter
  <1>3. ASSUME NEW d \in Device, Admits(l[n + 1].body, d)
        PROVE  d \in MembersAfter(l, n + 1)
    <2>1. n + 1 \in 1 .. n + 1 /\ \A k \in (n + 1) + 1 .. n + 1 : FALSE
      OBVIOUS
    <2> QED
      BY <1>3, <2>1 DEF MembersAfter
  <1>4. ASSUME NEW d \in MembersAfter(l, n + 1)
        PROVE  \/ d \in MembersAfter(l, n) /\ ~Expels(l[n + 1].body, d)
               \/ d \in Device /\ Admits(l[n + 1].body, d)
    <2>1. PICK j \in 1 .. n + 1 :
              Admits(l[j].body, d) /\ \A k \in j + 1 .. n + 1 : ~Expels(l[k].body, d)
      BY <1>4 DEF MembersAfter
    <2>2. d \in Device
      BY <1>4 DEF MembersAfter
    <2> QED
      BY <1>1, <2>1, <2>2
  <1> QED
    BY <1>2, <1>3, <1>4

LEMMA GrantsNext ==
    ASSUME NEW l, NEW n \in Nat
    PROVE  GrantsAfter(l, n + 1) =
             GrantsAfter(l, n)
               \cup {g \in {l[n + 1].body.grant} : l[n + 1].body.type = "add"}
  <1>1. \A k : k \in 1 .. n + 1 <=> k \in 1 .. n \/ k = n + 1
    OBVIOUS
  <1> QED
    BY <1>1 DEF GrantsAfter

LEMMA EpochNext ==
    ASSUME NEW l, NEW n \in Nat
    PROVE  EpochAfter(l, n + 1) =
             IF l[n + 1].body.type = "epoch" THEN EpochAfter(l, n) + 1 ELSE EpochAfter(l, n)
  <1> DEFINE E(m) == {j \in 1 .. m : l[j].body.type = "epoch"}
  <1>1. \A k : k \in 1 .. n + 1 <=> k \in 1 .. n \/ k = n + 1
    OBVIOUS
  <1>2. IsFiniteSet(E(n)) /\ n + 1 \notin E(n)
    <2>1. IsFiniteSet(1 .. n)
      BY FS_Interval
    <2>2. E(n) \subseteq 1 .. n
      OBVIOUS
    <2> QED
      BY <2>1, <2>2, FS_Subset
  <1>3. CASE l[n + 1].body.type = "epoch"
    <2>1. E(n + 1) = E(n) \cup {n + 1}
      BY <1>1, <1>3
    <2> HIDE DEF E
    <2>2. Cardinality(E(n + 1)) = Cardinality(E(n)) + 1
      BY <1>2, <2>1, FS_AddElement
    <2> QED
      BY <1>3, <2>2 DEF E, EpochAfter
  <1>4. CASE l[n + 1].body.type # "epoch"
    <2>1. E(n + 1) = E(n)
      BY <1>1, <1>4
    <2> QED
      BY <1>4, <2>1 DEF EpochAfter
  <1> QED
    BY <1>3, <1>4

-----------------------------------------------------------------------------
(* What the loop has after n turns.                                        *)

LoopState ==
    [members : SUBSET Device, head : Seq(Body), epoch : Nat, grants : SUBSET Grant,
     accepted : Nat, open : BOOLEAN]

\* The locals are what the rules say of the accepted prefix; the loop has stopped
\* exactly when an entry does not fit.
Obeys(s, l, n) ==
    /\ s \in LoopState
    /\ s.accepted \in 1 .. n
    /\ \A i \in 2 .. s.accepted : Fits(l, i)
    /\ s.open => s.accepted = n
    /\ ~s.open => s.accepted < n /\ ~Fits(l, s.accepted + 1)
    /\ s.members = MembersAfter(l, s.accepted)
    /\ s.epoch = EpochAfter(l, s.accepted)
    /\ s.grants = GrantsAfter(l, s.accepted)
    /\ s.head = Hash(l[s.accepted])

LEMMA ObeysStart ==
    ASSUME NEW l \in Seq(Entry), Verifies(l)
    PROVE  Obeys(Start(l[1]), l, 1)
  <1>1. l[1] \in Entry /\ l[1].body.type = "genesis"
    BY EmptySeq, ElementOfSeq DEF Verifies
  <1>2. l[1].body.creator \in Device
    BY <1>1 DEF Entry, Body
  <1>3. Hash(l[1]) \in Seq(Body)
    BY <1>1 DEF Hash, Entry
  <1>4. MembersAfter(l, 1) = {l[1].body.creator}
    BY <1>1, <1>2 DEF MembersAfter, Admits, Expels
  <1>5. EpochAfter(l, 1) = 0
    <2>1. {j \in 1 .. 1 : l[j].body.type = "epoch"} = {}
      BY <1>1
    <2> QED
      BY <2>1, FS_EmptySet DEF EpochAfter
  <1>6. GrantsAfter(l, 1) = {}
    BY <1>1 DEF GrantsAfter
  <1> QED
    BY <1>2, <1>3, <1>4, <1>5, <1>6 DEF Obeys, Start, LoopState

\* A turn that stops the loop, at an entry that does not fit.
LEMMA TurnStops ==
    ASSUME NEW l \in Seq(Entry), NEW n \in Nat, NEW s, Obeys(s, l, n), s.open,
           ~Fits(l, n + 1)
    PROVE  Obeys([s EXCEPT !.open = FALSE], l, n + 1)
  <1> DEFINE t == [s EXCEPT !.open = FALSE]
  <1>1. s \in LoopState /\ s.accepted = n
    BY DEF Obeys
  <1>2. /\ t \in LoopState
        /\ t.members = s.members /\ t.head = s.head /\ t.epoch = s.epoch
        /\ t.grants = s.grants /\ t.accepted = s.accepted
    BY <1>1 DEF LoopState
  <1>3. ~t.open
    BY <1>1 DEF LoopState
  <1> HIDE DEF t
  <1>4. Obeys(t, l, n + 1)
    <2>1. t.accepted \in 1 .. n + 1 /\ t.accepted < n + 1 /\ t.accepted = n
      BY <1>1, <1>2 DEF Obeys
    <2>2. /\ \A i \in 2 .. s.accepted : Fits(l, i)
          /\ s.members = MembersAfter(l, s.accepted) /\ s.epoch = EpochAfter(l, s.accepted)
          /\ s.grants = GrantsAfter(l, s.accepted) /\ s.head = Hash(l[s.accepted])
      BY DEF Obeys
    <2> QED
      BY <1>2, <1>3, <2>1, <2>2 DEF Obeys
  <1> QED
    BY <1>4 DEF t

\* A turn that takes an entry that fits, with what the arm makes of it.
LEMMA TurnTakes ==
    ASSUME NEW l \in Seq(Entry), NEW n \in Nat, n + 1 \in 2 .. Len(l),
           NEW s, Obeys(s, l, n), s.open, Fits(l, n + 1),
           NEW t \in LoopState, t.open,
           t.accepted = s.accepted + 1, t.head = Hash(l[n + 1]),
           t.members = {d \in s.members : ~Expels(l[n + 1].body, d)}
                          \cup {d \in Device : Admits(l[n + 1].body, d)},
           t.epoch = IF l[n + 1].body.type = "epoch" THEN s.epoch + 1 ELSE s.epoch,
           t.grants = s.grants \cup {g \in {l[n + 1].body.grant} : l[n + 1].body.type = "add"}
    PROVE  Obeys(t, l, n + 1)
  <1>1. s.accepted = n
    BY DEF Obeys
  <1>2. \A i \in 2 .. n + 1 : Fits(l, i)
    BY <1>1 DEF Obeys
  <1>3. t.members = MembersAfter(l, n + 1)
    BY <1>1, MembersNext DEF Obeys
  <1>4. t.epoch = EpochAfter(l, n + 1)
    BY <1>1, EpochNext DEF Obeys
  <1>5. t.grants = GrantsAfter(l, n + 1)
    BY <1>1, GrantsNext DEF Obeys
  <1> QED
    BY <1>1, <1>2, <1>3, <1>4, <1>5 DEF Obeys

\* The arms take an entry exactly when it fits.
LEMMA ObeysTurn ==
    ASSUME NEW l \in Seq(Entry), NEW n \in Nat, n + 1 \in 2 .. Len(l),
           NEW s, Obeys(s, l, n)
    PROVE  Obeys(Turn(s, l[n + 1]), l, n + 1)
  <1> DEFINE e == l[n + 1]
             b == e.body
             Stopped == [s EXCEPT !.open = FALSE]
  <1>1. /\ e \in Entry /\ b \in Body /\ Hash(e) \in Seq(Body)
        /\ s \in LoopState /\ n \in Nat
    <2>1. n + 1 \in 1 .. Len(l)
      BY LenProperties
    <2>2. e \in Entry
      BY <2>1, ElementOfSeq
    <2> QED
      BY <2>2 DEF Obeys, Entry, Hash
  <1>2. CASE ~s.open
    <2>1. Turn(s, e) = s
      BY <1>2 DEF Turn
    <2> HIDE DEF e
    <2>2. Obeys(s, l, n + 1)
      BY <1>2 DEF Obeys
    <2> QED
      BY <2>1, <2>2 DEF e
  <1>3. CASE s.open
    <2>1. /\ s.accepted = n /\ s.head = Hash(l[n]) /\ s.members = MembersAfter(l, n)
          /\ s.epoch = EpochAfter(l, n) /\ s.grants = GrantsAfter(l, n)
      BY <1>3 DEF Obeys
    <2>2. Fits(l, n + 1) <=> e.prev = s.head /\ Allowed(l, n, b)
      BY <2>1 DEF Fits
    <2>3. CASE e.prev # s.head \/ b.type = "genesis"
      <3>1. Turn(s, e) = Stopped
        BY <1>3, <2>3 DEF Turn
      <3>2. ~Fits(l, n + 1)
        BY <2>2, <2>3 DEF Allowed
      <3> QED
        BY <1>3, <3>1, <3>2, TurnStops
    <2>4. CASE e.prev = s.head /\ b.type = "add"
      <3>1. Turn(s, e) = AddTurn(s, e)
        BY <1>3, <2>4 DEF Turn
      <3>2. Fits(l, n + 1) <=> b.sponsor \in s.members /\ b.grant \notin s.grants
        BY <2>1, <2>2, <2>4 DEF Allowed
      <3>3. CASE Fits(l, n + 1)
        <4> DEFINE t == [members |-> s.members \cup {b.subject}, head |-> Hash(e),
                         epoch |-> s.epoch, grants |-> s.grants \cup {b.grant},
                         accepted |-> s.accepted + 1, open |-> s.open]
        <4>1. AddTurn(s, e) = t
          BY <1>1, <3>2, <3>3 DEF AddTurn, Took, LoopState
        <4>2. b.subject \in Device /\ b.grant \in Grant
          BY <1>1, <2>4 DEF Body
        <4>3. t \in LoopState
          BY <1>1, <4>2 DEF LoopState
        <4>4. \A d : ~Expels(b, d) /\ (Admits(b, d) <=> d = b.subject)
          BY <2>4 DEF Expels, Admits
        <4>5. t.members = {d \in s.members : ~Expels(b, d)} \cup {d \in Device : Admits(b, d)}
          BY <4>2, <4>4
        <4>6. t.grants = s.grants \cup {g \in {b.grant} : b.type = "add"}
          BY <2>4
        <4>7. t.open /\ t.accepted = s.accepted + 1 /\ t.head = Hash(e) /\ t.epoch = s.epoch
          BY <1>3
        <4> HIDE DEF t
        <4>8. Obeys(t, l, n + 1)
          BY <1>3, <2>4, <3>3, <4>3, <4>5, <4>6, <4>7, TurnTakes
        <4> QED
          BY <3>1, <4>1, <4>8
      <3>4. CASE ~Fits(l, n + 1)
        <4>1. AddTurn(s, e) = Stopped
          BY <3>2, <3>4 DEF AddTurn
        <4> QED
          BY <1>3, <3>1, <3>4, <4>1, TurnStops
      <3> QED
        BY <3>3, <3>4
    <2>5. CASE e.prev = s.head /\ b.type = "remove"
      <3>1. Turn(s, e) = RemoveTurn(s, e)
        BY <1>3, <2>5 DEF Turn
      <3>2. Fits(l, n + 1) <=> b.by \in s.members
        BY <2>1, <2>2, <2>5 DEF Allowed
      <3>3. CASE Fits(l, n + 1)
        <4> DEFINE t == [members |-> s.members \ {b.target}, head |-> Hash(e),
                         epoch |-> s.epoch, grants |-> s.grants,
                         accepted |-> s.accepted + 1, open |-> s.open]
        <4>1. RemoveTurn(s, e) = t
          BY <1>1, <3>2, <3>3 DEF RemoveTurn, Took, LoopState
        <4>3. t \in LoopState
          BY <1>1 DEF LoopState
        <4>4. \A d : ~Admits(b, d) /\ (Expels(b, d) <=> d = b.target)
          BY <2>5 DEF Expels, Admits
        <4>5. t.members = {d \in s.members : ~Expels(b, d)} \cup {d \in Device : Admits(b, d)}
          BY <4>4
        <4>6. t.grants = s.grants \cup {g \in {b.grant} : b.type = "add"}
          BY <2>5
        <4>7. t.open /\ t.accepted = s.accepted + 1 /\ t.head = Hash(e) /\ t.epoch = s.epoch
          BY <1>3
        <4> HIDE DEF t
        <4>8. Obeys(t, l, n + 1)
          BY <1>3, <2>5, <3>3, <4>3, <4>5, <4>6, <4>7, TurnTakes
        <4> QED
          BY <3>1, <4>1, <4>8
      <3>4. CASE ~Fits(l, n + 1)
        <4>1. RemoveTurn(s, e) = Stopped
          BY <3>2, <3>4 DEF RemoveTurn
        <4> QED
          BY <1>3, <3>1, <3>4, <4>1, TurnStops
      <3> QED
        BY <3>3, <3>4
    <2>6. CASE e.prev = s.head /\ b.type = "epoch"
      <3>1. Turn(s, e) = EpochTurn(s, e)
        BY <1>3, <2>6 DEF Turn
      <3>2. Fits(l, n + 1) <=>
              b.rotator \in s.members /\ b.number = s.epoch + 1 /\ b.members = s.members
        BY <2>1, <2>2, <2>6 DEF Allowed
      <3>3. CASE Fits(l, n + 1)
        <4> DEFINE t == [members |-> s.members, head |-> Hash(e),
                         epoch |-> s.epoch + 1, grants |-> s.grants,
                         accepted |-> s.accepted + 1, open |-> s.open]
        <4>1. EpochTurn(s, e) = t
          BY <1>1, <3>2, <3>3 DEF EpochTurn, Took, LoopState
        <4>3. t \in LoopState
          BY <1>1 DEF LoopState
        <4>4. \A d : ~Admits(b, d) /\ ~Expels(b, d)
          BY <2>6 DEF Expels, Admits
        <4>5. t.members = {d \in s.members : ~Expels(b, d)} \cup {d \in Device : Admits(b, d)}
          BY <4>4
        <4>6. t.grants = s.grants \cup {g \in {b.grant} : b.type = "add"}
          BY <2>6
        <4>7. t.open /\ t.accepted = s.accepted + 1 /\ t.head = Hash(e) /\ t.epoch = s.epoch + 1
          BY <1>3
        <4> HIDE DEF t
        <4>8. Obeys(t, l, n + 1)
          BY <1>3, <2>6, <3>3, <4>3, <4>5, <4>6, <4>7, TurnTakes
        <4> QED
          BY <3>1, <4>1, <4>8
      <3>4. CASE ~Fits(l, n + 1)
        <4>1. EpochTurn(s, e) = Stopped
          BY <3>2, <3>4 DEF EpochTurn
        <4> QED
          BY <1>3, <3>1, <3>4, <4>1, TurnStops
      <3> QED
        BY <3>3, <3>4
    <2> QED
      BY <1>1, <2>3, <2>4, <2>5, <2>6 DEF Body
  <1> QED
    BY <1>2, <1>3

\* The loop of verify_chain accepts of any log exactly the longest prefix that
\* obeys the rules, and derives the members, the epoch and the head the rules say.
THEOREM LoopCorrect ==
    ASSUME NEW l \in Seq(Entry), Verifies(l)
    PROVE  /\ VerifyChain(l).accepted = Accepted(l)
           /\ VerifyChain(l).members = MembersOf(l)
           /\ VerifyChain(l).epoch = EpochOf(l)
           /\ VerifyChain(l).head = HeadOf(l)
  <1>1. Len(l) \in Nat /\ Len(l) >= 1 /\ l # <<>>
    BY EmptySeq, LenProperties DEF Verifies
  <1>2. PICK f : Runs(f, l, Len(l)) /\ VerifyChain(l) = f[Len(l)]
    BY <1>1, LoopResult
  <1> DEFINE Wrong == {n \in 1 .. Len(l) : ~Obeys(f[n], l, n)}
  <1>3. ASSUME Wrong # {}
        PROVE  FALSE
    <2>1. Wrong \subseteq Nat
      BY <1>1
    <2>2. PICK m \in Wrong : \A n \in Wrong : m <= n
      <3> HIDE DEF Wrong
      <3> QED
        BY <1>3, <2>1, LeastOfNats
    <2>3. m \in 1 .. Len(l) /\ ~Obeys(f[m], l, m)
      OBVIOUS
    <2>4. m # 1
      BY <1>2, <2>3, ObeysStart DEF Runs
    <2>5. m - 1 \in Nat /\ m - 1 \in 1 .. Len(l) /\ (m - 1) + 1 = m /\ m \in 2 .. Len(l)
      BY <1>1, <2>3, <2>4
    <2>6. Obeys(f[m - 1], l, m - 1)
      BY <1>1, <2>2, <2>5
    <2>7. Obeys(Turn(f[m - 1], l[m]), l, m)
      BY <2>5, <2>6, ObeysTurn
    <2> QED
      BY <1>2, <2>3, <2>5, <2>7 DEF Runs
  <1>4. Obeys(VerifyChain(l), l, Len(l))
    BY <1>1, <1>2, <1>3
  <1> DEFINE n == VerifyChain(l).accepted
  <1>5. /\ n \in 1 .. Len(l)
        /\ \A i \in 2 .. n : Fits(l, i)
        /\ n < Len(l) => ~Fits(l, n + 1)
    BY <1>1, <1>4 DEF Obeys
  <1>6. n = Accepted(l)
    <2> HIDE DEF n
    <2> QED
      BY <1>1, <1>5, AcceptedUnique
  <1> QED
    BY <1>4, <1>6 DEF Obeys, MembersOf, EpochOf, HeadOf

-----------------------------------------------------------------------------
(* The specification.                                                      *)

\* The log is one, and begins with a Genesis entry.
LogInv == log \in Seq(Entry) /\ Verifies(log)

LEMMA LogStep == LogInv /\ [Next]_log => LogInv'
  <1> SUFFICES ASSUME LogInv, [Next]_log
               PROVE  LogInv'
    OBVIOUS
  <1>1. CASE UNCHANGED log
    BY <1>1 DEF LogInv
  <1>2. CASE Next
    <2>1. PICK b \in Offered, n \in {Len(log) - 1, Len(log)} \ {0} :
              log' = Append(log, [prev |-> Hash(log[n]), body |-> b])
      BY <1>2 DEF Next
    <2> DEFINE e == [prev |-> Hash(log[n]), body |-> b]
    <2>2. Len(log) \in Nat /\ Len(log) >= 1
      BY EmptySeq, LenProperties DEF LogInv, Verifies
    <2>3. n \in 1 .. Len(log)
      BY <2>2
    <2>4. e \in Entry
      <3>1. log[n] \in Entry
        BY <2>3, ElementOfSeq DEF LogInv
      <3> QED
        BY <3>1, LoopAssumption DEF Entry, Hash
    <2>5. log' = Append(log, e)
      BY <2>1
    <2> HIDE DEF e
    <2>6. log' \in Seq(Entry) /\ log' # <<>> /\ log'[1] = log[1]
      BY <2>2, <2>4, <2>5, AppendProperties DEF LogInv
    <2> QED
      BY <2>6 DEF LogInv, Verifies
  <1> QED
    BY <1>1, <1>2

\* The loop of verify_chain accepts exactly the longest prefix that obeys the
\* rules and derives the members, the epoch and the head the rules say, whatever
\* the log has grown by.
THEOREM LoopObeysRulesAlways == Spec => []LoopObeysRules
  <1>1. Init => LogInv
    BY DEF Init, Genesis, LogInv, Entry, Body, Verifies
  <1>2. LogInv => LoopObeysRules
    BY LoopCorrect DEF LogInv, LoopObeysRules
  <1> QED
    BY <1>1, <1>2, LogStep, PTL DEF Spec
=============================================================================
