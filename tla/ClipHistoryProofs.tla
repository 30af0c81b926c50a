-------------------------- MODULE ClipHistoryProofs --------------------------
(***************************************************************************)
(* What TLAPS proves of ClipHistory: every property its run checks.        *)
(*                                                                         *)
(* First counting, sums over finite sets and loops of a bounded number of  *)
(* turns, which the library has no theorems about; then what each helper   *)
(* of the module makes of a list, a cache or the files; then HistInv, the  *)
(* inductive invariant, one lemma per action; and the theorems.            *)
(***************************************************************************)
EXTENDS ClipHistory, SequenceTheorems, FiniteSetTheorems, WellFoundedInduction, TLAPS

-----------------------------------------------------------------------------
(* Counting up.                                                            *)

\* What holds of 0, and of every number up to N if of the one before, holds of
\* all numbers up to N: there is no least one of which it does not.
LEMMA UpTo ==
    ASSUME NEW N \in Nat, NEW T, 0 \in T, \A k \in 1 .. N : k - 1 \in T => k \in T
    PROVE  \A k \in 0 .. N : k \in T
  <1> DEFINE Out == {k \in 0 .. N : k \notin T}
  <1>1. SUFFICES ASSUME Out # {}
                 PROVE  FALSE
    OBVIOUS
  <1>2. PICK m \in Out : \A n \in Out : ~ (<<n, m>> \in OpToRel(<, Nat))
    <2>1. Out \subseteq Nat
      OBVIOUS
    <2> HIDE DEF Out
    <2> QED
      BY <1>1, <2>1, NatLessThanWellFounded, WFMin
  <1>3. m \in 0 .. N /\ m \notin T /\ m # 0
    OBVIOUS
  <1>4. m - 1 \in 0 .. N /\ m \in 1 .. N /\ m - 1 \notin T
    BY <1>3
  <1>5. m - 1 \in Out /\ m - 1 \in Nat /\ m \in Nat /\ m - 1 < m
    BY <1>3, <1>4
  <1>6. ~ (<<m - 1, m>> \in OpToRel(<, Nat))
    BY <1>2, <1>5
  <1> HIDE DEF Out
  <1>7. <<m - 1, m>> \in OpToRel(<, Nat)
    BY <1>5, Zenon DEF OpToRel
  <1> QED
    BY <1>6, <1>7

-----------------------------------------------------------------------------
(* Sums.                                                                   *)

\* g sums f over each subset of S, one element at a time.
SumsUp(g, f, S) ==
    \A s \in SUBSET S :
        g[s] = IF s = {} THEN 0 ELSE f[CHOOSE x \in s : TRUE] + g[s \ {CHOOSE x \in s : TRUE}]

LEMMA CardLess ==
    ASSUME NEW s, IsFiniteSet(s), NEW x \in s, NEW n \in Nat, Cardinality(s) <= n
    PROVE  /\ IsFiniteSet(s \ {x}) /\ Cardinality(s \ {x}) <= n - 1
           /\ Cardinality(s \ {x}) \in Nat /\ n \in 1 .. n
  <1>1. IsFiniteSet(s \ {x}) /\ Cardinality(s \ {x}) = Cardinality(s) - 1
    BY FS_RemoveElement
  <1>2. Cardinality(s) \in Nat /\ Cardinality(s \ {x}) \in Nat
    BY <1>1, FS_CardinalityType
  <1> QED
    BY <1>1, <1>2

LEMMA CardNone ==
    ASSUME NEW s, IsFiniteSet(s), Cardinality(s) <= 0
    PROVE  s = {}
  <1>1. Cardinality(s) = 0
    BY FS_CardinalityType
  <1> QED
    BY <1>1, FS_EmptySet

LEMMA SumExists ==
    ASSUME NEW S, IsFiniteSet(S), NEW f
  PROVE  \E g : g = [s \in SUBSET S |-> g[s]] /\ SumsUp(g, f, S)
  <1> DEFINE One(s) == CHOOSE x \in s : TRUE
             Body(g, s) == IF s = {} THEN 0 ELSE f[One(s)] + g[s \ {One(s)}]
             Small(n) == {s \in SUBSET S : Cardinality(s) <= n}
             Has(n) == \E g : g = [s \in SUBSET S |-> g[s]] /\ \A s \in Small(n) : g[s] = Body(g, s)
             T == {n \in Nat : Has(n)}
  <1>0. \A s \in SUBSET S : IsFiniteSet(s)
    BY FS_Subset
  <1>1. 0 \in T
    <2> DEFINE g == [s \in SUBSET S |-> 0]
    <2>1. \A s \in Small(0) : s = {}
      BY <1>0, CardNone
    <2>2. \A s \in Small(0) : g[s] = Body(g, s)
      BY <2>1
    <2>3. g = [s \in SUBSET S |-> g[s]]
      OBVIOUS
    <2> HIDE DEF g
    <2> QED
      BY <2>2, <2>3
  <1> DEFINE N == Cardinality(S)
  <1>2. N \in Nat
    BY FS_CardinalityType
  <1>3. ASSUME NEW k \in 1 .. N, k - 1 \in T
        PROVE  k \in T
    <2>1. k \in Nat /\ k - 1 \in Nat
      BY <1>2
    <2>2. PICK h : h = [s \in SUBSET S |-> h[s]] /\ \A s \in Small(k - 1) : h[s] = Body(h, s)
      BY <1>3
    <2> DEFINE g == [s \in SUBSET S |-> Body(h, s)]
    <2>3. \A s \in Small(k - 1) : g[s] = h[s]
      BY <2>2
    <2>4. ASSUME NEW s \in Small(k)
          PROVE  g[s] = Body(g, s)
      <3>1. CASE s = {}
        BY <3>1
      <3>2. CASE s # {}
        <4>1. One(s) \in s
          BY <3>2
        <4>2. s \ {One(s)} \in Small(k - 1)
          <5> HIDE DEF One
          <5> QED
            BY <1>0, <2>1, <4>1, CardLess
        <4>3. g[s \ {One(s)}] = h[s \ {One(s)}]
          BY <2>3, <4>2
        <4>4. g[s] = Body(h, s)
          OBVIOUS
        <4> QED
          BY <3>2, <4>3, <4>4
      <3> QED
        BY <3>1, <3>2
    <2>5. g = [s \in SUBSET S |-> g[s]]
      OBVIOUS
    <2> HIDE DEF g
    <2> QED
      BY <2>1, <2>4, <2>5
  <1>4. N \in T
    <2> HIDE DEF T, N
    <2> QED
      BY <1>1, <1>2, <1>3, UpTo
  <1>5. PICK g : g = [s \in SUBSET S |-> g[s]] /\ \A s \in Small(N) : g[s] = Body(g, s)
    BY <1>4
  <1>6. \A s \in SUBSET S : s \in Small(N)
    BY FS_Subset
  <1> HIDE DEF Small, N
  <1>7. SumsUp(g, f, S)
    BY <1>5, <1>6 DEF SumsUp
  <1> QED
    BY <1>5, <1>7

\* The sum over a set.
LEMMA SumOfSet ==
    ASSUME NEW S, IsFiniteSet(S), NEW f
    PROVE  \E g : SumsUp(g, f, S) /\ SumFunctionOnSet(f, S) = g[S]
  <1> DEFINE Step(g) == [s \in SUBSET S |->
                          IF s = {} THEN 0
                          ELSE f[CHOOSE x \in s : TRUE] + g[s \ {CHOOSE x \in s : TRUE}]]
             iter == CHOOSE g : g = Step(g)
  <1>0. \E h : h = Step(h)
    <2>1. PICK g : g = [s \in SUBSET S |-> g[s]] /\ SumsUp(g, f, S)
      BY SumExists
    <2>2. g = Step(g)
      BY <2>1 DEF SumsUp
    <2> QED
      BY <2>2
  <1>1. iter = Step(iter)
    <2> HIDE DEF Step
    <2> QED
      BY <1>0
  <1>2. SumFunctionOnSet(f, S) = iter[S]
    BY DEF SumFunctionOnSet, FoldFunctionOnSet, MapThenFoldSet
  <1>3. SumsUp(iter, f, S)
    <2> HIDE DEF iter
    <2> QED
      BY <1>1 DEF SumsUp
  <1> QED
    BY <1>2, <1>3

\* Any element may be taken out first.
LEMMA SumSplits ==
    ASSUME NEW S, IsFiniteSet(S), NEW f, \A x \in S : f[x] \in Nat, NEW g, SumsUp(g, f, S)
    PROVE  \A s \in SUBSET S : g[s] \in Nat /\ \A y \in s : g[s] = f[y] + g[s \ {y}]
  <1> DEFINE Fine(s) == g[s] \in Nat /\ \A y \in s : g[s] = f[y] + g[s \ {y}]
             One(s) == CHOOSE x \in s : TRUE
             T == {n \in Nat : \A s \in SUBSET S : Cardinality(s) <= n => Fine(s)}
             N == Cardinality(S)
  <1>0. \A s \in SUBSET S : IsFiniteSet(s)
    BY FS_Subset
  <1>1. 0 \in T
    <2>1. ASSUME NEW s \in SUBSET S, Cardinality(s) <= 0
          PROVE  s = {} /\ g[s] = 0
      <3>1. s = {}
        BY <1>0, <2>1, CardNone
      <3> QED
        BY <3>1 DEF SumsUp
    <2> QED
      BY <2>1
  <1>2. N \in Nat
    BY FS_CardinalityType
  <1>3. ASSUME NEW k \in 1 .. N, k - 1 \in T
        PROVE  k \in T
    <2>1. k \in Nat /\ k - 1 \in Nat
      BY <1>2
    <2>2. ASSUME NEW s \in SUBSET S, Cardinality(s) <= k
          PROVE  Fine(s)
      <3>1. CASE s = {}
        BY <3>1 DEF SumsUp
      <3>2. CASE s # {}
        <4>1. One(s) \in s /\ f[One(s)] \in Nat /\ g[s] = f[One(s)] + g[s \ {One(s)}]
          BY <3>2 DEF SumsUp
        <4> HIDE DEF One
        <4>2. ASSUME NEW y \in s
              PROVE  s \ {y} \in SUBSET S /\ Cardinality(s \ {y}) <= k - 1
          BY <1>0, <2>1, <2>2, CardLess
        <4>3. \A y \in s : Fine(s \ {y})
          BY <1>3, <4>2
        <4>4. ASSUME NEW y \in s
              PROVE  g[s] = f[y] + g[s \ {y}]
          <5>1. CASE y = One(s)
            BY <4>1, <5>1
          <5>2. CASE y # One(s)
            <6>1. y \in s \ {One(s)} /\ One(s) \in s \ {y}
              BY <4>1, <5>2
            <6>2. g[s \ {One(s)}] = f[y] + g[(s \ {One(s)}) \ {y}]
              BY <4>1, <4>3, <6>1
            <6>3. g[s \ {y}] = f[One(s)] + g[(s \ {y}) \ {One(s)}]
              BY <4>3, <6>1
            <6>4. (s \ {One(s)}) \ {y} = (s \ {y}) \ {One(s)}
              OBVIOUS
            <6> DEFINE rest == (s \ {y}) \ {One(s)}
            <6>5. Fine((s \ {y}))
              BY <4>3
            <6>6. rest \in SUBSET S /\ Cardinality(rest) <= k - 1
              <7>1. IsFiniteSet(s \ {y})
                BY <1>0
              <7>2. Cardinality(rest) <= Cardinality(s \ {y}) /\ Cardinality(s \ {y}) \in Nat
                BY <7>1, FS_Subset, FS_CardinalityType
              <7>3. Cardinality(rest) \in Nat
                BY <1>0, FS_CardinalityType
              <7> QED
                BY <2>1, <4>2, <7>2, <7>3
            <6>7. g[rest] \in Nat
              BY <1>3, <6>6
            <6>8. f[y] \in Nat
              BY <2>2
            <6>9. g[s \ {One(s)}] = f[y] + g[rest]
              BY <6>2, <6>4
            <6> HIDE DEF rest
            <6>10. g[s \ {y}] = f[One(s)] + g[rest]
              BY <6>3 DEF rest
            <6> QED
              BY <4>1, <6>7, <6>8, <6>9, <6>10
          <5> QED
            BY <5>1, <5>2
        <4>5. g[s] \in Nat
          <5>1. Fine((s \ {One(s)}))
            BY <4>1, <4>3
          <5>2. g[s \ {One(s)}] \in Nat
            BY <5>1
          <5> QED
            BY <4>1, <5>2
        <4> QED
          BY <4>4, <4>5
      <3> QED
        BY <3>1, <3>2
    <2> HIDE DEF Fine
    <2> QED
      BY <2>1, <2>2
  <1>4. N \in T
    <2> HIDE DEF T, N
    <2> QED
      BY <1>1, <1>2, <1>3, UpTo
  <1>5. \A s \in SUBSET S : Cardinality(s) <= N
    BY FS_Subset
  <1> QED
    BY <1>4, <1>5

\* The sum depends on the values at the elements alone.
LEMMA SumAgrees ==
    ASSUME NEW S, NEW R, IsFiniteSet(S), S \subseteq R, NEW f, NEW h, \A x \in S : f[x] = h[x],
           NEW g, NEW k, SumsUp(g, f, S), SumsUp(k, h, R)
    PROVE  \A s \in SUBSET S : g[s] = k[s]
  <1> DEFINE One(s) == CHOOSE x \in s : TRUE
             T == {n \in Nat : \A s \in SUBSET S : Cardinality(s) <= n => g[s] = k[s]}
             N == Cardinality(S)
  <1>0. \A s \in SUBSET S : IsFiniteSet(s)
    BY FS_Subset
  <1>1. 0 \in T
    <2>1. ASSUME NEW s \in SUBSET S, Cardinality(s) <= 0
          PROVE  g[s] = k[s]
      <3>1. s = {}
        BY <1>0, <2>1, CardNone
      <3> QED
        BY <3>1 DEF SumsUp
    <2> QED
      BY <2>1
  <1>2. N \in Nat
    BY FS_CardinalityType
  <1>3. ASSUME NEW n \in 1 .. N, n - 1 \in T
        PROVE  n \in T
    <2>1. n \in Nat /\ n - 1 \in Nat
      BY <1>2
    <2>2. ASSUME NEW s \in SUBSET S, Cardinality(s) <= n
          PROVE  g[s] = k[s]
      <3>1. CASE s = {}
        BY <3>1 DEF SumsUp
      <3>2. CASE s # {}
        <4>1. /\ One(s) \in s /\ f[One(s)] = h[One(s)]
              /\ g[s] = f[One(s)] + g[s \ {One(s)}] /\ k[s] = h[One(s)] + k[s \ {One(s)}]
          BY <3>2 DEF SumsUp
        <4> HIDE DEF One
        <4>2. s \ {One(s)} \in SUBSET S /\ Cardinality(s \ {One(s)}) <= n - 1
          BY <1>0, <2>1, <2>2, <4>1, CardLess
        <4>3. g[s \ {One(s)}] = k[s \ {One(s)}]
          BY <1>3, <4>2
        <4> QED
          BY <4>1, <4>3
      <3> QED
        BY <3>1, <3>2
    <2> QED
      BY <2>1, <2>2
  <1>4. N \in T
    <2> HIDE DEF T, N
    <2> QED
      BY <1>1, <1>2, <1>3, UpTo
  <1>5. \A s \in SUBSET S : Cardinality(s) <= N
    BY FS_Subset
  <1> QED
    BY <1>4, <1>5

LEMMA SumGrows ==
    ASSUME NEW S, IsFiniteSet(S), NEW x, x \notin S, NEW f, NEW h,
           \A y \in S : f[y] = h[y] /\ f[y] \in Nat, h[x] \in Nat
    PROVE  /\ SumFunctionOnSet(f, S) \in Nat
           /\ SumFunctionOnSet(h, S \cup {x}) = h[x] + SumFunctionOnSet(f, S)
  <1>1. PICK g : SumsUp(g, f, S) /\ SumFunctionOnSet(f, S) = g[S]
    BY SumOfSet
  <1>2. IsFiniteSet(S \cup {x})
    BY FS_AddElement
  <1>3. PICK k : SumsUp(k, h, S \cup {x}) /\ SumFunctionOnSet(h, S \cup {x}) = k[S \cup {x}]
    BY <1>2, SumOfSet
  <1>4. g[S] = k[S]
    BY <1>1, <1>3, SumAgrees
  <1>5. g[S] \in Nat
    BY <1>1, SumSplits
  <1>6. k[S \cup {x}] = h[x] + k[(S \cup {x}) \ {x}]
    BY <1>2, <1>3, SumSplits
  <1>7. (S \cup {x}) \ {x} = S
    OBVIOUS
  <1> QED
    BY <1>1, <1>3, <1>4, <1>5, <1>6, <1>7

LEMMA SumOfNone ==
    ASSUME NEW f
    PROVE  SumFunctionOnSet(f, {}) = 0
  <1>1. PICK g : SumsUp(g, f, {}) /\ SumFunctionOnSet(f, {}) = g[{}]
    BY FS_EmptySet, SumOfSet
  <1> QED
    BY <1>1 DEF SumsUp

\* The bytes of a set of bodies.
Total(b) == SumFunction([id \in DOMAIN b |-> Size[b[id]]])

\* Clips are kept under ids, bodies under so many.
Kept(b) == b \in [DOMAIN b -> Clip] /\ DOMAIN b \subseteq Clip
Bodies(b) == IsFiniteSet(DOMAIN b) /\ Kept(b)

LEMMA TotalOfNone == Total(<<>>) = 0
  <1>1. DOMAIN [id \in DOMAIN <<>> |-> Size[<<>>[id]]] = {}
    OBVIOUS
  <1> QED
    BY <1>1, SumOfNone DEF Total, SumFunction

LEMMA TotalWith ==
    ASSUME NEW b, Bodies(b), NEW id \in Clip, id \notin DOMAIN b, NEW c \in Clip
    PROVE  Total(b) \in Nat /\ Total(With(b, id, c)) = Size[c] + Total(b)
  <1> DEFINE f == [x \in DOMAIN b |-> Size[b[x]]]
             w == With(b, id, c)
             h == [x \in DOMAIN w |-> Size[w[x]]]
  <1>1. DOMAIN w = DOMAIN b \cup {id} /\ w[id] = c /\ \A x \in DOMAIN b : w[x] = b[x]
    BY DEF With
  <1>2. \A x \in DOMAIN b : f[x] \in Nat
    BY HistoryAssumption DEF Bodies, Kept
  <1> HIDE DEF w
  <1>3. DOMAIN f = DOMAIN b /\ DOMAIN h = DOMAIN b \cup {id}
    BY <1>1
  <1>4. h[id] = Size[c] /\ h[id] \in Nat
    BY <1>1, HistoryAssumption
  <1>5. \A y \in DOMAIN b : f[y] = h[y] /\ f[y] \in Nat
    BY <1>1, <1>2
  <1>6. Total(b) = SumFunctionOnSet(f, DOMAIN b)
    BY <1>3 DEF Total, SumFunction
  <1>7. Total(w) = SumFunctionOnSet(h, DOMAIN b \cup {id})
    BY <1>3 DEF Total, SumFunction
  <1> HIDE DEF f, h
  <1>8. /\ SumFunctionOnSet(f, DOMAIN b) \in Nat
        /\ SumFunctionOnSet(h, DOMAIN b \cup {id}) = h[id] + SumFunctionOnSet(f, DOMAIN b)
    BY <1>4, <1>5, SumGrows DEF Bodies, Kept
  <1> QED
    BY <1>4, <1>6, <1>7, <1>8 DEF w

LEMMA TotalLess ==
    ASSUME NEW b, Bodies(b), NEW id \in DOMAIN b
    PROVE  /\ Total(Less(b, {id})) \in Nat /\ Total(b) \in Nat /\ Bodies(Less(b, {id}))
           /\ Size[b[id]] \in Nat \ {0}
           /\ Total(b) - Size[b[id]] = Total(Less(b, {id}))
  <1> DEFINE r == Less(b, {id})
  <1>1. DOMAIN r = DOMAIN b \ {id} /\ \A x \in DOMAIN r : r[x] = b[x]
    BY DEF Less
  <1>2. Bodies(r)
    <2>1. IsFiniteSet(DOMAIN b \ {id})
      BY FS_RemoveElement DEF Bodies, Kept
    <2>2. r \in [DOMAIN r -> Clip]
      BY DEF Bodies, Kept, Less
    <2> QED
      BY <1>1, <2>1, <2>2 DEF Bodies, Kept
  <1>3. id \in Clip /\ b[id] \in Clip
    BY DEF Bodies, Kept
  <1>4. With(r, id, b[id]) = b
    <2>1. b = [x \in DOMAIN b |-> b[x]]
      BY DEF Bodies, Kept
    <2> QED
      BY <1>1, <2>1 DEF With, Less
  <1>5. Total(r) \in Nat /\ Total(With(r, id, b[id])) = Size[b[id]] + Total(r)
    <2> HIDE DEF r
    <2> QED
      BY <1>1, <1>2, <1>3, TotalWith
  <1>6. Size[b[id]] \in Nat \ {0}
    BY <1>3, HistoryAssumption
  <1> HIDE DEF r
  <1> QED
    BY <1>2, <1>4, <1>5, <1>6 DEF r

-----------------------------------------------------------------------------
(* Lists.                                                                  *)

LEMMA LeastOf ==
    ASSUME NEW I \in SUBSET Nat, I # {}
    PROVE  Min(I) \in I /\ \A y \in I : Min(I) <= y
  <1>1. PICK m \in I : \A n \in I : ~ (<<n, m>> \in OpToRel(<, Nat))
    BY NatLessThanWellFounded, WFMin
  <1>2. \A n \in I : m <= n
    <2>1. ASSUME NEW n \in I, n < m
          PROVE  FALSE
      <3>1. <<n, m>> \in OpToRel(<, Nat)
        BY <2>1, Zenon DEF OpToRel
      <3> QED
        BY <1>1, <3>1
    <2> QED
      BY <2>1
  <1> QED
    BY <1>1, <1>2 DEF Min

LEMMA GreatestOf ==
    ASSUME NEW N \in Nat, NEW I \in SUBSET (1 .. N), I # {}
    PROVE  Max(I) \in I /\ \A y \in I : Max(I) >= y
  <1> DEFINE J == {n \in 0 .. N : \A y \in I : n >= y}
  <1>1. N \in J /\ J \in SUBSET Nat
    OBVIOUS
  <1> DEFINE m == Min(J)
  <1>2. m \in J /\ \A y \in J : m <= y
    <2> HIDE DEF J
    <2> QED
      BY <1>1, LeastOf
  <1>3. m \in I
    <2>1. ASSUME m \notin I
          PROVE  FALSE
      <3>1. m \in 0 .. N /\ \A y \in I : m >= y
        BY <1>2
      <3> HIDE DEF m
      <3>2. \A y \in I : m - 1 >= y
        BY <2>1, <3>1
      <3>3. m # 0
        <4>1. PICK y : y \in I
          OBVIOUS
        <4> QED
          BY <3>1, <4>1
      <3>4. m - 1 \in J
        BY <3>1, <3>2, <3>3
      <3> QED
        BY <1>2, <3>1, <3>4
    <2> QED
      BY <2>1
  <1>4. \A y \in I : m >= y
    BY <1>2
  <1> HIDE DEF m
  <1> QED
    BY <1>3, <1>4 DEF Max

\* What is left of a list when one place goes.
LEMMA OneGoes ==
    ASSUME NEW S, NEW s \in Seq(S), NEW i \in 1 .. Len(s)
    PROVE  /\ RemoveAt(s, i) \in Seq(S) /\ Len(RemoveAt(s, i)) = Len(s) - 1
           /\ \A j \in 1 .. Len(s) - 1 : RemoveAt(s, i)[j] = IF j < i THEN s[j] ELSE s[j + 1]
  <1> DEFINE a == SubSeq(s, 1, i - 1)
             b == SubSeq(s, i + 1, Len(s))
  <1>1. Len(s) \in Nat /\ i \in Nat /\ i - 1 \in Nat /\ i + 1 \in Nat
    BY LenProperties
  <1>2. /\ a \in Seq(S) /\ Len(a) = i - 1 /\ \A j \in 1 .. i - 1 : a[j] = s[j]
    <2>1. \A j \in 1 .. i - 1 : s[j] \in S
      BY <1>1, ElementOfSeq
    <2>2. 1 \in Int /\ i - 1 \in Int
      BY <1>1
    <2>3. a \in Seq(S) /\ Len(a) = (IF 1 <= i - 1 THEN i - 1 - 1 + 1 ELSE 0)
          /\ \A j \in 1 .. i - 1 - 1 + 1 : a[j] = s[1 + j - 1]
      <3> HIDE DEF a
      <3> QED
        BY <2>1, <2>2, SubSeqProperties DEF a
    <2> HIDE DEF a
    <2>4. Len(a) = i - 1
      BY <1>1, <2>3
    <2>5. \A j \in 1 .. i - 1 : a[j] = s[j]
      BY <1>1, <2>3
    <2> QED
      BY <2>3, <2>4, <2>5
  <1>3. /\ b \in Seq(S) /\ Len(b) = Len(s) - i /\ \A j \in 1 .. Len(s) - i : b[j] = s[i + j]
    <2>1. \A j \in i + 1 .. Len(s) : s[j] \in S
      BY <1>1, ElementOfSeq
    <2>2. i + 1 \in Int /\ Len(s) \in Int
      BY <1>1
    <2>3. b \in Seq(S) /\ Len(b) = (IF i + 1 <= Len(s) THEN Len(s) - (i + 1) + 1 ELSE 0)
          /\ \A j \in 1 .. Len(s) - (i + 1) + 1 : b[j] = s[i + 1 + j - 1]
      <3> HIDE DEF b
      <3> QED
        BY <2>1, <2>2, SubSeqProperties DEF b
    <2> HIDE DEF b
    <2>4. Len(b) = Len(s) - i
      BY <1>1, <2>3
    <2>5. \A j \in 1 .. Len(s) - i : b[j] = s[i + j]
      BY <1>1, <2>3
    <2> QED
      BY <2>3, <2>4, <2>5
  <1>4. RemoveAt(s, i) = a \o b
    BY DEF RemoveAt
  <1> HIDE DEF a, b
  <1>5. /\ a \o b \in Seq(S) /\ Len(a \o b) = Len(a) + Len(b)
        /\ \A j \in 1 .. Len(a) + Len(b) : (a \o b)[j] = IF j <= Len(a) THEN a[j] ELSE b[j - Len(a)]
    BY <1>2, <1>3, ConcatProperties
  <1>6. ASSUME NEW j \in 1 .. Len(s) - 1
        PROVE  (a \o b)[j] = IF j < i THEN s[j] ELSE s[j + 1]
    <2>1. j \in 1 .. Len(a) + Len(b)
      BY <1>1, <1>2, <1>3
    <2>2. CASE j < i
      BY <1>1, <1>2, <1>5, <2>1, <2>2
    <2>3. CASE ~ (j < i)
      <3>1. (a \o b)[j] = b[j - (i - 1)]
        BY <1>1, <1>2, <1>5, <2>1, <2>3
      <3>2. j - (i - 1) \in 1 .. Len(s) - i /\ i + (j - (i - 1)) = j + 1
        BY <1>1, <2>3
      <3>3. b[j - (i - 1)] = s[i + (j - (i - 1))]
        BY <1>3, <3>2
      <3> QED
        BY <2>3, <3>1, <3>2, <3>3
    <2> QED
      BY <2>2, <2>3
  <1> QED
    BY <1>1, <1>2, <1>3, <1>4, <1>5, <1>6

\* Every element that is left had a place before, in the same order.
\* r is s without its place i, and from says where in s each place of r was.
CameFrom(r, from, s, i) ==
    /\ Len(r) = Len(s) - 1 /\ DOMAIN r = 1 .. Len(s) - 1
    /\ \A j \in DOMAIN r : from[j] \in DOMAIN s \ {i} /\ r[j] = s[from[j]]
    /\ \A j, k \in DOMAIN r : j < k => from[j] < from[k]
    /\ \A k \in DOMAIN s \ {i} : \E j \in DOMAIN r : from[j] = k

Shift(r, i) == [j \in DOMAIN r |-> IF j < i THEN j ELSE j + 1]

LEMMA OneGoesInOrder ==
    ASSUME NEW S, NEW s \in Seq(S), NEW i \in DOMAIN s
    PROVE  /\ RemoveAt(s, i) \in Seq(S)
           /\ CameFrom(RemoveAt(s, i), Shift(RemoveAt(s, i), i), s, i)
  <1> DEFINE r == RemoveAt(s, i)
             from == [j \in DOMAIN r |-> IF j < i THEN j ELSE j + 1]
  <1>1. i \in 1 .. Len(s) /\ Len(s) \in Nat /\ DOMAIN s = 1 .. Len(s)
    BY LenProperties
  <1>2. /\ r \in Seq(S) /\ Len(r) = Len(s) - 1
        /\ \A j \in 1 .. Len(s) - 1 : r[j] = IF j < i THEN s[j] ELSE s[j + 1]
    BY <1>1, OneGoes
  <1>3. DOMAIN r = 1 .. Len(s) - 1
    BY <1>2, LenProperties
  <1> HIDE DEF r
  <1>4. \A j \in DOMAIN r : from[j] \in DOMAIN s \ {i} /\ r[j] = s[from[j]]
    BY <1>1, <1>2, <1>3
  <1>5. \A j, k \in DOMAIN r : j < k => from[j] < from[k]
    BY <1>1, <1>3
  <1>6. ASSUME NEW k \in DOMAIN s \ {i}
        PROVE  \E j \in DOMAIN r : from[j] = k
    <2>1. CASE k < i
      <3>1. k \in DOMAIN r
        BY <1>1, <1>3, <2>1
      <3> QED
        BY <2>1, <3>1
    <2>2. CASE ~ (k < i)
      <3>1. k - 1 \in DOMAIN r /\ ~ (k - 1 < i) /\ k - 1 + 1 = k
        BY <1>1, <1>3, <2>2
      <3>2. from[k - 1] = k
        BY <3>1
      <3> QED
        BY <3>1, <3>2
    <2> QED
      BY <2>1, <2>2
  <1>7. from = Shift(r, i)
    BY DEF Shift
  <1> HIDE DEF from
  <1>8. CameFrom(r, from, s, i)
    BY <1>2, <1>3, <1>4, <1>5, <1>6 DEF CameFrom
  <1> QED
    BY <1>2, <1>7, <1>8 DEF r

-----------------------------------------------------------------------------
(* The list of items.                                                      *)

\* The list of items: each id at one place.
Listing(its) ==
    /\ its \in Seq(Item)
    /\ \A i, j \in DOMAIN its : its[i].id = its[j].id => i = j

\* The list r is its, some items of which have gone: the others keep their
\* order.
Thinned(r, its) ==
    /\ Listing(r)
    /\ \A j \in DOMAIN r : \E k \in DOMAIN its : r[j] = its[k]
    /\ \A i, j \in DOMAIN r : i < j =>
          \E k, l \in DOMAIN its : k < l /\ r[i].id = its[k].id /\ r[j].id = its[l].id

LEMMA ThinnedTwice ==
    ASSUME NEW a, NEW b, NEW c, Thinned(a, b), Thinned(b, c)
    PROVE  Thinned(a, c)
  <1>1. ASSUME NEW j \in DOMAIN a
        PROVE  \E k \in DOMAIN c : a[j] = c[k]
    BY DEF Thinned
  <1>2. ASSUME NEW i \in DOMAIN a, NEW j \in DOMAIN a, i < j
        PROVE  \E k, l \in DOMAIN c : k < l /\ a[i].id = c[k].id /\ a[j].id = c[l].id
    <2>1. PICK m \in DOMAIN b, n \in DOMAIN b : m < n /\ a[i].id = b[m].id /\ a[j].id = b[n].id
      BY <1>2 DEF Thinned
    <2>2. PICK k \in DOMAIN c, l \in DOMAIN c : k < l /\ b[m].id = c[k].id /\ b[n].id = c[l].id
      BY <2>1 DEF Thinned
    <2> QED
      BY <2>1, <2>2
  <1> QED
    BY <1>1, <1>2 DEF Thinned

LEMMA ThinnedNot ==
    ASSUME NEW a, Listing(a)
    PROVE  Thinned(a, a)
  BY DEF Thinned

LEMMA OneItemGoes ==
    ASSUME NEW its, Listing(its), NEW i \in DOMAIN its
    PROVE  /\ Thinned(RemoveAt(its, i), its) /\ Len(RemoveAt(its, i)) = Len(its) - 1
           /\ Listed(RemoveAt(its, i)) = Listed(its) \ {its[i].id}
           /\ Pinned(RemoveAt(its, i)) = Pinned(its) \ {its[i].id}
           /\ i # 1 => its # <<>> /\ RemoveAt(its, i) # <<>> /\ RemoveAt(its, i)[1] = its[1]
  <1> DEFINE r == RemoveAt(its, i)
             from == Shift(r, i)
  <1>0. its \in Seq(Item)
    BY DEF Listing
  <1>r. r \in Seq(Item) /\ CameFrom(r, from, its, i)
    BY <1>0, OneGoesInOrder
  <1>1. /\ r \in Seq(Item) /\ Len(r) = Len(its) - 1 /\ DOMAIN r = 1 .. Len(its) - 1
        /\ \A j \in DOMAIN r : from[j] \in DOMAIN its \ {i} /\ r[j] = its[from[j]]
        /\ \A j, k \in DOMAIN r : j < k => from[j] < from[k]
        /\ \A k \in DOMAIN its \ {i} : \E j \in DOMAIN r : from[j] = k
    <2> HIDE DEF r, from
    <2> QED
      BY <1>r DEF CameFrom
  <1>2. i # 1 => its # <<>> /\ r # <<>> /\ r[1] = its[1]
    <2> SUFFICES ASSUME i # 1
                 PROVE  its # <<>> /\ r # <<>> /\ r[1] = its[1]
      OBVIOUS
    <2>1. i \in 1 .. Len(its) /\ Len(its) \in Nat
      BY <1>0, LenProperties
    <2>2. 1 \in DOMAIN r /\ 1 < i
      BY <1>1, <2>1
    <2>3. from[1] = 1
      BY <2>2 DEF Shift
    <2> HIDE DEF r, from
    <2> QED
      BY <1>1, <2>1, <2>2, <2>3
  <1> HIDE DEF r, from
  <1>3. \A j \in DOMAIN r : \E k \in DOMAIN its : r[j] = its[k]
    BY <1>1
  <1>4. \A j, k \in DOMAIN r : j < k =>
            \E l, m \in DOMAIN its : l < m /\ r[j].id = its[l].id /\ r[k].id = its[m].id
    <2> TAKE j, k \in DOMAIN r
    <2> HAVE j < k
    <2>1. from[j] \in DOMAIN its /\ from[k] \in DOMAIN its /\ from[j] < from[k]
      BY <1>1
    <2>2. r[j].id = its[from[j]].id /\ r[k].id = its[from[k]].id
      BY <1>1
    <2> QED
      BY <2>1, <2>2
  <1>5. ASSUME NEW j \in DOMAIN r, NEW k \in DOMAIN r, r[j].id = r[k].id
        PROVE  j = k
    <2>1. from[j] = from[k]
      BY <1>1, <1>5 DEF Listing
    <2>2. j \in Int /\ k \in Int /\ ~ (j < k) /\ ~ (k < j)
      <3>1. j \in Int /\ k \in Int
        BY <1>1
      <3>2. \A n \in DOMAIN its : ~ (n < n)
        BY <1>0, LenProperties
      <3> QED
        BY <1>1, <2>1, <3>1, <3>2
    <2> QED
      BY <2>2
  <1>6. Listing(r)
    BY <1>1, <1>5 DEF Listing
  <1>7. \A k \in DOMAIN its \ {i} : its[k].id # its[i].id
    BY DEF Listing
  <1>8. Listed(r) = Listed(its) \ {its[i].id}
    <2>1. ASSUME NEW x \in Listed(r)
          PROVE  x \in Listed(its) \ {its[i].id}
      <3>1. PICK j \in DOMAIN r : x = r[j].id
        BY <2>1 DEF Listed
      <3>2. from[j] \in DOMAIN its \ {i} /\ x = its[from[j]].id
        BY <1>1, <3>1
      <3> QED
        BY <1>7, <3>2 DEF Listed
    <2>2. ASSUME NEW x \in Listed(its), x # its[i].id
          PROVE  x \in Listed(r)
      <3>1. PICK k \in DOMAIN its : x = its[k].id
        BY DEF Listed
      <3>2. PICK j \in DOMAIN r : from[j] = k
        BY <1>1, <2>2, <3>1
      <3> QED
        BY <1>1, <3>1, <3>2 DEF Listed
    <2> QED
      BY <2>1, <2>2
  <1>9. Pinned(r) = Pinned(its) \ {its[i].id}
    <2>1. ASSUME NEW x \in Pinned(r)
          PROVE  x \in Pinned(its) \ {its[i].id}
      <3>1. PICK j \in DOMAIN r : r[j].pinned /\ x = r[j].id
        BY <2>1 DEF Pinned
      <3>2. from[j] \in DOMAIN its \ {i} /\ x = its[from[j]].id /\ its[from[j]].pinned
        BY <1>1, <3>1
      <3> QED
        BY <1>7, <3>2 DEF Pinned
    <2>2. ASSUME NEW x \in Pinned(its), x # its[i].id
          PROVE  x \in Pinned(r)
      <3>1. PICK k \in DOMAIN its : its[k].pinned /\ x = its[k].id
        BY DEF Pinned
      <3>2. PICK j \in DOMAIN r : from[j] = k
        BY <1>1, <2>2, <3>1
      <3>3. r[j].pinned /\ x = r[j].id
        BY <1>1, <3>1, <3>2
      <3> QED
        BY <3>3 DEF Pinned
    <2> QED
      BY <2>1, <2>2
  <1> QED
    BY <1>1, <1>2, <1>3, <1>4, <1>6, <1>8, <1>9 DEF r, Thinned

\* The list without an id.
LEMMA WithoutOne ==
    ASSUME NEW its, Listing(its), NEW id
    PROVE  /\ Thinned(Without(its, id), its) /\ Listed(Without(its, id)) = Listed(its) \ {id}
           /\ Pinned(Without(its, id)) = Pinned(its) \ {id}
           /\ id \notin Listed(its) => Without(its, id) = its
           /\ id \in Listed(its) => Len(Without(its, id)) = Len(its) - 1
  <1>0. its \in Seq(Item) /\ DOMAIN its = 1 .. Len(its) /\ Len(its) \in Nat
    BY LenProperties DEF Listing
  <1>1. CASE id \in Listed(its)
    <2> DEFINE I == {i \in 1 .. Len(its) : its[i].id = id}
    <2>1. I # {} /\ I \in SUBSET Nat
      BY <1>0, <1>1 DEF Listed
    <2>2. \E i \in 1 .. Len(its) : its[i].id = id
      BY <2>1
    <2>3. Without(its, id) = RemoveAt(its, Min(I))
      BY <2>1, <2>2 DEF Without, RemoveFirstMatch, SelectInSeq
    <2>4. Min(I) \in I
      <3> HIDE DEF I
      <3> QED
        BY <2>1, LeastOf
    <2>5. Min(I) \in DOMAIN its /\ its[Min(I)].id = id
      BY <1>0, <2>4
    <2> HIDE DEF I
    <2> QED
      BY <1>1, <2>3, <2>5, OneItemGoes
  <1>2. CASE id \notin Listed(its)
    <2>1. ~ \E i \in 1 .. Len(its) : its[i].id = id
      BY <1>0, <1>2 DEF Listed
    <2>2. Without(its, id) = its
      BY <2>1 DEF Without, RemoveFirstMatch
    <2>3. Pinned(its) \subseteq Listed(its)
      BY DEF Pinned, Listed
    <2> QED
      BY <1>2, <2>2, <2>3, ThinnedNot
  <1> QED
    BY <1>1, <1>2

-----------------------------------------------------------------------------
(* Loops.                                                                  *)

\* g is the course of a loop of N turns over T: turn n takes y to e[n][y].
Turns(e, N, T) == e \in [1 .. N -> [T -> T]]
IsCourse(g, x, e, N, T) == g \in [0 .. N -> T] /\ g[0] = x /\ \A n \in 1 .. N : g[n] = e[n][g[n - 1]]

LEMMA Course ==
    ASSUME NEW N \in Nat, NEW T, NEW x \in T, NEW e, Turns(e, N, T)
    PROVE  \E g : IsCourse(g, x, e, N, T)
  <1>0. e \in [1 .. N -> [T -> T]]
    BY DEF Turns
  <1> DEFINE Goes(g, k) == g[0] = x /\ \A n \in 1 .. k : g[n] = e[n][g[n - 1]]
             Has(k) == \E g \in [0 .. N -> T] : Goes(g, k)
             K == {k \in Nat : Has(k)}
  <1>1. 0 \in K
    <2> DEFINE g == [n \in 0 .. N |-> x]
    <2>1. g \in [0 .. N -> T] /\ Goes(g, 0)
      OBVIOUS
    <2> HIDE DEF g
    <2> QED
      BY <2>1
  <1>2. ASSUME NEW k \in 1 .. N, k - 1 \in K
        PROVE  k \in K
    <2>1. PICK h \in [0 .. N -> T] : Goes(h, k - 1)
      BY <1>2
    <2> DEFINE g == [h EXCEPT ![k] = e[k][h[k - 1]]]
    <2>2. k - 1 \in 0 .. N /\ k \in 0 .. N /\ k \in Nat
      OBVIOUS
    <2>3. h[k - 1] \in T /\ e[k][h[k - 1]] \in T
      BY <1>0, <2>2
    <2>4. g \in [0 .. N -> T]
      BY <2>3
    <2>5. g[0] = x
      BY <2>1
    <2>6. ASSUME NEW n \in 1 .. k
          PROVE  g[n] = e[n][g[n - 1]]
      <3>1. n - 1 \in 0 .. N /\ n - 1 # k /\ n \in 0 .. N
        OBVIOUS
      <3>2. g[n - 1] = h[n - 1]
        BY <3>1
      <3>3. CASE n = k
        BY <2>2, <3>2, <3>3
      <3>4. CASE n # k
        <4>1. n \in 1 .. k - 1 /\ g[n] = h[n]
          BY <3>1, <3>4
        <4> QED
          BY <2>1, <3>2, <4>1
      <3> QED
        BY <3>3, <3>4
    <2> HIDE DEF g
    <2> QED
      BY <2>2, <2>4, <2>5, <2>6
  <1>3. N \in K
    <2> HIDE DEF K
    <2>1. \A k \in 1 .. N : k - 1 \in K => k \in K
      BY <1>2
    <2>2. \A k \in 0 .. N : k \in K
      BY ONLY N \in Nat, <1>1, <2>1, UpTo
    <2> QED
      BY <2>2
  <1> QED
    BY <1>3 DEF IsCourse

-----------------------------------------------------------------------------
(* Eviction.                                                               *)

LEMMA LoosePlace ==
    ASSUME NEW its \in Seq(Item), Loose(its) # {}
    PROVE  Max(Loose(its)) \in DOMAIN its /\ ~its[Max(Loose(its))].pinned
           /\ \A i \in DOMAIN its : ~its[i].pinned => i <= Max(Loose(its))
  <1>1. Loose(its) \in SUBSET (1 .. Len(its)) /\ Len(its) \in Nat
    BY LenProperties DEF Loose
  <1>2. Max(Loose(its)) \in Loose(its) /\ \A y \in Loose(its) : Max(Loose(its)) >= y
    BY <1>1, GreatestOf
  <1>3. \A i \in DOMAIN its : i \in Int
    BY LenProperties
  <1> QED
    BY <1>1, <1>2, <1>3 DEF Loose

LEMMA EvictOldestKind ==
    ASSUME NEW its \in Seq(Item)
    PROVE  EvictOldest(its) \in Seq(Item)
  <1>1. CASE Len(its) <= cap \/ Loose(its) = {}
    BY <1>1 DEF EvictOldest
  <1>2. CASE ~ (Len(its) <= cap \/ Loose(its) = {})
    <2>1. Max(Loose(its)) \in DOMAIN its
      BY <1>2, LoosePlace
    <2>2. RemoveAt(its, Max(Loose(its))) \in Seq(Item)
      BY <2>1, OneGoesInOrder
    <2> QED
      BY <1>2, <2>2 DEF EvictOldest
  <1> QED
    BY <1>1, <1>2

\* One turn is enough for a list that is longer by one.
LEMMA EvictsOne ==
    ASSUME NEW its \in Seq(Item), cap \in Nat, Len(its) <= cap + 1
    PROVE  Evict(its) = EvictOldest(its) /\ (Loose(its) # {} => Len(Evict(its)) <= cap)
  <1> DEFINE N == Len(its)
             e == [n \in 1 .. N |-> [y \in Seq(Item) |-> EvictOldest(y)]]
             Step(g) == [n \in 0 .. N |-> IF n = 0 THEN its ELSE EvictOldest(g[n - 1])]
             after == CHOOSE g : g = Step(g)
             once == EvictOldest(its)
  <1>1. N \in Nat
    BY LenProperties
  <1>2. once \in Seq(Item) /\ EvictOldest(once) = once /\ (Loose(its) # {} => Len(once) <= cap)
    <2>1. CASE N <= cap \/ Loose(its) = {}
      BY <2>1 DEF EvictOldest
    <2>2. CASE ~ (N <= cap \/ Loose(its) = {})
      <3>1. Max(Loose(its)) \in DOMAIN its
        BY <2>2, LoosePlace
      <3>2. once = RemoveAt(its, Max(Loose(its)))
        BY <2>2 DEF EvictOldest
      <3>3. once \in Seq(Item) /\ Len(once) = N - 1
        BY <3>1, <3>2, OneGoesInOrder DEF CameFrom
      <3> HIDE DEF once
      <3>4. Len(once) <= cap
        BY <1>1, <3>3
      <3> QED
        BY <3>3, <3>4 DEF EvictOldest
    <2> QED
      BY <2>1, <2>2
  <1> HIDE DEF once
  <1>3. e \in [1 .. N -> [Seq(Item) -> Seq(Item)]]
    BY EvictOldestKind
  <1>4. \E g : g = Step(g)
    <2>1. PICK g \in [0 .. N -> Seq(Item)] : g[0] = its /\ \A n \in 1 .. N : g[n] = e[n][g[n - 1]]
      <3> HIDE DEF e, N
      <3>1. Turns(e, N, Seq(Item))
        BY <1>3 DEF Turns
      <3>2. \E g : IsCourse(g, its, e, N, Seq(Item))
        BY <1>1, <3>1, Course
      <3> QED
        BY <3>2 DEF IsCourse
    <2>4. ASSUME NEW n \in 0 .. N
          PROVE  g[n] = IF n = 0 THEN its ELSE EvictOldest(g[n - 1])
      <3>1. CASE n = 0
        BY <2>1, <3>1
      <3>2. CASE n # 0
        <4>1. n \in 1 .. N /\ n - 1 \in 0 .. N
          BY <3>2
        <4>2. g[n - 1] \in Seq(Item) /\ g[n] = e[n][g[n - 1]]
          BY <2>1, <4>1
        <4> QED
          BY <3>2, <4>1, <4>2
      <3> QED
        BY <3>1, <3>2
    <2>5. g = [n \in 0 .. N |-> g[n]]
      BY <2>1
    <2>6. g = Step(g)
      BY <2>4, <2>5
    <2> HIDE DEF Step
    <2> QED
      BY <2>6
  <1>5. after = Step(after)
    <2> HIDE DEF Step
    <2> QED
      BY <1>4
  <1>6. Evict(its) = after[N]
    BY DEF Evict
  <1>7. \A n \in 0 .. N : after[n] = IF n = 0 THEN its ELSE EvictOldest(after[n - 1])
    <2> HIDE DEF after
    <2> QED
      BY <1>5
  <1> HIDE DEF after
  <1>8. CASE N = 0
    <2>1. Evict(its) = its
      BY <1>6, <1>7, <1>8
    <2>2. once = its
      BY <1>8 DEF once, EvictOldest
    <2> QED
      BY <1>2, <2>1, <2>2 DEF once
  <1>9. CASE N # 0
    <2> DEFINE T == {n \in Nat : n # 0 => after[n] = once}
    <2>1. 0 \in T
      OBVIOUS
    <2>2. ASSUME NEW k \in 1 .. N, k - 1 \in T
          PROVE  k \in T
      <3>1. after[k] = EvictOldest(after[k - 1]) /\ k \in Nat
        BY <1>7
      <3>2. CASE k = 1
        <4>1. after[0] = its
          BY <1>1, <1>7
        <4> QED
          BY <3>1, <3>2, <4>1 DEF once
      <3>3. CASE k # 1
        <4>1. after[k - 1] = once
          BY <2>2, <3>3
        <4> QED
          BY <1>2, <3>1, <4>1
      <3> QED
        BY <3>2, <3>3
    <2>3. \A n \in 0 .. N : n \in T
      <3> HIDE DEF T, N
      <3> QED
        BY <1>1, <2>1, <2>2, UpTo
    <2>4. Evict(its) = once
      BY <1>1, <1>6, <1>9, <2>3
    <2> QED
      BY <1>2, <2>4 DEF once
  <1> QED
    BY <1>8, <1>9

\* A list of pinned items has as many ids as places.
LEMMA AllPinned ==
    ASSUME NEW w, Listing(w), \A j \in DOMAIN w : w[j].pinned
    PROVE  Cardinality(Pinned(w)) = Len(w)
  <1> DEFINE f == [j \in 1 .. Len(w) |-> w[j].id]
  <1>1. DOMAIN w = 1 .. Len(w) /\ Len(w) \in Nat
    BY LenProperties DEF Listing
  <1>2. Pinned(w) = {w[j].id : j \in 1 .. Len(w)}
    BY <1>1 DEF Pinned
  <1>3. f \in Bijection(1 .. Len(w), Pinned(w))
    <2>1. f \in [1 .. Len(w) -> Pinned(w)]
      BY <1>2
    <2>2. \A x \in Pinned(w) : \E j \in 1 .. Len(w) : f[j] = x
      BY <1>2
    <2>3. \A i, j \in 1 .. Len(w) : f[i] = f[j] => i = j
      BY <1>1 DEF Listing
    <2> QED
      BY <2>1, <2>2, <2>3 DEF Bijection, Injection, Surjection, IsInjective
  <1>4. ExistsBijection(1 .. Len(w), Pinned(w))
    BY <1>3 DEF ExistsBijection
  <1>5. IsFiniteSet(1 .. Len(w)) /\ Cardinality(1 .. Len(w)) = Len(w)
    <2>1. 1 \in Int /\ Len(w) \in Int
      BY <1>1
    <2>2. Cardinality(1 .. Len(w)) = IF 1 > Len(w) THEN 0 ELSE Len(w) - 1 + 1
      BY <2>1, FS_Interval
    <2> QED
      BY <1>1, <2>1, <2>2, FS_Interval
  <1> QED
    BY <1>4, <1>5, FS_Bijection

\* An item in front of the others.
FrontOf(m, x, w) ==
    /\ Listing(m) /\ Len(m) = Len(w) + 1 /\ DOMAIN m = 1 .. Len(w) + 1 /\ m[1] = x
    /\ \A j \in DOMAIN m : j # 1 => j - 1 \in DOMAIN w /\ m[j] = w[j - 1]
    /\ Listed(m) = Listed(w) \cup {x.id} /\ Pinned(m) = Pinned(w)

LEMMA InFront ==
    ASSUME NEW w, Listing(w), NEW x \in Item, x.id \notin Listed(w), x.pinned = FALSE
    PROVE  FrontOf(<<x>> \o w, x, w)
  <1> DEFINE m == <<x>> \o w
  <1>1. w \in Seq(Item) /\ Len(w) \in Nat /\ DOMAIN w = 1 .. Len(w)
    BY LenProperties DEF Listing
  <1>2. <<x>> \in Seq(Item) /\ Len(<<x>>) = 1 /\ <<x>>[1] = x
    OBVIOUS
  <1>3. /\ m \in Seq(Item) /\ Len(m) = Len(<<x>>) + Len(w)
        /\ \A i \in 1 .. Len(<<x>>) + Len(w) :
              m[i] = IF i <= Len(<<x>>) THEN <<x>>[i] ELSE w[i - Len(<<x>>)]
    BY <1>1, <1>2, ConcatProperties
  <1> HIDE DEF m
  <1>4. Len(m) = Len(w) + 1 /\ DOMAIN m = 1 .. Len(w) + 1
    <2>1. Len(m) = Len(w) + 1
      BY <1>1, <1>2, <1>3
    <2> QED
      BY <1>3, <2>1, LenProperties
  <1>5. m[1] = x
    BY <1>1, <1>2, <1>3
  <1>6. \A j \in DOMAIN m : j # 1 => j - 1 \in DOMAIN w /\ m[j] = w[j - 1]
    BY <1>1, <1>2, <1>3, <1>4
  <1>7. \A j \in DOMAIN w : j + 1 \in DOMAIN m /\ m[j + 1] = w[j]
    <2> TAKE j \in DOMAIN w
    <2>1. j \in 1 .. Len(w)
      BY <1>1
    <2>2. j + 1 \in DOMAIN m /\ j + 1 # 1 /\ j + 1 - 1 = j
      BY <1>1, <1>4, <2>1
    <2>3. ASSUME NEW k \in DOMAIN m, k = j + 1
          PROVE  m[k] = w[j]
      <3>1. k # 1 /\ k - 1 = j
        BY <2>1, <2>3
      <3>2. m[k] = w[k - 1]
        BY <1>6, <3>1
      <3> QED
        BY <3>1, <3>2
    <2>4. m[j + 1] = w[j]
      BY <2>2, <2>3
    <2> QED
      BY <2>2, <2>4
  <1>8. 1 \in DOMAIN m
    BY <1>1, <1>4
  <1>9. \A j \in DOMAIN w : w[j].id # x.id
    BY DEF Listed
  <1>10. Listing(m)
    <2>1. ASSUME NEW i \in DOMAIN m, NEW j \in DOMAIN m, m[i].id = m[j].id
          PROVE  i = j
      <3>1. CASE i = 1 \/ j = 1
        BY <1>5, <1>6, <1>9, <2>1, <3>1
      <3>2. CASE i # 1 /\ j # 1
        <4>1. i - 1 = j - 1
          BY <1>6, <2>1, <3>2 DEF Listing
        <4> QED
          BY <1>4, <4>1
      <3> QED
        BY <3>1, <3>2
    <2> QED
      BY <1>3, <2>1 DEF Listing
  <1>11. Listed(m) = Listed(w) \cup {x.id}
    BY <1>5, <1>6, <1>7, <1>8 DEF Listed
  <1>12. Pinned(m) = Pinned(w)
    <2>1. ASSUME NEW y \in Pinned(m)
          PROVE  y \in Pinned(w)
      <3>1. PICK j \in DOMAIN m : m[j].pinned /\ y = m[j].id
        BY DEF Pinned
      <3>2. j # 1
        BY <1>5, <3>1
      <3> QED
        BY <1>6, <3>1, <3>2 DEF Pinned
    <2>2. ASSUME NEW y \in Pinned(w)
          PROVE  y \in Pinned(m)
      <3>1. PICK j \in DOMAIN w : w[j].pinned /\ y = w[j].id
        BY DEF Pinned
      <3>2. j + 1 \in DOMAIN m /\ m[j + 1].pinned /\ y = m[j + 1].id
        BY <1>7, <3>1
      <3> QED
        BY <3>2 DEF Pinned
    <2> QED
      BY <2>1, <2>2
  <1> QED
    BY <1>4, <1>5, <1>6, <1>10, <1>11, <1>12 DEF FrontOf, m

\* What add makes of the list: at most one item goes, and never a pinned one;
\* the clip is in front unless the others are all pinned and fill the list.
TakesIn(a, its, id) ==
    /\ Listing(a) /\ Len(a) <= cap
    /\ id \notin Pinned(a) /\ Pinned(its) \subseteq Listed(a)
    /\ Listed(a) \subseteq Listed(its) \cup {id}

FirstOf(a, its, id) ==
    /\ a # <<>> /\ a[1].id = id
    /\ \A i, j \in DOMAIN a : i < j =>
          /\ a[j].id # id /\ a[j].id \in Listed(its)
          /\ \/ a[i].id = id
             \/ \E k, l \in DOMAIN its : k < l /\ a[i].id = its[k].id /\ a[j].id = its[l].id

LEMMA AddMakes ==
    ASSUME NEW its, Listing(its), cap \in Nat, Len(its) <= cap, NEW id \in Clip, second \in Nat
    PROVE  /\ TakesIn(Add(its, id), its, id)
           /\ FirstOf(Add(its, id), its, id) \/ Cardinality(Pinned(Without(its, id))) >= cap
  <1> DEFINE a == Add(its, id)
             w == Without(its, id)
             x == [id |-> id, pinned |-> FALSE, at |-> second]
             m == <<x>> \o w
             k == Max(Loose(m))
  <1>1. Thinned(w, its) /\ Listed(w) = Listed(its) \ {id} /\ Pinned(w) = Pinned(its) \ {id}
        /\ (id \notin Listed(its) => w = its) /\ (id \in Listed(its) => Len(w) = Len(its) - 1)
    BY WithoutOne
  <1>2. Listing(w) /\ w \in Seq(Item) /\ Len(w) \in Nat /\ Len(its) \in Nat
    BY <1>1, LenProperties DEF Thinned, Listing
  <1>3. Len(w) <= Len(its)
    BY <1>1, <1>2
  <1> HIDE DEF w
  <1>4. x \in Item /\ x.id = id /\ x.pinned = FALSE
    BY DEF Item
  <1> HIDE DEF x
  <1>5. /\ Listing(m) /\ Len(m) = Len(w) + 1 /\ DOMAIN m = 1 .. Len(w) + 1 /\ m[1] = x
        /\ \A j \in DOMAIN m : j # 1 => j - 1 \in DOMAIN w /\ m[j] = w[j - 1]
        /\ Listed(m) = Listed(w) \cup {id} /\ Pinned(m) = Pinned(w)
    <2>1. x.id \notin Listed(w)
      BY <1>1, <1>4
    <2>2. FrontOf(m, x, w)
      BY <1>2, <1>4, <2>1, InFront
    <2> HIDE DEF m
    <2> QED
      BY <1>4, <2>2 DEF FrontOf
  <1>6. a = Evict(m)
    BY DEF Add, m, w, x
  <1> HIDE DEF m
  <1>7. m \in Seq(Item) /\ 1 \in DOMAIN m /\ Len(m) <= cap + 1
    BY <1>2, <1>3, <1>5 DEF Listing
  <1>8. Loose(m) # {}
    BY <1>4, <1>5, <1>7 DEF Loose
  <1>9. a = EvictOldest(m) /\ Len(a) <= cap
    BY <1>6, <1>7, <1>8, EvictsOne
  <1>10. k \in DOMAIN m /\ ~m[k].pinned /\ \A i \in DOMAIN m : ~m[i].pinned => i <= k
    BY <1>7, <1>8, LoosePlace
  <1> HIDE DEF k
  <1>11. \A j \in DOMAIN m : j # 1 => m[j].id # id /\ m[j].id \in Listed(its)
    <2> TAKE j \in DOMAIN m
    <2>1. j # 1 => m[j].id \in Listed(w)
      BY <1>5 DEF Listed
    <2> QED
      BY <1>1, <2>1
  <1>12. ASSUME NEW i \in DOMAIN m, NEW j \in DOMAIN m, i < j
         PROVE  /\ m[j].id # id /\ m[j].id \in Listed(its)
                /\ \/ m[i].id = id
                   \/ \E n, l \in DOMAIN its :
                         n < l /\ m[i].id = its[n].id /\ m[j].id = its[l].id
    <2>1. i \in Int /\ j \in Int /\ j # 1
      BY <1>2, <1>5, <1>12
    <2>2. m[j].id # id /\ m[j].id \in Listed(its)
      BY <1>11, <2>1
    <2>3. CASE i = 1
      BY <1>4, <1>5, <2>2, <2>3
    <2>4. CASE i # 1
      <3>1. i - 1 \in DOMAIN w /\ j - 1 \in DOMAIN w /\ m[i] = w[i - 1] /\ m[j] = w[j - 1]
        BY <1>5, <2>1, <2>4
      <3>2. i - 1 < j - 1
        BY <1>12, <2>1
      <3>3. \E n, l \in DOMAIN its : n < l /\ w[i - 1].id = its[n].id /\ w[j - 1].id = its[l].id
        BY <1>1, <3>1, <3>2 DEF Thinned
      <3> QED
        BY <2>2, <3>1, <3>3
    <2> QED
      BY <2>3, <2>4
  <1>13. CASE Len(m) <= cap
    <2>1. a = m
      BY <1>9, <1>13 DEF EvictOldest
    <2>2. id \notin Pinned(a)
      BY <1>1, <1>5, <2>1
    <2>3. Pinned(its) \subseteq Listed(a)
      <3>1. Pinned(its) \subseteq Listed(its)
        BY DEF Pinned, Listed
      <3> QED
        BY <1>1, <1>5, <2>1, <3>1
    <2>4. Listed(a) \subseteq Listed(its) \cup {id}
      BY <1>1, <1>5, <2>1
    <2>5. a # <<>> /\ a[1].id = id
      BY <1>2, <1>4, <1>5, <2>1
    <2> HIDE DEF a
    <2>6. TakesIn(a, its, id)
      BY <1>5, <1>9, <2>1, <2>2, <2>3, <2>4 DEF TakesIn
    <2>7. FirstOf(a, its, id)
      BY <1>12, <2>1, <2>5 DEF FirstOf
    <2> QED
      BY <2>6, <2>7 DEF a
  <1>14. CASE ~ (Len(m) <= cap)
    <2>1. a = RemoveAt(m, k)
      BY <1>8, <1>9, <1>14 DEF EvictOldest, k
    <2>2. /\ Thinned(a, m) /\ Listed(a) = Listed(m) \ {m[k].id}
          /\ Pinned(a) = Pinned(m) \ {m[k].id}
          /\ (k # 1 => a # <<>> /\ a[1] = m[1])
      BY <1>5, <1>10, <2>1, OneItemGoes
    <2> HIDE DEF a
    <2>3. Len(w) = cap /\ id \notin Listed(its) /\ w = its
      BY <1>1, <1>2, <1>3, <1>5, <1>14
    <2>4. m[k].id \notin Pinned(its)
      <3>1. ASSUME m[k].id \in Pinned(its)
            PROVE  FALSE
        <4>1. k # 1
          <5>1. Pinned(its) \subseteq Listed(its)
            BY DEF Pinned, Listed
          <5> QED
            BY <1>4, <1>5, <2>3, <3>1, <5>1
        <4>2. k - 1 \in DOMAIN its /\ m[k] = its[k - 1]
          BY <1>5, <1>10, <2>3, <4>1
        <4>3. PICK j \in DOMAIN its : its[j].pinned /\ its[j].id = m[k].id
          BY <3>1 DEF Pinned
        <4>4. j = k - 1
          BY <4>2, <4>3 DEF Listing
        <4> QED
          BY <1>10, <4>2, <4>3, <4>4
      <3> QED
        BY <3>1
    <2>5. id \notin Pinned(a)
      BY <1>1, <1>5, <2>2
    <2>6. Pinned(its) \subseteq Listed(a)
      <3>1. Pinned(its) \subseteq Listed(its)
        BY DEF Pinned, Listed
      <3> QED
        BY <1>5, <2>2, <2>3, <2>4, <3>1
    <2>7. Listed(a) \subseteq Listed(its) \cup {id}
      BY <1>5, <2>2, <2>3
    <2>10. TakesIn(a, its, id)
      BY <1>9, <2>2, <2>5, <2>6, <2>7 DEF Thinned, TakesIn
    <2>8. CASE k = 1
      <3>1. \A j \in DOMAIN w : w[j].pinned
        <4> TAKE j \in DOMAIN w
        <4>1. j + 1 \in DOMAIN m /\ j + 1 # 1 /\ j + 1 - 1 = j /\ j \in Int /\ j >= 1
          BY <1>2, <1>5, LenProperties
        <4>2. m[j + 1] = w[j]
          BY <1>5, <4>1
        <4>3. ~ (j + 1 <= 1)
          BY <4>1
        <4> QED
          BY <1>10, <2>8, <4>1, <4>2, <4>3
      <3>2. Cardinality(Pinned(w)) = Len(w)
        BY <1>2, <3>1, AllPinned
      <3>3. Cardinality(Pinned(w)) >= cap
        BY <1>2, <2>3, <3>2
      <3> QED
        BY <2>10, <3>3 DEF a, w
    <2>9. CASE k # 1
      <3>1. a # <<>> /\ a[1].id = id
        BY <1>4, <1>5, <2>2, <2>9
      <3>2. ASSUME NEW i \in DOMAIN a, NEW j \in DOMAIN a, i < j
            PROVE  /\ a[j].id # id /\ a[j].id \in Listed(its)
                   /\ \/ a[i].id = id
                      \/ \E n, l \in DOMAIN its :
                            n < l /\ a[i].id = its[n].id /\ a[j].id = its[l].id
        <4>1. PICK n \in DOMAIN m, l \in DOMAIN m : n < l /\ a[i].id = m[n].id /\ a[j].id = m[l].id
          BY <2>2, <3>2 DEF Thinned
        <4> QED
          BY <1>12, <4>1
      <3> QED
        BY <2>10, <3>1, <3>2 DEF FirstOf, a
    <2> QED
      BY <2>8, <2>9
  <1> QED
    BY <1>13, <1>14

-----------------------------------------------------------------------------
(* The order in which bodies go.                                           *)

\* An order: each id at one place.
Order(o) == o \in Seq(Clip) /\ IsInjective(o)

\* x goes before y.
Before(o, x, y) == \E i, j \in DOMAIN o : i < j /\ o[i] = x /\ o[j] = y

LEMMA OrderWithout ==
    ASSUME NEW o, Order(o), NEW id \in ToSet(o)
    PROVE  LET r == RemoveFirst(o, id)
           IN  /\ Order(r) /\ ToSet(r) = ToSet(o) \ {id} /\ Len(r) = Len(o) - 1
               /\ \A x, y : x # id /\ y # id /\ Before(o, x, y) => Before(r, x, y)
  <1> DEFINE I == {i \in 1 .. Len(o) : o[i] = id}
             i == Min(I)
             r == RemoveAt(o, i)
             from == Shift(r, i)
  <1>0. o \in Seq(Clip) /\ DOMAIN o = 1 .. Len(o) /\ Len(o) \in Nat
    BY LenProperties DEF Order
  <1>1. I # {} /\ I \in SUBSET Nat
    BY <1>0 DEF ToSet
  <1>2. \E j \in 1 .. Len(o) : o[j] = id
    BY <1>1
  <1>3. RemoveFirst(o, id) = r
    BY <1>1, <1>2 DEF RemoveFirst, SelectInSeq
  <1>4. i \in I
    <2> HIDE DEF I
    <2> QED
      BY <1>1, LeastOf
  <1>5. i \in DOMAIN o /\ o[i] = id
    BY <1>0, <1>4
  <1> HIDE DEF i
  <1>6. /\ r \in Seq(Clip) /\ Len(r) = Len(o) - 1 /\ DOMAIN r = 1 .. Len(o) - 1
        /\ \A j \in DOMAIN r : from[j] \in DOMAIN o \ {i} /\ r[j] = o[from[j]]
        /\ \A j, k \in DOMAIN r : j < k => from[j] < from[k]
        /\ \A k \in DOMAIN o \ {i} : \E j \in DOMAIN r : from[j] = k
    <2>1. r \in Seq(Clip) /\ CameFrom(r, from, o, i)
      BY <1>0, <1>5, OneGoesInOrder
    <2> HIDE DEF r, from
    <2> QED
      BY <2>1 DEF CameFrom
  <1> HIDE DEF r
  <1>7. \A j, k \in DOMAIN r : from[j] < from[k] => j < k
    <2> TAKE j, k \in DOMAIN r
    <2>1. j \in Int /\ k \in Int /\ i \in Int
      BY <1>0, <1>5, <1>6
    <2>2. from[j] = IF j < i THEN j ELSE j + 1
      BY DEF Shift
    <2>3. from[k] = IF k < i THEN k ELSE k + 1
      BY DEF Shift
    <2> HIDE DEF from
    <2> QED
      BY <2>1, <2>2, <2>3
  <1> HIDE DEF from
  <1>8. Order(r)
    <2>1. ASSUME NEW j \in DOMAIN r, NEW k \in DOMAIN r, r[j] = r[k]
          PROVE  j = k
      <3>1. from[j] = from[k]
        BY <1>6, <2>1 DEF Order, IsInjective
      <3>2. j \in Int /\ k \in Int /\ from[j] \in Int /\ from[k] \in Int
        BY <1>0, <1>6
      <3>3. ~ (j < k) /\ ~ (k < j)
        BY <1>6, <3>1, <3>2
      <3> QED
        BY <3>2, <3>3
    <2> QED
      BY <1>6, <2>1 DEF Order, IsInjective
  <1>9. ToSet(r) = ToSet(o) \ {id}
    <2>1. \A k \in DOMAIN o \ {i} : o[k] # id
      BY <1>5 DEF Order, IsInjective
    <2>2. ASSUME NEW x \in ToSet(r)
          PROVE  x \in ToSet(o) \ {id}
      BY <1>6, <2>1 DEF ToSet
    <2>3. ASSUME NEW x \in ToSet(o) \ {id}
          PROVE  x \in ToSet(r)
      <3>1. PICK k \in DOMAIN o \ {i} : x = o[k]
        BY <1>5 DEF ToSet
      <3>2. PICK j \in DOMAIN r : from[j] = k
        BY <1>6
      <3> QED
        BY <1>6, <3>1, <3>2 DEF ToSet
    <2> QED
      BY <2>2, <2>3
  <1>10. ASSUME NEW x, NEW y, x # id, y # id, Before(o, x, y)
         PROVE  Before(r, x, y)
    <2>1. PICK k \in DOMAIN o, l \in DOMAIN o : k < l /\ o[k] = x /\ o[l] = y
      BY <1>10 DEF Before
    <2>2. k # i /\ l # i
      BY <1>5, <1>10, <2>1
    <2>3. PICK j \in DOMAIN r : from[j] = k
      BY <1>6, <2>2
    <2>4. PICK m \in DOMAIN r : from[m] = l
      BY <1>6, <2>2
    <2>5. j < m /\ r[j] = x /\ r[m] = y
      BY <1>6, <1>7, <2>1, <2>3, <2>4
    <2> QED
      BY <2>5 DEF Before
  <1> QED
    BY <1>3, <1>6, <1>8, <1>9, <1>10

LEMMA OrderTail ==
    ASSUME NEW o, Order(o), o # <<>>
    PROVE  LET r == Tail(o)
           IN  /\ Order(r) /\ ToSet(r) = ToSet(o) \ {Head(o)} /\ Len(r) = Len(o) - 1
               /\ Head(o) \in ToSet(o)
               /\ \A x, y : x # Head(o) /\ Before(o, x, y) => Before(r, x, y)
  <1> DEFINE r == Tail(o)
  <1>0. o \in Seq(Clip) /\ DOMAIN o = 1 .. Len(o) /\ Len(o) \in Nat /\ 1 \in DOMAIN o /\ Head(o) = o[1]
    BY LenProperties, EmptySeq DEF Order
  <1>1. /\ r \in Seq(Clip) /\ Len(r) = Len(o) - 1 /\ DOMAIN r = 1 .. Len(o) - 1
        /\ \A j \in DOMAIN r : r[j] = o[j + 1]
    BY <1>0, HeadTailProperties, LenProperties
  <1> HIDE DEF r
  <1>2. \A j \in DOMAIN r : j + 1 \in DOMAIN o /\ j + 1 # 1 /\ j \in Int
    BY <1>0, <1>1
  <1>3. ASSUME NEW k \in DOMAIN o, k # 1
        PROVE  k - 1 \in DOMAIN r /\ r[k - 1] = o[k] /\ k \in Int
    <2>1. k - 1 \in DOMAIN r /\ k \in Int
      BY <1>0, <1>1, <1>3
    <2>2. ASSUME NEW j \in DOMAIN r, j = k - 1
          PROVE  r[j] = o[k]
      <3>1. r[j] = o[j + 1] /\ j + 1 = k
        BY <1>1, <2>1, <2>2
      <3> QED
        BY <3>1
    <2> QED
      BY <2>1, <2>2
  <1>4. Order(r)
    <2>1. ASSUME NEW j \in DOMAIN r, NEW k \in DOMAIN r, r[j] = r[k]
          PROVE  j = k
      <3>1. j + 1 = k + 1
        BY <1>1, <1>2, <2>1 DEF Order, IsInjective
      <3> QED
        BY <1>2, <3>1
    <2> QED
      BY <1>1, <2>1 DEF Order, IsInjective
  <1>5. ToSet(r) = ToSet(o) \ {Head(o)}
    <2>1. \A k \in DOMAIN o : k # 1 => o[k] # Head(o)
      BY <1>0 DEF Order, IsInjective
    <2>2. ASSUME NEW x \in ToSet(r)
          PROVE  x \in ToSet(o) \ {Head(o)}
      BY <1>1, <1>2, <2>1 DEF ToSet
    <2>3. ASSUME NEW x \in ToSet(o) \ {Head(o)}
          PROVE  x \in ToSet(r)
      <3>1. PICK k \in DOMAIN o : k # 1 /\ x = o[k]
        BY <1>0 DEF ToSet
      <3> QED
        BY <1>3, <3>1 DEF ToSet
    <2> QED
      BY <2>2, <2>3
  <1>6. ASSUME NEW x, NEW y, x # Head(o), Before(o, x, y)
        PROVE  Before(r, x, y)
    <2>1. PICK k \in DOMAIN o, l \in DOMAIN o : k < l /\ o[k] = x /\ o[l] = y
      BY <1>6 DEF Before
    <2>2. k # 1 /\ l # 1
      BY <1>0, <1>6, <2>1
    <2>3. k - 1 \in DOMAIN r /\ l - 1 \in DOMAIN r /\ k - 1 < l - 1 /\ r[k - 1] = x /\ r[l - 1] = y
      BY <1>3, <2>1, <2>2
    <2> QED
      BY <2>3 DEF Before
  <1>7. Head(o) \in ToSet(o)
    BY <1>0 DEF ToSet
  <1> QED
    BY <1>1, <1>4, <1>5, <1>6, <1>7 DEF r

LEMMA OrderAppend ==
    ASSUME NEW o, Order(o), NEW id \in Clip, id \notin ToSet(o)
    PROVE  LET r == Append(o, id)
           IN  /\ Order(r) /\ ToSet(r) = ToSet(o) \cup {id} /\ Len(r) = Len(o) + 1
               /\ \A x, y : Before(o, x, y) => Before(r, x, y)
               /\ \A x \in ToSet(o) : Before(r, x, id)
  <1> DEFINE r == Append(o, id)
  <1>0. o \in Seq(Clip) /\ DOMAIN o = 1 .. Len(o) /\ Len(o) \in Nat
    BY LenProperties DEF Order
  <1>1. /\ r \in Seq(Clip) /\ Len(r) = Len(o) + 1 /\ DOMAIN r = 1 .. Len(o) + 1
        /\ \A j \in DOMAIN o : r[j] = o[j]
        /\ r[Len(o) + 1] = id
    BY <1>0, AppendProperties, LenProperties
  <1> HIDE DEF r
  <1>2. /\ DOMAIN o \subseteq DOMAIN r /\ Len(o) + 1 \in DOMAIN r
        /\ \A j \in DOMAIN r : j \in DOMAIN o \/ j = Len(o) + 1
        /\ \A j \in DOMAIN o : j < Len(o) + 1
    BY <1>0, <1>1
  <1>3. \A j \in DOMAIN o : o[j] # id
    BY DEF ToSet
  <1>4. Order(r)
    BY <1>1, <1>2, <1>3 DEF Order, IsInjective
  <1>5. ToSet(r) = ToSet(o) \cup {id}
    BY <1>1, <1>2 DEF ToSet
  <1>6. \A x, y : Before(o, x, y) => Before(r, x, y)
    BY <1>1, <1>2 DEF Before
  <1>7. ASSUME NEW x \in ToSet(o)
        PROVE  Before(r, x, id)
    <2>1. PICK j \in DOMAIN o : o[j] = x
      BY DEF ToSet
    <2> QED
      BY <1>1, <1>2, <2>1 DEF Before
  <1> QED
    BY <1>1, <1>4, <1>5, <1>6, <1>7 DEF r

-----------------------------------------------------------------------------
(* The cache.                                                              *)

\* The cache adds up: each body has one place in the order, and the bytes are
\* counted.
CacheOK(c) ==
    /\ c = [order |-> c.order, bodies |-> c.bodies, bytes |-> c.bytes, thumbs |-> c.thumbs]
    /\ Order(c.order)
    /\ ToSet(c.order) = DOMAIN c.bodies
    /\ Bodies(c.bodies)
    /\ c.bytes = Total(c.bodies)
    /\ Kept(c.thumbs)

\* d is what is left of c: a thumbnail is gone if its body is.
LeftOf(d, c) ==
    /\ CacheOK(d)
    /\ DOMAIN d.bodies \subseteq DOMAIN c.bodies
    /\ \A x \in DOMAIN d.bodies : d.bodies[x] = c.bodies[x]
    /\ DOMAIN d.thumbs \subseteq DOMAIN c.thumbs
    /\ DOMAIN d.thumbs \cap DOMAIN c.bodies \subseteq DOMAIN d.bodies
    /\ Len(d.order) <= Len(c.order)

\* What has gone, went in order.
InOrder(d, c) ==
    \A x, y : Before(c.order, x, y) /\ x \in DOMAIN d.bodies => Before(d.order, x, y)

LEMMA TotalKind ==
    ASSUME NEW b, Bodies(b)
    PROVE  Total(b) \in Nat
  <1>1. CASE DOMAIN b = {}
    <2>1. DOMAIN [id \in DOMAIN b |-> Size[b[id]]] = {}
      BY <1>1
    <2> QED
      BY <2>1, SumOfNone DEF Total, SumFunction
  <1>2. CASE DOMAIN b # {}
    BY <1>2, TotalLess
  <1> QED
    BY <1>1, <1>2

LEMMA LessOf ==
    ASSUME NEW f, NEW S, Kept(f)
    PROVE  /\ DOMAIN Less(f, S) = DOMAIN f \ S /\ \A x \in DOMAIN f \ S : Less(f, S)[x] = f[x]
           /\ Kept(Less(f, S))
  BY DEF Less, Kept

LEMMA WithOf ==
    ASSUME NEW f, NEW x \in Clip, NEW v \in Clip, Kept(f)
    PROVE  /\ DOMAIN With(f, x, v) = DOMAIN f \cup {x}
           /\ \A y \in DOMAIN f \cup {x} : With(f, x, v)[y] = IF y = x THEN v ELSE f[y]
           /\ Kept(With(f, x, v))
  BY DEF With, Kept

LEMMA LeftOfItself ==
    ASSUME NEW c, CacheOK(c)
    PROVE  LeftOf(c, c) /\ InOrder(c, c)
  <1>1. Len(c.order) \in Nat
    BY LenProperties DEF CacheOK, Order
  <1> QED
    BY <1>1 DEF LeftOf, InOrder

LEMMA LeftOfTwice ==
    ASSUME NEW c, NEW d, NEW e, LeftOf(d, c), LeftOf(e, d), CacheOK(c),
           InOrder(d, c), InOrder(e, d)
    PROVE  LeftOf(e, c) /\ InOrder(e, c)
  <1>1. Len(c.order) \in Nat /\ Len(d.order) \in Nat /\ Len(e.order) \in Nat
    BY LenProperties DEF LeftOf, CacheOK, Order
  <1>2. Len(e.order) <= Len(c.order)
    BY <1>1 DEF LeftOf
  <1>3. InOrder(e, c)
    <2>1. DOMAIN e.bodies \subseteq DOMAIN d.bodies
      BY DEF LeftOf
    <2> QED
      BY <2>1 DEF InOrder
  <1> QED
    BY <1>2, <1>3 DEF LeftOf

LEMMA PopLeaves ==
    ASSUME NEW c, CacheOK(c), c.order # <<>>
    PROVE  LeftOf(PopOldest(c), c) /\ InOrder(PopOldest(c), c)
           /\ Len(PopOldest(c).order) = Len(c.order) - 1
  <1> DEFINE h == Head(c.order)
             d == PopOldest(c)
  <1>1. /\ Order(Tail(c.order)) /\ ToSet(Tail(c.order)) = ToSet(c.order) \ {h}
        /\ Len(Tail(c.order)) = Len(c.order) - 1 /\ h \in ToSet(c.order)
        /\ \A x, y : x # h /\ Before(c.order, x, y) => Before(Tail(c.order), x, y)
    BY OrderTail DEF CacheOK
  <1>2. h \in DOMAIN c.bodies
    BY <1>1 DEF CacheOK
  <1>3. /\ d.order = Tail(c.order) /\ d.bodies = Less(c.bodies, {h})
        /\ d.bytes = c.bytes - Size[c.bodies[h]] /\ d.thumbs = Less(c.thumbs, {h})
        /\ d = [order |-> d.order, bodies |-> d.bodies, bytes |-> d.bytes, thumbs |-> d.thumbs]
    BY <1>2 DEF PopOldest
  <1> HIDE DEF d
  <1>4. Bodies(d.bodies) /\ d.bytes = Total(d.bodies)
    BY <1>2, <1>3, TotalLess DEF CacheOK
  <1>0. Kept(c.bodies) /\ Kept(c.thumbs)
    BY DEF CacheOK, Bodies
  <1>5. /\ DOMAIN d.bodies = DOMAIN c.bodies \ {h}
        /\ \A x \in DOMAIN d.bodies : d.bodies[x] = c.bodies[x]
    <2>1. /\ DOMAIN Less(c.bodies, {h}) = DOMAIN c.bodies \ {h}
          /\ \A x \in DOMAIN c.bodies \ {h} : Less(c.bodies, {h})[x] = c.bodies[x]
      BY <1>0, LessOf
    <2>2. d.bodies = Less(c.bodies, {h})
      BY <1>3
    <2> QED
      BY <2>1, <2>2
  <1>6. /\ DOMAIN d.thumbs = DOMAIN c.thumbs \ {h}
        /\ Kept(d.thumbs)
    <2>1. DOMAIN Less(c.thumbs, {h}) = DOMAIN c.thumbs \ {h} /\ Kept(Less(c.thumbs, {h}))
      BY <1>0, LessOf
    <2>2. d.thumbs = Less(c.thumbs, {h})
      BY <1>3
    <2> QED
      BY <2>1, <2>2
  <1>7. CacheOK(d)
    BY <1>1, <1>3, <1>4, <1>5, <1>6 DEF CacheOK
  <1>8. Len(c.order) \in Nat
    BY LenProperties DEF CacheOK, Order
  <1>9. InOrder(d, c)
    BY <1>1, <1>3, <1>5 DEF InOrder
  <1>10. Len(d.order) <= Len(c.order) /\ Len(d.order) = Len(c.order) - 1
    BY <1>1, <1>3, <1>8
  <1>11. LeftOf(d, c)
    BY <1>5, <1>6, <1>7, <1>10 DEF LeftOf
  <1> QED
    BY <1>9, <1>10, <1>11 DEF d

LEMMA ForgetLeaves ==
    ASSUME NEW c, CacheOK(c), NEW id
    PROVE  /\ LeftOf(Forget(c, id), c)
           /\ \A x, y : x # id /\ y # id /\ Before(c.order, x, y)
                            => Before(Forget(c, id).order, x, y)
           /\ DOMAIN Forget(c, id).bodies = DOMAIN c.bodies \ {id}
           /\ DOMAIN Forget(c, id).thumbs = DOMAIN c.thumbs \ {id}
  <1> DEFINE d == Forget(c, id)
  <1>0. Len(c.order) \in Nat
    BY LenProperties DEF CacheOK, Order
  <1>1. c = [order |-> c.order, bodies |-> c.bodies, bytes |-> c.bytes, thumbs |-> c.thumbs]
    BY DEF CacheOK
  <1>2. /\ DOMAIN Less(c.thumbs, {id}) = DOMAIN c.thumbs \ {id}
        /\ Kept(Less(c.thumbs, {id}))
    BY LessOf DEF CacheOK
  <1>3. CASE id \in DOMAIN c.bodies
    <2>1. /\ d.order = RemoveFirst(c.order, id) /\ d.bodies = Less(c.bodies, {id})
          /\ d.bytes = c.bytes - Size[c.bodies[id]] /\ d.thumbs = Less(c.thumbs, {id})
          /\ d = [order |-> d.order, bodies |-> d.bodies, bytes |-> d.bytes, thumbs |-> d.thumbs]
      <3>1. d = [c EXCEPT !.bodies = Less(@, {id}), !.bytes = @ - Size[c.bodies[id]],
                          !.order = RemoveFirst(@, id), !.thumbs = Less(@, {id})]
        BY <1>3 DEF Forget
      <3> HIDE DEF d
      <3>2. d = [order |-> RemoveFirst(c.order, id), bodies |-> Less(c.bodies, {id}),
                 bytes |-> c.bytes - Size[c.bodies[id]], thumbs |-> Less(c.thumbs, {id})]
        BY <1>1, <3>1
      <3> QED
        BY <3>2
    <2> HIDE DEF d
    <2>2. Bodies(d.bodies) /\ d.bytes = Total(d.bodies)
      BY <1>3, <2>1, TotalLess DEF CacheOK
    <2>3. /\ DOMAIN d.bodies = DOMAIN c.bodies \ {id}
          /\ \A x \in DOMAIN d.bodies : d.bodies[x] = c.bodies[x]
      <3>1. Kept(c.bodies)
        BY DEF CacheOK, Bodies
      <3>2. /\ DOMAIN Less(c.bodies, {id}) = DOMAIN c.bodies \ {id}
            /\ \A x \in DOMAIN c.bodies \ {id} : Less(c.bodies, {id})[x] = c.bodies[x]
        BY <3>1, LessOf
      <3>3. d.bodies = Less(c.bodies, {id})
        BY <2>1
      <3> QED
        BY <3>2, <3>3
    <2>4. /\ Order(d.order) /\ ToSet(d.order) = ToSet(c.order) \ {id}
          /\ Len(d.order) = Len(c.order) - 1
          /\ \A x, y : x # id /\ y # id /\ Before(c.order, x, y) => Before(d.order, x, y)
      <3>1. id \in ToSet(c.order)
        BY <1>3 DEF CacheOK
      <3> QED
        BY <2>1, <3>1, OrderWithout DEF CacheOK
    <2>5. CacheOK(d)
      BY <1>2, <2>1, <2>2, <2>3, <2>4 DEF CacheOK
    <2>7. Len(d.order) <= Len(c.order)
      BY <1>0, <2>4
    <2>8. LeftOf(d, c)
      BY <1>2, <2>1, <2>3, <2>5, <2>7 DEF LeftOf
    <2> QED
      BY <1>2, <2>1, <2>3, <2>4, <2>8 DEF d
  <1>4. CASE id \notin DOMAIN c.bodies
    <2>1. /\ d.order = c.order /\ d.bodies = c.bodies
          /\ d.bytes = c.bytes /\ d.thumbs = Less(c.thumbs, {id})
          /\ d = [order |-> d.order, bodies |-> d.bodies, bytes |-> d.bytes, thumbs |-> d.thumbs]
      <3>1. d = [c EXCEPT !.thumbs = Less(@, {id})]
        BY <1>4 DEF Forget
      <3> HIDE DEF d
      <3>2. d = [order |-> c.order, bodies |-> c.bodies,
                 bytes |-> c.bytes, thumbs |-> Less(c.thumbs, {id})]
        BY <1>1, <3>1
      <3> QED
        BY <3>2
    <2> HIDE DEF d
    <2>2. CacheOK(d)
      BY <1>2, <2>1 DEF CacheOK
    <2>3. LeftOf(d, c)
      BY <1>0, <1>2, <2>1, <2>2 DEF LeftOf
    <2> QED
      BY <1>2, <1>4, <2>1, <2>3 DEF d
  <1> QED
    BY <1>3, <1>4

\* All caches that add up.
Caches ==
    LET Some == UNION {[S -> Clip] : S \in SUBSET Clip}
    IN  {c \in [order : Seq(Clip), bodies : Some, bytes : Nat, thumbs : Some] : CacheOK(c)}

LEMMA CacheKind ==
    ASSUME NEW c
    PROVE  c \in Caches <=> CacheOK(c)
  <1> DEFINE Some == UNION {[S -> Clip] : S \in SUBSET Clip}
             Kinds == [order : Seq(Clip), bodies : Some, bytes : Nat, thumbs : Some]
  <1>1. c \in Caches => CacheOK(c)
    BY DEF Caches
  <1>2. ASSUME CacheOK(c)
        PROVE  c \in Caches
    <2>1. \A b : Kept(b) => b \in Some
      BY DEF Kept
    <2> HIDE DEF Some
    <2>2. c.bodies \in Some /\ c.thumbs \in Some
      BY <1>2, <2>1 DEF CacheOK, Bodies
    <2>3. c.order \in Seq(Clip)
      BY <1>2 DEF CacheOK, Order
    <2>4. c.bytes \in Nat
      BY <1>2, TotalKind DEF CacheOK
    <2>5. c = [order |-> c.order, bodies |-> c.bodies, bytes |-> c.bytes, thumbs |-> c.thumbs]
      BY <1>2 DEF CacheOK
    <2>6. [order |-> c.order, bodies |-> c.bodies, bytes |-> c.bytes, thumbs |-> c.thumbs] \in Kinds
      BY <2>2, <2>3, <2>4
    <2>7. c \in Kinds
      BY <2>5, <2>6, Zenon
    <2> QED
      BY <1>2, <2>7 DEF Caches, Some
  <1> QED
    BY <1>1, <1>2

LEMMA TrimLeaves ==
    ASSUME NEW c, CacheOK(c)
    PROVE  /\ LeftOf(Trim(c), c) /\ InOrder(Trim(c), c)
           /\ Trim(c) = c \/ Len(Trim(c).order) <= Len(c.order) - 1
           /\ ~Fits(c) /\ c.order # <<>> => Len(Trim(c).order) <= Len(c.order) - 1
  <1>0. Len(c.order) \in Nat
    BY LenProperties DEF CacheOK, Order
  <1>1. CASE Fits(c) \/ c.order = <<>>
    BY <1>1, LeftOfItself DEF Trim
  <1>2. CASE ~ (Fits(c) \/ c.order = <<>>)
    <2>1. Trim(c) = PopOldest(c)
      BY <1>2 DEF Trim
    <2>2. LeftOf(PopOldest(c), c) /\ InOrder(PopOldest(c), c)
          /\ Len(PopOldest(c).order) = Len(c.order) - 1
      BY <1>2, PopLeaves
    <2>3. Len(Trim(c).order) <= Len(c.order) - 1
      BY <1>0, <2>1, <2>2
    <2> QED
      BY <2>1, <2>2, <2>3
  <1> QED
    BY <1>1, <1>2

LEMMA OneLess ==
    ASSUME NEW n \in Nat, NEW k \in 1 .. n, NEW p \in Nat, NEW q \in Nat,
           q <= n - (k - 1), p <= q - 1
    PROVE  p <= n - k
  OBVIOUS

\* The loop ends within its bounds: if nothing else helps, nothing is left.
LEMMA TrimmedLeaves ==
    ASSUME NEW c, CacheOK(c), settings.max \in Nat, settings.bytes \in Nat
    PROVE  LeftOf(Trimmed(c), c) /\ InOrder(Trimmed(c), c) /\ Fits(Trimmed(c))
  <1> DEFINE N == Len(c.order)
             e == [n \in 1 .. N |-> [y \in Caches |-> Trim(y)]]
             Step(g) == [n \in 0 .. N |-> IF n = 0 THEN c ELSE Trim(g[n - 1])]
             after == CHOOSE g : g = Step(g)
  <1>1. N \in Nat
    BY LenProperties DEF CacheOK, Order
  <1>2. c \in Caches
    BY CacheKind
  <1>3. Turns(e, N, Caches)
    <2>1. ASSUME NEW y \in Caches
          PROVE  Trim(y) \in Caches
      <3>1. CacheOK(y)
        BY CacheKind
      <3>2. CacheOK(Trim(y))
        BY <3>1, TrimLeaves DEF LeftOf
      <3> QED
        BY <3>2, CacheKind
    <2> QED
      BY <2>1 DEF Turns
  <1>4. \E g : g = Step(g)
    <2>1. PICK g : IsCourse(g, c, e, N, Caches)
      <3> HIDE DEF e, N
      <3> QED
        BY <1>1, <1>2, <1>3, Course
    <2>2. ASSUME NEW n \in 0 .. N
          PROVE  g[n] = IF n = 0 THEN c ELSE Trim(g[n - 1])
      <3>1. CASE n = 0
        BY <2>1, <3>1 DEF IsCourse
      <3>2. CASE n # 0
        <4>1. n \in 1 .. N /\ n - 1 \in 0 .. N
          BY <3>2
        <4>2. g[n - 1] \in Caches /\ g[n] = e[n][g[n - 1]]
          BY <2>1, <4>1 DEF IsCourse
        <4> QED
          BY <3>2, <4>1, <4>2
      <3> QED
        BY <3>1, <3>2
    <2>3. g = [n \in 0 .. N |-> g[n]]
      BY <2>1 DEF IsCourse
    <2>4. g = Step(g)
      BY <2>2, <2>3
    <2> HIDE DEF Step
    <2> QED
      BY <2>4
  <1>5. after = Step(after)
    <2> HIDE DEF Step
    <2> QED
      BY <1>4
  <1>6. Trimmed(c) = after[N]
    BY DEF Trimmed
  <1>7. \A n \in 0 .. N : after[n] = IF n = 0 THEN c ELSE Trim(after[n - 1])
    <2> HIDE DEF after
    <2> QED
      BY <1>5
  <1> HIDE DEF after
  <1> DEFINE Fine(n) == /\ LeftOf(after[n], c) /\ InOrder(after[n], c)
                        /\ Fits(after[n]) \/ Len(after[n].order) <= N - n
             T == {n \in Nat : Fine(n)}
  <1>8. 0 \in T
    <2>1. after[0] = c
      BY <1>1, <1>7
    <2> QED
      BY <1>1, <2>1, LeftOfItself
  <1>9. ASSUME NEW k \in 1 .. N, k - 1 \in T
        PROVE  k \in T
    <2>1. after[k] = Trim(after[k - 1]) /\ k \in Nat
      BY <1>7
    <2>2. LeftOf(after[k - 1], c) /\ InOrder(after[k - 1], c) /\ CacheOK(after[k - 1])
      BY <1>9 DEF LeftOf
    <2>3. /\ LeftOf(after[k], after[k - 1]) /\ InOrder(after[k], after[k - 1])
          /\ after[k] = after[k - 1] \/ Len(after[k].order) <= Len(after[k - 1].order) - 1
          /\ ~Fits(after[k - 1]) /\ after[k - 1].order # <<>>
                => Len(after[k].order) <= Len(after[k - 1].order) - 1
      BY <2>1, <2>2, TrimLeaves
    <2>4. LeftOf(after[k], c) /\ InOrder(after[k], c)
      BY <2>2, <2>3, LeftOfTwice
    <2>5. Len(after[k].order) \in Nat /\ Len(after[k - 1].order) \in Nat
      BY <2>2, <2>4, LenProperties DEF LeftOf, CacheOK, Order
    <2>6. CASE Fits(after[k - 1])
      <3>1. after[k] = after[k - 1]
        BY <2>1, <2>6 DEF Trim
      <3> QED
        BY <2>1, <2>4, <2>6, <3>1
    <2>7. CASE ~Fits(after[k - 1]) /\ after[k - 1].order # <<>>
      <3>1. Len(after[k - 1].order) <= N - (k - 1)
        BY <1>9, <2>7
      <3>2. Len(after[k].order) <= Len(after[k - 1].order) - 1
        BY <2>3, <2>7
      <3>5. Len(after[k].order) <= N - k
        <4> HIDE DEF N
        <4> QED
          BY <1>1, <2>5, <3>1, <3>2, OneLess
      <3>3. Fine(k)
        BY <2>4, <3>5
      <3>4. k \in Nat
        BY <2>1
      <3> HIDE DEF Fine
      <3> QED
        BY <3>3, <3>4
    <2>8. CASE after[k - 1].order = <<>>
      <3>1. after[k] = after[k - 1]
        BY <2>1, <2>8 DEF Trim
      <3>2. Len(after[k].order) = 0
        BY <2>8, <3>1
      <3>3. 0 <= N - k
        BY <1>1
      <3> QED
        BY <2>1, <2>4, <3>2, <3>3
    <2> QED
      BY <2>6, <2>7, <2>8
  <1>10. N \in T
    <2> HIDE DEF T, N
    <2>1. \A k \in 1 .. N : k - 1 \in T => k \in T
      BY <1>9
    <2>2. \A k \in 0 .. N : k \in T
      BY <1>1, <1>8, <2>1, UpTo
    <2> QED
      BY <1>1, <2>2
  <1>11. LeftOf(Trimmed(c), c) /\ InOrder(Trimmed(c), c)
    BY <1>6, <1>10
  <1>12. CASE Fits(after[N])
    BY <1>6, <1>11, <1>12
  <1>13. CASE Len(after[N].order) <= N - N
    <2> DEFINE d == after[N]
    <2>1. CacheOK(d)
      BY <1>10 DEF LeftOf
    <2> HIDE DEF d
    <2>2. d.order \in Seq(Clip) /\ Len(d.order) \in Nat /\ Len(d.order) = 0
      BY <1>1, <1>13, <2>1, LenProperties DEF d, CacheOK, Order
    <2>3. d.order = <<>>
      BY <2>2, EmptySeq
    <2>4. DOMAIN d.bodies = {}
      BY <2>1, <2>3 DEF CacheOK, ToSet
    <2>5. d.bytes = 0
      <3>1. DOMAIN [id \in DOMAIN d.bodies |-> Size[d.bodies[id]]] = {}
        BY <2>4
      <3> QED
        BY <2>1, <3>1, SumOfNone DEF CacheOK, Total, SumFunction
    <2>6. Fits(d)
      BY <2>2, <2>5, HistoryAssumption DEF Fits
    <2> QED
      BY <1>6, <1>11, <2>6 DEF d
  <1> QED
    BY <1>10, <1>12, <1>13

\* What cache_body makes of the cache: the new body is the last to go.
LEMMA CacheMakes ==
    ASSUME NEW c, CacheOK(c), settings.max \in Nat, settings.bytes \in Nat,
           NEW id \in Clip, NEW clip \in Clip
    PROVE  LET d == CacheBody(c, id, clip)
           IN  /\ CacheOK(d) /\ Fits(d)
               /\ DOMAIN d.bodies \subseteq DOMAIN c.bodies \cup {id}
               /\ \A x \in DOMAIN d.bodies : d.bodies[x] = IF x = id THEN clip ELSE c.bodies[x]
               /\ DOMAIN d.thumbs \subseteq DOMAIN c.thumbs
               /\ DOMAIN d.thumbs \cap DOMAIN c.bodies \subseteq DOMAIN d.bodies
               /\ \A x, y : x # id /\ y # id /\ x \in DOMAIN d.bodies /\ Before(c.order, x, y)
                               => Before(d.order, x, y)
               /\ \A x \in DOMAIN d.bodies : x # id => Before(d.order, x, id)
  <1> DEFINE b == Forget(c, id)
             a == [b EXCEPT !.bodies = With(@, id, clip), !.bytes = @ + Size[clip],
                            !.order = Append(@, id)]
             d == CacheBody(c, id, clip)
  <1>1. /\ LeftOf(b, c) /\ DOMAIN b.bodies = DOMAIN c.bodies \ {id}
        /\ DOMAIN b.thumbs = DOMAIN c.thumbs \ {id}
        /\ \A x, y : x # id /\ y # id /\ Before(c.order, x, y) => Before(b.order, x, y)
    BY ForgetLeaves
  <1>2. d = Trimmed(a)
    BY DEF CacheBody
  <1> HIDE DEF b
  <1>3. CacheOK(b)
    BY <1>1 DEF LeftOf
  <1>4. /\ a.order = Append(b.order, id) /\ a.bodies = With(b.bodies, id, clip)
        /\ a.bytes = b.bytes + Size[clip] /\ a.thumbs = b.thumbs
    <2>1. b = [order |-> b.order, bodies |-> b.bodies, bytes |-> b.bytes, thumbs |-> b.thumbs]
      BY <1>3 DEF CacheOK
    <2> QED
      BY <2>1
  <1>5. a = [order |-> a.order, bodies |-> a.bodies, bytes |-> a.bytes, thumbs |-> a.thumbs]
    <2>1. b = [order |-> b.order, bodies |-> b.bodies, bytes |-> b.bytes, thumbs |-> b.thumbs]
      BY <1>3 DEF CacheOK
    <2> DEFINE o == Append(b.order, id)
               w == With(b.bodies, id, clip)
               n == b.bytes + Size[clip]
    <2>2. a = [b EXCEPT !.bodies = w, !.bytes = n, !.order = o]
      OBVIOUS
    <2> HIDE DEF a, o, w, n
    <2>3. a = [order |-> o, bodies |-> w, bytes |-> n, thumbs |-> b.thumbs]
      BY <2>1, <2>2
    <2> QED
      BY <2>3
  <1> HIDE DEF a
  <1>6. id \notin ToSet(b.order) /\ id \notin DOMAIN b.bodies /\ Order(b.order)
        /\ Bodies(b.bodies) /\ Kept(b.bodies) /\ Kept(b.thumbs)
    BY <1>1, <1>3 DEF CacheOK, Bodies
  <1>7. /\ Order(a.order) /\ ToSet(a.order) = ToSet(b.order) \cup {id}
        /\ \A x, y : Before(b.order, x, y) => Before(a.order, x, y)
        /\ \A x \in ToSet(b.order) : Before(a.order, x, id)
    BY <1>4, <1>6, OrderAppend
  <1>8. /\ DOMAIN a.bodies = DOMAIN b.bodies \cup {id}
        /\ \A x \in DOMAIN a.bodies : a.bodies[x] = IF x = id THEN clip ELSE b.bodies[x]
        /\ Kept(a.bodies)
    <2> DEFINE w == With(b.bodies, id, clip)
    <2>1. /\ DOMAIN w = DOMAIN b.bodies \cup {id}
          /\ \A y \in DOMAIN b.bodies \cup {id} : w[y] = IF y = id THEN clip ELSE b.bodies[y]
          /\ Kept(w)
      BY <1>6, WithOf
    <2>2. a.bodies = w
      BY <1>4
    <2> HIDE DEF w
    <2> QED
      BY <2>1, <2>2
  <1>9. Bodies(a.bodies)
    <2>1. IsFiniteSet(DOMAIN b.bodies \cup {id})
      BY <1>6, FS_AddElement DEF Bodies
    <2> QED
      BY <1>8, <2>1 DEF Bodies
  <1>10. a.bytes = Total(a.bodies)
    <2>1. Total(b.bodies) \in Nat /\ Total(With(b.bodies, id, clip)) = Size[clip] + Total(b.bodies)
      BY <1>6, TotalWith
    <2>2. Size[clip] \in Nat
      BY HistoryAssumption
    <2>3. b.bytes = Total(b.bodies)
      BY <1>3 DEF CacheOK
    <2>4. a.bytes = b.bytes + Size[clip] /\ a.bodies = With(b.bodies, id, clip)
      BY <1>4
    <2> HIDE DEF With
    <2> QED
      BY <2>1, <2>2, <2>3, <2>4
  <1>11. ToSet(b.order) = DOMAIN b.bodies
    BY <1>3 DEF CacheOK
  <1>12. CacheOK(a)
    <2>1. ToSet(a.order) = DOMAIN a.bodies
      BY <1>7, <1>8, <1>11
    <2>2. Kept(a.thumbs)
      BY <1>4, <1>6
    <2> QED
      BY <1>5, <1>7, <1>9, <1>10, <2>1, <2>2 DEF CacheOK
  <1>13. LeftOf(d, a) /\ InOrder(d, a) /\ Fits(d)
    BY <1>2, <1>12, TrimmedLeaves
  <1> HIDE DEF d
  <1>14. CacheOK(d) /\ DOMAIN d.bodies \subseteq DOMAIN c.bodies \cup {id}
    BY <1>1, <1>8, <1>13 DEF LeftOf
  <1>15. ASSUME NEW x \in DOMAIN d.bodies
         PROVE  d.bodies[x] = IF x = id THEN clip ELSE c.bodies[x]
    <2>1. x \in DOMAIN a.bodies /\ d.bodies[x] = a.bodies[x]
      BY <1>13 DEF LeftOf
    <2>2. x # id => x \in DOMAIN b.bodies
      BY <1>8, <2>1
    <2>3. x # id => b.bodies[x] = c.bodies[x]
      BY <1>1, <2>2 DEF LeftOf
    <2> QED
      BY <1>8, <2>1, <2>3
  <1>16. DOMAIN d.thumbs \subseteq DOMAIN c.thumbs
    BY <1>1, <1>4, <1>13 DEF LeftOf
  <1>17. DOMAIN d.thumbs \cap DOMAIN c.bodies \subseteq DOMAIN d.bodies
    <2>1. ASSUME NEW x \in DOMAIN d.thumbs, x \in DOMAIN c.bodies
          PROVE  x \in DOMAIN d.bodies
      <3>1. x \in DOMAIN b.thumbs
        BY <1>4, <1>13 DEF LeftOf
      <3>2. x \in DOMAIN a.bodies
        BY <1>1, <1>8, <2>1, <3>1
      <3> QED
        BY <1>13, <3>2 DEF LeftOf
    <2> QED
      BY <2>1
  <1>18. ASSUME NEW x \in DOMAIN d.bodies, NEW y, x # id, y # id, Before(c.order, x, y)
         PROVE  Before(d.order, x, y)
    <2>1. Before(a.order, x, y)
      BY <1>1, <1>7, <1>18
    <2> QED
      BY <1>13, <2>1 DEF InOrder
  <1>19. ASSUME NEW x \in DOMAIN d.bodies, x # id
         PROVE  Before(d.order, x, id)
    <2>1. x \in ToSet(b.order)
      BY <1>8, <1>11, <1>13, <1>19 DEF LeftOf
    <2>2. Before(a.order, x, id)
      BY <1>7, <2>1
    <2> QED
      BY <1>13, <2>2 DEF InOrder
  <1> QED
    BY <1>13, <1>14, <1>15, <1>16, <1>17, <1>18, <1>19 DEF d

-----------------------------------------------------------------------------
(* The files.                                                              *)

Links == UNION {[S -> File] : S \in SUBSET Image}
ImageKinds == [links : Links, swept : BOOLEAN, files : SUBSET File, old : SUBSET File]

\* The links are those of images, each to a file that is there or was taken
\* away by the user; what is past its time is there.
ImagesOK(s, taken) ==
    /\ s \in ImageKinds
    /\ s.old \subseteq s.files
    /\ \A id \in DOMAIN s.links : s.links[id] \in s.files \cup taken

\* The files linked to what is pinned are left.
LeavesPinned(s, t, its) ==
    \A x \in Pinned(its) \cap DOMAIN s.links : s.links[x] \in s.files => s.links[x] \in t.files

LEMMA LinksKind ==
    ASSUME NEW f
    PROVE  f \in Links <=> f \in [DOMAIN f -> File] /\ DOMAIN f \subseteq Image
  <1>1. ASSUME f \in Links
        PROVE  f \in [DOMAIN f -> File] /\ DOMAIN f \subseteq Image
    <2>1. PICK S \in SUBSET Image : f \in [S -> File]
      BY <1>1 DEF Links
    <2>2. DOMAIN f = S
      BY <2>1
    <2> QED
      BY <2>1, <2>2
  <1>2. ASSUME f \in [DOMAIN f -> File], DOMAIN f \subseteq Image
        PROVE  f \in Links
    BY <1>2 DEF Links
  <1> QED
    BY <1>1, <1>2

LEMMA LessLinks ==
    ASSUME NEW f \in Links, NEW S
    PROVE  /\ Less(f, S) \in Links /\ DOMAIN Less(f, S) = DOMAIN f \ S
           /\ \A x \in DOMAIN f \ S : Less(f, S)[x] = f[x]
  <1>1. f \in [DOMAIN f -> File] /\ DOMAIN f \subseteq Image
    BY LinksKind
  <1>2. /\ Less(f, S) \in [DOMAIN Less(f, S) -> File] /\ DOMAIN Less(f, S) = DOMAIN f \ S
        /\ \A x \in DOMAIN f \ S : Less(f, S)[x] = f[x]
    BY <1>1 DEF Less
  <1>3. Less(f, S) \in Links
    <2> DEFINE g == Less(f, S)
    <2>1. g \in [DOMAIN g -> File] /\ DOMAIN g \subseteq Image
      BY <1>1, <1>2
    <2> HIDE DEF g
    <2>2. g \in Links
      BY <2>1, LinksKind
    <2> QED
      BY <2>2 DEF g
  <1> QED
    BY <1>2, <1>3

LEMMA WithLinks ==
    ASSUME NEW f \in Links, NEW id \in Image, NEW v \in File
    PROVE  /\ With(f, id, v) \in Links /\ DOMAIN With(f, id, v) = DOMAIN f \cup {id}
           /\ \A x \in DOMAIN f \cup {id} : With(f, id, v)[x] = IF x = id THEN v ELSE f[x]
  <1>1. f \in [DOMAIN f -> File] /\ DOMAIN f \subseteq Image
    BY LinksKind
  <1>2. /\ With(f, id, v) \in [DOMAIN With(f, id, v) -> File]
        /\ DOMAIN With(f, id, v) = DOMAIN f \cup {id}
        /\ \A x \in DOMAIN f \cup {id} : With(f, id, v)[x] = IF x = id THEN v ELSE f[x]
    BY <1>1 DEF With
  <1>3. With(f, id, v) \in Links
    <2> DEFINE g == With(f, id, v)
    <2>1. g \in [DOMAIN g -> File] /\ DOMAIN g \subseteq Image
      BY <1>1, <1>2
    <2> HIDE DEF g
    <2>2. g \in Links
      BY <2>1, LinksKind
    <2> QED
      BY <2>2 DEF g
  <1> QED
    BY <1>2, <1>3

\* Links that go do no harm.
LEMMA LinksGo ==
    ASSUME NEW s, NEW taken, ImagesOK(s, taken), NEW S
    PROVE  LET t == [s EXCEPT !.links = Less(@, S)]
           IN  /\ ImagesOK(t, taken) /\ t.files = s.files /\ DOMAIN t.links = DOMAIN s.links \ S
               /\ \A x \in DOMAIN t.links : t.links[x] = s.links[x]
  <1> DEFINE l == Less(s.links, S)
             t == [s EXCEPT !.links = l]
  <1>1. s \in ImageKinds /\ s.links \in Links
    BY DEF ImagesOK, ImageKinds
  <1>2. l \in Links /\ DOMAIN l = DOMAIN s.links \ S /\ \A x \in DOMAIN s.links \ S : l[x] = s.links[x]
    BY <1>1, LessLinks
  <1> HIDE DEF l
  <1>3. t \in ImageKinds /\ t.links = l /\ t.files = s.files /\ t.old = s.old
    BY <1>1, <1>2 DEF ImageKinds
  <1> HIDE DEF t
  <1>4. ImagesOK(t, taken)
    BY <1>2, <1>3 DEF ImagesOK
  <1>5. DOMAIN t.links = DOMAIN s.links \ S /\ \A x \in DOMAIN t.links : t.links[x] = s.links[x]
    BY <1>2, <1>3
  <1> QED
    BY <1>3, <1>4, <1>5 DEF t, l

LEMMA CleanupLeaves ==
    ASSUME NEW s, NEW taken, ImagesOK(s, taken), NEW dir, NEW its, NEW force \in BOOLEAN
    PROVE  ImagesOK(Cleanup(s, dir, its, force), taken) /\ LeavesPinned(s, Cleanup(s, dir, its, force), its)
  <1> DEFINE keep == {s.links[id] : id \in Pinned(its) \cap DOMAIN s.links}
             gone == Overdue(s, dir, keep)
             dead == {id \in DOMAIN s.links : s.links[id] \notin s.files \ gone}
             t == Cleanup(s, dir, its, force)
  <1>0. s \in ImageKinds /\ s.links \in Links /\ s.files \in SUBSET File /\ s.old \in SUBSET File
    BY DEF ImagesOK, ImageKinds
  <1>1. CASE dir = None \/ (s.swept /\ ~force)
    <2>1. t = s
      BY <1>1 DEF Cleanup
    <2> QED
      BY <2>1 DEF LeavesPinned
  <1>2. CASE ~ (dir = None \/ (s.swept /\ ~force))
    <2> DEFINE l == IF gone = {} THEN s.links ELSE Less(s.links, dead)
    <2>1. t = [s EXCEPT !.swept = TRUE, !.files = @ \ gone, !.old = @ \ gone, !.links = l]
      BY <1>2 DEF Cleanup
    <2> HIDE DEF t
    <2>2. \A x \in Pinned(its) \cap DOMAIN s.links : s.links[x] \notin gone
      BY DEF Overdue
    <2>3. l \in Links /\ \A id \in DOMAIN l : id \in DOMAIN s.links /\ l[id] = s.links[id]
                            /\ s.links[id] \in (s.files \ gone) \cup taken
      <3>1. CASE gone = {}
        BY <1>0, <3>1 DEF ImagesOK
      <3>2. CASE gone # {}
        <4>1. l = Less(s.links, dead)
          BY <3>2
        <4> HIDE DEF l, gone
        <4>2. /\ Less(s.links, dead) \in Links /\ DOMAIN Less(s.links, dead) = DOMAIN s.links \ dead
              /\ \A x \in DOMAIN s.links \ dead : Less(s.links, dead)[x] = s.links[x]
          <5> HIDE DEF dead
          <5> QED
            BY <1>0, LessLinks
        <4>3. \A id \in DOMAIN s.links \ dead : s.links[id] \in s.files \ gone
          OBVIOUS
        <4> HIDE DEF dead
        <4> QED
          BY <4>1, <4>2, <4>3
      <3> QED
        BY <3>1, <3>2
    <2> HIDE DEF l, gone, dead, keep
    <2>4. /\ t \in ImageKinds /\ t.links = l /\ t.files = s.files \ gone /\ t.old = s.old \ gone
      BY <1>0, <2>1, <2>3 DEF ImageKinds
    <2>5. ImagesOK(t, taken)
      BY <2>3, <2>4 DEF ImagesOK
    <2>6. LeavesPinned(s, t, its)
      BY <2>2, <2>4 DEF LeavesPinned
    <2> QED
      BY <2>5, <2>6 DEF t
  <1> QED
    BY <1>1, <1>2

LEMMA PruneLeaves ==
    ASSUME NEW s, NEW taken, ImagesOK(s, taken), NEW its
    PROVE  LET t == Prune(s, its)
           IN  /\ ImagesOK(t, taken) /\ t.files = s.files
               /\ Listed(its) \cap DOMAIN s.links \subseteq DOMAIN t.links
               /\ \A x \in DOMAIN t.links : t.links[x] = s.links[x]
  <1>1. CASE Cardinality(DOMAIN s.links) < 2 * settings.max
    BY <1>1 DEF Prune
  <1>2. CASE ~ (Cardinality(DOMAIN s.links) < 2 * settings.max)
    <2> DEFINE S == DOMAIN s.links \ Listed(its)
               t == [s EXCEPT !.links = Less(@, S)]
    <2>1. Prune(s, its) = t
      BY <1>2 DEF Prune
    <2>2. /\ ImagesOK(t, taken) /\ t.files = s.files /\ DOMAIN t.links = DOMAIN s.links \ S
          /\ \A x \in DOMAIN t.links : t.links[x] = s.links[x]
      <3> HIDE DEF S
      <3> QED
        BY LinksGo
    <2> HIDE DEF t
    <2> QED
      BY <2>1, <2>2
  <1> QED
    BY <1>1, <1>2

LEMMA EnsureLeaves ==
    ASSUME NEW s, NEW taken, ImagesOK(s, taken), NEW dir \in Folder \cup {None},
           NEW its, Listing(its), NEW bodies, Kept(bodies), NEW id, NEW works \in BOOLEAN
    PROVE  LET t == Ensure(s, dir, its, bodies, id, works)
           IN  ImagesOK(t, taken) /\ LeavesPinned(s, t, its)
  <1> DEFINE t == Ensure(s, dir, its, bodies, id, works)
             bare == [s EXCEPT !.links = Less(@, {id})]
  <1>1. CASE id \in DOMAIN s.links /\ s.links[id] \in s.files
    <2>1. t = s
      BY <1>1 DEF Ensure
    <2> QED
      BY <2>1 DEF LeavesPinned
  <1>2. CASE ~ (id \in DOMAIN s.links /\ s.links[id] \in s.files)
    <2>1. /\ ImagesOK(bare, taken) /\ bare.files = s.files /\ DOMAIN bare.links = DOMAIN s.links \ {id}
          /\ \A x \in DOMAIN bare.links : bare.links[x] = s.links[x]
      BY LinksGo
    <2> DEFINE Goes == dir # None /\ works /\ id \in Listed(its) \cap Image /\ id \in DOMAIN bodies
    <2>2. CASE ~Goes
      <3>1. t = bare
        BY <1>2, <2>2 DEF Ensure
      <3> HIDE DEF bare, t
      <3>2. LeavesPinned(s, t, its)
        BY <2>1, <3>1 DEF LeavesPinned
      <3> QED
        BY <2>1, <3>1, <3>2 DEF t
    <2>3. CASE Goes
      <3> DEFINE x == FileFor(dir, its[Place(its, id)].at, bodies[id])
                 b == Prune(bare, its)
                 v == Saved(b, x)
                 u == [v EXCEPT !.links = With(@, id, x)]
      <3>1. t = Cleanup(u, dir, its, FALSE)
        BY <1>2, <2>3 DEF Ensure, Save
      <3>2. x \in File
        <4>1. \E i \in DOMAIN its : its[i].id = id
          BY <2>3 DEF Listed
        <4>2. Place(its, id) \in DOMAIN its
          BY <4>1 DEF Place
        <4>3. its[Place(its, id)] \in Item
          BY <4>2, ElementOfSeq, LenProperties DEF Listing
        <4>4. its[Place(its, id)].at \in Nat
          BY <4>3 DEF Item
        <4>5. bodies[id] \in Clip /\ dir \in Folder
          BY <2>3 DEF Kept
        <4> QED
          BY <4>4, <4>5 DEF FileFor, File
      <3>3. /\ ImagesOK(b, taken) /\ b.files = bare.files
            /\ Listed(its) \cap DOMAIN bare.links \subseteq DOMAIN b.links
            /\ \A y \in DOMAIN b.links : b.links[y] = bare.links[y]
        <4> HIDE DEF bare
        <4> QED
          BY <2>1, PruneLeaves
      <3> HIDE DEF bare, b, x
      <3>4. /\ v \in ImageKinds /\ v.links = b.links /\ v.files = b.files \cup {x}
            /\ v.old \subseteq v.files
        BY <3>2, <3>3 DEF Saved, ImagesOK, ImageKinds
      <3>5. v.links \in Links
        BY <3>4 DEF ImageKinds
      <3> HIDE DEF v
      <3>6. /\ With(v.links, id, x) \in Links /\ DOMAIN With(v.links, id, x) = DOMAIN v.links \cup {id}
            /\ \A y \in DOMAIN v.links \cup {id} :
                  With(v.links, id, x)[y] = IF y = id THEN x ELSE v.links[y]
        BY <2>3, <3>2, <3>5, WithLinks
      <3>7. /\ u \in ImageKinds /\ u.links = With(v.links, id, x) /\ u.files = v.files
            /\ u.old = v.old
        BY <3>4, <3>6 DEF ImageKinds
      <3> HIDE DEF u
      <3>8. ImagesOK(u, taken)
        BY <3>3, <3>4, <3>6, <3>7 DEF ImagesOK
      <3>9. ImagesOK(t, taken) /\ LeavesPinned(u, t, its)
        BY <3>1, <3>8, CleanupLeaves
      <3>10. LeavesPinned(s, t, its)
        <4>1. ASSUME NEW y \in Pinned(its) \cap DOMAIN s.links, s.links[y] \in s.files
              PROVE  s.links[y] \in t.files
          <5>1. y # id /\ y \in Listed(its)
            BY <1>2, <4>1 DEF Pinned, Listed
          <5>2. y \in DOMAIN b.links /\ b.links[y] = s.links[y]
            BY <2>1, <3>3, <5>1
          <5>3. y \in DOMAIN u.links /\ u.links[y] = s.links[y] /\ s.links[y] \in u.files
            BY <2>1, <3>3, <3>4, <3>6, <3>7, <4>1, <5>1, <5>2
          <5> QED
            BY <3>9, <5>3 DEF LeavesPinned
        <4> QED
          BY <4>1 DEF LeavesPinned
      <3> QED
        BY <3>9, <3>10 DEF t
    <2> QED
      BY <2>2, <2>3
  <1> QED
    BY <1>1, <1>2

LEMMA EnsureAllLeaves ==
    ASSUME NEW s, ImagesOK(s, removed), NEW d \in Folder \cup {None},
           Listing(items), Kept(cache.bodies), NEW fails
    PROVE  ImagesOK(EnsureAll(s, d, fails), removed)
  <1> DEFINE N == Len(items)
             T == {y \in ImageKinds : ImagesOK(y, removed)}
             Works(n) == items[n].id \notin fails
             At(y, n) == Ensure(y, d, items, cache.bodies, items[n].id, Works(n))
             e == [n \in 1 .. N |->
                      [y \in T |-> At(y, n)]]
             Step(g) == [n \in 0 .. N |->
                            IF n = 0 THEN s
                            ELSE At(g[n - 1], n)]
             after == CHOOSE g : g = Step(g)
  <1>1. N \in Nat
    BY LenProperties DEF Listing
  <1>2. \A y : y \in T <=> ImagesOK(y, removed)
    BY DEF ImagesOK
  <1>3. ASSUME NEW n, NEW y \in T
        PROVE  At(y, n) \in T
    <2>1. ImagesOK(y, removed)
      BY <1>2
    <2>2. ImagesOK(At(y, n), removed)
      <3>1. Works(n) \in BOOLEAN
        OBVIOUS
      <3> HIDE DEF Works
      <3> QED
        BY <2>1, <3>1, EnsureLeaves
    <2> HIDE DEF T
    <2> QED
      BY <1>2, <2>2
  <1>4. s \in T
    BY <1>2
  <1> HIDE DEF T
  <1>5. Turns(e, N, T)
    BY <1>3 DEF Turns
  <1>6. \E g : g = Step(g)
    <2>1. PICK g : IsCourse(g, s, e, N, T)
      <3> HIDE DEF e, N
      <3> QED
        BY <1>1, <1>4, <1>5, Course
    <2>2. ASSUME NEW n \in 0 .. N
          PROVE  g[n] = IF n = 0 THEN s
                        ELSE At(g[n - 1], n)
      <3>1. CASE n = 0
        BY <2>1, <3>1 DEF IsCourse
      <3>2. CASE n # 0
        <4>1. n \in 1 .. N /\ n - 1 \in 0 .. N
          BY <3>2
        <4>2. g[n - 1] \in T /\ g[n] = e[n][g[n - 1]]
          BY <2>1, <4>1 DEF IsCourse
        <4> QED
          BY <3>2, <4>1, <4>2
      <3> QED
        BY <3>1, <3>2
    <2>3. g = [n \in 0 .. N |-> g[n]]
      BY <2>1 DEF IsCourse
    <2>4. g = Step(g)
      BY <2>2, <2>3
    <2> HIDE DEF Step
    <2> QED
      BY <2>4
  <1>7. after = Step(after)
    <2> HIDE DEF Step
    <2> QED
      BY <1>6
  <1>8. EnsureAll(s, d, fails) = after[N]
    BY DEF EnsureAll
  <1>9. \A n \in 0 .. N :
            after[n] = IF n = 0 THEN s
                       ELSE At(after[n - 1], n)
    <2> HIDE DEF after
    <2> QED
      BY <1>7
  <1> HIDE DEF after, At
  <1> DEFINE K == {n \in Nat : after[n] \in T}
  <1>10. 0 \in K
    BY <1>1, <1>4, <1>9
  <1>11. ASSUME NEW k \in 1 .. N, k - 1 \in K
         PROVE  k \in K
    <2>1. after[k] = At(after[k - 1], k) /\ k \in Nat
      BY <1>9
    <2> QED
      BY <1>3, <1>11, <2>1
  <1>12. N \in K
    <2> HIDE DEF K, N
    <2>1. \A k \in 1 .. N : k - 1 \in K => k \in K
      BY <1>11
    <2>2. \A k \in 0 .. N : k \in K
      BY <1>1, <1>10, <2>1, UpTo
    <2> QED
      BY <1>1, <2>2
  <1> QED
    BY <1>2, <1>8, <1>12

-----------------------------------------------------------------------------
(* The inductive invariant.                                                *)

SettingsInv ==
    /\ limit \in Limits
    /\ settings \in Setting /\ onDisk \in Setting
    /\ cap \in Maximum

\* The list never holds more than its bound.
ListInv == Listing(items) /\ Len(items) <= cap

\* The cache is within its bounds once a body has come under them.
CacheInv == CacheOK(cache) /\ (lowered \/ Fits(cache))

FilesInv == ImagesOK(images, removed)

OtherInv ==
    /\ rendering \subseteq [id : Clip, clip : Clip]
    /\ second \in Nat /\ removed \subseteq File
    /\ crowded \in BOOLEAN /\ lowered \in BOOLEAN /\ late \subseteq Clip

\* A body is that of its clip.  Of two listed clips the older one's body goes
\* first, and so it has gone when that of the newer one has.
OrderInv ==
    ~crowded =>
        /\ \A id \in DOMAIN cache.bodies : cache.bodies[id] = id
        /\ \A i, j \in DOMAIN items :
              i < j /\ items[j].id \in DOMAIN cache.bodies
                  => Before(cache.order, items[j].id, items[i].id)

ThumbInv == DOMAIN cache.thumbs \subseteq DOMAIN cache.bodies \cup late

HistInv ==
    SettingsInv /\ ListInv /\ CacheInv /\ FilesInv /\ OtherInv /\ OrderInv /\ ThumbInv

LEMMA SettingsAre ==
    ASSUME SettingsInv
    PROVE  /\ cap \in Nat \ {0} /\ settings.max \in Nat /\ settings.bytes \in Nat
           /\ onDisk.max \in Nat /\ onDisk.bytes \in Nat
           /\ settings.dir \in Folder \cup {None} /\ onDisk.dir \in Folder \cup {None}
           /\ limit.maxima \subseteq Maximum /\ limit.bytes \subseteq Bytes
  <1>1. limit.maxima \subseteq Maximum /\ limit.bytes \subseteq Bytes
    BY HistoryAssumption DEF SettingsInv, Limit
  <1>2. Maximum \subseteq Nat \ {0} /\ Bytes \subseteq Nat \ {0}
    BY HistoryAssumption
  <1> QED
    BY <1>1, <1>2 DEF SettingsInv, Setting

LEMMA NothingKept == CacheOK(NoBodies) /\ NoBodies.bytes = 0 /\ Len(NoBodies.order) = 0
                     /\ DOMAIN NoBodies.bodies = {} /\ DOMAIN NoBodies.thumbs = {}
  <1>1. Order(<<>>)
    BY DEF Order, IsInjective
  <1>2. Kept(<<>>)
    BY DEF Kept
  <1>3. Bodies(<<>>)
    <2>1. DOMAIN <<>> = {}
      OBVIOUS
    <2> QED
      BY <1>2, <2>1, FS_EmptySet DEF Bodies
  <1>4. ToSet(<<>>) = DOMAIN <<>> /\ DOMAIN <<>> = {} /\ Len(<<>>) = 0
    BY DEF ToSet
  <1>5. /\ NoBodies.order = <<>> /\ NoBodies.bodies = <<>> /\ NoBodies.bytes = 0
        /\ NoBodies.thumbs = <<>>
    BY DEF NoBodies
  <1>6. NoBodies = [order |-> NoBodies.order, bodies |-> NoBodies.bodies,
                    bytes |-> NoBodies.bytes, thumbs |-> NoBodies.thumbs]
    BY DEF NoBodies
  <1> QED
    BY <1>1, <1>2, <1>3, <1>4, <1>5, <1>6, TotalOfNone DEF CacheOK

\* What has no bodies fits any bounds.
LEMMA NothingFits ==
    ASSUME settings.max \in Nat, settings.bytes \in Nat
    PROVE  Fits(NoBodies)
  <1>1. NoBodies.bytes = 0 /\ Len(NoBodies.order) = 0
    BY NothingKept
  <1>2. \A m, b \in Nat : 0 <= b /\ 0 <= 2 * m
    OBVIOUS
  <1> QED
    BY <1>1, <1>2 DEF Fits

LEMMA NothingListed == Listing(<<>>) /\ Len(<<>>) = 0 /\ Listed(<<>>) = {} /\ Pinned(<<>>) = {}
  BY DEF Listing, Listed, Pinned

\* All links go.
LEMMA NoLinks ==
    ASSUME NEW s, NEW taken, ImagesOK(s, taken)
    PROVE  /\ ImagesOK([s EXCEPT !.links = <<>>], taken)
           /\ ImagesOK([s EXCEPT !.links = <<>>, !.swept = FALSE], taken)
  <1>1. <<>> \in Links /\ DOMAIN <<>> = {}
    <2> DEFINE none == <<>>
    <2>1. none \in [DOMAIN none -> File] /\ DOMAIN none \subseteq Image /\ DOMAIN none = {}
      OBVIOUS
    <2> HIDE DEF none
    <2>2. none \in Links
      BY <2>1, LinksKind
    <2> QED
      BY <2>1, <2>2 DEF none
  <1> DEFINE t == [s EXCEPT !.links = <<>>]
             u == [s EXCEPT !.links = <<>>, !.swept = FALSE]
  <1>2. /\ t \in ImageKinds /\ t.links = <<>> /\ t.files = s.files /\ t.old = s.old
        /\ u \in ImageKinds /\ u.links = <<>> /\ u.files = s.files /\ u.old = s.old
    BY <1>1 DEF ImagesOK, ImageKinds
  <1> HIDE DEF t, u
  <1>3. ImagesOK(t, taken)
    BY <1>1, <1>2 DEF ImagesOK
  <1>4. ImagesOK(u, taken)
    BY <1>1, <1>2 DEF ImagesOK
  <1> QED
    BY <1>3, <1>4 DEF t, u

LEMMA InitHolds ==
    ASSUME HistInit
    PROVE  HistInv
  <1>1. PICK n \in limit.maxima, b \in limit.bytes :
            cap = n /\ settings = [dir |-> None, max |-> n, bytes |-> b]
    BY DEF HistInit
  <1>2. SettingsInv
    <2>1. limit \in Limits /\ onDisk = settings
      BY DEF HistInit
    <2>2. limit.maxima \subseteq Maximum /\ limit.bytes \subseteq Bytes
      BY <2>1, HistoryAssumption DEF Limit
    <2> QED
      BY <1>1, <2>1, <2>2 DEF SettingsInv, Setting
  <1>3. cap \in Nat
    BY <1>2, SettingsAre
  <1>4. ListInv
    BY <1>3, NothingListed DEF ListInv, HistInit
  <1>5. CacheInv
    <2>1. cache = NoBodies
      BY DEF HistInit
    <2>2. Fits(NoBodies)
      BY <1>2, SettingsAre, NothingFits
    <2> QED
      BY <2>1, <2>2, NothingKept DEF CacheInv
  <1>6. FilesInv
    <2> DEFINE none == <<>>
    <2>1. none \in [DOMAIN none -> File] /\ DOMAIN none \subseteq Image /\ DOMAIN none = {}
      OBVIOUS
    <2> HIDE DEF none
    <2>2. none \in Links
      BY <2>1, LinksKind
    <2>3. images = [links |-> none, swept |-> FALSE, files |-> {}, old |-> {}]
      BY DEF HistInit, none
    <2>4. images \in ImageKinds
      BY <2>2, <2>3 DEF ImageKinds
    <2> QED
      BY <2>1, <2>3, <2>4 DEF FilesInv, ImagesOK
  <1>7. OtherInv
    BY DEF OtherInv, HistInit
  <1>8. OrderInv /\ ThumbInv
    BY NothingKept DEF OrderInv, ThumbInv, HistInit
  <1> QED
    BY <1>2, <1>4, <1>5, <1>6, <1>7, <1>8 DEF HistInv

\* A clip comes, and its body is kept under an id, its own unless the list is
\* full of pinned items.
LEMMA Takes ==
    ASSUME HistInv, NEW id \in Clip, NEW x \in Clip, NEW works \in BOOLEAN,
           items' = Add(items, id), CacheAndSave(items', x, id, works),
           crowded' \in BOOLEAN, ~crowded' => ~crowded /\ ~Crowded(id) /\ x = id,
           UNCHANGED <<setVars, rendering, second, limit, removed, late>>
    PROVE  /\ HistInv'
           /\ Pinned(items) \subseteq Listed(items')
           /\ ~crowded' => LeavesPinned(images, images', items')
  <1> DEFINE its == Add(items, id)
             d == CacheBody(cache, x, id)
             b == With(cache.bodies, x, id)
             s == [images EXCEPT !.links = Less(@, {x})]
  <1>1. /\ items' = its /\ cache' = d /\ lowered' = FALSE
        /\ images' = Ensure(s, settings.dir, its, b, x, works)
    BY DEF CacheAndSave
  <1>2. /\ cap \in Nat /\ settings.max \in Nat /\ settings.bytes \in Nat
        /\ settings.dir \in Folder \cup {None} /\ second \in Nat
    BY SettingsAre DEF HistInv, OtherInv
  <1>3. /\ Listing(its) /\ Len(its) <= cap
        /\ id \notin Pinned(its) /\ Pinned(items) \subseteq Listed(its)
        /\ ~crowded' =>
              /\ its # <<>> /\ its[1].id = id
              /\ \A i, j \in DOMAIN its : i < j =>
                    /\ its[j].id # id
                    /\ \/ its[i].id = id
                       \/ \E k, l \in DOMAIN items :
                             k < l /\ its[i].id = items[k].id /\ its[j].id = items[l].id
    <2>1. Listing(items) /\ Len(items) <= cap
      BY DEF HistInv, ListInv
    <2>2. TakesIn(its, items, id)
          /\ (FirstOf(its, items, id) \/ Cardinality(Pinned(Without(items, id))) >= cap)
      BY <1>2, <2>1, AddMakes
    <2>3. ~crowded' => ~ (Cardinality(Pinned(Without(items, id))) >= cap)
      BY DEF Crowded
    <2> HIDE DEF its
    <2>4. ~crowded' => FirstOf(its, items, id)
      BY <2>2, <2>3
    <2> QED
      BY <2>2, <2>4 DEF TakesIn, FirstOf
  <1>4. CacheOK(cache) /\ Kept(cache.bodies)
    BY DEF HistInv, CacheInv, CacheOK, Bodies
  <1>5. /\ CacheOK(d) /\ Fits(d)
        /\ DOMAIN d.bodies \subseteq DOMAIN cache.bodies \cup {x}
        /\ \A y \in DOMAIN d.bodies : d.bodies[y] = IF y = x THEN id ELSE cache.bodies[y]
        /\ DOMAIN d.thumbs \subseteq DOMAIN cache.thumbs
        /\ DOMAIN d.thumbs \cap DOMAIN cache.bodies \subseteq DOMAIN d.bodies
        /\ \A y, z : y # x /\ z # x /\ y \in DOMAIN d.bodies /\ Before(cache.order, y, z)
                         => Before(d.order, y, z)
        /\ \A y \in DOMAIN d.bodies : y # x => Before(d.order, y, x)
    <2> HIDE DEF d
    <2> QED
      BY <1>2, <1>4, CacheMakes DEF d
  <1>6. Kept(b)
    BY <1>4, WithOf
  <1>7. /\ ImagesOK(s, removed) /\ s.files = images.files /\ DOMAIN s.links = DOMAIN images.links \ {x}
        /\ \A y \in DOMAIN s.links : s.links[y] = images.links[y]
    BY LinksGo DEF HistInv, FilesInv
  <1> HIDE DEF its, d, b, s
  <1>8. ImagesOK(images', removed) /\ LeavesPinned(s, images', its)
    BY <1>1, <1>2, <1>3, <1>6, <1>7, EnsureLeaves
  <1>9. SettingsInv'
    BY DEF HistInv, SettingsInv, setVars
  <1>10. ListInv'
    BY <1>1, <1>3 DEF ListInv, setVars
  <1>11. CacheInv'
    BY <1>1, <1>5 DEF CacheInv, Fits, setVars
  <1>12. FilesInv'
    BY <1>8 DEF FilesInv
  <1>13. OtherInv'
    BY <1>1 DEF HistInv, OtherInv
  <1>14. OrderInv'
    <2>1. SUFFICES ASSUME ~crowded'
                   PROVE  /\ \A y \in DOMAIN d.bodies : d.bodies[y] = y
                          /\ \A i, j \in DOMAIN its :
                                i < j /\ its[j].id \in DOMAIN d.bodies
                                    => Before(d.order, its[j].id, its[i].id)
      BY <1>1 DEF OrderInv
    <2>2. /\ \A y \in DOMAIN cache.bodies : cache.bodies[y] = y
          /\ \A i, j \in DOMAIN items :
                i < j /\ items[j].id \in DOMAIN cache.bodies
                    => Before(cache.order, items[j].id, items[i].id)
      BY <2>1 DEF HistInv, OrderInv
    <2>3. x = id
      BY <2>1
    <2>4. \A y \in DOMAIN d.bodies : d.bodies[y] = y
      BY <1>5, <2>2, <2>3
    <2>5. ASSUME NEW i \in DOMAIN its, NEW j \in DOMAIN its, i < j, its[j].id \in DOMAIN d.bodies
          PROVE  Before(d.order, its[j].id, its[i].id)
      <3>1. its[j].id # x
        BY <1>3, <2>1, <2>3, <2>5
      <3>2. CASE its[i].id = id
        BY <1>5, <2>3, <2>5, <3>1, <3>2
      <3>3. CASE its[i].id # id
        <4>1. PICK k \in DOMAIN items, l \in DOMAIN items :
                  k < l /\ its[i].id = items[k].id /\ its[j].id = items[l].id
          BY <1>3, <2>1, <2>5, <3>3
        <4>2. items[l].id \in DOMAIN cache.bodies
          BY <1>5, <2>5, <3>1, <4>1
        <4>3. Before(cache.order, its[j].id, its[i].id)
          BY <2>2, <4>1, <4>2
        <4> QED
          BY <1>5, <2>3, <2>5, <3>1, <3>3, <4>3
      <3> QED
        BY <3>2, <3>3
    <2> QED
      BY <2>4, <2>5
  <1>15. ThumbInv'
    BY <1>1, <1>5 DEF HistInv, ThumbInv
  <1>16. ~crowded' => LeavesPinned(images, images', its)
    BY <1>3, <1>7, <1>8 DEF LeavesPinned
  <1> QED
    BY <1>1, <1>3, <1>9, <1>10, <1>11, <1>12, <1>13, <1>14, <1>15, <1>16 DEF HistInv

-----------------------------------------------------------------------------
(* The steps.                                                              *)

LEMMA EitherOf ==
    ASSUME NEW a, NEW b, NEW c, a = (b \/ c)
    PROVE  a \in BOOLEAN /\ (~a => ~b /\ ~c)
  <1>1. CASE b \/ c
    BY <1>1
  <1>2. CASE ~ (b \/ c)
    BY <1>2
  <1> QED
    BY <1>1, <1>2

LEMMA AnyOf ==
    ASSUME NEW a, NEW b, NEW c, NEW d, a = (b \/ c \/ d)
    PROVE  a \in BOOLEAN /\ (~a => ~b /\ ~c /\ ~d)
  <1>1. CASE b \/ c \/ d
    BY <1>1
  <1>2. CASE ~ (b \/ c \/ d)
    BY <1>2
  <1> QED
    BY <1>1, <1>2

LEMMA AddClipKeeps ==
    ASSUME HistInv, NEW id \in Clip, AddClip(id)
    PROVE  HistInv' /\ Pinned(items) \subseteq Listed(items')
           /\ (~crowded' => LeavesPinned(images, images', items'))
  <1>1. PICK works \in BOOLEAN : CacheAndSave(items', id, id, works)
    BY DEF AddClip
  <1>2. crowded' = (crowded \/ Crowded(id))
    BY DEF AddClip
  <1>3. crowded' \in BOOLEAN /\ (~crowded' => ~crowded /\ ~Crowded(id))
    BY <1>2, EitherOf
  <1>4. items' = Add(items, id) /\ UNCHANGED <<setVars, rendering, second, limit, removed, late>>
    BY DEF AddClip
  <1> QED
    BY <1>1, <1>3, <1>4, Takes

LEMMA AddUnpublishedKeeps ==
    ASSUME HistInv, NEW id \in Clip, AddUnpublished(id)
    PROVE  HistInv' /\ Pinned(items) \subseteq Listed(items')
           /\ (~crowded' => LeavesPinned(images, images', items'))
  <1>1. crowded' = (crowded \/ Crowded(id))
    BY DEF AddUnpublished
  <1>2. crowded' \in BOOLEAN /\ (~crowded' => ~crowded /\ ~Crowded(id))
    BY <1>1, EitherOf
  <1>3. items' = Add(items, id) /\ UNCHANGED <<setVars, rendering, second, limit, removed, late>>
    BY DEF AddUnpublished
  <1>4. /\ TakesIn(items', items, id)
        /\ FirstOf(items', items, id) \/ Cardinality(Pinned(Without(items, id))) >= cap
    <2>1. Listing(items) /\ Len(items) <= cap /\ cap \in Nat /\ second \in Nat
      BY SettingsAre DEF HistInv, ListInv, OtherInv
    <2> QED
      BY <1>3, <2>1, AddMakes
  <1>5. ~crowded' => FirstOf(items', items, id)
    BY <1>2, <1>4 DEF Crowded
  <1>6. CASE items' = <<>>
    <2>1. crowded'
      BY <1>5, <1>6 DEF FirstOf
    <2>2. UNCHANGED <<cache, images, lowered>>
      BY <1>6 DEF AddUnpublished
    <2>3. SettingsInv' /\ CacheInv' /\ FilesInv' /\ ThumbInv'
      BY <1>3, <2>2 DEF HistInv, SettingsInv, CacheInv, Fits, FilesInv, ThumbInv, setVars
    <2>4. OtherInv'
      BY <1>2, <1>3, <2>2 DEF HistInv, OtherInv
    <2>5. OrderInv'
      BY <2>1 DEF OrderInv
    <2>6. ListInv'
      BY <1>3, <1>4 DEF TakesIn, ListInv, setVars
    <2> QED
      BY <1>4, <2>1, <2>3, <2>4, <2>5, <2>6 DEF HistInv, TakesIn
  <1>7. CASE items' # <<>>
    <2>1. PICK works \in BOOLEAN : CacheAndSave(items', items'[1].id, id, works)
      BY <1>7 DEF AddUnpublished
    <2> DEFINE x == items'[1].id
    <2>2. x \in Clip
      <3>1. items' \in Seq(Item)
        BY <1>4 DEF TakesIn, Listing
      <3>2. items'[1] \in Item
        BY <1>7, <3>1, ElementOfSeq, LenProperties, EmptySeq
      <3> QED
        BY <3>2 DEF Item
    <2>3. ~crowded' => ~crowded /\ ~Crowded(id) /\ x = id
      BY <1>2, <1>5 DEF FirstOf
    <2> HIDE DEF x
    <2>4. CacheAndSave(items', x, id, works)
      BY <2>1 DEF x
    <2> QED
      BY <1>2, <1>3, <2>2, <2>3, <2>4, Takes
  <1> QED
    BY <1>6, <1>7

LEMMA ThumbDrawnKeeps ==
    ASSUME HistInv, NEW r \in rendering, ThumbDrawn(r)
    PROVE  HistInv'
  <1> DEFINE w == With(cache.thumbs, r.id, r.clip)
             v == PruneThumbs(w)
  <1>1. r.id \in Clip /\ r.clip \in Clip
    BY DEF HistInv, OtherInv
  <1>2. CacheOK(cache) /\ Kept(cache.thumbs)
    BY DEF HistInv, CacheInv, CacheOK
  <1>3. Kept(w) /\ DOMAIN w = DOMAIN cache.thumbs \cup {r.id}
    <2>1. ASSUME NEW a \in Clip, NEW b \in Clip
          PROVE  /\ Kept(With(cache.thumbs, a, b))
                 /\ DOMAIN With(cache.thumbs, a, b) = DOMAIN cache.thumbs \cup {a}
      BY <1>2, WithOf
    <2> QED
      BY <1>1, <2>1
  <1> HIDE DEF w
  <1>4. Kept(v) /\ DOMAIN v \subseteq DOMAIN w
    <2>1. CASE Cardinality(DOMAIN w) <= 2 * settings.max
      BY <1>3, <2>1 DEF PruneThumbs
    <2>2. CASE ~ (Cardinality(DOMAIN w) <= 2 * settings.max)
      <3> DEFINE S == DOMAIN w \ Listed(items)
      <3>1. v = Less(w, S)
        BY <2>2 DEF PruneThumbs
      <3> HIDE DEF v, S
      <3>2. Kept(Less(w, S)) /\ DOMAIN Less(w, S) = DOMAIN w \ S
        BY <1>3, LessOf
      <3> QED
        BY <3>1, <3>2
    <2> QED
      BY <2>1, <2>2
  <1>5. cache' = [cache EXCEPT !.thumbs = v]
    BY DEF ThumbDrawn, w
  <1> HIDE DEF v
  <1>6. /\ cache'.order = cache.order /\ cache'.bodies = cache.bodies
        /\ cache'.bytes = cache.bytes /\ cache'.thumbs = v
        /\ cache' = [order |-> cache.order, bodies |-> cache.bodies, bytes |-> cache.bytes,
                     thumbs |-> v]
    <2>1. cache = [order |-> cache.order, bodies |-> cache.bodies, bytes |-> cache.bytes,
                   thumbs |-> cache.thumbs]
      BY <1>2 DEF CacheOK
    <2>2. cache' = [order |-> cache.order, bodies |-> cache.bodies, bytes |-> cache.bytes,
                    thumbs |-> v]
      BY <1>5, <2>1
    <2> QED
      BY <2>2
  <1>7. CacheOK(cache')
    BY <1>2, <1>4, <1>6 DEF CacheOK
  <1>8. UNCHANGED <<setVars, items, images, second, limit, removed, crowded, lowered>>
    BY DEF ThumbDrawn
  <1>9. CacheInv'
    BY <1>6, <1>7, <1>8 DEF HistInv, CacheInv, Fits, setVars
  <1>10. /\ late' = (IF r.id \in DOMAIN cache.bodies THEN late ELSE late \cup {r.id})
         /\ rendering' \subseteq rendering
    BY DEF ThumbDrawn
  <1>11. SettingsInv' /\ ListInv' /\ FilesInv'
    BY <1>8 DEF HistInv, SettingsInv, ListInv, FilesInv, setVars
  <1>12. OtherInv'
    BY <1>1, <1>8, <1>10 DEF HistInv, OtherInv
  <1>13. OrderInv'
    BY <1>6, <1>8 DEF HistInv, OrderInv
  <1>14. ThumbInv'
    BY <1>3, <1>4, <1>6, <1>10 DEF HistInv, ThumbInv
  <1> QED
    BY <1>9, <1>11, <1>12, <1>13, <1>14 DEF HistInv

LEMMA SetPinnedKeeps ==
    ASSUME HistInv, NEW id, NEW pinned \in BOOLEAN, SetPinned(id, pinned)
    PROVE  HistInv' /\ Listed(items') = Listed(items)
  <1> DEFINE n == Place(items, id)
  <1>1. items \in Seq(Item) /\ Listing(items) /\ Len(items) <= cap
    BY DEF HistInv, ListInv, Listing
  <1>2. n \in DOMAIN items
    <2>1. \E i \in DOMAIN items : items[i].id = id
      BY DEF SetPinned, Listed
    <2> QED
      BY <2>1 DEF Place
  <1> DEFINE y == [items[n] EXCEPT !.pinned = pinned]
  <1>3. items[n] \in Item
    BY <1>1, <1>2, ElementOfSeq, LenProperties
  <1>4. y \in Item /\ y.id = items[n].id
    BY <1>3 DEF Item
  <1>5. items' = [items EXCEPT ![n] = y]
    BY DEF SetPinned
  <1> HIDE DEF n, y
  <1>6. items' \in Seq(Item) /\ Len(items') = Len(items) /\ DOMAIN items' = DOMAIN items
    BY <1>1, <1>2, <1>4, <1>5, ExceptSeq, LenProperties
  <1>7. \A i \in DOMAIN items : items'[i].id = items[i].id
    BY <1>2, <1>4, <1>5
  <1>8. Listing(items')
    BY <1>1, <1>6, <1>7 DEF Listing
  <1>9. Listed(items') = Listed(items)
    BY <1>6, <1>7 DEF Listed
  <1>10. UNCHANGED <<setVars, cache, rendering, images, second, limit, removed, crowded,
                     lowered, late>>
    BY DEF SetPinned
  <1>11. ListInv'
    BY <1>1, <1>6, <1>8, <1>10 DEF ListInv, setVars
  <1>12. OrderInv'
    BY <1>6, <1>7, <1>10 DEF HistInv, OrderInv
  <1>13. SettingsInv' /\ CacheInv' /\ FilesInv' /\ OtherInv' /\ ThumbInv'
    BY <1>10 DEF HistInv, SettingsInv, CacheInv, Fits, FilesInv, OtherInv, ThumbInv, setVars
  <1> QED
    BY <1>9, <1>11, <1>12, <1>13 DEF HistInv

LEMMA DeleteItemKeeps ==
    ASSUME HistInv, NEW id, DeleteItem(id)
    PROVE  HistInv' /\ images'.files = images.files
  <1> DEFINE w == Without(items, id)
             d == Forget(cache, id)
             s == [images EXCEPT !.links = Less(@, {id})]
  <1>1. /\ items' = w /\ cache' = d /\ images' = s
        /\ UNCHANGED <<setVars, rendering, second, limit, removed, crowded, lowered, late>>
    BY DEF DeleteItem
  <1>2. Listing(items) /\ Len(items) <= cap /\ Len(items) \in Nat /\ cap \in Nat
    BY SettingsAre, LenProperties DEF HistInv, ListInv, Listing
  <1>3. /\ Thinned(w, items) /\ Listed(w) = Listed(items) \ {id}
        /\ (id \notin Listed(items) => w = items)
        /\ (id \in Listed(items) => Len(w) = Len(items) - 1)
    BY <1>2, WithoutOne
  <1>4. CacheOK(cache) /\ (lowered \/ Fits(cache))
    BY DEF HistInv, CacheInv
  <1>5. /\ LeftOf(d, cache) /\ DOMAIN d.bodies = DOMAIN cache.bodies \ {id}
        /\ \A x, y : x # id /\ y # id /\ Before(cache.order, x, y) => Before(d.order, x, y)
        /\ DOMAIN d.thumbs = DOMAIN cache.thumbs \ {id}
    BY <1>4, ForgetLeaves
  <1>6. d.bytes \in Nat /\ cache.bytes \in Nat /\ d.bytes <= cache.bytes
    <2>1. CASE id \in DOMAIN cache.bodies
      <3>1. d.bytes = Total(d.bodies) /\ cache.bytes = Total(cache.bodies) /\ Bodies(cache.bodies)
        BY <1>4, <1>5 DEF LeftOf, CacheOK
      <3>2. d.bytes = cache.bytes - Size[cache.bodies[id]]
        <4>1. cache = [order |-> cache.order, bodies |-> cache.bodies, bytes |-> cache.bytes,
                       thumbs |-> cache.thumbs]
          BY <1>4 DEF CacheOK
        <4> DEFINE m == cache.bytes - Size[cache.bodies[id]]
                   o == RemoveFirst(cache.order, id)
                   b == Less(cache.bodies, {id})
                   t == Less(cache.thumbs, {id})
        <4>2. d = [cache EXCEPT !.bodies = b, !.bytes = m, !.order = o, !.thumbs = t]
          BY <2>1 DEF Forget
        <4> HIDE DEF d, m, o, b, t
        <4>3. d.bytes = m
          BY <4>1, <4>2
        <4> QED
          BY <4>3 DEF m
      <3>3. Size[cache.bodies[id]] \in Nat \ {0} /\ Total(cache.bodies) \in Nat
        BY <2>1, <3>1, TotalLess
      <3>4. d.bytes \in Nat
        BY <1>5, <3>1, TotalKind DEF LeftOf, CacheOK
      <3> QED
        BY <3>1, <3>2, <3>3, <3>4
    <2>2. CASE id \notin DOMAIN cache.bodies
      <3>1. d.bytes = cache.bytes
        <4>1. cache = [order |-> cache.order, bodies |-> cache.bodies, bytes |-> cache.bytes,
                       thumbs |-> cache.thumbs]
          BY <1>4 DEF CacheOK
        <4>2. d = [cache EXCEPT !.thumbs = Less(@, {id})]
          BY <2>2 DEF Forget
        <4> QED
          BY <4>1, <4>2
      <3>2. cache.bytes \in Nat
        BY <1>4, TotalKind DEF CacheOK
      <3> QED
        BY <3>1, <3>2
    <2> QED
      BY <2>1, <2>2
  <1>7. ImagesOK(s, removed) /\ s.files = images.files
    BY LinksGo DEF HistInv, FilesInv
  <1> HIDE DEF w, d, s
  <1>8. Len(w) <= cap
    BY <1>2, <1>3
  <1>9. SettingsInv' /\ OtherInv'
    BY <1>1 DEF HistInv, SettingsInv, OtherInv, setVars
  <1>10. ListInv'
    BY <1>1, <1>3, <1>8 DEF ListInv, Thinned, setVars
  <1>11. CacheInv'
    <2>1. CacheOK(d) /\ Len(d.order) <= Len(cache.order)
      BY <1>5 DEF LeftOf
    <2>2. /\ Len(d.order) \in Nat /\ Len(cache.order) \in Nat
          /\ settings.max \in Nat /\ settings.bytes \in Nat
      BY <1>4, <2>1, SettingsAre, LenProperties DEF HistInv, CacheOK, Order
    <2>3. Fits(cache) => Fits(d)
      BY <1>6, <2>1, <2>2 DEF Fits
    <2> QED
      BY <1>1, <1>4, <2>1, <2>3 DEF CacheInv, Fits, setVars
  <1>12. FilesInv'
    BY <1>1, <1>7 DEF FilesInv
  <1>13. OrderInv'
    <2>1. SUFFICES ASSUME ~crowded
                   PROVE  /\ \A y \in DOMAIN d.bodies : d.bodies[y] = y
                          /\ \A i, j \in DOMAIN w :
                                i < j /\ w[j].id \in DOMAIN d.bodies
                                    => Before(d.order, w[j].id, w[i].id)
      BY <1>1 DEF OrderInv
    <2>2. /\ \A y \in DOMAIN cache.bodies : cache.bodies[y] = y
          /\ \A i, j \in DOMAIN items :
                i < j /\ items[j].id \in DOMAIN cache.bodies
                    => Before(cache.order, items[j].id, items[i].id)
      BY <2>1 DEF HistInv, OrderInv
    <2>3. \A y \in DOMAIN d.bodies : d.bodies[y] = y
      BY <1>5, <2>2 DEF LeftOf
    <2>4. ASSUME NEW i \in DOMAIN w, NEW j \in DOMAIN w, i < j, w[j].id \in DOMAIN d.bodies
          PROVE  Before(d.order, w[j].id, w[i].id)
      <3>1. PICK k \in DOMAIN items, l \in DOMAIN items :
                k < l /\ w[i].id = items[k].id /\ w[j].id = items[l].id
        BY <1>3, <2>4 DEF Thinned
      <3>2. w[i].id # id /\ w[j].id # id
        BY <1>3 DEF Listed
      <3>3. Before(cache.order, w[j].id, w[i].id)
        BY <1>5, <2>2, <2>4, <3>1
      <3> QED
        BY <1>5, <3>2, <3>3
    <2> QED
      BY <2>3, <2>4
  <1>14. ThumbInv'
    BY <1>1, <1>5 DEF HistInv, ThumbInv
  <1> QED
    BY <1>1, <1>7, <1>9, <1>10, <1>11, <1>12, <1>13, <1>14 DEF HistInv

LEMMA ClearHistoryKeeps ==
    ASSUME HistInv, ClearHistory
    PROVE  HistInv' /\ Pinned(items') = {}
  <1>1. /\ items' = <<>> /\ cache' = NoBodies /\ images' = [images EXCEPT !.links = <<>>]
        /\ lowered' = FALSE
        /\ UNCHANGED <<setVars, rendering, second, limit, removed, crowded, late>>
    BY DEF ClearHistory
  <1>2. cap \in Nat /\ settings.max \in Nat /\ settings.bytes \in Nat
    BY SettingsAre DEF HistInv
  <1>3. SettingsInv' /\ OtherInv'
    BY <1>1 DEF HistInv, SettingsInv, OtherInv, setVars
  <1>4. ListInv'
    BY <1>1, <1>2, NothingListed DEF ListInv, setVars
  <1>5. CacheInv'
    <2>1. Fits(NoBodies)
      BY <1>2, NothingFits
    <2> QED
      BY <1>1, <2>1, NothingKept DEF CacheInv, Fits, setVars
  <1>6. FilesInv'
    BY <1>1, NoLinks DEF HistInv, FilesInv
  <1>7. OrderInv' /\ ThumbInv'
    BY <1>1, NothingKept DEF OrderInv, ThumbInv
  <1>8. Pinned(items') = {}
    BY <1>1, NothingListed
  <1> QED
    BY <1>3, <1>4, <1>5, <1>6, <1>7, <1>8 DEF HistInv

LEMMA GetImagePathKeeps ==
    ASSUME HistInv, NEW id, GetImagePath(id)
    PROVE  HistInv' /\ LeavesPinned(images, images', items)
  <1>1. UNCHANGED <<setVars, items, cache, rendering, second, limit, removed, crowded,
                    lowered, late>>
    BY DEF GetImagePath
  <1>2. PICK works \in BOOLEAN :
            images' = Ensure(images, settings.dir, items, cache.bodies, id, works)
    BY DEF GetImagePath
  <1>3. /\ settings.dir \in Folder \cup {None} /\ Listing(items) /\ Kept(cache.bodies)
        /\ ImagesOK(images, removed)
    BY SettingsAre DEF HistInv, ListInv, CacheInv, CacheOK, Bodies, FilesInv
  <1>4. ImagesOK(images', removed) /\ LeavesPinned(images, images', items)
    BY <1>2, <1>3, EnsureLeaves
  <1>5. FilesInv'
    BY <1>1, <1>4 DEF FilesInv
  <1>6. SettingsInv' /\ ListInv' /\ CacheInv' /\ OtherInv' /\ OrderInv' /\ ThumbInv'
    BY <1>1 DEF HistInv, SettingsInv, ListInv, CacheInv, Fits, OtherInv, OrderInv, ThumbInv, setVars
  <1> QED
    BY <1>4, <1>5, <1>6 DEF HistInv

LEMMA SetImageDirKeeps ==
    ASSUME HistInv, NEW d \in Folder \cup {None}, SetImageDir(d)
    PROVE  HistInv'
  <1> DEFINE bare == [images EXCEPT !.links = <<>>]
             all(fails) == EnsureAll(bare, d, fails)
  <1>1. /\ UNCHANGED <<cap, items, cache, rendering, second, limit, removed, crowded, lowered, late>>
        /\ settings' = [settings EXCEPT !.dir = d]
    BY DEF SetImageDir
  <1>2. \/ images' = bare /\ onDisk' = onDisk
        \/ (\E fails : images' = Cleanup(all(fails), d, items, TRUE)) /\ onDisk' = settings'
    BY DEF SetImageDir
  <1>3. /\ Listing(items) /\ Kept(cache.bodies) /\ ImagesOK(images, removed)
    BY DEF HistInv, ListInv, CacheInv, CacheOK, Bodies, FilesInv
  <1>4. ImagesOK(bare, removed)
    BY <1>3, NoLinks
  <1> HIDE DEF bare
  <1>5. ASSUME NEW fails
        PROVE  ImagesOK(all(fails), removed)
    BY <1>3, <1>4, EnsureAllLeaves
  <1> HIDE DEF all
  <1>6. ASSUME NEW fails
        PROVE  ImagesOK(Cleanup(all(fails), d, items, TRUE), removed)
    <2>1. ImagesOK(all(fails), removed)
      BY <1>5
    <2> QED
      BY <2>1, CleanupLeaves
  <1>7. FilesInv'
    BY <1>1, <1>2, <1>4, <1>6 DEF FilesInv
  <1>8. /\ settings' \in Setting
        /\ settings'.max = settings.max /\ settings'.bytes = settings.bytes
    BY <1>1 DEF HistInv, SettingsInv, Setting
  <1>9. onDisk' \in Setting
    BY <1>2, <1>8 DEF HistInv, SettingsInv
  <1>10. SettingsInv'
    BY <1>1, <1>8, <1>9 DEF HistInv, SettingsInv
  <1>11. ListInv' /\ OtherInv' /\ OrderInv' /\ ThumbInv'
    BY <1>1 DEF HistInv, ListInv, OtherInv, OrderInv, ThumbInv
  <1>12. CacheInv'
    BY <1>1, <1>8 DEF HistInv, CacheInv, Fits
  <1> QED
    BY <1>7, <1>10, <1>11, <1>12 DEF HistInv

LEMMA UpdateSettingsKeeps ==
    ASSUME HistInv, NEW n, NEW b, UpdateSettings(n, b)
    PROVE  HistInv' /\ LeavesPinned(images, images', items)
  <1>1. /\ UNCHANGED <<cap, items, cache, rendering, second, limit, removed, crowded, late>>
        /\ n \in limit.maxima /\ b \in limit.bytes
        /\ settings' = [settings EXCEPT !.max = n, !.bytes = b]
        /\ lowered' = (lowered \/ n < settings.max \/ b < settings.bytes)
    BY DEF UpdateSettings
  <1>2. \/ images' = images /\ onDisk' = onDisk
        \/ images' = Cleanup(images, settings.dir, items, TRUE) /\ onDisk' = settings'
    BY DEF UpdateSettings
  <1>3. ImagesOK(images, removed)
    BY DEF HistInv, FilesInv
  <1>4. ImagesOK(images', removed) /\ LeavesPinned(images, images', items)
    <2>1. CASE images' = images
      BY <1>3, <2>1 DEF LeavesPinned
    <2>2. CASE images' = Cleanup(images, settings.dir, items, TRUE)
      BY <1>3, <2>2, CleanupLeaves
    <2> QED
      BY <1>2, <2>1, <2>2
  <1>5. FilesInv'
    BY <1>1, <1>4 DEF FilesInv
  <1>6. n \in Maximum /\ b \in Bytes
    BY <1>1, SettingsAre DEF HistInv
  <1>7. settings' \in Setting /\ settings'.max = n /\ settings'.bytes = b
    BY <1>1, <1>6 DEF HistInv, SettingsInv, Setting
  <1>8. onDisk' \in Setting
    BY <1>2, <1>7 DEF HistInv, SettingsInv
  <1>9. SettingsInv'
    BY <1>1, <1>7, <1>8 DEF HistInv, SettingsInv
  <1>10. lowered' \in BOOLEAN /\ (~lowered' => ~lowered /\ ~ (n < settings.max) /\ ~ (b < settings.bytes))
    BY <1>1, AnyOf
  <1>11. CacheInv'
    <2>1. CacheOK(cache')
      BY <1>1 DEF HistInv, CacheInv
    <2>2. ASSUME ~lowered'
          PROVE  /\ cache'.bytes <= settings'.bytes
                 /\ Len(cache'.order) <= 2 * settings'.max
      <3>1. Fits(cache) /\ ~ (n < settings.max) /\ ~ (b < settings.bytes)
        BY <1>10, <2>2 DEF HistInv, CacheInv
      <3>2. /\ n \in Nat /\ b \in Nat /\ settings.max \in Nat /\ settings.bytes \in Nat
            /\ cache.bytes \in Nat /\ Len(cache.order) \in Nat
        BY <1>6, SettingsAre, HistoryAssumption, TotalKind, LenProperties
           DEF HistInv, CacheInv, CacheOK, Order
      <3> QED
        BY <1>1, <1>7, <3>1, <3>2 DEF Fits
    <2> QED
      BY <1>1, <2>1, <2>2 DEF CacheInv, Fits
  <1>12. ListInv' /\ OrderInv' /\ ThumbInv'
    BY <1>1 DEF HistInv, ListInv, OrderInv, ThumbInv
  <1>13. OtherInv'
    BY <1>1, <1>10 DEF HistInv, OtherInv
  <1> QED
    BY <1>4, <1>5, <1>9, <1>11, <1>12, <1>13 DEF HistInv

LEMMA RestartAppKeeps ==
    ASSUME HistInv, RestartApp
    PROVE  HistInv' /\ Pinned(items') = {}
  <1> DEFINE bare == [images EXCEPT !.links = <<>>, !.swept = FALSE]
  <1>1. /\ items' = <<>> /\ cache' = NoBodies /\ settings' = onDisk /\ cap' = onDisk.max
        /\ rendering' = {} /\ late' = {} /\ crowded' = FALSE /\ lowered' = FALSE
        /\ images' = Cleanup(bare, onDisk.dir, <<>>, TRUE)
        /\ UNCHANGED <<onDisk, second, limit, removed>>
    BY DEF RestartApp
  <1>2. SettingsInv'
    BY <1>1 DEF HistInv, SettingsInv, Setting
  <1>3. onDisk.max \in Nat /\ onDisk.bytes \in Nat
    BY SettingsAre DEF HistInv
  <1>4. ListInv'
    BY <1>1, <1>3, NothingListed DEF ListInv
  <1>5. CacheInv'
    <2>1. NoBodies.bytes <= onDisk.bytes /\ Len(NoBodies.order) <= 2 * onDisk.max
      BY <1>3, NothingKept
    <2> QED
      BY <1>1, <2>1, NothingKept DEF CacheInv, Fits
  <1>6. FilesInv'
    <2>1. ImagesOK(bare, removed)
      BY NoLinks DEF HistInv, FilesInv
    <2> HIDE DEF bare
    <2>2. ImagesOK(Cleanup(bare, onDisk.dir, <<>>, TRUE), removed)
      BY <2>1, CleanupLeaves
    <2> QED
      BY <1>1, <2>2 DEF FilesInv
  <1> HIDE DEF bare
  <1>7. OtherInv'
    BY <1>1 DEF HistInv, OtherInv
  <1>8. OrderInv' /\ ThumbInv'
    BY <1>1, NothingKept DEF OrderInv, ThumbInv
  <1>9. Pinned(items') = {}
    BY <1>1, NothingListed
  <1> QED
    BY <1>2, <1>4, <1>5, <1>6, <1>7, <1>8, <1>9 DEF HistInv

\* The steps that change none of the lists: thumbnails asked for and given up,
\* the clock, and the hands of the user in the folder.
LEMMA OthersKeep ==
    ASSUME HistInv,
           \/ \E id \in Clip : AskThumb(id)
           \/ \E r \in rendering : ThumbFails(r)
           \/ SecondPasses
           \/ HourPasses
           \/ \E f \in images.files : FileAges(f) \/ UserRemovesFile(f)
    PROVE  HistInv'
  <1>1. UNCHANGED <<setVars, items, cache, limit, crowded, lowered, late>>
    BY DEF AskThumb, ThumbFails, SecondPasses, HourPasses, FileAges, UserRemovesFile
  <1>2. SettingsInv' /\ ListInv' /\ CacheInv' /\ OrderInv' /\ ThumbInv'
    BY <1>1 DEF HistInv, SettingsInv, ListInv, CacheInv, Fits, OrderInv, ThumbInv, setVars
  <1>3. images \in ImageKinds /\ ImagesOK(images, removed)
    BY DEF HistInv, FilesInv, ImagesOK
  <1>4. CASE \E id \in Clip : AskThumb(id)
    <2>1. PICK id \in Clip : AskThumb(id)
      BY <1>4
    <2>2. UNCHANGED <<images, removed, second>>
      BY <2>1 DEF AskThumb
    <2>3. cache.bodies[id] \in Clip
      <3>1. Kept(cache.bodies) /\ id \in DOMAIN cache.bodies
        BY <2>1 DEF AskThumb, HistInv, CacheInv, CacheOK, Bodies
      <3> QED
        BY <3>1 DEF Kept
    <2>4. OtherInv'
      BY <1>1, <2>1, <2>2, <2>3 DEF HistInv, OtherInv, AskThumb
    <2>5. FilesInv'
      BY <2>2 DEF HistInv, FilesInv
    <2> QED
      BY <1>2, <2>4, <2>5 DEF HistInv
  <1>5. CASE \/ \E r \in rendering : ThumbFails(r)
             \/ SecondPasses
    <2>1. UNCHANGED <<images, removed>> /\ rendering' \subseteq rendering /\ second' \in Nat
      BY <1>5 DEF ThumbFails, SecondPasses, HistInv, OtherInv
    <2>2. OtherInv'
      BY <1>1, <2>1 DEF HistInv, OtherInv
    <2>3. FilesInv'
      BY <2>1 DEF HistInv, FilesInv
    <2> QED
      BY <1>2, <2>2, <2>3 DEF HistInv
  <1>6. CASE HourPasses
    <2>1. UNCHANGED <<rendering, removed, second>> /\ images' = [images EXCEPT !.swept = FALSE]
      BY <1>6 DEF HourPasses
    <2>2. OtherInv'
      BY <1>1, <2>1 DEF HistInv, OtherInv
    <2>3. /\ images' \in ImageKinds /\ images'.links = images.links
          /\ images'.files = images.files /\ images'.old = images.old
      BY <1>3, <2>1 DEF ImageKinds
    <2>4. FilesInv'
      BY <1>3, <2>1, <2>3 DEF FilesInv, ImagesOK
    <2> QED
      BY <1>2, <2>2, <2>4 DEF HistInv
  <1>7. CASE \E f \in images.files : FileAges(f)
    <2>1. PICK f \in images.files : FileAges(f)
      BY <1>7
    <2>2. UNCHANGED <<rendering, removed, second>> /\ images' = [images EXCEPT !.old = @ \cup {f}]
      BY <2>1 DEF FileAges
    <2>3. OtherInv'
      BY <1>1, <2>2 DEF HistInv, OtherInv
    <2>4. /\ images' \in ImageKinds /\ images'.links = images.links
          /\ images'.files = images.files /\ images'.old = images.old \cup {f}
      BY <1>3, <2>2 DEF ImageKinds
    <2>5. FilesInv'
      BY <1>3, <2>2, <2>4 DEF FilesInv, ImagesOK
    <2> QED
      BY <1>2, <2>3, <2>5 DEF HistInv
  <1>8. CASE \E f \in images.files : UserRemovesFile(f)
    <2>1. PICK f \in images.files : UserRemovesFile(f)
      BY <1>8
    <2>2. /\ UNCHANGED <<rendering, second>> /\ removed' = removed \cup {f}
          /\ images' = [images EXCEPT !.files = @ \ {f}, !.old = @ \ {f}]
      BY <2>1 DEF UserRemovesFile
    <2>3. images.files \subseteq File
      BY <1>3 DEF ImageKinds
    <2>4. OtherInv'
      BY <1>1, <2>2, <2>3 DEF HistInv, OtherInv
    <2>5. /\ images' \in ImageKinds /\ images'.links = images.links
          /\ images'.files = images.files \ {f} /\ images'.old = images.old \ {f}
      BY <1>3, <2>2 DEF ImageKinds
    <2>6. FilesInv'
      BY <1>3, <2>2, <2>5 DEF FilesInv, ImagesOK
    <2> QED
      BY <1>2, <2>4, <2>6 DEF HistInv
  <1> QED
    BY <1>4, <1>5, <1>6, <1>7, <1>8

LEMMA StepKeeps ==
    ASSUME HistInv, [HistNext]_histVars
    PROVE  HistInv'
  <1>1. ASSUME NEW id \in Clip, AddClip(id)
        PROVE  HistInv'
    BY <1>1, AddClipKeeps
  <1>2. ASSUME NEW id \in Clip, AddUnpublished(id)
        PROVE  HistInv'
    BY <1>2, AddUnpublishedKeeps
  <1>3. ASSUME NEW id \in Clip, NEW pinned \in BOOLEAN, SetPinned(id, pinned)
        PROVE  HistInv'
    BY <1>3, SetPinnedKeeps
  <1>4. ASSUME NEW id \in Clip, DeleteItem(id)
        PROVE  HistInv'
    BY <1>4, DeleteItemKeeps
  <1>5. ASSUME NEW id \in Clip, GetImagePath(id)
        PROVE  HistInv'
    BY <1>5, GetImagePathKeeps
  <1>6. ASSUME NEW r \in rendering, ThumbDrawn(r)
        PROVE  HistInv'
    BY <1>6, ThumbDrawnKeeps
  <1>7. ASSUME NEW d \in Folder \cup {None}, SetImageDir(d)
        PROVE  HistInv'
    BY <1>7, SetImageDirKeeps
  <1>8. ASSUME ClearHistory
        PROVE  HistInv'
    BY <1>8, ClearHistoryKeeps
  <1>9. ASSUME NEW n \in Maximum, NEW b \in Bytes, UpdateSettings(n, b)
        PROVE  HistInv'
    BY <1>9, UpdateSettingsKeeps
  <1>10. ASSUME RestartApp
         PROVE  HistInv'
    BY <1>10, RestartAppKeeps
  <1>11. CASE UNCHANGED histVars
    BY <1>11 DEF histVars, setVars, HistInv, SettingsInv, ListInv, CacheInv, Fits, FilesInv,
                 OtherInv, OrderInv, ThumbInv
  <1> QED
    BY <1>1, <1>2, <1>3, <1>4, <1>5, <1>6, <1>7, <1>8, <1>9, <1>10, <1>11, OthersKeep
       DEF HistNext

LEMMA HistInvAlways == HistSpec => []HistInv
  <1>1. HistInit => HistInv
    BY InitHolds
  <1>2. HistInv /\ [HistNext]_histVars => HistInv'
    BY StepKeeps
  <1> QED
    BY <1>1, <1>2, PTL DEF HistSpec

-----------------------------------------------------------------------------
(* The theorems.                                                           *)

LEMMA TypesFollow ==
    ASSUME HistInv
    PROVE  HistTypeOK
  <1>1. settings \in Setting /\ onDisk \in Setting /\ cap \in Maximum /\ limit \in Limits
    BY DEF HistInv, SettingsInv
  <1>2. items \in Seq(Item) /\ \A i, j \in DOMAIN items : items[i].id = items[j].id => i = j
    BY DEF HistInv, ListInv, Listing
  <1>4. CacheOK(cache)
    BY DEF HistInv, CacheInv
  <1>5. DOMAIN cache = {"order", "bodies", "bytes", "thumbs"}
    <2>1. cache = [order |-> cache.order, bodies |-> cache.bodies, bytes |-> cache.bytes,
                   thumbs |-> cache.thumbs]
      BY <1>4 DEF CacheOK
    <2>2. DOMAIN [order |-> cache.order, bodies |-> cache.bodies, bytes |-> cache.bytes,
                  thumbs |-> cache.thumbs] = {"order", "bodies", "bytes", "thumbs"}
      OBVIOUS
    <2> QED
      BY <2>1, <2>2, Zenon
  <1>6. cache.order \in Seq(Clip) /\ cache.bytes \in Nat
    BY <1>4, TotalKind DEF CacheOK, Order
  <1>7. \A f \in {cache.bodies, cache.thumbs} : f \in [DOMAIN f -> Clip] /\ DOMAIN f \subseteq Clip
    BY <1>4 DEF CacheOK, Bodies, Kept
  <1>8. images \in ImageKinds /\ images.old \subseteq images.files
    BY DEF HistInv, FilesInv, ImagesOK
  <1>9. /\ DOMAIN images = {"links", "swept", "files", "old"} /\ images.swept \in BOOLEAN
        /\ images.links \in Links /\ images.files \subseteq File
    BY <1>8 DEF ImageKinds
  <1>10. DOMAIN images.links \subseteq Image /\ images.links \in [DOMAIN images.links -> File]
    BY <1>9, LinksKind
  <1>11. /\ rendering \subseteq [id : Clip, clip : Clip] /\ second \in Nat /\ removed \subseteq File
         /\ crowded \in BOOLEAN /\ lowered \in BOOLEAN /\ late \subseteq Clip
    BY DEF HistInv, OtherInv
  <1> QED
    BY <1>1, <1>2, <1>5, <1>6, <1>7, <1>8, <1>9, <1>10, <1>11 DEF HistTypeOK

\* Every variable keeps its type, for every set of clips, sizes and settings, and
\* no two items of the list have one id (HistoryBuffer::add).  It says nothing of
\* the bounds of the cache, which are part of BodyAccounting.
THEOREM HistTypeAlways == HistSpec => []HistTypeOK
  <1>1. HistInv => HistTypeOK
    BY TypesFollow
  <1> QED
    BY <1>1, HistInvAlways, PTL

\* The bytes counted are those of the bodies kept, and each of these has one
\* place in the order (cache_body, forget_body); and both bounds are kept, a body
\* that exceeds them alone not being kept, until one of them is lowered, from then
\* to the next body that comes (update_settings, cache_body).
THEOREM BodyAccountingAlways == HistSpec => []BodyAccounting
  <1>1. HistInv => BodyAccounting
    BY DEF HistInv, CacheInv, CacheOK, Order, Total, BodyAccounting
  <1> QED
    BY <1>1, HistInvAlways, PTL

\* A body is kept under the id of its clip, also that of a clip that is not
\* published (poll_clipboard), unless the list was full of pinned items.
THEOREM BodiesBelongAlways == HistSpec => []BodiesBelong
  <1>1. HistInv => BodiesBelong
    BY DEF HistInv, OrderInv, BodiesBelong
  <1> QED
    BY <1>1, HistInvAlways, PTL

\* Of the listed clips the newest keep their bodies: the order of the cache is
\* that of the list (cache_body, HistoryBuffer::add).
THEOREM NewestKeepBodiesAlways == HistSpec => []NewestKeepBodies
  <1>1. HistInv => NewestKeepBodies
    <2> SUFFICES ASSUME HistInv, ~crowded, NEW i \in DOMAIN items, NEW j \in DOMAIN items,
                        i < j, items[j].id \in DOMAIN cache.bodies
                 PROVE  items[i].id \in DOMAIN cache.bodies
      BY DEF NewestKeepBodies, HistoryView
    <2>1. Before(cache.order, items[j].id, items[i].id)
      BY DEF HistInv, OrderInv
    <2>2. items[i].id \in ToSet(cache.order)
      BY <2>1 DEF Before, ToSet
    <2> QED
      BY <2>2 DEF HistInv, CacheInv, CacheOK
  <1> QED
    BY <1>1, HistInvAlways, PTL

\* A thumbnail goes with the body it was made of, unless it was being drawn
\* then (forget_body, get_thumbnail).
THEOREM ThumbsFollowBodiesAlways == HistSpec => []ThumbsFollowBodies
  <1>1. HistInv => ThumbsFollowBodies
    BY DEF HistInv, ThumbInv, ThumbsFollowBodies
  <1> QED
    BY <1>1, HistInvAlways, PTL

\* A path that is shown is that of a file, or the user has taken it away: the
\* clean-up drops the links to what it deletes (cleanup_images).
THEOREM LinksAreFilesAlways == HistSpec => []LinksAreFiles
  <1>1. HistInv => LinksAreFiles
    BY DEF HistInv, FilesInv, ImagesOK, LinksAreFiles, HistoryView
  <1> QED
    BY <1>1, HistInvAlways, PTL

\* A pinned item stays in the list until it is deleted, the list is cleared or
\* the app ends (evict).
THEOREM PinnedStayAlways == HistSpec => PinnedStay
  <1> DEFINE Stays == \/ Pinned(items) \subseteq Listed(items')
                      \/ ClearHistory \/ RestartApp \/ \E id \in Clip : DeleteItem(id)
  <1>1. HistInv /\ [HistNext]_histVars => [Stays]_histVars
    <2> SUFFICES ASSUME HistInv, HistNext
                 PROVE  Stays
      OBVIOUS
    <2>1. Pinned(items) \subseteq Listed(items)
      BY DEF Pinned, Listed
    <2>2. ASSUME NEW id \in Clip, AddClip(id)
          PROVE  Stays
      BY <2>2, AddClipKeeps
    <2>3. ASSUME NEW id \in Clip, AddUnpublished(id)
          PROVE  Stays
      BY <2>3, AddUnpublishedKeeps
    <2>4. ASSUME NEW id \in Clip, NEW pinned \in BOOLEAN, SetPinned(id, pinned)
          PROVE  Stays
      BY <2>1, <2>4, SetPinnedKeeps
    <2>5. ASSUME items' = items
          PROVE  Stays
      BY <2>1, <2>5
    <2> QED
      BY <2>2, <2>3, <2>4, <2>5
         DEF HistNext, AskThumb, GetImagePath, ThumbDrawn, ThumbFails, SetImageDir, FileAges,
             UserRemovesFile, UpdateSettings, SecondPasses, HourPasses
  <1> QED
    BY <1>1, HistInvAlways, PTL DEF HistSpec, PinnedStay

\* The app does not delete the file of an item that is pinned before and after
\* the step, except when the folder is set and the links are made anew, or when a
\* clip has come to a list full of pinned items since the app was started
\* (images::cleanup, prune_image_files).
THEOREM PinnedFilesStayAlways == HistSpec => PinnedFilesStay
  <1> DEFINE FileStays(id) ==
                 \/ images.links[id] \in images.files => images.links[id] \in images'.files
                 \/ UserRemovesFile(images.links[id])
                 \/ \E d \in Folder \cup {None} : SetImageDir(d)
                 \/ crowded'
             Stay == \A id \in Pinned(items) \cap Pinned(items') \cap DOMAIN images.links :
                         FileStays(id)
  <1>1. HistInv /\ [HistNext]_histVars => [Stay]_histVars
    <2> SUFFICES ASSUME HistInv, HistNext
                 PROVE  Stay
      OBVIOUS
    <2>1. ASSUME NEW id \in Clip, AddClip(id)
          PROVE  Stay
      BY <2>1, AddClipKeeps DEF LeavesPinned
    <2>2. ASSUME NEW id \in Clip, AddUnpublished(id)
          PROVE  Stay
      BY <2>2, AddUnpublishedKeeps DEF LeavesPinned
    <2>3. ASSUME NEW id \in Clip, GetImagePath(id)
          PROVE  Stay
      BY <2>3, GetImagePathKeeps DEF LeavesPinned
    <2>4. ASSUME NEW n \in Maximum, NEW b \in Bytes, UpdateSettings(n, b)
          PROVE  Stay
      BY <2>4, UpdateSettingsKeeps DEF LeavesPinned
    <2>5. ASSUME NEW id \in Clip, DeleteItem(id)
          PROVE  Stay
      BY <2>5, DeleteItemKeeps
    <2>6. ASSUME ClearHistory
          PROVE  Stay
      BY <2>6, ClearHistoryKeeps
    <2>7. ASSUME RestartApp
          PROVE  Stay
      BY <2>7, RestartAppKeeps
    <2>8. ASSUME NEW d \in Folder \cup {None}, SetImageDir(d)
          PROVE  Stay
      BY <2>8
    <2>9. ASSUME NEW f \in images.files, UserRemovesFile(f)
          PROVE  Stay
      <3>1. images' = [images EXCEPT !.files = @ \ {f}, !.old = @ \ {f}]
        BY <2>9 DEF UserRemovesFile
      <3>2. images'.files = images.files \ {f}
        BY <3>1 DEF HistInv, FilesInv, ImagesOK, ImageKinds
      <3> QED
        BY <2>9, <3>2
    <2>10. ASSUME images'.files = images.files
           PROVE  Stay
      BY <2>10
    <2>11. ASSUME NEW f \in images.files, FileAges(f)
           PROVE  images'.files = images.files
      <3>1. images' = [images EXCEPT !.old = @ \cup {f}]
        BY <2>11 DEF FileAges
      <3> QED
        BY <3>1 DEF HistInv, FilesInv, ImagesOK, ImageKinds
    <2>12. ASSUME HourPasses
           PROVE  images'.files = images.files
      <3>1. images' = [images EXCEPT !.swept = FALSE]
        BY <2>12 DEF HourPasses
      <3> QED
        BY <3>1 DEF HistInv, FilesInv, ImagesOK, ImageKinds
    <2>13. ASSUME images' = images
           PROVE  images'.files = images.files
      BY <2>13
    <2> HIDE DEF Stay
    <2> QED
      BY <2>1, <2>2, <2>3, <2>4, <2>5, <2>6, <2>7, <2>8, <2>9, <2>10, <2>11, <2>12, <2>13
         DEF HistNext, AskThumb, SetPinned, ThumbDrawn, ThumbFails, SecondPasses
  <1> QED
    BY <1>1, HistInvAlways, PTL DEF HistSpec, PinnedFilesStay
=============================================================================
