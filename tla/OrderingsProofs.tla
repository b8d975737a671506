--------------------------- MODULE OrderingsProofs ---------------------------
(***************************************************************************)
(* What sorting and selecting return, for any finite set, any strict total *)
(* order on it, and any sequence. Everything is counted: an injection      *)
(* between two sets of one size reaches every element.                     *)
(***************************************************************************)
EXTENDS Orderings, FiniteSetTheorems, TLAPS

\* A strict order on S in which any two elements compare.
StrictTotalOrder(before, S) ==
  /\ \A x \in S : <<x, x>> \notin before
  /\ \A x, y \in S : x # y => <<x, y>> \in before \/ <<y, x>> \in before
  /\ \A x, y, z \in S : <<x, y>> \in before /\ <<y, z>> \in before => <<x, z>> \in before

\* How many elements of S are before x.
Rank(S, before, x) == Cardinality({y \in S : <<y, x>> \in before})

\* Ranks grow along the order, and stay below the size of the set.
LEMMA RankFacts ==
  ASSUME NEW S, IsFiniteSet(S), NEW before, StrictTotalOrder(before, S)
  PROVE  /\ \A x \in S : Rank(S, before, x) \in 0..(Cardinality(S) - 1)
         /\ \A x, y \in S : <<x, y>> \in before => Rank(S, before, x) < Rank(S, before, y)
<1> DEFINE Below(x) == {y \in S : <<y, x>> \in before}
<1>0. Cardinality(S) \in Nat
  BY FS_CardinalityType
<1>1. ASSUME NEW x \in S
      PROVE  /\ IsFiniteSet(Below(x)) /\ Cardinality(Below(x)) \in Nat
             /\ Cardinality(Below(x)) < Cardinality(S)
  <2>1. Below(x) \in SUBSET S /\ Below(x) # S
    BY DEF StrictTotalOrder
  <2> HIDE DEF Below
  <2>2. QED
    BY <2>1, <1>0, FS_Subset, FS_CardinalityType
<1>2. ASSUME NEW x \in S, NEW y \in S, <<x, y>> \in before
      PROVE  Cardinality(Below(x)) < Cardinality(Below(y))
  <2>1. Below(x) \in SUBSET Below(y)
    BY <1>2 DEF StrictTotalOrder
  <2>2. x \in Below(y) /\ x \notin Below(x)
    BY <1>2 DEF StrictTotalOrder
  <2>3. IsFiniteSet(Below(y)) /\ Cardinality(Below(y)) \in Nat /\ Cardinality(Below(x)) \in Nat
    BY <1>1
  <2> HIDE DEF Below
  <2>4. Cardinality(Below(x)) <= Cardinality(Below(y)) /\ Cardinality(Below(x)) # Cardinality(Below(y))
    BY <2>1, <2>2, <2>3, FS_Subset
  <2>5. QED
    BY <2>3, <2>4
<1>3. QED
  BY <1>0, <1>1, <1>2 DEF Rank

\* Every place is some element's.
LEMMA EveryRank ==
  ASSUME NEW S, IsFiniteSet(S), NEW before, StrictTotalOrder(before, S),
         NEW n \in 1..Cardinality(S)
  PROVE  \E x \in S : Rank(S, before, x) = n - 1
<1> DEFINE rank == [x \in S |-> Rank(S, before, x)]
           T == 0..(Cardinality(S) - 1)
<1>0. Cardinality(S) \in Nat
  BY FS_CardinalityType
<1>1. \A x \in S : rank[x] \in T
  BY RankFacts
<1>2. \A x, y \in S : x # y => rank[x] # rank[y]
  <2> SUFFICES ASSUME NEW x \in S, NEW y \in S, x # y PROVE rank[x] # rank[y]
    OBVIOUS
  <2>1. rank[x] < rank[y] \/ rank[y] < rank[x]
    BY RankFacts DEF StrictTotalOrder
  <2>2. rank[x] \in Nat /\ rank[y] \in Nat
    BY <1>1, <1>0
  <2> HIDE DEF rank
  <2>3. QED
    BY <2>1, <2>2
<1>3. rank \in [S -> T]
  BY <1>1
<1>4. IsFiniteSet(T) /\ Cardinality(T) = Cardinality(S)
  <2>1. Cardinality(S) - 1 \in Int /\ 0 \in Int
    BY <1>0
  <2>2. /\ IsFiniteSet(T)
        /\ Cardinality(T) = IF 0 > Cardinality(S) - 1 THEN 0 ELSE Cardinality(S) - 1 - 0 + 1
    BY <2>1, FS_Interval, Zenon
  <2> HIDE DEF T
  <2>3. QED
    BY <1>0, <2>2
<1> HIDE DEF rank, T
<1>5. rank \in Injection(S, T)
  BY <1>2, <1>3 DEF Injection, IsInjective
<1>6. rank \in Surjection(S, T)
  BY <1>4, <1>5, FS_Injection
<1>7. n - 1 \in T
  BY <1>0 DEF T
<1>8. PICK x \in S : rank[x] = n - 1
  BY <1>6, <1>7 DEF Surjection
<1>9. QED
  BY <1>8 DEF rank

\* Sorting gives every element once, and the order of the places is that of
\* the elements.
LEMMA SortedFacts ==
  ASSUME NEW S, IsFiniteSet(S), NEW before, StrictTotalOrder(before, S)
  PROVE  /\ Cardinality(S) \in Nat
         /\ Sorted(S, before) \in [1..Cardinality(S) -> S]
         /\ \A x \in S : \E n \in 1..Cardinality(S) : Sorted(S, before)[n] = x
         /\ \A m, n \in 1..Cardinality(S) :
              m < n <=> <<Sorted(S, before)[m], Sorted(S, before)[n]>> \in before
<1> DEFINE size == Cardinality(S)
           sorted == Sorted(S, before)
           R(x) == Rank(S, before, x)
<1>0. size \in Nat
  BY FS_CardinalityType
<1>1. sorted = [n \in 1..size |-> CHOOSE x \in S : R(x) = n - 1]
  BY DEF Sorted, Rank
<1>2. \A n \in 1..size : \E x \in S : R(x) = n - 1
  BY EveryRank
<1>3. \A x \in S : R(x) \in 0..(size - 1)
  BY RankFacts
<1>4. \A x, y \in S : <<x, y>> \in before => R(x) < R(y)
  BY RankFacts
<1> HIDE DEF sorted, size, R
<1>5. \A n \in 1..size : sorted[n] \in S /\ R(sorted[n]) = n - 1
  BY <1>1, <1>2
<1>6. sorted \in [1..size -> S]
  BY <1>1, <1>5
<1>7. ASSUME NEW x \in S PROVE \E n \in 1..size : sorted[n] = x
  <2> DEFINE n == R(x) + 1
  <2>1. n \in 1..size
    BY <1>0, <1>3
  <2>2. sorted[n] \in S /\ R(sorted[n]) = R(x)
    BY <1>3, <1>5, <2>1
  <2>3. <<sorted[n], x>> \notin before /\ <<x, sorted[n]>> \notin before
    BY <1>3, <1>4, <2>2
  <2>4. sorted[n] = x
    BY <2>2, <2>3 DEF StrictTotalOrder
  <2>5. QED
    BY <2>1, <2>4
<1>8. ASSUME NEW m \in 1..size, NEW n \in 1..size
      PROVE  m < n <=> <<sorted[m], sorted[n]>> \in before
  <2>1. m \in Nat /\ n \in Nat
    BY <1>0
  <2>2. <<sorted[m], sorted[n]>> \in before => m < n
    BY <1>4, <1>5, <2>1
  <2>3. <<sorted[n], sorted[m]>> \in before => n < m
    BY <1>4, <1>5, <2>1
  <2>4. sorted[m] = sorted[n] => m = n
    BY <1>5, <2>1
  <2>5. m < n => <<sorted[m], sorted[n]>> \in before
    BY <1>5, <2>1, <2>3, <2>4 DEF StrictTotalOrder
  <2>6. QED
    BY <2>2, <2>5
<1>9. QED
  BY <1>0, <1>6, <1>7, <1>8 DEF sorted, size

\* The numbers up to another are totally ordered.
LEMMA PlacesOrdered ==
  ASSUME NEW places, places \subseteq Int
  PROVE  StrictTotalOrder({p \in places \X places : p[1] < p[2]}, places)
<1> DEFINE before == {p \in places \X places : p[1] < p[2]}
<1>1. \A m, n \in places : <<m, n>> \in before <=> m < n
  OBVIOUS
<1> HIDE DEF before
<1>2. StrictTotalOrder(before, places)
  BY <1>1 DEF StrictTotalOrder
<1>3. QED
  BY <1>2 DEF before

\* Numbers in increasing order.
LEMMA IncreasingFacts ==
  ASSUME NEW S, IsFiniteSet(S), S \subseteq Int
  PROVE  /\ Cardinality(S) \in Nat
         /\ Increasing(S) \in [1..Cardinality(S) -> S]
         /\ \A x \in S : \E n \in 1..Cardinality(S) : Increasing(S)[n] = x
         /\ \A m, n \in 1..Cardinality(S) : m < n <=> Increasing(S)[m] < Increasing(S)[n]
<1> DEFINE before == {p \in S \X S : p[1] < p[2]}
           size == Cardinality(S)
           sorted == Increasing(S)
<1>1. StrictTotalOrder(before, S)
  BY PlacesOrdered
<1>2. \A m, n \in S : <<m, n>> \in before <=> m < n
  OBVIOUS
<1>3. sorted = Sorted(S, before)
  BY DEF Increasing
<1> HIDE DEF before, sorted
<1>4. /\ size \in Nat /\ sorted \in [1..size -> S]
      /\ \A x \in S : \E n \in 1..size : sorted[n] = x
      /\ \A m, n \in 1..size : m < n <=> <<sorted[m], sorted[n]>> \in before
  BY <1>1, <1>3, SortedFacts
<1> HIDE DEF size
<1>5. \A m, n \in 1..size : m < n <=> sorted[m] < sorted[n]
  BY <1>2, <1>4
<1>6. QED
  BY <1>4, <1>5 DEF sorted, size

\* A selection has the items at the given places and no others, in their order.
LEMMA SelectedFacts ==
  ASSUME NEW S, NEW s \in Seq(S), NEW places \in SUBSET DOMAIN s
  PROVE  /\ Selected(s, places) \in Seq(S)
         /\ Len(Selected(s, places)) = Cardinality(places)
         /\ Cardinality(places) \in 0..Len(s)
         /\ \E at \in [1..Cardinality(places) -> places] :
              /\ \A n \in 1..Cardinality(places) : Selected(s, places)[n] = s[at[n]]
              /\ \A p \in places : \E n \in 1..Cardinality(places) : at[n] = p
              /\ \A m, n \in 1..Cardinality(places) : m < n <=> at[m] < at[n]
<1> DEFINE at == Increasing(places)
           size == Cardinality(places)
<1>1. DOMAIN s = 1..Len(s) /\ Len(s) \in Nat
  OBVIOUS
<1>2. IsFiniteSet(DOMAIN s) /\ Cardinality(DOMAIN s) = Len(s)
  <2>1. /\ IsFiniteSet(1..Len(s))
        /\ Cardinality(1..Len(s)) = IF 1 > Len(s) THEN 0 ELSE Len(s) - 1 + 1
    BY <1>1, FS_Interval
  <2>2. QED
    BY <1>1, <2>1
<1>3. IsFiniteSet(places) /\ size <= Len(s)
  BY <1>2, FS_Subset
<1>4. places \subseteq Int
  BY <1>1
<1>5. /\ size \in Nat /\ at \in [1..size -> places]
      /\ \A x \in places : \E n \in 1..size : at[n] = x
      /\ \A m, n \in 1..size : m < n <=> at[m] < at[n]
  BY <1>3, <1>4, IncreasingFacts
<1>6. Selected(s, places) = [n \in 1..size |-> s[at[n]]]
  BY DEF Selected
<1> HIDE DEF at, size
<1>7. \A n \in 1..size : s[at[n]] \in S
  BY <1>5
<1>8. Selected(s, places) \in Seq(S) /\ Len(Selected(s, places)) = size
  BY <1>5, <1>6, <1>7
<1>9. \A n \in 1..size : Selected(s, places)[n] = s[at[n]]
  BY <1>6
<1>10. QED
  BY <1>1, <1>3, <1>5, <1>8, <1>9 DEF size

\* Where the items of a selection stand in the sequence.
Stand(at, s, places) ==
  LET size == Cardinality(places)
  IN  /\ at \in [1..size -> places]
      /\ \A n \in 1..size : Selected(s, places)[n] = s[at[n]]
      /\ \A p \in places : \E n \in 1..size : at[n] = p
      /\ \A m, n \in 1..size : m < n <=> at[m] < at[n]

\* They stand somewhere.
LEMMA SelectionStands ==
  ASSUME NEW S, NEW s \in Seq(S), NEW places \in SUBSET DOMAIN s
  PROVE  \E at : Stand(at, s, places)
<1>1. \E at \in [1..Cardinality(places) -> places] :
        /\ \A n \in 1..Cardinality(places) : Selected(s, places)[n] = s[at[n]]
        /\ \A p \in places : \E n \in 1..Cardinality(places) : at[n] = p
        /\ \A m, n \in 1..Cardinality(places) : m < n <=> at[m] < at[n]
  BY SelectedFacts
<1>2. QED
  BY <1>1 DEF Stand

\* A set of numbers has a least one: the first of those up to one of them.
LEMMA LeastNat ==
  ASSUME NEW T, T \subseteq Nat, T # {}
  PROVE  \E n \in T : \A m \in T : n <= m
<1>1. PICK t \in T : TRUE
  OBVIOUS
<1> DEFINE U == T \cap 0..t
           sorted == Increasing(U)
           size == Cardinality(U)
<1>2. IsFiniteSet(U) /\ U \subseteq Int /\ t \in U
  <2>1. IsFiniteSet(0..t)
    BY FS_Interval
  <2>2. U \in SUBSET (0..t)
    OBVIOUS
  <2>3. IsFiniteSet(U)
    BY <2>1, <2>2, FS_Subset
  <2>4. QED
    BY <2>3
<1>3. /\ \A m \in U : m \in T /\ m \in Nat /\ m <= t
      /\ \A m \in T : m \in U \/ m > t
  OBVIOUS
<1> HIDE DEF U
<1>4. /\ size \in Nat /\ sorted \in [1..size -> U]
      /\ \A m \in U : \E n \in 1..size : sorted[n] = m
      /\ \A m, n \in 1..size : m < n <=> sorted[m] < sorted[n]
  BY <1>2, IncreasingFacts
<1> HIDE DEF sorted, size
<1>5. 1 \in 1..size /\ sorted[1] \in U
  BY <1>2, <1>4
<1>6. \A m \in U : sorted[1] <= m
  <2> SUFFICES ASSUME NEW m \in U PROVE sorted[1] <= m
    OBVIOUS
  <2>1. PICK n \in 1..size : sorted[n] = m
    BY <1>4
  <2>2. n = 1 \/ 1 < n
    OBVIOUS
  <2>3. 1 < n => sorted[1] < sorted[n]
    BY <1>4, <1>5
  <2>4. QED
    BY <1>3, <1>5, <2>1, <2>2, <2>3
<1>7. QED
  BY <1>1, <1>3, <1>5, <1>6

\* What holds at first and from step to step holds of every step.
LEMMA UpTo ==
  ASSUME NEW size \in Nat, NEW T, 0 \in T, \A n \in 1..size : n - 1 \in T => n \in T
  PROVE  \A n \in 0..size : n \in T
<1> DEFINE U == {n \in 0..size : n \notin T}
<1> SUFFICES ASSUME U # {} PROVE FALSE
  OBVIOUS
<1>1. U \subseteq Nat
  OBVIOUS
<1>2. PICK n \in U : \A m \in U : n <= m
  BY <1>1, LeastNat
<1>3. n \in 1..size /\ n - 1 \in 0..size /\ ~(n <= n - 1)
  BY <1>2
<1>4. n - 1 \in T
  BY <1>2, <1>3
<1>5. QED
  BY <1>2, <1>3, <1>4

\* What is accumulated step by step, from a start.
Accumulates(f, start, step, size) ==
  \A n \in 0..size : f[n] = IF n = 0 THEN start ELSE step[n, f[n - 1]]

\* Whatever the steps are, it is defined up to any number of them.
LEMMA Accumulated ==
  ASSUME NEW V, NEW start \in V, NEW size \in Nat, NEW step \in [(1..size) \X V -> V]
  PROVE  \E f \in [0..size -> V] : Accumulates(f, start, step, size)
<1> DEFINE Defined(n) == \E f \in [0..n -> V] : Accumulates(f, start, step, n)
           T == {n \in 0..size : Defined(n)}
<1>1. Defined(0)
  <2> DEFINE f == [i \in 0..0 |-> start]
  <2>1. f \in [0..0 -> V] /\ \A n \in 0..0 : n = 0 /\ f[n] = start
    OBVIOUS
  <2> HIDE DEF f
  <2>2. Accumulates(f, start, step, 0)
    BY <2>1 DEF Accumulates
  <2>3. QED
    BY <2>1, <2>2
<1>2. ASSUME NEW n \in 1..size, Defined(n - 1) PROVE Defined(n)
  <2>1. PICK g \in [0..n - 1 -> V] : Accumulates(g, start, step, n - 1)
    BY <1>2
  <2> DEFINE f == [i \in 0..n |-> IF i = n THEN step[n, g[n - 1]] ELSE g[i]]
  <2>0. /\ n \in Nat /\ n # 0 /\ n \in 0..n /\ \A i \in 0..n : i = n \/ i \in 0..n - 1
        /\ \A i \in 0..n - 1 : i # n /\ i \in 0..n /\ (i # 0 => i - 1 \in 0..n - 1)
    OBVIOUS
  <2>2. n - 1 \in 0..n - 1 /\ g[n - 1] \in V
    OBVIOUS
  <2>3. step[n, g[n - 1]] \in V
    BY <2>2
  <2>4. f \in [0..n -> V]
    BY <2>0, <2>3
  <2>5. f[n] = step[n, f[n - 1]] /\ \A i \in 0..n - 1 : f[i] = g[i]
    BY <2>0, <2>2
  <2> HIDE DEF f
  <2>6. \A i \in 0..n - 1 : f[i] = IF i = 0 THEN start ELSE step[i, f[i - 1]]
    <3> SUFFICES ASSUME NEW i \in 0..n - 1
                 PROVE  f[i] = IF i = 0 THEN start ELSE step[i, f[i - 1]]
      OBVIOUS
    <3>1. g[i] = IF i = 0 THEN start ELSE step[i, g[i - 1]]
      BY <2>1 DEF Accumulates
    <3>2. f[i] = g[i] /\ (i # 0 => f[i - 1] = g[i - 1])
      BY <2>0, <2>5
    <3>3. QED
      BY <3>1, <3>2
  <2>7. Accumulates(f, start, step, n)
    <3> SUFFICES ASSUME NEW i \in 0..n
                 PROVE  f[i] = IF i = 0 THEN start ELSE step[i, f[i - 1]]
      BY DEF Accumulates
    <3>1. QED
      BY <2>0, <2>5, <2>6
  <2>8. QED
    BY <2>4, <2>7
<1> HIDE DEF Defined
<1>3. \A n \in 0..size : n \in T
  <2>1. 0 \in T /\ \A n \in 1..size : n - 1 \in T => n \in T
    BY <1>1, <1>2
  <2> HIDE DEF T
  <2>2. QED
    BY <2>1, UpTo
<1>4. Defined(size)
  BY <1>3
<1>5. QED
  BY <1>4 DEF Defined
=============================================================================
