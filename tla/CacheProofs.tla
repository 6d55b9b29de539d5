----------------------------- MODULE CacheProofs -----------------------------
(***************************************************************************)
(* What module Cache promises for any keys, values and sizes: whatever is  *)
(* hit, missed, evicted, replaced or cleared, a cached item is what the    *)
(* database holds (for which it does not matter what an eviction removes), *)
(* and what an eviction removes is found by rank.                          *)
(***************************************************************************)
EXTENDS Cache, FiniteSetTheorems, WellFoundedInduction, TLAPS

\* Well-typed items that hold the values of src.
Sound(src, its) ==
    /\ DOMAIN its \subseteq Keys /\ its \in [DOMAIN its -> Item]
    /\ \A j \in DOMAIN its : its[j].value = src[j]

Inv == source \in [Keys -> Values] /\ Sound(source, items)

LEMMA InvMeans == Inv <=> TypeOK /\ AnswersAreCurrent
  BY DEF Inv, Sound, TypeOK, AnswersAreCurrent, Cached

LEMMA EmptySound == \A src : Sound(src, <<>>)
  BY DEF Sound

\* An item of the database's value can be added,
LEMMA WithSound ==
    ASSUME NEW src, NEW its, Sound(src, its), NEW k \in Keys,
           NEW i \in Item, i.value = src[k]
    PROVE  Sound(src, With(its, k, i))
<1> DEFINE new == With(its, k, i)
<1>1. new = [j \in DOMAIN its \cup {k} |-> IF j = k THEN i ELSE its[j]]
  BY DEF With
<1>2. DOMAIN new = DOMAIN its \cup {k}
  BY <1>1
<1>3. \A j \in DOMAIN its \cup {k} : new[j] \in Item /\ new[j].value = src[j]
  BY <1>1 DEF Sound
<1> HIDE DEF new
<1>4. new \in [DOMAIN new -> Item]
  BY <1>1, <1>2, <1>3
<1>5. DOMAIN new \subseteq Keys
  BY <1>2 DEF Sound
<1>6. Sound(src, new)
  BY <1>2, <1>3, <1>4, <1>5 DEF Sound
<1> QED
  BY <1>6 DEF new

\* any items can be dropped,
LEMMA WithoutSound ==
    ASSUME NEW src, NEW its, Sound(src, its), NEW K
    PROVE  Sound(src, Without(its, K))
<1> DEFINE new == Without(its, K)
<1>1. new = [j \in DOMAIN its \ K |-> its[j]]
  BY DEF Without
<1>2. DOMAIN new = DOMAIN its \ K /\ \A j \in DOMAIN new : new[j] = its[j]
  BY <1>1
<1>3. \A j \in DOMAIN new : new[j] \in Item
  BY <1>2 DEF Sound
<1>4. new \in [DOMAIN new -> Item]
  BY <1>1, <1>2, <1>3
<1> HIDE DEF new
<1>5. Sound(src, new)
  BY <1>2, <1>4 DEF Sound
<1> QED
  BY <1>5 DEF new

\* and an eviction only drops items and resets counts.
LEMMA SurvivorsSound ==
    ASSUME NEW src, NEW its, Sound(src, its)
    PROVE  Sound(src, Survivors(its))
<1> DEFINE new == Survivors(its)
<1>1. new = [j \in DOMAIN its \ Evicted(its) |-> [its[j] EXCEPT !.count = 0]]
  BY DEF Survivors
<1>2. DOMAIN new = DOMAIN its \ Evicted(its)
  BY <1>1
<1>3. \A j \in DOMAIN its : its[j] \in Item
  BY DEF Sound
<1>4. \A j \in DOMAIN its :
        [its[j] EXCEPT !.count = 0] \in Item /\ [its[j] EXCEPT !.count = 0].value = its[j].value
  BY <1>3 DEF Item
<1>5. \A j \in DOMAIN new : new[j] \in Item /\ new[j].value = src[j]
  BY <1>1, <1>2, <1>4 DEF Sound
<1>6. new \in [DOMAIN new -> Item]
  BY <1>1, <1>2, <1>5
<1> HIDE DEF new
<1>7. Sound(src, new)
  BY <1>2, <1>5, <1>6 DEF Sound
<1> QED
  BY <1>7 DEF new

\* So a miss may insert what the database answers.
LEMMA LoadedSound ==
    ASSUME NEW src \in [Keys -> Values], NEW its, Sound(src, its), NEW k \in Keys
    PROVE  Sound(src, Loaded(its, k, src[k]))
<1> DEFINE i == [value |-> src[k], count |-> 1]
<1>1. i \in Item /\ i.value = src[k]
  BY DEF Item
<1>2. Loaded(its, k, src[k]) = With(its, k, i)
        \/ Loaded(its, k, src[k]) = With(Survivors(its), k, i)
  BY DEF Loaded
<1> HIDE DEF i
<1>3. Sound(src, With(its, k, i))
  BY <1>1, WithSound
<1>4. Sound(src, With(Survivors(its), k, i))
  BY <1>1, SurvivorsSound, WithSound
<1> QED
  BY <1>2, <1>3, <1>4

LEMMA InitInv == Init => Inv
  BY EmptySound DEF Init, Inv

LEMMA StepInv == Inv /\ [Next]_vars => Inv'
<1> SUFFICES ASSUME Inv, [Next]_vars PROVE Inv'
  OBVIOUS
<1>1. source \in [Keys -> Values] /\ Sound(source, items)
  BY DEF Inv
<1>2. CASE UNCHANGED vars
  BY <1>1, <1>2 DEF vars, Inv
<1>3. ASSUME NEW k \in Keys, Hit(k) PROVE Inv'
  <2>1. DOMAIN items' = DOMAIN items /\ source' = source
    BY <1>3 DEF Hit
  <2>2. \A j \in DOMAIN items : items[j] \in Item
    BY <1>1 DEF Sound
  <2>3. \A j \in DOMAIN items : items'[j] \in Item /\ items'[j].value = items[j].value
    BY <1>3, <2>2 DEF Hit, Item
  <2>4. items' \in [DOMAIN items' -> Item]
    BY <1>3, <2>1, <2>3 DEF Hit
  <2> QED
    BY <1>1, <2>1, <2>3, <2>4 DEF Inv, Sound
<1>4. ASSUME NEW k \in Keys, Miss(k) PROVE Inv'
  BY <1>1, <1>4, LoadedSound DEF Miss, Inv
<1>5. ASSUME NEW k \in Keys, NEW v \in Values, source' = [source EXCEPT ![k] = v]
      PROVE  source' \in [Keys -> Values] /\ source'[k] = v
             /\ \A j \in Keys \ {k} : source'[j] = source[j]
  BY <1>1, <1>5
<1>6. ASSUME NEW k \in Keys, NEW v \in Values, Update(k, v) PROVE Inv'
  <2>1. source' = [source EXCEPT ![k] = v] /\ items' = InStep(items, k, v)
    BY <1>6 DEF Update
  <2>2. CASE k \in DOMAIN items
    <3>1. items' = [items EXCEPT ![k].value = v]
      BY <2>1, <2>2 DEF InStep
    <3>2. \A j \in DOMAIN items : items[j] \in Item
      BY <1>1 DEF Sound
    <3>3. DOMAIN items' = DOMAIN items
      BY <3>1
    <3>4. \A j \in DOMAIN items : items'[j] \in Item /\ items'[j].value = source'[j]
      BY <1>1, <1>5, <2>1, <3>1, <3>2 DEF Item, Sound
    <3>5. items' \in [DOMAIN items' -> Item]
      BY <3>1, <3>3, <3>4
    <3> QED
      BY <1>1, <1>5, <2>1, <3>3, <3>4, <3>5 DEF Inv, Sound
  <2>3. CASE k \notin DOMAIN items
    BY <1>1, <1>5, <2>1, <2>3 DEF InStep, Inv, Sound
  <2> QED
    BY <2>2, <2>3
<1>7. ASSUME NEW k \in Keys, NEW v \in Values, Replace(k, v) PROVE Inv'
  <2> DEFINE rest == Without(items, {k})
  <2>1. source' = [source EXCEPT ![k] = v] /\ items' = Loaded(rest, k, v)
    BY <1>7 DEF Replace
  <2>2. Sound(source, rest) /\ k \notin DOMAIN rest
    BY <1>1, WithoutSound DEF Without
  <2> HIDE DEF rest
  <2>3. Sound(source', rest)
    BY <1>5, <2>1, <2>2 DEF Sound
  <2>4. source' \in [Keys -> Values] /\ source'[k] = v
    BY <1>5, <2>1
  <2>5. Sound(source', Loaded(rest, k, source'[k]))
    BY <2>3, <2>4, LoadedSound
  <2> QED
    BY <2>1, <2>4, <2>5 DEF Inv
<1>8. ASSUME NEW k \in Keys, NEW v \in Values, Clear(k, v) PROVE Inv'
  BY <1>5, <1>8, EmptySound DEF Clear, Inv
<1> QED
  BY <1>2, <1>3, <1>4, <1>6, <1>7, <1>8 DEF Next

\* Every reachable state has the declared types, for any keys, values and sizes
\* (cache.hpp get, get_ref, get_items, erase and clear, as model.hpp calls them).
THEOREM TypeCorrect == Spec => []TypeOK
<1>1. Inv => TypeOK
  BY InvMeans
<1> QED
  BY InitInv, StepInv, <1>1, PTL DEF Spec

\* A cached answer is what the database would answer, for any keys, values and sizes
\* and whatever the evictions of cache.hpp keep.
THEOREM AnswersStayCurrent == Spec => []AnswersAreCurrent
<1>1. Inv => AnswersAreCurrent
  BY InvMeans
<1> QED
  BY InitInv, StepInv, <1>1, PTL DEF Spec

-----------------------------------------------------------------------------
(* Naturals                                                                  *)

\* Naturals have a least element: the intervals from 0 are finite sets, which strict
\* inclusion orders well.
LEMMA Least == ASSUME NEW T \in SUBSET Nat, T # {} PROVE \E n \in T : \A m \in T : n <= m
<1> DEFINE U == {0..n : n \in T}
<1>1. \A n \in T : 0..n \in SUBSET Nat /\ IsFiniteSet(0..n)
  BY FS_Interval
<1>2. U \subseteq FiniteSubsetsOf(Nat) /\ U # {}
  BY <1>1 DEF FiniteSubsetsOf
<1>3. PICK x \in U : \A y \in U : ~(<<y, x>> \in StrictSubsetOrdering(Nat))
  <2> HIDE DEF U
  <2> QED
    BY <1>2, FS_StrictSubsetOrderingWellFounded, WFMin, Zenon
<1>4. PICK n \in T : x = 0..n
  BY <1>3
<1>5. \A m \in T : ~(0..m \subseteq 0..n /\ 0..m # 0..n)
  BY <1>1, <1>3, <1>4, Zenon DEF StrictSubsetOrdering
<1>6. ASSUME NEW m \in T, m < n PROVE FALSE
  <2>1. 0..m \subseteq 0..n /\ n \in 0..n /\ n \notin 0..m
    BY <1>6
  <2> QED
    BY <1>5, <2>1
<1> QED
  BY <1>6

\* A set of numbers up to n has a greatest.
LEMMA Greatest ==
    ASSUME NEW n \in Nat, NEW S \in SUBSET (0..n), S # {}
    PROVE  Max(S) \in S /\ \A m \in S : m <= Max(S)
<1> DEFINE T == {n - i : i \in S}
<1>1. PICK k \in T : \A m \in T : k <= m
  <2>1. \A i \in S : n - i \in Nat
    OBVIOUS
  <2>2. T \in SUBSET Nat /\ T # {}
    BY <2>1
  <2> HIDE DEF T
  <2> QED
    BY <2>2, Least
<1>2. PICK g \in S : k = n - g
  BY <1>1
<1>3. ASSUME NEW m \in S PROVE g >= m
  <2>1. k <= n - m
    BY <1>1
  <2> QED
    BY <1>2, <2>1
<1>4. Max(S) \in S /\ \A m \in S : Max(S) >= m
  BY <1>3 DEF Max
<1> QED
  BY <1>4

-----------------------------------------------------------------------------
(* Sums                                                                      *)

\* f is the running sum of the counts up to n.
Adds(counts, f, n) ==
    \A i \in 0..n : f[i] = IF i = 0 THEN 0 ELSE f[i - 1] + counts[i]

LEMMA SumsExist ==
    ASSUME NEW counts \in Seq(Nat)
    PROVE  \A n \in 0..Len(counts) : \E f \in [0..n -> Nat] : Adds(counts, f, n)
<1> DEFINE Bad == {n \in 0..Len(counts) : ~ \E f \in [0..n -> Nat] : Adds(counts, f, n)}
<1> SUFFICES ASSUME Bad # {} PROVE FALSE
  OBVIOUS
<1>1. Bad \in SUBSET Nat
  OBVIOUS
<1>2. PICK n \in Bad : \A m \in Bad : n <= m
  <2> HIDE DEF Bad
  <2> QED
    BY <1>1, Least
<1>3. n \in 0..Len(counts) /\ ~ \E f \in [0..n -> Nat] : Adds(counts, f, n)
  BY <1>2
<1>4. n # 0
  <2> SUFFICES ASSUME n = 0 PROVE FALSE
    OBVIOUS
  <2> DEFINE f == [i \in 0..0 |-> 0]
  <2>1. f \in [0..0 -> Nat] /\ Adds(counts, f, 0)
    BY DEF Adds
  <2> QED
    BY <1>3, <2>1
<1>5. n - 1 \in 0..Len(counts) /\ n - 1 \notin Bad
  <2>1. n \in Nat /\ n - 1 \in 0..Len(counts)
    BY <1>3, <1>4
  <2> HIDE DEF Bad
  <2> QED
    BY <1>2, <2>1
<1>6. PICK f \in [0..(n - 1) -> Nat] : Adds(counts, f, n - 1)
  BY <1>5
<1> DEFINE g == [i \in 0..n |-> IF i = n THEN f[n - 1] + counts[n] ELSE f[i]]
<1>7. counts[n] \in Nat /\ f[n - 1] \in Nat
  BY <1>3, <1>4
<1>8. g \in [0..n -> Nat]
  BY <1>3, <1>7
<1>9. Adds(counts, g, n)
  BY <1>3, <1>4, <1>6 DEF Adds
<1> QED
  BY <1>3, <1>8, <1>9

\* The recursive function of Sums is there.
LEMMA SumsAdd ==
    ASSUME NEW counts \in Seq(Nat)
    PROVE  /\ Adds(counts, Sums(counts), Len(counts))
           /\ \A n \in 0..Len(counts) : Sums(counts)[n] \in Nat
<1> DEFINE N == Len(counts)
           F(f) == [n \in 0..N |-> IF n = 0 THEN 0 ELSE f[n - 1] + counts[n]]
           c == CHOOSE f : f = F(f)
<1>1. N \in Nat
  OBVIOUS
<1>2. PICK g \in [0..N -> Nat] : Adds(counts, g, N)
  BY SumsExist, <1>1
<1>3. g = F(g)
  BY <1>1, <1>2 DEF Adds
<1>4. c = F(c)
  <2> HIDE DEF F
  <2> QED
    BY <1>3
<1>5. Sums(counts) = c
  BY DEF Sums
<1> HIDE DEF c
<1>6. \A n \in 0..N : c[n] = IF n = 0 THEN 0 ELSE c[n - 1] + counts[n]
  BY <1>4
<1> DEFINE Bad == {n \in 0..N : c[n] \notin Nat}
<1>7. Bad = {}
  <2> SUFFICES ASSUME Bad # {} PROVE FALSE
    OBVIOUS
  <2>1. Bad \in SUBSET Nat
    BY <1>1
  <2>2. PICK n \in Bad : \A m \in Bad : n <= m
    <3> HIDE DEF Bad
    <3> QED
      BY <2>1, Least
  <2>3. n \in 0..N /\ c[n] \notin Nat
    BY <2>2
  <2>4. n # 0
    BY <1>6, <2>3
  <2>5. n \in Nat /\ n - 1 \in 0..N /\ n \in DOMAIN counts
    BY <1>1, <2>3, <2>4
  <2>6. c[n - 1] \in Nat
    BY <2>2, <2>5
  <2>7. counts[n] \in Nat
    BY <2>5
  <2> QED
    BY <1>6, <2>3, <2>4, <2>6, <2>7
<1> QED
  BY <1>1, <1>5, <1>6, <1>7 DEF Adds

\* A running sum does not fall.
LEMMA SumsRise ==
    ASSUME NEW counts \in Seq(Nat), NEW n \in 0..Len(counts), NEW m \in 0..n
    PROVE  Sums(counts)[m] <= Sums(counts)[n]
<1> DEFINE s == Sums(counts)
           Bad == {i \in m..Len(counts) : s[m] > s[i]}
<1>1. /\ \A i \in 0..Len(counts) : s[i] \in Nat
      /\ \A i \in 1..Len(counts) : s[i] = s[i - 1] + counts[i] /\ counts[i] \in Nat
  BY SumsAdd DEF Adds
<1> HIDE DEF s
<1>2. Bad = {}
  <2> SUFFICES ASSUME Bad # {} PROVE FALSE
    OBVIOUS
  <2>1. Bad \in SUBSET Nat
    OBVIOUS
  <2>2. PICK i \in Bad : \A j \in Bad : i <= j
    <3> HIDE DEF Bad
    <3> QED
      BY <2>1, Least
  <2>3. i \in m..Len(counts) /\ s[m] > s[i]
    BY <2>2
  <2>4. i # m
    BY <1>1, <2>3
  <2>5. i - 1 \in m..Len(counts) /\ i \in 1..Len(counts) /\ i - 1 < i
    BY <2>3, <2>4
  <2>6. i - 1 \notin Bad
    <3> HIDE DEF Bad
    <3> QED
      BY <2>2, <2>3, <2>5
  <2>7. ~(s[m] > s[i - 1])
    BY <2>5, <2>6
  <2>8. s[m] \in Nat /\ s[i - 1] \in Nat /\ s[i] \in Nat
    BY <1>1, <2>3, <2>5
  <2>9. s[i] = s[i - 1] + counts[i] /\ counts[i] \in Nat
    BY <1>1, <2>5
  <2> QED
    BY <2>3, <2>7, <2>8, <2>9
<1>3. n \in m..Len(counts)
  OBVIOUS
<1>4. ~(s[m] > s[n])
  BY <1>2, <1>3
<1>5. s[m] \in Nat /\ s[n] \in Nat
  BY <1>1
<1> QED
  BY <1>4, <1>5 DEF s

-----------------------------------------------------------------------------
(* The read counts in order                                                  *)

Countable(its) == IsFiniteSet(DOMAIN its) /\ \A j \in DOMAIN its : its[j].count \in Nat

\* Any set of items has a coldest one.
LEMMA Coldest ==
    ASSUME NEW its, Countable(its), NEW T \in SUBSET DOMAIN its, T # {}
    PROVE  \E x \in T : \A y \in T : its[x].count <= its[y].count
<1> DEFINE C == {its[j].count : j \in T}
<1>1. C \in SUBSET Nat /\ C # {}
  BY DEF Countable
<1>2. PICK c \in C : \A d \in C : c <= d
  <2> HIDE DEF C
  <2> QED
    BY <1>1, Least
<1>3. PICK x \in T : c = its[x].count
  BY <1>2
<1> QED
  BY <1>2, <1>3

LEMMA AboveFinite ==
    ASSUME NEW its, Countable(its), NEW c
    PROVE  /\ Above(its, c) \in SUBSET DOMAIN its /\ IsFiniteSet(Above(its, c))
           /\ Cardinality(Above(its, c)) \in Nat
           /\ From(its, c) \in SUBSET DOMAIN its /\ IsFiniteSet(From(its, c))
           /\ Cardinality(From(its, c)) \in Nat
<1>1. Above(its, c) \in SUBSET DOMAIN its /\ From(its, c) \in SUBSET DOMAIN its
  BY DEF Above, From
<1>2. IsFiniteSet(Above(its, c)) /\ IsFiniteSet(From(its, c))
  BY <1>1, FS_Subset DEF Countable
<1> QED
  BY <1>1, <1>2, FS_CardinalityType

IsNth(its, n, c) ==
    /\ c \in {its[k].count : k \in DOMAIN its}
    /\ Cardinality(Above(its, c)) < n /\ n <= Cardinality(From(its, c))

\* There is an nth largest count: of those with n items from them up, the one with the
\* fewest,
LEMMA NthExists ==
    ASSUME NEW its, Countable(its), NEW n \in 1..Cardinality(DOMAIN its)
    PROVE  \E c : IsNth(its, n, c)
<1> DEFINE D == DOMAIN its
           up(k) == Cardinality(From(its, its[k].count))
           V == {k \in D : n <= up(k)}
           W == {up(k) : k \in V}
<1>1. IsFiniteSet(D) /\ Cardinality(D) \in Nat /\ n \in Nat /\ n >= 1
  BY FS_CardinalityType DEF Countable
<1>2. \A k \in D : its[k].count \in Nat /\ up(k) \in Nat
  BY AboveFinite DEF Countable
<1>3. V # {}
  <2>1. D # {}
    BY <1>1, FS_EmptySet
  <2>2. PICK x \in D : \A y \in D : its[x].count <= its[y].count
    BY <2>1, Coldest
  <2>3. From(its, its[x].count) = D
    BY <1>2, <2>2 DEF From
  <2>4. n <= up(x)
    BY <2>3
  <2> QED
    BY <2>4
<1>4. PICK w \in W : \A v \in W : w <= v
  <2>1. W \in SUBSET Nat /\ W # {}
    BY <1>2, <1>3
  <2> HIDE DEF W
  <2> QED
    BY <2>1, Least
<1>5. PICK k \in V : w = up(k)
  BY <1>4
<1> DEFINE c == its[k].count
           A == Above(its, c)
<1>6. A \in SUBSET D /\ IsFiniteSet(A) /\ Cardinality(A) \in Nat /\ c \in Nat
  BY <1>2, <1>5, AboveFinite
<1>7. ASSUME n <= Cardinality(A) PROVE FALSE
  <2>1. A # {}
    BY <1>1, <1>6, <1>7, FS_EmptySet
  <2>2. PICK x \in A : \A y \in A : its[x].count <= its[y].count
    <3> HIDE DEF A
    <3> QED
      BY <1>6, <2>1, Coldest
  <2>3. From(its, its[x].count) = A
    <3>1. \A j \in D : j \in A <=> its[j].count > c
      BY DEF Above
    <3> HIDE DEF A, c
    <3>2. \A j \in D : its[j].count >= its[x].count <=> j \in A
      BY <1>2, <1>6, <2>2, <3>1
    <3> QED
      BY <1>6, <3>2 DEF From
  <2>4. x \in V /\ up(x) = Cardinality(A)
    BY <1>6, <1>7, <2>2, <2>3
  <2>5. up(k) <= Cardinality(A)
    BY <1>4, <1>5, <2>4
  <2>6. A \in SUBSET From(its, c) /\ k \in From(its, c) /\ k \notin A
    <3>1. k \in D /\ \A j \in D : (its[j].count > c => its[j].count >= c) /\ ~(c > c) /\ c >= c
      BY <1>2, <1>5
    <3> QED
      BY <3>1 DEF Above, From
  <2>7. Cardinality(A) <= up(k) /\ Cardinality(A) # up(k)
    BY <2>6, AboveFinite, FS_Subset
  <2> QED
    BY <1>2, <1>5, <1>6, <2>5, <2>7
<1>8. Cardinality(A) < n
  BY <1>1, <1>6, <1>7
<1>9. IsNth(its, n, c)
  BY <1>5, <1>8 DEF IsNth
<1> QED
  BY <1>9

\* and no other.
LEMMA NthUnique ==
    ASSUME NEW its, Countable(its), NEW n \in Nat, NEW c, NEW d,
           IsNth(its, n, c), IsNth(its, n, d)
    PROVE  c = d
<1>1. c \in Nat /\ d \in Nat
  BY DEF IsNth, Countable
<1>2. ASSUME NEW a \in Nat, NEW b \in Nat, a < b, IsNth(its, n, a), IsNth(its, n, b)
      PROVE  FALSE
  <2>1. From(its, b) \in SUBSET Above(its, a)
    BY <1>2 DEF From, Above, Countable
  <2>2. Cardinality(From(its, b)) <= Cardinality(Above(its, a))
    BY <2>1, AboveFinite, FS_Subset
  <2>3. Cardinality(From(its, b)) \in Nat /\ Cardinality(Above(its, a)) \in Nat
    BY AboveFinite
  <2> QED
    BY <1>2, <2>2, <2>3 DEF IsNth
<1> QED
  BY <1>1, <1>2

LEMMA CountsType ==
    ASSUME NEW its, Countable(its)
    PROVE  /\ Cardinality(DOMAIN its) \in Nat
           /\ Counts(its) \in Seq(Nat) /\ Len(Counts(its)) = Cardinality(DOMAIN its)
           /\ \A n \in 1..Cardinality(DOMAIN its) : IsNth(its, n, Counts(its)[n])
<1> DEFINE N == Cardinality(DOMAIN its)
<1>1. N \in Nat
  BY FS_CardinalityType DEF Countable
<1>2. ASSUME NEW n \in 1..N PROVE IsNth(its, n, Counts(its)[n])
  <2>1. Counts(its)[n] = CHOOSE c \in {its[k].count : k \in DOMAIN its} :
                           /\ Cardinality(Above(its, c)) < n
                           /\ n <= Cardinality(From(its, c))
    BY DEF Counts
  <2>2. \E c \in {its[k].count : k \in DOMAIN its} :
          Cardinality(Above(its, c)) < n /\ n <= Cardinality(From(its, c))
    BY NthExists DEF IsNth
  <2> QED
    BY <2>1, <2>2 DEF IsNth
<1>3. \A n \in 1..N : Counts(its)[n] \in Nat
  BY <1>2 DEF IsNth, Countable
<1>4. Counts(its) \in [1..N -> Nat]
  BY <1>3 DEF Counts
<1> QED
  BY <1>1, <1>2, <1>4

\* The items of a set are as hot as all others.
Top(its, T) ==
    /\ T \in SUBSET DOMAIN its
    /\ \A i \in T, j \in DOMAIN its \ T : its[i].count >= its[j].count

\* The last of the first n counts is that of the coldest of n hottest items.
LEMMA CountsAt ==
    ASSUME NEW its, Countable(its), NEW T, Top(its, T),
           NEW x \in T, \A y \in T : its[x].count <= its[y].count
    PROVE  /\ Cardinality(T) \in 1..Cardinality(DOMAIN its)
           /\ Counts(its)[Cardinality(T)] = its[x].count
<1> DEFINE c == its[x].count
           n == Cardinality(T)
<1>1. T \in SUBSET DOMAIN its /\ IsFiniteSet(T) /\ n \in Nat /\ n <= Cardinality(DOMAIN its)
  BY FS_Subset, FS_CardinalityType DEF Top, Countable
<1>2. n # 0
  BY <1>1, FS_EmptySet
<1>3. n \in 1..Cardinality(DOMAIN its)
  BY <1>1, <1>2, CountsType
<1>4. \A j \in DOMAIN its : its[j].count \in Nat
  BY DEF Countable
<1>5. T \in SUBSET From(its, c)
  <2>1. \A j \in T : its[j].count >= c
    BY <1>1, <1>4
  <2> QED
    BY <1>1, <2>1 DEF From
<1>6. Above(its, c) \in SUBSET (T \ {x})
  <2>1. \A j \in DOMAIN its : its[j].count > c => j \in T /\ j # x
    BY <1>1, <1>4 DEF Top
  <2> QED
    BY <2>1 DEF Above
<1>7. IsFiniteSet(T \ {x}) /\ Cardinality(T \ {x}) = n - 1
  BY <1>1, FS_RemoveElement
<1>8. Cardinality(Above(its, c)) <= n - 1 /\ n <= Cardinality(From(its, c))
  BY <1>5, <1>6, <1>7, AboveFinite, FS_Subset
<1>9. Cardinality(Above(its, c)) < n
  <2>1. Cardinality(Above(its, c)) \in Nat
    BY AboveFinite
  <2> HIDE DEF n, c
  <2> QED
    BY <1>1, <1>8, <2>1
<1>10. IsNth(its, n, c)
  BY <1>1, <1>8, <1>9 DEF IsNth
<1>11. IsNth(its, n, Counts(its)[n])
  BY <1>3, CountsType
<1> HIDE DEF n, c
<1>12. Counts(its)[n] = c
  BY <1>1, <1>10, <1>11, NthUnique
<1> QED
  BY <1>3, <1>12 DEF n, c

\* The reads of some items, one by one.
ReadsOf(its, K) == UNION {{j} \X (1..its[j].count) : j \in K}

LEMMA ReadsEmpty == \A its : ReadsOf(its, {}) = {}
  BY DEF ReadsOf

LEMMA ReadsAdd ==
    ASSUME NEW its, Countable(its), NEW K \in SUBSET DOMAIN its, NEW x \in K,
           IsFiniteSet(ReadsOf(its, K \ {x}))
    PROVE  /\ IsFiniteSet(ReadsOf(its, K))
           /\ Cardinality(ReadsOf(its, K)) = Cardinality(ReadsOf(its, K \ {x})) + its[x].count
<1> DEFINE R == ReadsOf(its, K \ {x})
           new == {x} \X (1..its[x].count)
<1>1. its[x].count \in Nat
  BY DEF Countable
<1>2. IsFiniteSet(new) /\ Cardinality(new) = its[x].count
  <2>1. IsFiniteSet(1..its[x].count) /\ Cardinality(1..its[x].count) = its[x].count
    BY <1>1, FS_Interval
  <2>2. IsFiniteSet({x}) /\ Cardinality({x}) = 1
    BY FS_Singleton
  <2>3. IsFiniteSet(new) /\ Cardinality(new) = 1 * its[x].count
    BY <2>1, <2>2, FS_Product
  <2> QED
    BY <1>1, <2>3
<1>3. ReadsOf(its, K) = R \cup new
  BY Zenon DEF ReadsOf
<1>4. R \cap new = {}
  BY DEF ReadsOf
<1>5. Cardinality(R) \in Nat
  BY FS_CardinalityType
<1> HIDE DEF R, new
<1>6. IsFiniteSet(R)
  BY DEF R
<1>7. IsFiniteSet(R \cup new)
      /\ Cardinality(R \cup new) = Cardinality(R) + Cardinality(new) - Cardinality({})
  BY <1>2, <1>4, <1>6, FS_Union
<1>8. Cardinality(R \cup new) = Cardinality(R) + its[x].count
  BY <1>1, <1>2, <1>5, <1>7, FS_EmptySet
<1> QED
  BY <1>3, <1>7, <1>8 DEF R

\* The sum of the first n counts is the number of reads of n hottest items, whichever.
LEMMA SumIsReads ==
    ASSUME NEW its, Countable(its), NEW T, Top(its, T)
    PROVE  /\ Cardinality(T) \in 0..Len(Counts(its))
           /\ Cardinality(ReadsOf(its, T)) = Sums(Counts(its))[Cardinality(T)]
<1> DEFINE N == Cardinality(DOMAIN its)
           s == Sums(Counts(its))
           Good(n) == \A U : (Top(its, U) /\ Cardinality(U) = n) =>
                         /\ IsFiniteSet(ReadsOf(its, U))
                         /\ Cardinality(ReadsOf(its, U)) = s[n]
           Bad == {n \in 0..N : ~Good(n)}
<1>1. /\ N \in Nat /\ Counts(its) \in Seq(Nat) /\ Len(Counts(its)) = N
      /\ Adds(Counts(its), s, N) /\ \A n \in 0..N : s[n] \in Nat
  BY CountsType, SumsAdd
<1>2. ASSUME NEW U, Top(its, U)
      PROVE  /\ U \in SUBSET DOMAIN its /\ IsFiniteSet(U) /\ Cardinality(U) \in Nat
             /\ Cardinality(U) <= N
  BY <1>2, FS_Subset, FS_CardinalityType DEF Top, Countable
<1>3. Bad = {}
  <2> SUFFICES ASSUME Bad # {} PROVE FALSE
    OBVIOUS
  <2>1. Bad \in SUBSET Nat
    BY <1>1
  <2>2. PICK n \in Bad : \A m \in Bad : n <= m
    <3> HIDE DEF Bad
    <3> QED
      BY <2>1, Least
  <2> HIDE DEF s
  <2>3. n \in 0..N /\ n \in Nat
    BY <1>1, <2>2
  <2>4. PICK U : /\ Top(its, U) /\ Cardinality(U) = n
                 /\ ~(/\ IsFiniteSet(ReadsOf(its, U))
                      /\ Cardinality(ReadsOf(its, U)) = s[n])
    BY <2>2
  <2>5. U # {}
    <3> SUFFICES ASSUME U = {} PROVE FALSE
      OBVIOUS
    <3>1. n = 0 /\ ReadsOf(its, U) = {}
      BY <2>4, ReadsEmpty, FS_EmptySet
    <3>2. s[0] = 0
      BY <1>1 DEF Adds, s
    <3> QED
      BY <2>4, <3>1, <3>2, FS_EmptySet
  <2>6. PICK x \in U : \A y \in U : its[x].count <= its[y].count
    BY <1>2, <2>4, <2>5, Coldest
  <2>7. n \in 1..N /\ Counts(its)[n] = its[x].count
    BY <2>4, <2>6, CountsAt
  <2> DEFINE V == U \ {x}
  <2>8. Top(its, V)
    BY <2>4, <2>6 DEF Top, Countable
  <2>9. Cardinality(V) = n - 1
    BY <1>2, <2>4, FS_RemoveElement
  <2>10. n - 1 \in 0..N /\ n - 1 < n
    BY <1>1, <2>3, <2>7
  <2>11. n - 1 \notin Bad
    <3> HIDE DEF Bad
    <3> QED
      BY <2>2, <2>3, <2>10
  <2>12. Good(n - 1)
    BY <2>10, <2>11
  <2>13. IsFiniteSet(ReadsOf(its, V)) /\ Cardinality(ReadsOf(its, V)) = s[n - 1]
    BY <2>8, <2>9, <2>12
  <2>14. /\ IsFiniteSet(ReadsOf(its, U))
         /\ Cardinality(ReadsOf(its, U)) = s[n - 1] + its[x].count
    BY <1>2, <2>4, <2>13, ReadsAdd
  <2>15. s[n] = s[n - 1] + Counts(its)[n]
    BY <1>1, <2>7 DEF Adds, s
  <2> QED
    BY <2>4, <2>7, <2>14, <2>15
<1>4. Cardinality(T) \in 0..N
  BY <1>1, <1>2
<1>5. Good(Cardinality(T))
  BY <1>3, <1>4
<1> QED
  BY <1>1, <1>4, <1>5

-----------------------------------------------------------------------------
(* Eviction                                                                  *)

\* An item with all hotter ones are hottest items, and it is the coldest of them.
HotterThan(its, k) == {j \in DOMAIN its : its[j].count > its[k].count}
Rank(its, k) == Cardinality(HotterThan(its, k) \cup {k})

LEMMA Ranked ==
    ASSUME NEW its, Countable(its), NEW k \in DOMAIN its
    PROVE  /\ Rank(its, k) \in 1..Len(Counts(its))
           /\ Counts(its)[Rank(its, k)] = its[k].count
           /\ Cardinality(ReadsOf(its, HotterThan(its, k) \cup {k}))
                = Sums(Counts(its))[Rank(its, k)]
           /\ Rank(its, k) = Cardinality(Above(its, its[k].count)) + 1
<1> DEFINE T == HotterThan(its, k) \cup {k}
<1>1. \A j \in DOMAIN its : its[j].count \in Nat
  BY DEF Countable
<1>2. Top(its, T) /\ k \in T /\ \A y \in T : its[k].count <= its[y].count
  BY <1>1 DEF Top, HotterThan
<1>3. HotterThan(its, k) = Above(its, its[k].count)
  BY DEF HotterThan, Above
<1>4. IsFiniteSet(HotterThan(its, k)) /\ k \notin HotterThan(its, k)
  <2>1. IsFiniteSet(HotterThan(its, k))
    BY <1>3, AboveFinite
  <2>2. ~(its[k].count > its[k].count)
    BY <1>1
  <2> QED
    BY <2>1, <2>2 DEF HotterThan
<1>5. Rank(its, k) = Cardinality(Above(its, its[k].count)) + 1
  BY <1>3, <1>4, FS_AddElement DEF Rank
<1>6. Rank(its, k) = Cardinality(T)
  BY DEF Rank
<1> HIDE DEF T
<1>7. Cardinality(T) \in 1..Cardinality(DOMAIN its) /\ Counts(its)[Cardinality(T)] = its[k].count
  BY <1>2, CountsAt
<1>8. Cardinality(ReadsOf(its, T)) = Sums(Counts(its))[Cardinality(T)]
  BY <1>2, SumIsReads
<1> QED
  BY <1>5, <1>6, <1>7, <1>8, CountsType DEF T

\* The loop stops at a count that is there, or before the first.
LEMMA Stops ==
    ASSUME NEW counts \in Seq(Nat)
    PROVE  /\ Max(Fitting(counts)) \in 0..Len(counts)
           /\ \A n \in 1..Len(counts) :
                n <= Max(Fitting(counts)) <=> Sums(counts)[n] <= SurviveSize
<1> DEFINE F == Fitting(counts)
           last == Max(F)
<1>1. F = {n \in 0..Len(counts) : \A i \in 1..n : Sums(counts)[i] <= SurviveSize}
  BY DEF Fitting
<1>2. Len(counts) \in Nat
  OBVIOUS
<1>3. F \in SUBSET (0..Len(counts)) /\ 0 \in F
  BY <1>1, <1>2
<1> HIDE DEF F
<1>4. last \in F /\ \A m \in F : m <= last
  BY <1>2, <1>3, Greatest
<1> HIDE DEF last
<1>5. last \in 0..Len(counts)
  BY <1>3, <1>4
<1>6. ASSUME NEW n \in 1..Len(counts), n <= last PROVE Sums(counts)[n] <= SurviveSize
  <2>1. n \in 1..last
    BY <1>5, <1>6
  <2> QED
    BY <1>1, <1>4, <2>1
<1>7. ASSUME NEW n \in 1..Len(counts), Sums(counts)[n] <= SurviveSize PROVE n <= last
  <2>1. ASSUME NEW i \in 1..n PROVE Sums(counts)[i] <= SurviveSize
    <3>1. Sums(counts)[i] <= Sums(counts)[n]
      BY SumsRise
    <3>2. Sums(counts)[i] \in Nat /\ Sums(counts)[n] \in Nat
      BY SumsAdd
    <3> QED
      BY <1>7, <3>1, <3>2, SizeAssumption
  <2>2. n \in F
    BY <1>1, <2>1
  <2> QED
    BY <1>4, <2>2
<1> QED
  BY <1>5, <1>6, <1>7 DEF last, F

\* An item stays if its reads and those of all hotter ones fit, and so does every item
\* when no count fits.
FitsIn(its, k) == Cardinality(ReadsOf(its, HotterThan(its, k) \cup {k})) <= SurviveSize

LEMMA KeptByRank ==
    ASSUME NEW its, Countable(its)
    PROVE  LET fit == {k \in DOMAIN its : FitsIn(its, k)}
           IN  DOMAIN its \ Evicted(its) = IF fit = {} THEN DOMAIN its ELSE fit
<1> DEFINE counts == Counts(its)
           last == Max(Fitting(counts))
           fit == {k \in DOMAIN its : FitsIn(its, k)}
           survive == IF last = 0 THEN 0 ELSE counts[last]
<1>1. counts \in Seq(Nat) /\ Len(counts) = Cardinality(DOMAIN its)
  BY CountsType
<1>2. /\ last \in 0..Len(counts)
      /\ \A n \in 1..Len(counts) : n <= last <=> Sums(counts)[n] <= SurviveSize
  BY <1>1, Stops
<1>3. Evicted(its) = {k \in DOMAIN its : its[k].count < survive}
  BY DEF Evicted, Survive
<1> HIDE DEF last
<1>4. \A k \in DOMAIN its : its[k].count \in Nat
  BY DEF Countable
<1>5. \A k \in DOMAIN its : FitsIn(its, k) <=> Rank(its, k) <= last
  BY <1>2, Ranked DEF FitsIn
<1>6. CASE last = 0
  <2>1. Evicted(its) = {}
    BY <1>3, <1>4, <1>6
  <2>2. \A k \in DOMAIN its : Rank(its, k) \in 1..Len(counts)
    BY Ranked
  <2> HIDE DEF counts
  <2>3. fit = {}
    BY <1>1, <1>5, <1>6, <2>2
  <2> QED
    BY <2>1, <2>3
<1>7. CASE last # 0
  <2>1. last \in 1..Len(counts) /\ last \in Nat
    BY <1>1, <1>2, <1>7
  <2>2. IsNth(its, last, counts[last])
    BY <1>1, <2>1, CountsType
  <2> DEFINE c == counts[last]
  <2>3. c \in Nat
    BY <1>4, <2>2 DEF IsNth
  <2>4. ASSUME NEW k \in DOMAIN its, its[k].count >= c PROVE Rank(its, k) <= last
    <3> HIDE DEF c
    <3>1. Above(its, its[k].count) \in SUBSET Above(its, c)
      BY <1>4, <2>3, <2>4 DEF Above
    <3>2. Cardinality(Above(its, its[k].count)) <= Cardinality(Above(its, c))
      BY <3>1, AboveFinite, FS_Subset
    <3>3. Cardinality(Above(its, c)) < last
      BY <2>2 DEF IsNth, c
    <3>4. /\ Cardinality(Above(its, its[k].count)) \in Nat
          /\ Cardinality(Above(its, c)) \in Nat
      BY AboveFinite
    <3>5. Rank(its, k) = Cardinality(Above(its, its[k].count)) + 1
      BY Ranked
    <3> QED
      BY <2>1, <3>2, <3>3, <3>4, <3>5
  <2>5. ASSUME NEW k \in DOMAIN its, its[k].count < c PROVE ~(Rank(its, k) <= last)
    <3> HIDE DEF c
    <3>1. From(its, c) \in SUBSET Above(its, its[k].count)
      BY <1>4, <2>3, <2>5 DEF Above, From
    <3>2. Cardinality(From(its, c)) <= Cardinality(Above(its, its[k].count))
      BY <3>1, AboveFinite, FS_Subset
    <3>3. last <= Cardinality(From(its, c))
      BY <2>2 DEF IsNth, c
    <3>4. /\ Cardinality(Above(its, its[k].count)) \in Nat
          /\ Cardinality(From(its, c)) \in Nat
      BY AboveFinite
    <3>5. Rank(its, k) = Cardinality(Above(its, its[k].count)) + 1
      BY Ranked
    <3> QED
      BY <2>1, <3>2, <3>3, <3>4, <3>5
  <2>6. survive = c
    BY <1>7
  <2> HIDE DEF survive, c
  <2>7. DOMAIN its \ Evicted(its) = fit
    BY <1>3, <1>4, <1>5, <2>3, <2>4, <2>5, <2>6
  <2>8. fit # {}
    <3>1. PICK k \in DOMAIN its : its[k].count = c
      BY <2>2 DEF IsNth, c
    <3> QED
      BY <1>4, <1>5, <2>4, <3>1
  <2> QED
    BY <2>7, <2>8
<1> QED
  BY <1>6, <1>7

-----------------------------------------------------------------------------
(* A miss                                                                    *)

\* Only finitely many items are cached, and they are well-typed.
FiniteInv == Inv /\ IsFiniteSet(Cached)

LEMMA LoadedFinite ==
    ASSUME NEW its, IsFiniteSet(DOMAIN its), NEW k, NEW v
    PROVE  IsFiniteSet(DOMAIN Loaded(its, k, v))
<1> DEFINE i == [value |-> v, count |-> 1]
<1>1. ASSUME NEW some, IsFiniteSet(DOMAIN some) PROVE IsFiniteSet(DOMAIN With(some, k, i))
  BY <1>1, FS_AddElement DEF With
<1>2. DOMAIN Survivors(its) \in SUBSET DOMAIN its
  BY DEF Survivors
<1>3. IsFiniteSet(DOMAIN Survivors(its))
  BY <1>2, FS_Subset
<1> HIDE DEF i
<1>4. IsFiniteSet(DOMAIN With(its, k, i)) /\ IsFiniteSet(DOMAIN With(Survivors(its), k, i))
  BY <1>1, <1>3
<1> QED
  BY <1>4 DEF Loaded, i

LEMMA FiniteStep == FiniteInv /\ [Next]_vars => FiniteInv'
<1> SUFFICES ASSUME FiniteInv, [Next]_vars PROVE IsFiniteSet(DOMAIN items')
  BY StepInv DEF FiniteInv, Cached
<1>1. IsFiniteSet(DOMAIN items)
  BY DEF FiniteInv, Cached
<1>2. CASE UNCHANGED vars
  BY <1>1, <1>2 DEF vars
<1>3. ASSUME NEW k \in Keys, Hit(k) PROVE IsFiniteSet(DOMAIN items')
  BY <1>1, <1>3 DEF Hit
<1>4. ASSUME NEW k \in Keys, Miss(k) PROVE IsFiniteSet(DOMAIN items')
  BY <1>1, <1>4, LoadedFinite DEF Miss
<1>5. ASSUME NEW k \in Keys, NEW v \in Values, Update(k, v) PROVE IsFiniteSet(DOMAIN items')
  BY <1>1, <1>5 DEF Update, InStep
<1>6. ASSUME NEW k \in Keys, NEW v \in Values, Replace(k, v) PROVE IsFiniteSet(DOMAIN items')
  <2>1. DOMAIN Without(items, {k}) \in SUBSET DOMAIN items
    BY DEF Without
  <2>2. IsFiniteSet(DOMAIN Without(items, {k}))
    BY <1>1, <2>1, FS_Subset
  <2> QED
    BY <1>6, <2>2, LoadedFinite DEF Replace
<1>7. ASSUME NEW k \in Keys, NEW v \in Values, Clear(k, v) PROVE IsFiniteSet(DOMAIN items')
  BY <1>7, FS_EmptySet DEF Clear
<1> QED
  BY <1>2, <1>3, <1>4, <1>5, <1>6, <1>7 DEF Next

\* What a miss leaves of the other items.
Ranks(its, new) ==
    IF Cardinality(DOMAIN its) < Capacity
    THEN \A j \in DOMAIN its : j \in DOMAIN new /\ new[j] = its[j]
    ELSE /\ DOMAIN its \cap DOMAIN new = DOMAIN its \ Evicted(its)
         /\ \A j \in DOMAIN its \cap DOMAIN new : new[j].count = 0

LEMMA LoadedRanks ==
    ASSUME NEW its, NEW src, Sound(src, its), NEW k, k \notin DOMAIN its, NEW v
    PROVE  Ranks(its, Loaded(its, k, v))
<1> DEFINE i == [value |-> v, count |-> 1]
<1>1. ASSUME NEW some, k \notin DOMAIN some
      PROVE  /\ DOMAIN With(some, k, i) = DOMAIN some \cup {k}
             /\ \A j \in DOMAIN some : With(some, k, i)[j] = some[j]
  BY <1>1 DEF With
<1>2. CASE Cardinality(DOMAIN its) < Capacity
  <2>1. Loaded(its, k, v) = With(its, k, i)
    BY <1>2 DEF Loaded
  <2> HIDE DEF i
  <2> QED
    BY <1>1, <1>2, <2>1 DEF Ranks
<1>3. CASE ~(Cardinality(DOMAIN its) < Capacity)
  <2>1. Loaded(its, k, v) = With(Survivors(its), k, i)
    BY <1>3 DEF Loaded
  <2> HIDE DEF i
  <2>2. DOMAIN Survivors(its) = DOMAIN its \ Evicted(its)
    BY DEF Survivors
  <2>3. \A j \in DOMAIN Survivors(its) : Survivors(its)[j].count = 0
    BY DEF Survivors, Sound, Item
  <2>4. DOMAIN Loaded(its, k, v) = DOMAIN Survivors(its) \cup {k}
    BY <1>1, <2>1, <2>2
  <2>5. \A j \in DOMAIN Survivors(its) : Loaded(its, k, v)[j].count = 0
    BY <1>1, <2>1, <2>2, <2>3
  <2>6. DOMAIN its \cap DOMAIN Loaded(its, k, v) = DOMAIN its \ Evicted(its)
    BY <2>2, <2>4
  <2> QED
    BY <1>3, <2>2, <2>5, <2>6 DEF Ranks
<1> QED
  BY <1>2, <1>3

LEMMA StepRanks ==
    FiniteInv /\ [Next]_vars =>
      ((Cached' \ Cached # {} /\ UNCHANGED source) => Ranks(items, items'))
<1> SUFFICES ASSUME FiniteInv, [Next]_vars, DOMAIN items' \ DOMAIN items # {},
                    source' = source
             PROVE  Ranks(items, items')
  BY DEF Cached
<1>1. Sound(source, items)
  BY DEF FiniteInv, Inv
<1>2. ~UNCHANGED vars
  BY DEF vars
<1>3. ASSUME NEW k \in Keys, Hit(k) PROVE FALSE
  BY <1>3 DEF Hit
<1>4. ASSUME NEW k \in Keys, Miss(k) PROVE Ranks(items, items')
  BY <1>1, <1>4, LoadedRanks DEF Miss, Cached
<1>5. ASSUME NEW k \in Keys, NEW v \in Values, Update(k, v) PROVE FALSE
  BY <1>5 DEF Update, InStep
<1>6. ASSUME NEW k \in Keys, NEW v \in Values, Replace(k, v) PROVE Ranks(items, items')
  <2> DEFINE rest == Without(items, {k})
  <2>1. DOMAIN rest = DOMAIN items \ {k} /\ rest = [j \in DOMAIN items \ {k} |-> items[j]]
    BY DEF Without
  <2>2. items' = Loaded(rest, k, v)
    BY <1>6 DEF Replace
  <2>3. DOMAIN items' \in SUBSET (DOMAIN rest \cup {k})
    BY <2>2 DEF Loaded, With, Survivors
  <2>4. k \notin DOMAIN items
    BY <2>1, <2>3
  <2>5. rest = items
    BY <1>1, <2>1, <2>4 DEF Sound
  <2> QED
    BY <1>1, <2>2, <2>4, <2>5, LoadedRanks
<1>7. ASSUME NEW k \in Keys, NEW v \in Values, Clear(k, v) PROVE FALSE
  BY <1>7 DEF Clear
<1> QED
  BY <1>2, <1>3, <1>4, <1>5, <1>6, <1>7 DEF Next

\* An eviction goes by rank, for any keys, values and sizes (cache.hpp _get): sorting
\* the counts and adding them up keeps exactly the items whose reads, with those of all
\* hotter ones, fit; all of them when none fits; and what is kept starts at zero.
THEOREM EvictionGoesByRank == Spec => EvictionByRank
<1>1. Init => FiniteInv
  BY InitInv, FS_EmptySet DEF FiniteInv, Cached, Init
<1>2. ASSUME FiniteInv, [Next]_vars
      PROVE  (Cached' \ Cached # {} /\ UNCHANGED source) =>
               IF Cardinality(Cached) < Capacity
               THEN \A j \in Cached : j \in Cached' /\ items'[j] = items[j]
               ELSE /\ Cached \cap Cached' = Kept
                    /\ \A j \in Cached \cap Cached' : items'[j].count = 0
  <2>1. (Cached' \ Cached # {} /\ UNCHANGED source) => Ranks(items, items')
    BY <1>2, StepRanks
  <2>2. Countable(items)
    BY <1>2 DEF FiniteInv, Inv, Sound, Item, Countable, Cached
  <2>3. \A k \in Cached : Fits(k) <=> FitsIn(items, k)
    BY DEF Fits, FitsIn, Reads, ReadsOf, Hotter, HotterThan, Cached
  <2>4. DOMAIN items \ Evicted(items) = Kept
    BY <2>2, <2>3, KeptByRank DEF Kept, Cached
  <2> QED
    BY <2>1, <2>4 DEF Ranks, Cached
<1> QED
  BY <1>1, <1>2, FiniteStep, PTL DEF Spec, EvictionByRank

=============================================================================
