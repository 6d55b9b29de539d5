-------------------------------- MODULE Cache --------------------------------
(***************************************************************************)
(* The read-through cache of gaenari (gaenari/common/cache.hpp), as the    *)
(* learner uses it for treenodes and roots (supul/supul/impl/model.hpp):   *)
(* a miss asks the database; an operation that changes the database        *)
(* changes the item in place, drops it and reads it again, or clears the   *)
(* cache.  Every call holds the recursive mutex to its end, the callback   *)
(* of a miss included, so that a call is one step.                         *)
(***************************************************************************)
EXTENDS Integers, Sequences, FiniteSets, FiniteSetsExt

CONSTANTS
    Keys,         \* treenode ids
    Values,       \* what the database may hold for a key
    Capacity,     \* number of items from which a miss evicts
    SurviveSize,  \* reads that the items kept by an eviction may add up to
    MaxCount      \* bound: reads of one item between two evictions

\* The constructor throws on other sizes.
ASSUME SizeAssumption ==
    /\ Capacity \in Nat /\ SurviveSize \in Nat
    /\ SurviveSize < Capacity /\ Capacity >= 4
ASSUME CountAssumption == MaxCount \in Nat

VARIABLES
    source,  \* the database
    items    \* cached key -> value and number of reads

vars == <<source, items>>

Item == [value : Values, count : Nat]
Cached == DOMAIN items

Init ==
    /\ source \in [Keys -> Values]
    /\ items = <<>>

With(its, k, i) == [j \in DOMAIN its \cup {k} |-> IF j = k THEN i ELSE its[j]]
Without(its, K) == [j \in DOMAIN its \ K |-> its[j]]

-----------------------------------------------------------------------------
(* Eviction                                                                  *)

\* The read counts, largest first: the nth has fewer than n items above it.
Above(its, c) == {k \in DOMAIN its : its[k].count > c}
From(its, c) == {k \in DOMAIN its : its[k].count >= c}
Counts(its) ==
    [n \in 1..Cardinality(DOMAIN its) |->
       CHOOSE c \in {its[k].count : k \in DOMAIN its} :
         Cardinality(Above(its, c)) < n /\ n <= Cardinality(From(its, c))]

\* acc after each of the counts.
Sums(counts) ==
    LET acc[n \in 0..Len(counts)] == IF n = 0 THEN 0 ELSE acc[n - 1] + counts[n]
    IN  acc
\* How many counts the loop may take before it breaks off: all sums so far fit.
Fitting(counts) ==
    LET acc == Sums(counts)
    IN  {n \in 0..Len(counts) : \A i \in 1..n : acc[i] <= SurviveSize}

\* Mutant: the sum may pass survive_size by the last count.
SurviveMutant(its) ==
    LET counts == Counts(its)
        n == Max({m \in 0..Len(counts) :
                    \A i \in 1..m : Sums(counts)[i - 1] <= SurviveSize})
    IN  IF n = 0 THEN 0 ELSE counts[n]
\* The loop over the sorted counts: the last count that still fits, 0 if none does.
Survive(its) ==
    LET counts == Counts(its)
        n == Max(Fitting(counts))
    IN  IF n = 0 THEN 0 ELSE counts[n]

Evicted(its) ==
    LET survive == Survive(its)
    IN  {k \in DOMAIN its : its[k].count < survive}

\* Mutant: the survivors are aged instead.
SurvivorsMutant(its) ==
    [k \in DOMAIN its \ Evicted(its) |-> [its[k] EXCEPT !.count = @ - SurviveSize]]
\* What survives starts again at zero reads.
Survivors(its) == [k \in DOMAIN its \ Evicted(its) |-> [its[k] EXCEPT !.count = 0]]

-----------------------------------------------------------------------------
(* Operations                                                                *)

\* A miss inserts even when the eviction removed nothing.
Loaded(its, k, v) ==
    LET i == [value |-> v, count |-> 1]
    IN  IF Cardinality(DOMAIN its) < Capacity THEN With(its, k, i)
        ELSE With(Survivors(its), k, i)

Hit(k) ==
    /\ k \in Cached /\ items[k].count < MaxCount
    /\ items' = [items EXCEPT ![k].count = @ + 1]
    /\ UNCHANGED source

Miss(k) ==
    /\ k \notin Cached
    /\ items' = Loaded(items, k, source[k])
    /\ UNCHANGED source

\* Mutant: the item is left as it was.
InStepMutant(its, k, v) == its
\* The item of the key gets the value too, if there is one (get_items).
InStep(its, k, v) ==
    IF k \in DOMAIN its THEN [its EXCEPT ![k].value = v] ELSE its

\* update_leaf_info_to_cache, after the statement that counts in the database.
Update(k, v) ==
    /\ source' = [source EXCEPT ![k] = v]
    /\ items' = InStep(items, k, v)

\* get_leaf_treenode_with_rule_add: the childs of a treenode become one more, the
\* cached list is erased and read again.
Replace(k, v) ==
    /\ source' = [source EXCEPT ![k] = v]
    /\ items' = Loaded(Without(items, {k}), k, v)

\* An operation that changes the database and calls clear_all_cache at its end.
Clear(k, v) ==
    /\ source' = [source EXCEPT ![k] = v]
    /\ items' = <<>>

Next ==
    \/ \E k \in Keys : Hit(k) \/ Miss(k)
    \/ \E k \in Keys, v \in Values : Update(k, v) \/ Replace(k, v) \/ Clear(k, v)

Spec == Init /\ [][Next]_vars

-----------------------------------------------------------------------------
(* Properties                                                                *)

\* The type of both variables.
TypeOK ==
    /\ source \in [Keys -> Values]
    /\ Cached \subseteq Keys /\ items \in [Cached -> Item]

\* A cached answer is what the database would answer now (verify_cache compares
\* the two), whatever was evicted, replaced or changed in place.
AnswersAreCurrent == \A k \in Cached : items[k].value = source[k]

\* "if the rank of count is less than survive_size, it will be deleted": an item
\* is kept when its reads and those of all hotter items fit survive_size; when the
\* hottest alone does not fit, every item is kept, and each survivor is back at
\* zero reads.  A miss below the capacity removes nothing.
Hotter(k) == {j \in Cached : items[j].count > items[k].count}
Reads(K) == UNION {{j} \X (1..items[j].count) : j \in K}
Fits(k) == Cardinality(Reads(Hotter(k) \cup {k})) <= SurviveSize
Kept == LET fit == {k \in Cached : Fits(k)} IN IF fit = {} THEN Cached ELSE fit
EvictionByRank ==
    [][(Cached' \ Cached # {} /\ UNCHANGED source) =>
         IF Cardinality(Cached) < Capacity
         THEN \A j \in Cached : j \in Cached' /\ items'[j] = items[j]
         ELSE /\ Cached \cap Cached' = Kept
              /\ \A j \in Cached \cap Cached' : items'[j].count = 0]_vars

=============================================================================
