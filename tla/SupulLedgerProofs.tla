--------------------------- MODULE SupulLedgerProofs ---------------------------
(***************************************************************************)
(* The counters of the database are those of a scan of its rows, and the   *)
(* committed database implements the ledger, for every set of features,    *)
(* labels and batches, as long as an object that has failed is not used    *)
(* again.  The counters come first: a removal leaves as many rows as they  *)
(* say, and a rebuild gains as many right verdicts.                        *)
(***************************************************************************)
EXTENDS SupulVerdictProofs, FunctionTheorems

-----------------------------------------------------------------------------
(* The invariant of the counters.                                            *)

RowsOf(d, c) == {i \in 1..Len(d.instance) : d.instance[i].chunk = c}
Right(d) == {i \in Updated(d) : d.instance[i].correct}
Pairs(d) == UNION {{i} \X d.instance[i].weak : i \in Stored(d)}
Scan(d, ap) == {i \in Updated(d) : <<d.instance[i].y, LabelOf(d, i)>> = ap}

TotalsMatch(d) ==
    /\ \A c \in Chunks(d, {"new", "updated"}) : d.chunk[c].total = Cardinality(RowsOf(d, c))
    /\ \A c \in 1..Len(d.chunk) : RowsOf(d, c) # {}

\* The global counters with n for the updated instances.
Globals(d, n) ==
    d.global = [instance_count |-> Cardinality(Stored(d)), updated_instance_count |-> n,
                instance_correct_count |-> Cardinality(Right(d)),
                acc_weak_instance_count |-> Cardinality(Pairs(d))]

Covers(d) == \A ap \in Labels \X Labels : d.confusion[ap] >= Cardinality(Scan(d, ap))

\* build_first_tree counts the instances that are about to be updated.
Early == IF job.building /\ pc \in {"grow", "route", "rule_add"}
         THEN Cardinality(Rows(db, {"new"})) ELSE 0

\* One record for every instance that is routed.
RoutedMatch ==
    /\ {r.instance : r \in job.routed} = Rows(db, {"new"}) \ job.todo
    /\ \A r, q \in job.routed : r.instance = q.instance => r = q
    /\ \A r \in job.routed : /\ r.actual = db.instance[r.instance].y
                             /\ r.predicted = LabelOf(db, r.instance)

Counters(d, n) == /\ TotalsMatch(d) /\ Globals(d, n) /\ Covers(d)
                  /\ Updated(d) # {} => d.generation # <<>>

CounterInv ==
    /\ Counters(disk, Cardinality(Updated(disk)))
    /\ pc # "throw" => Counters(db, Cardinality(Updated(db)) + Early)
    /\ pc = "grow" => job.routed = {}
    /\ pc = "judge" => Len(db.generation) = Len(disk.generation) + 1
    /\ pc \in {"route", "rule_add"} => RoutedMatch

-----------------------------------------------------------------------------
(* Counting.                                                                 *)

\* A set in two parts.
LEMMA Parted ==
    ASSUME NEW S, NEW T, NEW U, IsFiniteSet(S), S = T \cup U, T \cap U = {}
    PROVE  /\ Cardinality(S) = Cardinality(T) + Cardinality(U)
           /\ Cardinality(S) \in Nat /\ Cardinality(T) \in Nat /\ Cardinality(U) \in Nat
  <1>1. IsFiniteSet(T) /\ IsFiniteSet(U)
    BY FS_Subset
  <1>2. Cardinality(S) \in Nat /\ Cardinality(T) \in Nat /\ Cardinality(U) \in Nat
    BY <1>1, FS_CardinalityType
  <1>3. Cardinality(T \cup U) = Cardinality(T) + Cardinality(U) - Cardinality({})
    BY <1>1, FS_Union
  <1>. QED  BY <1>2, <1>3, FS_EmptySet

\* The rows of an instance table are finitely many, and so are the pairs that
\* weak_count stands for.
LEMMA RowsFinite ==
    ASSUME NEW d \in Database, WeakFits(d)
    PROVE  /\ \A states : /\ IsFiniteSet(Rows(d, states))
                          /\ Cardinality(Rows(d, states)) \in Nat
           /\ IsFiniteSet(Stored(d)) /\ IsFiniteSet(Updated(d)) /\ IsFiniteSet(Right(d))
           /\ \A ap : IsFiniteSet(Scan(d, ap)) /\ Cardinality(Scan(d, ap)) \in Nat
           /\ \A c : IsFiniteSet(RowsOf(d, c)) /\ Cardinality(RowsOf(d, c)) \in Nat
           /\ IsFiniteSet(Pairs(d))
  <1>. DEFINE n == Len(d.instance)
              g == Len(d.generation)
  <1>1. n \in Nat /\ g \in Nat
    BY Lengths
  <1>2. /\ \A states : Rows(d, states) \in SUBSET (1..n)
        /\ \A c : RowsOf(d, c) \in SUBSET (1..n)
    BY DEF Rows, RowsOf
  <1>3. /\ Stored(d) \in SUBSET (1..n) /\ Updated(d) \in SUBSET (1..n)
        /\ Right(d) \in SUBSET (1..n) /\ \A ap : Scan(d, ap) \in SUBSET (1..n)
    BY <1>2 DEF Stored, Updated, Right, Scan
  <1>4. Pairs(d) \in SUBSET ((1..n) \X (1..g))
    <2>1. \A i \in Stored(d) : i \in 1..n /\ d.instance[i].weak \subseteq 1..g
      BY <1>3 DEF WeakFits
    <2>. QED  BY <2>1 DEF Pairs
  <1>. HIDE DEF n, g
  <1>5. IsFiniteSet((1..n) \X (1..g))
    <2>1. IsFiniteSet(1..n) /\ IsFiniteSet(1..g)
      BY <1>1, FS_Interval
    <2>. QED  BY <2>1, FS_Product
  <1>6. IsFiniteSet(Pairs(d))
    BY <1>4, <1>5, FS_Subset
  <1>. QED  BY <1>1, <1>2, <1>3, <1>6, PositionsFinite

\* One record each: as many records as instances.
LEMMA OneRecordEach ==
    ASSUME NEW R, IsFiniteSet(R), \A r, q \in R : r.instance = q.instance => r = q,
           NEW I, I = {r.instance : r \in R}
    PROVE  Cardinality(I) = Cardinality(R)
  <1>. DEFINE f == [r \in R |-> r.instance]
  <1>1. f \in Bijection(R, I)
    <2>1. f \in [R -> I] /\ \A r, q \in R : f[r] = f[q] => r = q
      OBVIOUS
    <2>2. \A i \in I : \E r \in R : f[r] = i
      OBVIOUS
    <2>. QED  BY <2>1, <2>2, Fun_IsBij
  <1>2. ExistsBijection(R, I)
    BY <1>1 DEF ExistsBijection
  <1>. QED  BY <1>2, FS_Bijection

-----------------------------------------------------------------------------
(* A database that has changed in nothing that is counted.                   *)

CountsSame(d, e) ==
    /\ Len(e.instance) = Len(d.instance) /\ e.chunk = d.chunk
    /\ \A i \in 1..Len(d.instance) : /\ e.instance[i].chunk = d.instance[i].chunk
                                     /\ e.instance[i].weak = d.instance[i].weak
    /\ \A i \in Updated(d) : /\ e.instance[i].correct = d.instance[i].correct
                             /\ e.instance[i].y = d.instance[i].y
                             /\ LabelOf(e, i) = LabelOf(d, i)
    /\ e.confusion = d.confusion
    /\ d.generation # <<>> => e.generation # <<>>

LEMMA SameSets ==
    ASSUME NEW d, NEW e, CountsSame(d, e)
    PROVE  /\ \A states : Rows(e, states) = Rows(d, states) /\ Chunks(e, states) = Chunks(d, states)
           /\ Stored(e) = Stored(d) /\ Updated(e) = Updated(d) /\ Right(e) = Right(d)
           /\ Pairs(e) = Pairs(d)
           /\ \A ap : Scan(e, ap) = Scan(d, ap)
           /\ \A c : RowsOf(e, c) = RowsOf(d, c)
  <1>1. /\ \A states : Rows(e, states) = Rows(d, states) /\ Chunks(e, states) = Chunks(d, states)
        /\ \A c : RowsOf(e, c) = RowsOf(d, c)
    BY DEF CountsSame, Rows, Chunks, RowsOf
  <1>2. Stored(e) = Stored(d) /\ Updated(e) = Updated(d)
    BY <1>1 DEF Stored, Updated
  <1>3. Right(e) = Right(d) /\ \A ap : Scan(e, ap) = Scan(d, ap)
    BY <1>2 DEF CountsSame, Right, Scan
  <1>4. Pairs(e) = Pairs(d)
    <2>1. \A i \in Stored(d) : e.instance[i].weak = d.instance[i].weak
      BY DEF CountsSame, Stored, Rows
    <2>. QED  BY <1>2, <2>1 DEF Pairs
  <1>. QED  BY <1>1, <1>2, <1>3, <1>4

LEMMA SameMatches ==
    ASSUME NEW d, NEW e, CountsSame(d, e), NEW n, Counters(d, n)
    PROVE  TotalsMatch(e) /\ Covers(e) /\ (Updated(e) # {} => e.generation # <<>>)
  <1>1. TotalsMatch(e)
    <2>1. /\ Chunks(e, {"new", "updated"}) = Chunks(d, {"new", "updated"}) /\ e.chunk = d.chunk
          /\ \A c : RowsOf(e, c) = RowsOf(d, c)
      BY SameSets DEF CountsSame
    <2>. QED  BY <2>1 DEF Counters, TotalsMatch
  <1>2. Covers(e)
    <2>1. e.confusion = d.confusion /\ \A ap : Scan(e, ap) = Scan(d, ap)
      BY SameSets DEF CountsSame
    <2>. QED  BY <2>1 DEF Counters, Covers
  <1>. QED  BY <1>1, <1>2, SameSets DEF Counters, CountsSame

LEMMA SameCounters ==
    ASSUME NEW d, NEW e, CountsSame(d, e), e.global = d.global, NEW n, Counters(d, n)
    PROVE  Counters(e, n)
  <1>1. Globals(e, n)
    BY SameSets DEF Counters, Globals
  <1>. QED  BY <1>1, SameMatches DEF Counters

-----------------------------------------------------------------------------
(* The steps that count nothing.                                             *)

LEMMA QuietCounters ==
    ASSUME CounterInv, UNCHANGED <<disk, db>>,
           \/ pc' = "throw"
           \/ pc \in Quiet4 /\ pc' \in Quiet4
    PROVE  CounterInv'
  BY DEF CounterInv, Quiet4, Early

LEMMA BackCounters ==
    ASSUME VerdictInv, CounterInv, db' = disk, disk' = disk, pc' = "idle"
    PROVE  CounterInv'
  <1>1. disk \in Database /\ Counters(disk, Cardinality(Updated(disk)))
    BY Typed DEF VerdictInv, CounterInv
  <1>2. Cardinality(Updated(disk)) + 0 = Cardinality(Updated(disk))
    <2>1. Cardinality(Updated(disk)) \in Nat
      BY <1>1, RowsFinite DEF VerdictInv, CacheInv, Inductive, Updated
    <2>. QED  BY <2>1
  <1>3. Early' = 0
    BY DEF Early
  <1>. QED  BY <1>1, <1>2, <1>3 DEF CounterInv

LEMMA CommitCounters ==
    ASSUME VerdictInv, CounterInv, Commit
    PROVE  CounterInv'
  <1>1. pc = "commit" /\ disk' = db /\ db' = db /\ pc' = "idle"
    BY DEF Commit
  <1>2. Counters(db, Cardinality(Updated(db)) + 0) /\ Early' = 0
    BY <1>1 DEF CounterInv, Early
  <1>3. Cardinality(Updated(db)) \in Nat
    BY Typed, RowsFinite DEF VerdictInv, CacheInv, Inductive, Updated
  <1>. QED  BY <1>1, <1>2, <1>3 DEF CounterInv

LEMMA RoutingCounters ==
    ASSUME CounterInv, UNCHANGED <<disk, db>>,
           job'.todo = job.todo, job'.routed = job.routed, job'.building = job.building,
           pc \in {"route", "rule_add"}, pc' \in {"route", "rule_add"}
    PROVE  CounterInv'
  <1>1. RoutedMatch'
    BY DEF CounterInv, RoutedMatch
  <1>2. Early' = Early
    BY DEF Early
  <1>. QED  BY <1>1, <1>2 DEF CounterInv

\* An operation goes on and has changed nothing that is counted.
LEMMA GoesOnCounters ==
    ASSUME CounterInv, pc # "throw", UNCHANGED disk, CountsSame(db, db'),
           db'.global = db.global, Early' = Early
    PROVE  /\ Counters(disk', Cardinality(Updated(disk')))
           /\ Counters(db', Cardinality(Updated(db')) + Early')
  <1>1. Counters(db, Cardinality(Updated(db)) + Early)
    BY DEF CounterInv
  <1>2. Updated(db') = Updated(db)
    BY SameSets
  <1>3. Counters(db', Cardinality(Updated(db)) + Early)
    BY <1>1, SameCounters
  <1>. QED  BY <1>2, <1>3 DEF CounterInv

LEMMA WalkCounters ==
    ASSUME VerdictInv, CounterInv, NoChilds \/ NoMatch \/ StepDown \/ JumpToGeneration
    PROVE  CounterInv'
  <1>1. /\ UNCHANGED <<disk, db>> /\ pc \in {"predict", "route"}
        /\ \/ pc' = "throw"
           \/ pc = "predict" /\ pc' \in Quiet4
           \/ pc = "route" /\ pc' \in {"route", "rule_add"}
                           /\ \E n : job' = [job EXCEPT !.cur = n]
    BY DEF NoChilds, NoMatch, StepDown, JumpToGeneration, Visit, Walking, Quiet4
  <1>2. \A n : job' = [job EXCEPT !.cur = n] =>
            /\ job'.todo = job.todo /\ job'.routed = job.routed
            /\ job'.building = job.building
    BY Typed DEF VerdictInv, Job
  <1>. QED  BY <1>1, <1>2, QuietCounters, RoutingCounters DEF Quiet4

LEMMA EasyCounters ==
    ASSUME VerdictInv, CounterInv,
           \/ LimitDone \/ Fault \/ Commit \/ Unwind \/ Restart \/ RebuildGiveUp
           \/ \E x : PredictBegin(x)
    PROVE  CounterInv'
  <1>1. CASE LimitDone \/ Fault \/ \E x : PredictBegin(x)
    BY <1>1, QuietCounters DEF LimitDone, Fault, PredictBegin, CanBegin, Quiet4
  <1>2. CASE Unwind \/ Restart \/ RebuildGiveUp
    BY <1>2, BackCounters DEF Unwind, Restart, RebuildGiveUp
  <1>. QED  BY <1>1, <1>2, CommitCounters

-----------------------------------------------------------------------------
(* The tree grows.                                                           *)

\* Every updated row keeps its label while the tree grows and leaves are sent on.
LEMMA TreeCounts ==
    ASSUME NEW d \in Database, NEW e \in Database, TreeLasts(d, e), RowsSame(d, e),
           e.confusion = d.confusion, d.generation # <<>> => e.generation # <<>>,
           \A i \in Updated(d) : Referred(d, i)
    PROVE  CountsSame(d, e)
  <1>1. e.instance = d.instance /\ e.chunk = d.chunk
    BY DEF RowsSame
  <1>2. \A i \in Updated(d) : LabelOf(e, i) = LabelOf(d, i)
    BY <1>1, VerdictLasts
  <1>. QED  BY <1>1, <1>2 DEF CountsSame

LEMMA NodeCounters ==
    ASSUME VerdictInv, CounterInv, pc = "grow", db' \in Database, TreeGrown(db, db'),
           RowsSame(db, db'), db'.global = db.global, db'.confusion = db.confusion,
           Len(db'.generation) = Len(db.generation), UNCHANGED disk,
           job'.todo = job.todo, job'.routed = job.routed, job'.building = job.building,
           pc' = Grown
    PROVE  CounterInv'
  <1>1. /\ db \in Database /\ TrainedVerdicts /\ db.generation # <<>>
        /\ Len(db.generation) = Len(disk.generation) + 1
    BY Typed DEF VerdictInv, VerdictPart, StageVerdicts, CacheInv, Inductive, HasRoot,
       TreeInv, TreeInserted
  <1>2. db'.generation # <<>>
    BY <1>1 DEF Database
  <1>3. TreeLasts(db, db')
    BY <1>1, GrownLasts
  <1>4. CountsSame(db, db')
    BY <1>1, <1>2, <1>3, TreeCounts DEF TrainedVerdicts
  <1>5. /\ pc' \in {"grow", "route", "judge"}
        /\ pc' = "judge" => ~job.building
        /\ pc' = "route" => job.building
    BY DEF Grown
  <1>6. Rows(db', {"new"}) = Rows(db, {"new"})
    BY <1>4, SameSets
  <1>7. Early' = Early
    BY <1>5, <1>6 DEF Early
  <1>8. job'.routed = {}
    BY DEF CounterInv
  <1>9. pc' = "route" => RoutedMatch'
    BY <1>1, <1>5, <1>6, <1>8 DEF RoutedMatch, TrainedVerdicts
  <1>10. /\ Counters(disk', Cardinality(Updated(disk')))
         /\ Counters(db', Cardinality(Updated(db')) + Early')
    BY <1>4, <1>7, GoesOnCounters
  <1>. QED  BY <1>1, <1>5, <1>8, <1>9, <1>10 DEF CounterInv

LEMMA GrowCounters ==
    ASSUME VerdictInv, CounterInv, GrowLeaf \/ GrowSplit
    PROVE  CounterInv'
  <1>1. CacheInv
    BY DEF VerdictInv
  <1>. QED  BY <1>1, NodeGrown, NodeCounters

LEMMA RebuildBeginCounters ==
    ASSUME VerdictInv, CounterInv, RebuildBegin
    PROVE  CounterInv'
  <1>1. /\ pc = "idle" /\ UNCHANGED disk /\ pc' \in {"throw", "grow"} /\ db \in Database
        /\ Verdicts(db)
    BY Typed DEF RebuildBegin, CanBegin, VerdictInv, VerdictPart, StageVerdicts
  <1>2. /\ RowsSame(db, db') /\ db'.global = db.global /\ db'.confusion = db.confusion
        /\ TreeLasts(db, db') /\ ~job'.building /\ job'.routed = {}
    BY <1>1, AnnouncedRows
  <1>3. db' \in Database /\ db'.generation # <<>>
    <2>1. db' \in Database /\ Len(db'.generation) = Len(db.generation) + 1
      BY <1>1, AnnouncedTyped DEF Kept, VerdictInv, CacheInv, Inductive
    <2>. QED  BY <1>1, <2>1, Lengths
  <1>4. CountsSame(db, db')
    BY <1>1, <1>2, <1>3, TreeCounts DEF Verdicts
  <1>5. Early' = Early
    BY <1>1, <1>2 DEF Early
  <1>6. /\ Counters(disk', Cardinality(Updated(disk')))
        /\ Counters(db', Cardinality(Updated(db')) + Early')
    BY <1>1, <1>2, <1>4, <1>5, GoesOnCounters
  <1>. QED  BY <1>1, <1>2, <1>6 DEF CounterInv

-----------------------------------------------------------------------------
(* An instance is judged and gets its record.                                *)

LEMMA JudgedCounters ==
    ASSUME VerdictInv, CounterInv, pc \in {"route", "rule_add"}, pc' = "route", UNCHANGED disk,
           NEW i \in job.todo, job'.todo = job.todo \ {i}, job'.building = job.building,
           NEW d \in Database, RowsSame(db, d), d.global = db.global,
           d.confusion = db.confusion, d.generation = db.generation, TreeLasts(db, d),
           NEW n \in 1..Len(d.treenode), d.treenode[n].leaf \in 1..Len(d.leaf_info),
           TreeSame(d, db'), RowJudged(d, db', i, ChildRow(d, n)), db' \in Database,
           NEW rec, job'.routed = job.routed \cup {rec}, rec.instance = i,
           rec.actual = db.instance[i].y, rec.predicted = ChildRow(d, n).leaf.label
    PROVE  CounterInv'
  <1>. DEFINE l == d.treenode[n].leaf
              k == ChildRow(d, n)
  <1>1. /\ db \in Database /\ RoutedVerdicts /\ RoutedMatch
    BY Typed DEF VerdictInv, VerdictPart, StageVerdicts, CounterInv
  <1>2. k.id = n /\ k.leaf = d.leaf_info[l]
    BY DEF ChildRow
  <1>3. i \in Rows(db, {"new"}) /\ i \in 1..Len(db.instance) /\ i \notin Updated(db)
    BY <1>1 DEF RoutedVerdicts, Rows, Updated
  <1>4. /\ d.instance = db.instance /\ d.chunk = db.chunk
        /\ db'.treenode = d.treenode /\ db'.leaf_info = d.leaf_info
        /\ db'.generation = db.generation
    BY DEF RowsSame, TreeSame
  <1>. HIDE DEF k
  <1>5. /\ db'.chunk = db.chunk /\ Len(db'.instance) = Len(db.instance)
        /\ db'.global = db.global /\ db'.confusion = db.confusion
        /\ \A j \in 1..Len(db.instance) : /\ j # i => db'.instance[j] = db.instance[j]
                                          /\ db'.instance[j].chunk = db.instance[j].chunk
                                          /\ db'.instance[j].weak = db.instance[j].weak
        /\ db'.instance[i].ref = n /\ db'.instance[i].y = db.instance[i].y
    BY <1>2, <1>4 DEF RowJudged, k
  <1>6. TreeLasts(db, db')
    BY <1>4 DEF TreeLasts
  <1>7. \A j \in 1..Len(db.instance) :
            j # i /\ Referred(db, j) => LabelOf(db', j) = LabelOf(db, j)
    BY <1>1, <1>5, <1>6, VerdictLasts
  <1>8. CountsSame(db, db')
    <2>1. \A j \in Updated(db) : j \in 1..Len(db.instance) /\ j # i /\ Referred(db, j)
      BY <1>1, <1>3 DEF RoutedVerdicts, Updated, Rows
    <2>. QED  BY <1>4, <1>5, <1>7, <2>1 DEF CountsSame
  <1>9. Rows(db', {"new"}) = Rows(db, {"new"})
    BY <1>8, SameSets
  <1>10. Early' = Early
    BY <1>9 DEF Early
  <1>11. /\ Counters(disk', Cardinality(Updated(disk')))
         /\ Counters(db', Cardinality(Updated(db')) + Early')
    BY <1>5, <1>8, <1>10, GoesOnCounters
  <1>12. LabelOf(db', i) = k.leaf.label
    BY <1>2, <1>4, <1>5 DEF LabelOf, LeafId
  <1>13. \A r \in job.routed : /\ r.instance \in Rows(db, {"new"}) /\ r.instance \notin job.todo
                               /\ r.instance \in 1..Len(db.instance) /\ r.instance # i
                               /\ r.actual = db.instance[r.instance].y
                               /\ r.predicted = LabelOf(db, r.instance)
    BY <1>1 DEF RoutedMatch, Rows
  <1>14. \A r \in job.routed : Referred(db, r.instance)
    BY <1>1, <1>13 DEF RoutedVerdicts
  <1>15. RoutedMatch'
    <2>1. {r.instance : r \in job'.routed} = Rows(db', {"new"}) \ job'.todo
      <3>1. {r.instance : r \in job.routed} = Rows(db, {"new"}) \ job.todo
        BY <1>1 DEF RoutedMatch
      <3>2. {r.instance : r \in job'.routed} = {r.instance : r \in job.routed} \cup {i}
        OBVIOUS
      <3>. QED  BY <1>3, <1>9, <3>1, <3>2
    <2>2. \A r, q \in job'.routed : r.instance = q.instance => r = q
      BY <1>1, <1>13 DEF RoutedMatch
    <2>3. \A r \in job'.routed : /\ r.actual = db'.instance[r.instance].y
                                 /\ r.predicted = LabelOf(db', r.instance)
      BY <1>5, <1>7, <1>12, <1>13, <1>14 DEF k
    <2>. QED  BY <2>1, <2>2, <2>3 DEF RoutedMatch
  <1>. QED  BY <1>11, <1>15 DEF CounterInv

\* The record that is kept of the instance.
Record(i, k, added) == [instance |-> i, leaf |-> k.leaf_id, added |-> added,
                        actual |-> db.instance[i].y, predicted |-> k.leaf.label]

LEMMA CountedRecord ==
    ASSUME job \in Job, NEW i, NEW k, NEW added, job' = Counted(i, k, added)
    PROVE  job'.routed = job.routed \cup {Record(i, k, added)}
  <1>1. job' = [job EXCEPT !.todo = @ \ {i}, !.cur = 0, !.routed = @ \cup {Record(i, k, added)}]
    BY DEF Counted, Record
  <1>. QED  BY <1>1 DEF Job

LEMMA ArriveCounters ==
    ASSUME VerdictInv, CounterInv, Arrive
    PROVE  CounterInv'
  <1>. DEFINE i == Least(job.todo)
              n == Choice.id
  <1>1. /\ Visit /\ Matched # {} /\ Choice.leaf_id # 0
        /\ UNCHANGED disk
        /\ \/ pc = "predict" /\ pc' = "idle" /\ UNCHANGED db
           \/ pc = "route" /\ pc' = "route" /\ db' = Judged(db, i, Choice)
                           /\ job' = Counted(i, Choice, FALSE)
    BY DEF Arrive, Visit, Walking
  <1>2. CASE pc = "predict" /\ pc' = "idle" /\ UNCHANGED db
    BY <1>1, <1>2, QuietCounters DEF Quiet4
  <1>3. CASE pc = "route" /\ pc' = "route" /\ db' = Judged(db, i, Choice)
                         /\ job' = Counted(i, Choice, FALSE)
    <2>1. /\ CacheInv /\ ~failed /\ db \in Database /\ job \in Job /\ RefsFit(db)
      BY <1>3, Typed DEF VerdictInv, Reopened, CacheInv, TreeInv
    <2>2. Choice \in Childs(db, Here) /\ n \in 1..Len(db.treenode)
      BY <1>1, <2>1, ChoiceFound
    <2>3. Choice = ChildRow(db, n)
      BY <2>2 DEF Childs, ChildRow
    <2>4. i \in job.todo /\ i \in 1..Len(db.instance)
      BY <1>1, <1>3, <2>1, TodoLeast DEF Visit, Walking, CacheInv
    <2>5. db' \in Database
      BY ArriveStep DEF VerdictInv, CacheInv, Inductive, TypeOK
    <2>. DEFINE k == Choice
    <2>. HIDE DEF k
    <2>6. db.treenode[n].leaf = k.leaf_id /\ db.treenode[n].leaf \in 0..Len(db.leaf_info)
      BY <2>1, <2>2, <2>3 DEF ChildRow, RefsFit, k
    <2>7. db.treenode[n].leaf \in 1..Len(db.leaf_info)
      <3>1. k.leaf_id # 0 /\ Len(db.leaf_info) \in Nat
        BY <1>1, <2>1, Lengths DEF k
      <3>. QED  BY <2>6, <3>1
    <2>8. job'.todo = job.todo \ {i} /\ job'.building = job.building
      BY <1>3, <2>1, CountedTodo
    <2>9. TreeSame(db, db') /\ RowJudged(db, db', i, Choice)
      BY <1>3, <2>1, <2>4, JudgedTree, JudgedRows
    <2>10. RowsSame(db, db) /\ TreeLasts(db, db)
      BY <2>1, Lengths DEF RowsSame, TreeLasts
    <2>. DEFINE rec == Record(i, Choice, FALSE)
    <2>11. /\ job'.routed = job.routed \cup {rec} /\ rec.instance = i
           /\ rec.actual = db.instance[i].y /\ rec.predicted = Choice.leaf.label
      <3>1. job'.routed = job.routed \cup {Record(i, Choice, FALSE)}
        BY <1>3, <2>1, CountedRecord
      <3>2. /\ rec.instance = i /\ rec.actual = db.instance[i].y
            /\ rec.predicted = Choice.leaf.label
        BY DEF Record
      <3>. QED  BY <3>1, <3>2
    <2>. HIDE DEF n, i, rec
    <2>12. RowJudged(db, db', i, ChildRow(db, n)) /\ rec.predicted = ChildRow(db, n).leaf.label
      BY <2>3, <2>9, <2>11
    <2>. QED  BY <1>1, <1>3, <2>1, <2>2, <2>4, <2>5, <2>7, <2>8, <2>9, <2>10, <2>11, <2>12,
              JudgedCounters
  <1>. QED  BY <1>1, <1>2, <1>3

LEMMA RuleAddCounters ==
    ASSUME VerdictInv, CounterInv, RuleAdd
    PROVE  CounterInv'
  <1>. DEFINE i == Least(job.todo)
  <1>1. /\ pc = "rule_add" /\ UNCHANGED disk /\ i \in job.todo /\ i \in 1..Len(db.instance)
        /\ CacheInv /\ db \in Database /\ job \in Job
    BY RuleAdded, Typed DEF VerdictInv
  <1>2. CASE pc' = "throw"
    BY <1>1, <1>2 DEF CounterInv
  <1>3. CASE pc' # "throw"
    <2>0. PICK child : \E d \in Database :
                    /\ d = WithRule(db, child, i) /\ pc' = "route"
                    /\ db' = Judged(d, i, ChildRow(d, Len(d.treenode)))
                    /\ job' = Counted(i, ChildRow(d, Len(d.treenode)), TRUE)
      BY <1>1, <1>3, RuleAdded
    <2>1. PICK d \in Database :
                    /\ d = WithRule(db, child, i) /\ pc' = "route"
                    /\ db' = Judged(d, i, ChildRow(d, Len(d.treenode)))
                    /\ job' = Counted(i, ChildRow(d, Len(d.treenode)), TRUE)
      BY <2>0
    <2>. HIDE DEF i
    <2>2. RowsSame(db, d) /\ d.global = db.global /\ d.confusion = db.confusion /\ TreeGrown(db, d)
      BY <1>1, <2>1, WithRuleRows, WithRuleTree
    <2>3. TreeLasts(db, d) /\ d.generation = db.generation
      <3>1. d.generation = db.generation
        BY <1>1, <2>1 DEF WithRule, Database
      <3>. QED  BY <1>1, <2>2, <3>1, GrownLasts
    <2>4. PICK leaf : leaf.type = "leaf" /\ LeafAdded(db, d, leaf)
      BY <1>1, <2>1, WithRuleLeaf
    <2>. DEFINE n == Len(d.treenode)
    <2>5. n \in 1..Len(d.treenode) /\ d.treenode[n].leaf \in 1..Len(d.leaf_info)
      <3>1. Len(db.treenode) \in Nat /\ Len(db.leaf_info) \in Nat
        BY <1>1, Lengths
      <3>. QED  BY <2>4, <3>1 DEF LeafAdded
    <2>6. db' \in Database
      BY RuleAddStep DEF VerdictInv, CacheInv, Inductive, TypeOK
    <2>7. job'.todo = job.todo \ {i} /\ job'.building = job.building
      BY <1>1, <2>1, CountedTodo
    <2>8. i \in 1..Len(d.instance)
      BY <1>1, <2>2 DEF RowsSame
    <2>9. TreeSame(d, db') /\ RowJudged(d, db', i, ChildRow(d, n))
      BY <2>1, <2>8, JudgedTree, JudgedRows
    <2>. DEFINE rec == Record(i, ChildRow(d, n), TRUE)
    <2>10. /\ job'.routed = job.routed \cup {rec} /\ rec.instance = i
           /\ rec.actual = db.instance[i].y /\ rec.predicted = ChildRow(d, n).leaf.label
      <3>1. job'.routed = job.routed \cup {Record(i, ChildRow(d, n), TRUE)}
        BY <1>1, <2>1, CountedRecord
      <3>2. /\ rec.instance = i /\ rec.actual = db.instance[i].y
            /\ rec.predicted = ChildRow(d, n).leaf.label
        BY DEF Record
      <3>. QED  BY <3>1, <3>2
    <2>11. pc' = "route"
      BY <2>1
    <2>. HIDE DEF n, rec
    <2>. QED  BY <1>1, <2>2, <2>3, <2>5, <2>6, <2>7, <2>9, <2>10, <2>11, JudgedCounters
  <1>. QED  BY <1>2, <1>3

LEMMA UpdateBeginCounters ==
    ASSUME VerdictInv, CounterInv, UpdateBegin
    PROVE  CounterInv'
  <1>1. /\ pc = "idle" /\ UNCHANGED disk /\ db \in Database
        /\ Counters(db, Cardinality(Updated(db)) + 0)
    <2>1. db = disk /\ db \in Database /\ pc = "idle"
      BY Typed DEF UpdateBegin, CanBegin, VerdictInv, CacheInv, TreeInv, Grows
    <2>. QED  BY <2>1 DEF UpdateBegin, CounterInv, Early
  <1>2. /\ RowsSame(db, db') /\ db'.treenode = db.treenode /\ db'.leaf_info = db.leaf_info
        /\ db'.confusion = db.confusion
        /\ db.generation # <<>> => db' = db
    <2>1. CASE db.generation = <<>>
      BY <1>1, <2>1 DEF UpdateBegin, Database, RowsSame
    <2>2. CASE db.generation # <<>>
      BY <2>2 DEF UpdateBegin, RowsSame
    <2>. QED  BY <2>1, <2>2
  <1>3. /\ job'.todo = Rows(db, {"new"}) /\ job'.routed = {}
        /\ job'.building = (db.generation = <<>>)
        /\ pc' = IF db.generation = <<>> THEN "grow" ELSE "route"
    BY DEF UpdateBegin, NoJob
  <1>4. CountsSame(db, db')
    <2>1. \A i : LabelOf(db', i) = LabelOf(db, i)
      BY <1>2 DEF LabelOf, LeafId, RowsSame
    <2>2. db.generation # <<>> => db'.generation # <<>>
      BY <1>2
    <2>. QED  BY <1>2, <2>1, <2>2 DEF CountsSame, RowsSame
  <1>5. Rows(db', {"new"}) = Rows(db, {"new"}) /\ Updated(db') = Updated(db)
    BY <1>4, SameSets
  <1>6. RoutedMatch'
    BY <1>3, <1>5 DEF RoutedMatch
  <1>7. Counters(db', Cardinality(Updated(db')) + Early')
    <2>1. CASE db.generation # <<>>
      <3>1. ~job'.building
        BY <1>3, <2>1
      <3>2. db' = db /\ Early' = 0
        BY <1>2, <2>1, <3>1 DEF Early
      <3>. QED  BY <1>1, <3>2
    <2>2. CASE db.generation = <<>>
      <3>. DEFINE n == Cardinality(Rows(db, {"new"}))
      <3>1. Updated(db) = {}
        BY <1>1, <2>2 DEF Counters
      <3>2. n \in Nat
        BY <1>1, RowsFinite DEF VerdictInv, CacheInv, Inductive
      <3>3. Early' = n
        BY <1>3, <1>5, <2>2 DEF Early
      <3>4. Cardinality(Updated(db)) + Early' = n /\ Cardinality(Updated(db)) + 0 = 0
        BY <3>1, <3>2, <3>3, FS_EmptySet
      <3>5. db'.global = [db.global EXCEPT !.updated_instance_count = n]
        BY <1>1, <2>2 DEF UpdateBegin, Database
      <3>. HIDE DEF n
      <3>6. Counters(db, 0)
        BY <1>1, <3>4
      <3>7. Globals(db', n)
        BY <1>4, <3>5, <3>6, SameSets DEF Counters, Globals
      <3>8. /\ TotalsMatch(db') /\ Covers(db')
            /\ Updated(db') # {} => db'.generation # <<>>
        BY <1>4, <3>6, SameMatches
      <3>. QED  BY <1>5, <3>4, <3>7, <3>8 DEF Counters
    <2>. QED  BY <2>1, <2>2
  <1>8. pc' = "grow" \/ pc' = "route"
    BY <1>3
  <1>. QED  BY <1>1, <1>3, <1>6, <1>7, <1>8 DEF CounterInv

-----------------------------------------------------------------------------
(* Chunks come and go.                                                       *)

LEMMA Interval ==
    ASSUME NEW m \in Nat, NEW k \in Nat
    PROVE  /\ 1..(m + k) = (1..m) \cup (m + 1 .. m + k) /\ (1..m) \cap (m + 1 .. m + k) = {}
           /\ Cardinality(m + 1 .. m + k) = k
           /\ k # 0 => m + 1 .. m + k # {}
  <1>1. m + 1 \in Int /\ m + k \in Int
    OBVIOUS
  <1>2. Cardinality(m + 1 .. m + k) = IF m + 1 > m + k THEN 0 ELSE (m + k) - (m + 1) + 1
    BY <1>1, FS_Interval
  <1>3. Cardinality(m + 1 .. m + k) = k
    BY <1>2
  <1>4. k # 0 => m + 1 \in m + 1 .. m + k
    OBVIOUS
  <1>. QED  BY <1>3, <1>4

LEMMA AddedCounters ==
    ASSUME NEW d \in Database, NEW e \in Database, WeakFits(d), WeakFits(e), ChunksFit(d),
           NEW b, RowsAdded(d, e, b), TreeLasts(d, e), e.generation = d.generation,
           \A i \in Updated(d) : Referred(d, i), NEW n, Counters(d, n)
    PROVE  Updated(e) = Updated(d) /\ Counters(e, n)
  <1>. DEFINE len == Len(d.instance)
              c == Len(d.chunk) + 1
              fresh == len + 1 .. len + Len(b)
  <1>1. len \in Nat /\ Len(d.chunk) \in Nat /\ Len(b) \in Nat /\ Len(b) # 0
    BY Lengths DEF RowsAdded
  <1>2. /\ 1..len + Len(b) = (1..len) \cup fresh /\ (1..len) \cap fresh = {}
        /\ Cardinality(fresh) = Len(b) /\ fresh # {}
        /\ 1..c = (1..Len(d.chunk)) \cup {c} /\ c \notin 1..Len(d.chunk)
    <2>1. /\ 1..len + Len(b) = (1..len) \cup fresh /\ (1..len) \cap fresh = {}
          /\ Cardinality(fresh) = Len(b) /\ (Len(b) # 0 => fresh # {})
      BY <1>1, Interval, Zenon
    <2>2. 1..c = (1..Len(d.chunk)) \cup {c} /\ c \notin 1..Len(d.chunk)
      BY <1>1
    <2>. QED  BY <1>1, <2>1, <2>2
  <1>. HIDE DEF len, c, fresh
  <1>3. /\ 1..Len(e.instance) = (1..len) \cup fresh /\ Len(e.chunk) = c
        /\ \A i \in fresh : e.instance[i].chunk = c /\ Fresh(e, i)
        /\ \A i \in 1..len : /\ e.instance[i] = d.instance[i]
                             /\ e.instance[i].chunk \in 1..Len(d.chunk)
        /\ \A k \in 1..Len(d.chunk) : e.chunk[k] = d.chunk[k]
        /\ e.chunk[c].total = Len(b) /\ e.chunk[c].state = "new"
        /\ e.confusion = d.confusion
    <2>1. 1..Len(e.instance) = (1..len) \cup fresh
      BY <1>2 DEF RowsAdded, len
    <2>2. \A i \in fresh : e.instance[i].chunk = c /\ Fresh(e, i)
      BY <1>2, <2>1 DEF RowsAdded, len, c
    <2>. QED  BY <2>1, <2>2 DEF RowsAdded, ChunksFit, len, c
  <1>4. Updated(e) = Updated(d) /\ Stored(e) = Stored(d) \cup fresh /\ Stored(d) \cap fresh = {}
    <2>1. \A i \in 1..len : e.chunk[e.instance[i].chunk] = d.chunk[d.instance[i].chunk]
      BY <1>3
    <2>2. \A i \in fresh : e.chunk[e.instance[i].chunk].state = "new"
      BY <1>3
    <2>3. Updated(e) = Updated(d)
      BY <1>3, <2>1, <2>2 DEF Updated, Rows, len
    <2>4. Stored(e) = Stored(d) \cup fresh
      BY <1>3, <2>1, <2>2 DEF Stored, Rows, len
    <2>5. Stored(d) \subseteq 1..len
      BY DEF Stored, Rows, len
    <2>. QED  BY <1>2, <2>3, <2>4, <2>5
  <1>5. RowsOf(e, c) = fresh /\ \A k \in 1..Len(d.chunk) : RowsOf(e, k) = RowsOf(d, k)
    BY <1>2, <1>3 DEF RowsOf, len
  <1>6. \A i \in Updated(d) : e.instance[i] = d.instance[i] /\ LabelOf(e, i) = LabelOf(d, i)
    <2>1. \A i \in Updated(d) : e.instance[i] = d.instance[i]
      BY <1>3 DEF Updated, Rows, len
    <2>. QED  BY <2>1, VerdictLasts
  <1>7. Right(e) = Right(d) /\ \A ap : Scan(e, ap) = Scan(d, ap)
    BY <1>4, <1>6 DEF Right, Scan
  <1>8. Pairs(e) = Pairs(d)
    <2>1. \A i \in Stored(d) : e.instance[i].weak = d.instance[i].weak
      BY <1>3 DEF Stored, Rows, len
    <2>2. \A i \in fresh : e.instance[i].weak = {}
      BY <1>3 DEF Fresh
    <2>. QED  BY <1>4, <2>1, <2>2 DEF Pairs
  <1>9. TotalsMatch(e)
    <2>1. ASSUME NEW k \in Chunks(e, {"new", "updated"})
          PROVE  e.chunk[k].total = Cardinality(RowsOf(e, k))
      <3>1. k \in 1..c /\ e.chunk[k].state \in {"new", "updated"}
        BY <1>3 DEF Chunks
      <3>2. CASE k \in 1..Len(d.chunk)
        <4>1. e.chunk[k] = d.chunk[k] /\ RowsOf(e, k) = RowsOf(d, k)
          BY <1>3, <1>5, <3>2
        <4>. QED  BY <3>1, <3>2, <4>1 DEF Counters, TotalsMatch, Chunks
      <3>3. CASE k = c
        BY <1>2, <1>3, <1>5, <3>3
      <3>. QED  BY <1>2, <3>1, <3>2, <3>3
    <2>2. \A k \in 1..Len(e.chunk) : RowsOf(e, k) # {}
      BY <1>2, <1>3, <1>5 DEF Counters, TotalsMatch
    <2>. QED  BY <2>1, <2>2 DEF TotalsMatch
  <1>10. Globals(e, n)
    <2>1. Cardinality(Stored(e)) = Cardinality(Stored(d)) + Len(b)
      <3>1. IsFiniteSet(Stored(e))
        BY RowsFinite
      <3>2. Cardinality(Stored(e)) = Cardinality(Stored(d)) + Cardinality(fresh)
        BY <1>4, <3>1, Parted
      <3>. QED  BY <1>2, <3>2
    <2>2. e.global = [d.global EXCEPT !.instance_count = @ + Len(b)]
      BY DEF RowsAdded
    <2>. QED  BY <1>4, <1>7, <1>8, <2>1, <2>2 DEF Counters, Globals
  <1>11. Covers(e)
    BY <1>3, <1>7 DEF Counters, Covers
  <1>. QED  BY <1>4, <1>9, <1>10, <1>11 DEF Counters

LEMMA InsertCounters ==
    ASSUME VerdictInv, CounterInv, NEW b \in Batches, Insert(b)
    PROVE  CounterInv'
  <1>1. /\ db' = WithChunk(db, b) /\ pc = "idle" /\ pc' \in {"limit", "commit"}
        /\ UNCHANGED disk /\ db \in Database /\ WeakFits(db) /\ ChunksFit(db) /\ Verdicts(db)
    BY Typed DEF Insert, CanBegin, VerdictInv, VerdictPart, StageVerdicts, CacheInv, Inductive
  <1>2. db' \in Database /\ WeakFits(db')
    BY <1>1, WithChunkTyped
  <1>3. RowsAdded(db, db', b) /\ TreeSame(db, db')
    BY <1>1, WithChunkRows, WithChunkTree
  <1>4. TreeLasts(db, db') /\ db'.generation = db.generation
    BY <1>1, <1>3, SameLasts DEF TreeSame
  <1>5. Counters(db, Cardinality(Updated(db)) + Early) /\ Early = 0 /\ Early' = 0
    BY <1>1 DEF CounterInv, Early
  <1>6. \A i \in Updated(db) : Referred(db, i)
    BY <1>1 DEF Verdicts
  <1>7. Updated(db') = Updated(db) /\ Counters(db', Cardinality(Updated(db)) + 0)
    BY <1>1, <1>2, <1>3, <1>4, <1>5, <1>6, AddedCounters
  <1>8. Counters(db', Cardinality(Updated(db')) + Early')
    BY <1>5, <1>7
  <1>. QED  BY <1>1, <1>8 DEF CounterInv

\* What remove_chunk meets of a chunk: its rows when they have verdicts, none before.
LEMMA MetRows ==
    ASSUME NEW d \in Database, Verdicts(d), NEW c \in Chunks(d, {"new", "updated"})
    PROVE  /\ Met(d, c) = RowsOf(d, c) \cap Updated(d)
           /\ RowsOf(d, c) \subseteq Stored(d)
           /\ d.chunk[c].state = "updated" => Met(d, c) = RowsOf(d, c)
           /\ d.chunk[c].state # "updated" => Met(d, c) = {}
           /\ \A i \in RowsOf(d, c) : i \notin Met(d, c) => d.instance[i].weak = {}
  <1>1. d.chunk[c].state \in {"new", "updated"}
    BY DEF Chunks
  <1>2. RowsOf(d, c) \subseteq Rows(d, {d.chunk[c].state})
    BY DEF RowsOf, Rows
  <1>3. RowsOf(d, c) \subseteq Stored(d)
    BY <1>1, <1>2 DEF Stored, Rows
  <1>4. CASE d.chunk[c].state = "updated"
    <2>1. RowsOf(d, c) \subseteq Updated(d)
      BY <1>2, <1>4 DEF Updated
    <2>2. \A i \in RowsOf(d, c) : Referred(d, i)
      BY <2>1 DEF Verdicts
    <2>3. Met(d, c) = RowsOf(d, c)
      BY <1>3, <2>2 DEF Met, Referred, RowsOf, Stored, Rows
    <2>. QED  BY <1>3, <1>4, <2>1, <2>3
  <1>5. CASE d.chunk[c].state = "new"
    <2>1. \A i \in RowsOf(d, c) : i \in Rows(d, {"new"}) /\ i \notin Updated(d)
      BY <1>2, <1>5 DEF Updated, Rows
    <2>2. \A i \in RowsOf(d, c) : d.instance[i].ref = 0 /\ d.instance[i].weak = {}
      BY <2>1 DEF Verdicts, Fresh
    <2>3. 0 \notin 1..Len(d.treenode)
      BY Lengths
    <2>4. Met(d, c) = {}
      BY <2>2, <2>3 DEF Met, RowsOf, Stored, Rows
    <2>. QED  BY <1>3, <1>5, <2>1, <2>2, <2>4
  <1>. QED  BY <1>1, <1>4, <1>5

\* The counters after a chunk is removed.
MetRight(d, c) == {i \in Met(d, c) : d.instance[i].y = LabelOf(d, i)}
MetPairs(d, c) == UNION {{i} \X d.instance[i].weak : i \in Met(d, c)}
MetScan(d, c, ap) == {i \in Met(d, c) : <<d.instance[i].y, LabelOf(d, i)>> = ap}

CountsDropped(d, e, c) ==
    /\ e.generation = d.generation
    /\ e.global = [instance_count |-> d.global.instance_count - d.chunk[c].total,
                   updated_instance_count |-> d.global.updated_instance_count
                       - (IF d.chunk[c].state = "updated" THEN d.chunk[c].total ELSE 0),
                   instance_correct_count |-> d.global.instance_correct_count
                       - Cardinality(MetRight(d, c)),
                   acc_weak_instance_count |-> d.global.acc_weak_instance_count
                       - Cardinality(MetPairs(d, c))]
    /\ \A ap \in Labels \X Labels :
          e.confusion[ap] = d.confusion[ap] - Cardinality(MetScan(d, c, ap))

LEMMA WithoutChunkCounters ==
    ASSUME NEW d \in Database, NEW c \in 1..Len(d.chunk)
    PROVE  CountsDropped(d, WithoutChunk(d, c), c)
  BY DEF WithoutChunk, Database, CountsDropped, MetRight, MetPairs, MetScan

LEMMA DroppedCounters ==
    ASSUME NEW d \in Database, NEW e \in Database, WeakFits(d), WeakFits(e),
           ChunksFit(d), Verdicts(d), Counters(d, Cardinality(Updated(d))),
           NEW c \in Chunks(d, {"new", "updated"}), e = WithoutChunk(d, c)
    PROVE  Counters(e, Cardinality(Updated(e)))
  <1>. DEFINE rows == RowsOf(d, c)
              met == Met(d, c)
              hits == MetRight(d, c)
              weakened == MetPairs(d, c)
              scan(ap) == MetScan(d, c, ap)
  <1>1. c \in 1..Len(d.chunk)
    BY DEF Chunks
  <1>2. RowsDropped(d, e, c)
    BY <1>1, WithoutChunkRows
  <1>3. /\ met = rows \cap Updated(d) /\ rows \subseteq Stored(d)
        /\ d.chunk[c].state = "updated" => met = rows
        /\ d.chunk[c].state # "updated" => met = {}
        /\ \A i \in rows : i \notin met => d.instance[i].weak = {}
    BY MetRows
  <1>4. CountsDropped(d, e, c)
    BY <1>1, WithoutChunkCounters
  <1>. HIDE DEF met, hits, weakened, scan
  <1>5. /\ e.instance = d.instance /\ Len(e.chunk) = Len(d.chunk)
        /\ \A k \in 1..Len(d.chunk) : /\ k # c => e.chunk[k] = d.chunk[k]
                                      /\ e.chunk[k].total = d.chunk[k].total
        /\ e.chunk[c].state = "removed" /\ TreeLasts(d, e)
    BY <1>2 DEF RowsDropped
  <1>6. /\ Chunks(e, {"new", "updated"}) = Chunks(d, {"new", "updated"}) \ {c}
        /\ \A k : RowsOf(e, k) = RowsOf(d, k)
    BY <1>1, <1>5 DEF Chunks, RowsOf
  <1>7. /\ \A i \in 1..Len(d.instance) : i \notin rows =>
              e.chunk[e.instance[i].chunk] = d.chunk[d.instance[i].chunk]
        /\ \A i \in rows : i \in 1..Len(d.instance) /\ e.chunk[e.instance[i].chunk].state = "removed"
    BY <1>5 DEF RowsOf, ChunksFit
  <1>. HIDE DEF rows
  <1>8. Stored(d) = Stored(e) \cup rows /\ Stored(e) \cap rows = {}
    <2>1. Stored(e) = Stored(d) \ rows
      BY <1>5, <1>7 DEF Stored, Rows
    <2>. QED  BY <1>3, <2>1
  <1>9. Updated(d) = Updated(e) \cup met /\ Updated(e) \cap met = {}
    <2>1. Updated(e) = Updated(d) \ rows
      BY <1>5, <1>7 DEF Updated, Rows
    <2>. QED  BY <1>3, <2>1
  <1>10. \A i \in Updated(d) : /\ d.instance[i].correct = (d.instance[i].y = LabelOf(d, i))
                               /\ LabelOf(e, i) = LabelOf(d, i)
    <2>1. \A i \in Updated(d) : Referred(d, i) /\ e.instance[i] = d.instance[i]
      BY <1>5 DEF Verdicts
    <2>. QED  BY <1>5, <2>1, VerdictLasts DEF Referred
  <1>11. Right(d) = Right(e) \cup hits /\ Right(e) \cap hits = {}
    BY <1>5, <1>9, <1>10 DEF Right, hits, MetRight, met
  <1>12. \A ap : Scan(d, ap) = Scan(e, ap) \cup scan(ap) /\ Scan(e, ap) \cap scan(ap) = {}
    BY <1>5, <1>9, <1>10 DEF Scan, scan, MetScan, met
  <1>13. Pairs(d) = Pairs(e) \cup weakened /\ Pairs(e) \cap weakened = {}
    <2>1. \A q : q \in Pairs(d) <=> q \in Pairs(e) \/ q \in weakened
      BY <1>3, <1>5, <1>8 DEF Pairs, weakened, MetPairs, met
    <2>2. \A q \in Pairs(e) : q[1] \in Stored(e)
      BY DEF Pairs
    <2>3. \A q \in weakened : q[1] \in rows
      BY <1>3 DEF weakened, MetPairs, met
    <2>. QED  BY <1>8, <2>1, <2>2, <2>3
  <1>14. TotalsMatch(e)
    BY <1>5, <1>6 DEF Counters, TotalsMatch, Chunks
  <1>15. d.chunk[c].total = Cardinality(rows)
    BY DEF Counters, TotalsMatch, rows
  <1>16. Globals(e, Cardinality(Updated(e)))
    <2>1. IsFiniteSet(Stored(d))
      BY RowsFinite
    <2>2. IsFiniteSet(Updated(d))
      BY RowsFinite
    <2>3. IsFiniteSet(Right(d))
      BY RowsFinite
    <2>4. IsFiniteSet(Pairs(d))
      BY RowsFinite
    <2>5. /\ Cardinality(Stored(d)) = Cardinality(Stored(e)) + Cardinality(rows)
          /\ Cardinality(Stored(e)) \in Nat /\ Cardinality(rows) \in Nat
      BY <1>8, <2>1, Parted
    <2>6. /\ Cardinality(Updated(d)) = Cardinality(Updated(e)) + Cardinality(met)
          /\ Cardinality(Updated(e)) \in Nat /\ Cardinality(met) \in Nat
      BY <1>9, <2>2, Parted
    <2>7. /\ Cardinality(Right(d)) = Cardinality(Right(e)) + Cardinality(hits)
          /\ Cardinality(Right(e)) \in Nat /\ Cardinality(hits) \in Nat
      <3>. DEFINE new == Right(e)
                  old == Right(d)
      <3>1. old = new \cup hits /\ new \cap hits = {} /\ IsFiniteSet(old)
        BY <1>11, <2>3
      <3>. HIDE DEF new, old
      <3>2. /\ Cardinality(old) = Cardinality(new) + Cardinality(hits)
            /\ Cardinality(new) \in Nat /\ Cardinality(hits) \in Nat
        BY <3>1, Parted
      <3>. QED  BY <3>2 DEF new, old
    <2>8. /\ Cardinality(Pairs(d)) = Cardinality(Pairs(e)) + Cardinality(weakened)
          /\ Cardinality(Pairs(e)) \in Nat /\ Cardinality(weakened) \in Nat
      <3>. DEFINE new == Pairs(e)
                  old == Pairs(d)
      <3>1. old = new \cup weakened /\ new \cap weakened = {} /\ IsFiniteSet(old)
        BY <1>13, <2>4
      <3>. HIDE DEF new, old
      <3>2. /\ Cardinality(old) = Cardinality(new) + Cardinality(weakened)
            /\ Cardinality(new) \in Nat /\ Cardinality(weakened) \in Nat
        BY <3>1, Parted
      <3>. QED  BY <3>2 DEF new, old
    <2>9. Cardinality(met) = IF d.chunk[c].state = "updated" THEN d.chunk[c].total ELSE 0
      BY <1>3, <1>15, FS_EmptySet
    <2>10. e.global = [instance_count |-> Cardinality(Stored(d)) - Cardinality(rows),
                       updated_instance_count |-> Cardinality(Updated(d)) - Cardinality(met),
                       instance_correct_count |-> Cardinality(Right(d)) - Cardinality(hits),
                       acc_weak_instance_count |-> Cardinality(Pairs(d)) - Cardinality(weakened)]
      BY <1>4, <1>15, <2>9 DEF Counters, Globals, CountsDropped, hits, weakened
    <2>11. /\ Cardinality(Stored(d)) - Cardinality(rows) = Cardinality(Stored(e))
           /\ Cardinality(Updated(d)) - Cardinality(met) = Cardinality(Updated(e))
           /\ Cardinality(Right(d)) - Cardinality(hits) = Cardinality(Right(e))
           /\ Cardinality(Pairs(d)) - Cardinality(weakened) = Cardinality(Pairs(e))
      BY <2>5, <2>6, <2>7, <2>8
    <2>. QED  BY <2>10, <2>11 DEF Globals
  <1>17. Covers(e)
    <2>. SUFFICES ASSUME NEW ap \in Labels \X Labels
                  PROVE  e.confusion[ap] >= Cardinality(Scan(e, ap))
      BY DEF Covers
    <2>1. IsFiniteSet(Scan(d, ap))
      BY RowsFinite
    <2>2. /\ Cardinality(Scan(d, ap)) = Cardinality(Scan(e, ap)) + Cardinality(scan(ap))
          /\ Cardinality(Scan(e, ap)) \in Nat /\ Cardinality(scan(ap)) \in Nat
      <3>1. Scan(d, ap) = Scan(e, ap) \cup scan(ap) /\ Scan(e, ap) \cap scan(ap) = {}
        BY <1>12
      <3>. QED  BY <2>1, <3>1, Parted
    <2>3. d.confusion[ap] >= Cardinality(Scan(d, ap)) /\ d.confusion[ap] \in Int
      BY DEF Counters, Covers, Database
    <2>4. e.confusion[ap] = d.confusion[ap] - Cardinality(scan(ap))
      BY <1>4 DEF CountsDropped, scan
    <2>. QED  BY <2>2, <2>3, <2>4
  <1>18. Updated(e) # {} => e.generation # <<>>
    BY <1>4, <1>9 DEF Counters, CountsDropped
  <1>. QED  BY <1>14, <1>16, <1>17, <1>18 DEF Counters

LEMMA RemoveOldestCounters ==
    ASSUME VerdictInv, CounterInv, RemoveOldest
    PROVE  CounterInv'
  <1>1. CASE pc' = "throw" /\ UNCHANGED <<disk, db>>
    BY <1>1, QuietCounters
  <1>2. CASE db' = WithoutChunk(db, Oldest) /\ UNCHANGED <<pc, disk>>
    <2>1. /\ pc = "limit" /\ db \in Database /\ Verdicts(db) /\ ChunksFit(db)
          /\ Counters(db, Cardinality(Updated(db)) + 0) /\ Early' = 0 /\ WeakFits(db)
      BY <1>2, Typed DEF RemoveOldest, VerdictInv, VerdictPart, StageVerdicts, CacheInv,
         Inductive, CounterInv, Early
    <2>2. db' \in Database /\ WeakFits(db')
      BY RemoveOldestStep DEF VerdictInv, CacheInv, Inductive, TypeOK
    <2>3. Oldest \in Chunks(db, {"new", "updated"})
      BY <2>1, OldestChunk DEF RemoveOldest
    <2>4. /\ Cardinality(Updated(db)) \in Nat /\ Cardinality(Updated(db')) \in Nat
      BY <2>1, <2>2, RowsFinite DEF Updated
    <2>5. Counters(db, Cardinality(Updated(db)))
      BY <2>1, <2>4
    <2>6. Counters(db', Cardinality(Updated(db')))
      BY <1>2, <2>1, <2>2, <2>3, <2>5, DroppedCounters
    <2>7. Counters(db', Cardinality(Updated(db')) + Early')
      BY <2>1, <2>4, <2>6
    <2>. QED  BY <1>2, <2>1, <2>7 DEF CounterInv
  <1>. QED  BY <1>1, <1>2 DEF RemoveOldest

-----------------------------------------------------------------------------
(* The end of update.                                                        *)

\* Counting records is counting the rows they are of.
Judgements == {r \in job.routed : r.actual = r.predicted}
JudgedAs(ap) == {r \in job.routed : <<r.actual, r.predicted>> = ap}
OfChunk(c) == {r \in job.routed : db.instance[r.instance].chunk = c}

LEMMA RoutedCounted ==
    ASSUME RoutedMatch, job.todo = {}, IsFiniteSet(job.routed)
    PROVE  LET new == Rows(db, {"new"})
           IN  /\ Cardinality(job.routed) = Cardinality(new)
               /\ Cardinality(Judgements)
                    = Cardinality({i \in new : db.instance[i].y = LabelOf(db, i)})
               /\ \A ap : Cardinality(JudgedAs(ap))
                    = Cardinality({i \in new : <<db.instance[i].y, LabelOf(db, i)>> = ap})
               /\ \A c : Cardinality(OfChunk(c))
                    = Cardinality({i \in new : db.instance[i].chunk = c})
  <1>. DEFINE new == Rows(db, {"new"})
  <1>1. /\ {r.instance : r \in job.routed} = new
        /\ \A r, q \in job.routed : r.instance = q.instance => r = q
        /\ \A r \in job.routed : /\ r.actual = db.instance[r.instance].y
                                 /\ r.predicted = LabelOf(db, r.instance)
    BY DEF RoutedMatch
  <1>. HIDE DEF new
  <1>2. ASSUME NEW R \in SUBSET job.routed, NEW I, I = {r.instance : r \in R}
        PROVE  Cardinality(R) = Cardinality(I)
    <2>1. IsFiniteSet(R)
      BY FS_Subset
    <2>2. \A r, q \in R : r.instance = q.instance => r = q
      BY <1>1
    <2>. QED  BY <1>2, <2>1, <2>2, OneRecordEach
  <1>3. Cardinality(job.routed) = Cardinality(new)
    BY <1>1, <1>2
  <1>4. Cardinality(Judgements) = Cardinality({i \in new : db.instance[i].y = LabelOf(db, i)})
    <2>1. {i \in new : db.instance[i].y = LabelOf(db, i)} = {r.instance : r \in Judgements}
      BY <1>1 DEF Judgements
    <2>2. Judgements \in SUBSET job.routed
      BY DEF Judgements
    <2>. QED  BY <1>2, <2>1, <2>2
  <1>5. ASSUME NEW ap
        PROVE  Cardinality(JudgedAs(ap))
                 = Cardinality({i \in new : <<db.instance[i].y, LabelOf(db, i)>> = ap})
    <2>1. {i \in new : <<db.instance[i].y, LabelOf(db, i)>> = ap} = {r.instance : r \in JudgedAs(ap)}
      BY <1>1 DEF JudgedAs
    <2>2. JudgedAs(ap) \in SUBSET job.routed
      BY DEF JudgedAs
    <2>. QED  BY <1>2, <2>1, <2>2
  <1>6. ASSUME NEW c
        PROVE  Cardinality(OfChunk(c)) = Cardinality({i \in new : db.instance[i].chunk = c})
    <2>1. {i \in new : db.instance[i].chunk = c} = {r.instance : r \in OfChunk(c)}
      BY <1>1 DEF OfChunk
    <2>2. OfChunk(c) \in SUBSET job.routed
      BY DEF OfChunk
    <2>. QED  BY <1>2, <2>1, <2>2
  <1>. QED  BY <1>3, <1>4, <1>5, <1>6 DEF new

LEMMA FinishCounters ==
    ASSUME db \in Database, UpdateFinish
    PROVE  /\ db'.generation = db.generation
           /\ db'.global = [instance_count |-> db.global.instance_count,
                            updated_instance_count |-> db.global.updated_instance_count
                                + (IF job.building THEN 0 ELSE Cardinality(job.routed)),
                            instance_correct_count |-> db.global.instance_correct_count
                                + Cardinality(Judgements),
                            acc_weak_instance_count |-> db.global.acc_weak_instance_count]
           /\ \A ap \in Labels \X Labels :
                 db'.confusion[ap] = db.confusion[ap] + Cardinality(JudgedAs(ap))
  BY DEF UpdateFinish, Database, Global, Judgements, JudgedAs

LEMMA UpdateFinishCounters ==
    ASSUME VerdictInv, CounterInv, UpdateFinish
    PROVE  CounterInv'
  <1>. DEFINE new == Rows(db, {"new"})
              hits == {i \in new : db.instance[i].y = LabelOf(db, i)}
              scan(ap) == {i \in new : <<db.instance[i].y, LabelOf(db, i)>> = ap}
              met(c) == {i \in new : db.instance[i].chunk = c}
              d == db
              e == db'
  <1>1. /\ pc = "route" /\ job.todo = {} /\ pc' = "commit" /\ UNCHANGED disk
        /\ d \in Database /\ RoutedVerdicts /\ RoutedMatch /\ ChunksFit(d)
        /\ WeakFits(d) /\ IsFiniteSet(job.routed)
        /\ Counters(d, Cardinality(Updated(d)) + Early) /\ Early' = 0
        /\ Early = IF job.building THEN Cardinality(new) ELSE 0
    BY Typed DEF UpdateFinish, VerdictInv, VerdictPart, StageVerdicts, CacheInv, Inductive,
       JobFits, CounterInv, Early
  <1>2. e \in Database /\ WeakFits(e)
    BY UpdateFinishStep DEF VerdictInv, CacheInv, Inductive, TypeOK
  <1>3. /\ Cardinality(job.routed) = Cardinality(new)
        /\ Cardinality(Judgements) = Cardinality(hits)
        /\ \A ap : Cardinality(JudgedAs(ap)) = Cardinality(scan(ap))
        /\ \A c : Cardinality(OfChunk(c)) = Cardinality(met(c))
    BY <1>1, RoutedCounted
  <1>4. /\ e.generation = d.generation
        /\ e.global = [instance_count |-> d.global.instance_count,
                       updated_instance_count |-> d.global.updated_instance_count
                           + (IF job.building THEN 0 ELSE Cardinality(job.routed)),
                       instance_correct_count |-> d.global.instance_correct_count
                           + Cardinality(Judgements),
                       acc_weak_instance_count |-> d.global.acc_weak_instance_count]
        /\ \A ap \in Labels \X Labels :
              e.confusion[ap] = d.confusion[ap] + Cardinality(JudgedAs(ap))
    BY <1>1, FinishCounters
  <1>5. /\ e.instance = d.instance /\ Len(e.chunk) = Len(d.chunk)
        /\ \A c \in 1..Len(d.chunk) :
              /\ d.chunk[c].state # "new" => e.chunk[c] = d.chunk[c]
              /\ d.chunk[c].state = "new" => /\ e.chunk[c].state = "updated"
                                             /\ e.chunk[c].total = Cardinality(OfChunk(c))
        /\ TreeLasts(d, e)
    <2>. DEFINE total(c) == Cardinality(OfChunk(c))
                chunk(c) == [state |-> "updated", total |-> total(c)]
    <2>1. /\ e.instance = d.instance /\ Len(e.chunk) = Len(d.chunk)
          /\ \A c \in 1..Len(d.chunk) :
                e.chunk[c] = IF d.chunk[c].state # "new" THEN d.chunk[c] ELSE chunk(c)
          /\ TreeLasts(d, e)
      BY <1>1, FinishRows DEF OfChunk
    <2>2. \A c : chunk(c).state = "updated" /\ chunk(c).total = total(c)
      OBVIOUS
    <2>. HIDE DEF d, e, chunk, total
    <2>3. \A c : chunk(c).state = "updated" /\ chunk(c).total = Cardinality(OfChunk(c))
      BY <2>2 DEF total
    <2>. QED  BY <2>1, <2>3
  <1>6. /\ \A i \in new : Referred(d, i) /\ d.instance[i].weak = {} /\ i \in 1..Len(d.instance)
        /\ \A i \in Updated(d) : Referred(d, i) /\ i \in 1..Len(d.instance)
    BY <1>1 DEF RoutedVerdicts, Rows, Updated
  <1>. HIDE DEF new, hits, scan, met, d, e
  <1>7. \A i \in Updated(d) \cup new : /\ d.instance[i].correct = (d.instance[i].y = LabelOf(d, i))
                                       /\ LabelOf(e, i) = LabelOf(d, i)
    <2>1. \A i \in Updated(d) \cup new : Referred(d, i) /\ e.instance[i] = d.instance[i]
      BY <1>5, <1>6
    <2>. QED  BY <1>1, <1>2, <1>5, <2>1, VerdictLasts DEF Referred
  <1>8. /\ Updated(e) = Updated(d) \cup new /\ Updated(d) \cap new = {}
        /\ Stored(e) = Stored(d)
    <2>1. \A i \in 1..Len(d.instance) : d.instance[i].chunk \in 1..Len(d.chunk)
      BY <1>1 DEF ChunksFit
    <2>2. Updated(e) = Updated(d) \cup new
      BY <1>5, <2>1 DEF Updated, Rows, new, d
    <2>3. Stored(e) = Stored(d)
      BY <1>5, <2>1 DEF Stored, Rows
    <2>4. Updated(d) \cap new = {}
      BY DEF Updated, Rows, new, d
    <2>. QED  BY <2>2, <2>3, <2>4
  <1>9. Right(e) = Right(d) \cup hits /\ Right(d) \cap hits = {}
    BY <1>5, <1>7, <1>8 DEF Right, hits, d
  <1>10. \A ap : Scan(e, ap) = Scan(d, ap) \cup scan(ap) /\ Scan(d, ap) \cap scan(ap) = {}
    BY <1>5, <1>7, <1>8 DEF Scan, scan, d
  <1>11. Pairs(e) = Pairs(d)
    BY <1>5, <1>8 DEF Pairs
  <1>12. TotalsMatch(e)
    <2>1. \A c : RowsOf(e, c) = RowsOf(d, c)
      BY <1>5 DEF RowsOf
    <2>2. TotalsMatch(d)
      BY <1>1 DEF Counters
    <2>3. ASSUME NEW c \in Chunks(e, {"new", "updated"})
          PROVE  e.chunk[c].total = Cardinality(RowsOf(e, c))
      <3>1. c \in 1..Len(d.chunk)
        BY <1>5 DEF Chunks
      <3>2. CASE d.chunk[c].state = "new"
        <4>1. met(c) = RowsOf(d, c)
          BY <3>2 DEF met, RowsOf, Rows, new, d
        <4>. QED  BY <1>3, <1>5, <2>1, <3>1, <3>2, <4>1
      <3>3. CASE d.chunk[c].state # "new"
        <4>1. e.chunk[c] = d.chunk[c] /\ c \in Chunks(d, {"new", "updated"})
          BY <1>5, <3>1, <3>3 DEF Chunks
        <4>. QED  BY <2>1, <2>2, <4>1 DEF TotalsMatch
      <3>. QED  BY <3>2, <3>3
    <2>. QED  BY <1>5, <2>1, <2>2, <2>3 DEF TotalsMatch
  <1>13. Globals(e, Cardinality(Updated(e)))
    <2>. DEFINE u == Updated(e)
                v == Updated(d)
                r == Right(e)
                s == Right(d)
    <2>1. /\ u = v \cup new /\ v \cap new = {} /\ IsFiniteSet(u)
          /\ r = s \cup hits /\ s \cap hits = {} /\ IsFiniteSet(r)
      BY <1>2, <1>8, <1>9, RowsFinite
    <2>. HIDE DEF u, v, r, s
    <2>2. /\ Cardinality(u) = Cardinality(v) + Cardinality(new)
          /\ Cardinality(v) \in Nat /\ Cardinality(new) \in Nat
      BY <2>1, Parted
    <2>3. /\ Cardinality(r) = Cardinality(s) + Cardinality(hits)
          /\ Cardinality(s) \in Nat /\ Cardinality(hits) \in Nat
      BY <2>1, Parted
    <2>4. d.global = [instance_count |-> Cardinality(Stored(d)),
                      updated_instance_count |-> Cardinality(v) + Early,
                      instance_correct_count |-> Cardinality(s),
                      acc_weak_instance_count |-> Cardinality(Pairs(d))]
      BY <1>1 DEF Counters, Globals, v, s
    <2>5. e.global = [instance_count |-> Cardinality(Stored(d)),
                      updated_instance_count |-> Cardinality(u),
                      instance_correct_count |-> Cardinality(r),
                      acc_weak_instance_count |-> Cardinality(Pairs(d))]
      <3>1. (Cardinality(v) + Early) + (IF job.building THEN 0 ELSE Cardinality(new)) = Cardinality(u)
        BY <1>1, <2>2
      <3>. QED  BY <1>3, <1>4, <2>3, <2>4, <3>1
    <2>. QED  BY <1>8, <1>11, <2>5 DEF Globals, u, r
  <1>14. Covers(e)
    <2>. SUFFICES ASSUME NEW ap \in Labels \X Labels
                  PROVE  e.confusion[ap] >= Cardinality(Scan(e, ap))
      BY DEF Covers
    <2>. DEFINE u == Scan(e, ap)
                v == Scan(d, ap)
                new_scan == scan(ap)
    <2>1. u = v \cup new_scan /\ v \cap new_scan = {} /\ IsFiniteSet(u)
      BY <1>2, <1>10, RowsFinite
    <2>2. /\ d.confusion[ap] >= Cardinality(v) /\ d.confusion[ap] \in Int
          /\ e.confusion[ap] = d.confusion[ap] + Cardinality(new_scan)
      BY <1>1, <1>3, <1>4 DEF Counters, Covers, Database
    <2>. HIDE DEF u, v, new_scan
    <2>3. /\ Cardinality(u) = Cardinality(v) + Cardinality(new_scan)
          /\ Cardinality(v) \in Nat /\ Cardinality(new_scan) \in Nat
      BY <2>1, Parted
    <2>4. e.confusion[ap] >= Cardinality(u)
      BY <2>2, <2>3
    <2>. QED  BY <2>4 DEF u
  <1>15. e.generation # <<>>
    <2>1. db.generation # <<>>
      BY <1>1 DEF VerdictInv, CacheInv, TreeInv
    <2>. QED  BY <1>4, <2>1 DEF d
  <1>16. Counters(e, Cardinality(Updated(e)) + Early')
    <2>1. Cardinality(Updated(e)) \in Nat
      BY <1>2, RowsFinite DEF Updated
    <2>. QED  BY <1>1, <1>12, <1>13, <1>14, <1>15, <2>1 DEF Counters
  <1>. QED  BY <1>1, <1>16 DEF CounterInv, e

-----------------------------------------------------------------------------
(* A rebuild is kept.                                                        *)

BeforeAs(ap) == {i \in job.rows : <<db.instance[i].y, LabelOf(db, i)>> = ap}
AfterAs(ap)  == {i \in job.rows : <<db.instance[i].y, NewLabel(i)>> = ap}

LEMMA InstalledCounters ==
    ASSUME db \in Database, RebuildInstall
    PROVE  /\ db'.global = [instance_count |-> db.global.instance_count,
                            updated_instance_count |-> db.global.updated_instance_count,
                            instance_correct_count |-> db.global.instance_correct_count
                                + Cardinality(CorrectAfter) - Cardinality(CorrectBefore),
                            acc_weak_instance_count |-> db.global.acc_weak_instance_count
                                + Cardinality(job.rows)]
           /\ \A ap \in Labels \X Labels : db'.confusion[ap] = db.confusion[ap] + Diff(ap)
  BY DEF RebuildInstall, Database, Global

LEMMA RebuildInstallCounters ==
    ASSUME VerdictInv, CounterInv, RebuildInstall
    PROVE  CounterInv'
  <1>. DEFINE d == db
              e == db'
              rows == job.rows
              before == CorrectBefore
              after == CorrectAfter
              g == Len(db.generation)
  <1>1. /\ pc = "judge" /\ pc' = "commit" /\ UNCHANGED disk /\ Early' = 0 /\ Early = 0
        /\ d \in Database /\ TrainedVerdicts /\ ChunksFit(d) /\ CacheInv /\ WeakFits(disk)
        /\ WeakFits(d) /\ rows \subseteq Updated(d) /\ rows \subseteq 1..Len(d.instance)
        /\ Counters(d, Cardinality(Updated(d)) + Early)
        /\ g = Len(disk.generation) + 1 /\ disk \in Database
    BY Typed DEF RebuildInstall, VerdictInv, VerdictPart, StageVerdicts, CacheInv, Inductive,
       JobFits, CounterInv, Early, TrainedVerdicts
  <1>2. e \in Database /\ WeakFits(e)
    BY RebuildInstallStep DEF VerdictInv, CacheInv, Inductive, TypeOK
  <1>3. /\ Len(e.instance) = Len(d.instance) /\ e.chunk = d.chunk
        /\ \A i \in 1..Len(d.instance) : i \notin rows => e.instance[i] = d.instance[i]
        /\ \A i \in rows :
              /\ e.instance[i].ref = NewRef(i) /\ e.instance[i].y = d.instance[i].y
              /\ e.instance[i].chunk = d.instance[i].chunk
              /\ e.instance[i].correct = (i \in after)
              /\ e.instance[i].weak = d.instance[i].weak \cup {g}
    BY <1>1, InstalledRows
  <1>4. TreeSame(d, e) /\ TreeLasts(d, e)
    BY <1>1, InstalledTree, SameLasts
  <1>5. /\ e.global = [instance_count |-> d.global.instance_count,
                       updated_instance_count |-> d.global.updated_instance_count,
                       instance_correct_count |-> d.global.instance_correct_count
                           + Cardinality(after) - Cardinality(before),
                       acc_weak_instance_count |-> d.global.acc_weak_instance_count
                           + Cardinality(rows)]
        /\ \A ap \in Labels \X Labels : e.confusion[ap] = d.confusion[ap] + Diff(ap)
    BY <1>1, InstalledCounters
  <1>6. \A i \in rows : LabelOf(e, i) = NewLabel(i)
    BY <1>3, <1>4 DEF LabelOf, LeafId, NewLabel, TreeSame
  <1>7. /\ before = {i \in rows : d.instance[i].correct} /\ after \subseteq rows
    BY DEF CorrectBefore, CorrectAfter
  <1>8. \A i \in Updated(d) : Referred(d, i) /\ i \in 1..Len(d.instance)
    BY <1>1 DEF TrainedVerdicts, Updated, Rows
  <1>9. \A i \in 1..Len(d.instance) : d.instance[i].weak \subseteq 1..Len(disk.generation)
    BY <1>1 DEF WeakFits, TrainedVerdicts
  <1>. HIDE DEF d, e, rows, before, after, g
  <1>10. /\ \A states : Rows(e, states) = Rows(d, states) /\ Chunks(e, states) = Chunks(d, states)
         /\ Stored(e) = Stored(d) /\ Updated(e) = Updated(d)
         /\ \A c : RowsOf(e, c) = RowsOf(d, c)
    <2>1. \A i \in 1..Len(d.instance) : e.instance[i].chunk = d.instance[i].chunk
      BY <1>3
    <2>. QED  BY <1>3, <2>1 DEF Rows, Chunks, Stored, Updated, RowsOf
  <1>11. \A i \in Updated(d) : i \notin rows => /\ e.instance[i] = d.instance[i]
                                               /\ LabelOf(e, i) = LabelOf(d, i)
    BY <1>1, <1>2, <1>3, <1>4, <1>8, VerdictLasts
  <1>12. TotalsMatch(e)
    BY <1>1, <1>3, <1>10 DEF Counters, TotalsMatch
  <1>13. /\ Cardinality(Right(e)) = Cardinality(Right(d)) + Cardinality(after) - Cardinality(before)
    <2>. DEFINE u == Right(e)
                v == Right(d)
                rest == v \ before
    <2>1. u = rest \cup after /\ rest \cap after = {} /\ IsFiniteSet(u)
      <3>1. \A i : i \in u <=> i \in rest \/ i \in after
        BY <1>1, <1>3, <1>7, <1>10, <1>11 DEF Right
      <3>2. rest \cap after = {}
        BY <1>7 DEF Right
      <3>. QED  BY <1>2, <3>1, <3>2, RowsFinite
    <2>2. v = rest \cup before /\ rest \cap before = {} /\ IsFiniteSet(v)
      BY <1>1, <1>7, RowsFinite DEF Right
    <2>. HIDE DEF u, v, rest
    <2>3. /\ Cardinality(u) = Cardinality(rest) + Cardinality(after)
          /\ Cardinality(rest) \in Nat /\ Cardinality(after) \in Nat
      BY <2>1, Parted
    <2>4. /\ Cardinality(v) = Cardinality(rest) + Cardinality(before)
          /\ Cardinality(before) \in Nat
      BY <2>2, Parted
    <2>5. Cardinality(u) = Cardinality(v) + Cardinality(after) - Cardinality(before)
      BY <2>3, <2>4
    <2>. QED  BY <2>5 DEF u, v
  <1>14. Cardinality(Pairs(e)) = Cardinality(Pairs(d)) + Cardinality(rows)
    <2>. DEFINE u == Pairs(e)
                v == Pairs(d)
                w == rows \X {g}
    <2>1. u = v \cup w /\ v \cap w = {}
      <3>1. rows \subseteq Stored(d)
        BY <1>1 DEF Updated, Stored, Rows
      <3>2. \A q : q \in u <=> q \in v \/ q \in w
        <4>1. \A i \in Stored(d) : e.instance[i].weak = IF i \in rows THEN d.instance[i].weak \cup {g}
                                                        ELSE d.instance[i].weak
          BY <1>3 DEF Stored, Rows
        <4>2. \A q : q \in u <=> \E i \in Stored(d) : q \in {i} \X e.instance[i].weak
          BY <1>10 DEF Pairs
        <4>3. \A q : q \in v <=> \E i \in Stored(d) : q \in {i} \X d.instance[i].weak
          BY DEF Pairs
        <4>4. \A q : q \in w <=> \E i \in rows : q = <<i, g>>
          OBVIOUS
        <4>5. \A i, q, S : q \in {i} \X (S \cup {g}) <=> q \in {i} \X S \/ q = <<i, g>>
          OBVIOUS
        <4>. HIDE DEF u, v, w
        <4>6. ASSUME NEW i \in Stored(d), NEW q
              PROVE  q \in {i} \X e.instance[i].weak
                       <=> q \in {i} \X d.instance[i].weak \/ (i \in rows /\ q = <<i, g>>)
          <5>. DEFINE W == d.instance[i].weak
                      V == e.instance[i].weak
          <5>1. V = IF i \in rows THEN W \cup {g} ELSE W
            BY <4>1
          <5>. HIDE DEF V, W
          <5>2. q \in {i} \X V <=> q \in {i} \X W \/ (i \in rows /\ q = <<i, g>>)
            BY <4>5, <5>1
          <5>. QED  BY <5>2 DEF V, W
        <4>7. ASSUME NEW q \in u PROVE q \in v \/ q \in w
          <5>1. PICK i \in Stored(d) : q \in {i} \X e.instance[i].weak
            BY <4>2
          <5>2. q \in {i} \X d.instance[i].weak \/ (i \in rows /\ q = <<i, g>>)
            BY <4>6, <5>1
          <5>. QED  BY <4>3, <4>4, <5>2, Zenon
        <4>8. ASSUME NEW q \in v PROVE q \in u
          <5>1. PICK i \in Stored(d) : q \in {i} \X d.instance[i].weak
            BY <4>3
          <5>2. q \in {i} \X e.instance[i].weak
            BY <4>6, <5>1
          <5>. QED  BY <4>2, <5>2, Zenon
        <4>9. ASSUME NEW q \in w PROVE q \in u
          <5>1. PICK i \in rows : q = <<i, g>>
            BY <4>4
          <5>2. i \in Stored(d) /\ q \in {i} \X e.instance[i].weak
            BY <3>1, <4>6, <5>1
          <5>. QED  BY <4>2, <5>2, Zenon
        <4>. QED  BY <4>7, <4>8, <4>9
      <3>3. \A q \in v : q[2] \in 1..Len(disk.generation)
        <4>1. \A i \in Stored(d) : d.instance[i].weak \subseteq 1..Len(disk.generation)
          BY <1>9 DEF Stored, Rows
        <4>. QED  BY <4>1 DEF Pairs
      <3>4. g \notin 1..Len(disk.generation)
        BY <1>1, Lengths
      <3>. QED  BY <3>2, <3>3, <3>4
    <2>2. IsFiniteSet(u)
      BY <1>2, RowsFinite
    <2>3. Cardinality(w) = Cardinality(rows)
      <3>1. IsFiniteSet(rows)
        <4>1. IsFiniteSet(Updated(d))
          BY <1>1, RowsFinite
        <4>. QED  BY <1>1, <4>1, FS_Subset
      <3>2. IsFiniteSet({g}) /\ Cardinality({g}) = 1
        BY FS_Singleton
      <3>3. Cardinality(w) = Cardinality(rows) * 1 /\ Cardinality(rows) \in Nat
        BY <3>1, <3>2, FS_Product, FS_CardinalityType
      <3>. QED  BY <3>3
    <2>. HIDE DEF u, v, w
    <2>4. Cardinality(u) = Cardinality(v) + Cardinality(w)
      BY <2>1, <2>2, Parted
    <2>. QED  BY <2>3, <2>4 DEF u, v
  <1>15. Globals(e, Cardinality(Updated(e)))
    <2>1. Cardinality(Updated(d)) \in Nat
      BY <1>1, RowsFinite DEF Updated
    <2>2. d.global = [instance_count |-> Cardinality(Stored(d)),
                      updated_instance_count |-> Cardinality(Updated(d)),
                      instance_correct_count |-> Cardinality(Right(d)),
                      acc_weak_instance_count |-> Cardinality(Pairs(d))]
      BY <1>1, <2>1 DEF Counters, Globals
    <2>. QED  BY <1>5, <1>10, <1>13, <1>14, <2>2 DEF Globals
  <1>16. Covers(e)
    <2>. SUFFICES ASSUME NEW ap \in Labels \X Labels
                  PROVE  e.confusion[ap] >= Cardinality(Scan(e, ap))
      BY DEF Covers
    <2>. DEFINE u == Scan(e, ap)
                v == Scan(d, ap)
                old == BeforeAs(ap)
                new == AfterAs(ap)
                rest == v \ old
    <2>1. u = rest \cup new /\ rest \cap new = {} /\ IsFiniteSet(u)
      <3>1. \A i : i \in u <=> i \in rest \/ i \in new
        BY <1>1, <1>3, <1>6, <1>10, <1>11 DEF Scan, BeforeAs, AfterAs, d, rows
      <3>2. rest \cap new = {}
        BY DEF Scan, BeforeAs, AfterAs, d
      <3>. QED  BY <1>2, <3>1, <3>2, RowsFinite
    <2>2. v = rest \cup old /\ rest \cap old = {} /\ IsFiniteSet(v)
      BY <1>1, RowsFinite DEF Scan, BeforeAs, d, rows
    <2>3. /\ d.confusion[ap] >= Cardinality(v) /\ d.confusion[ap] \in Int
          /\ e.confusion[ap] = d.confusion[ap]
               + (IF Cardinality(new) # 0 THEN Cardinality(new) - Cardinality(old)
                  ELSE Cardinality(old))
      BY <1>1, <1>5 DEF Counters, Covers, Database, Diff, Before, After, BeforeAs, AfterAs
    <2>. HIDE DEF u, v, old, new, rest
    <2>4. /\ Cardinality(u) = Cardinality(rest) + Cardinality(new)
          /\ Cardinality(rest) \in Nat /\ Cardinality(new) \in Nat
      BY <2>1, Parted
    <2>5. /\ Cardinality(v) = Cardinality(rest) + Cardinality(old)
          /\ Cardinality(old) \in Nat
      BY <2>2, Parted
    <2>6. e.confusion[ap] >= Cardinality(u)
      BY <2>3, <2>4, <2>5
    <2>. QED  BY <2>6 DEF u
  <1>17. Updated(e) # {} => e.generation # <<>>
    BY <1>1, <1>4, <1>10 DEF Counters, TreeSame
  <1>18. Counters(e, Cardinality(Updated(e)) + Early')
    <2>1. Cardinality(Updated(e)) \in Nat
      BY <1>2, RowsFinite DEF Updated
    <2>. QED  BY <1>1, <1>12, <1>15, <1>16, <1>17, <2>1 DEF Counters
  <1>. QED  BY <1>1, <1>18 DEF CounterInv, e

-----------------------------------------------------------------------------
(* The theorems.                                                             *)

LEMMA InitCounters == Init => CounterInv
  <1>. SUFFICES ASSUME Init PROVE CounterInv
    OBVIOUS
  <1>1. /\ disk = EmptyDatabase /\ db = EmptyDatabase /\ pc = "idle"
        /\ Len(EmptyDatabase.instance) = 0 /\ Len(EmptyDatabase.chunk) = 0
    BY DEF Init, EmptyDatabase
  <1>. DEFINE d == EmptyDatabase
  <1>2. /\ Stored(d) = {} /\ Updated(d) = {} /\ Right(d) = {} /\ Pairs(d) = {}
        /\ \A ap : Scan(d, ap) = {}
    <2>1. Stored(d) = {} /\ Updated(d) = {}
      BY <1>1 DEF Stored, Updated, Rows
    <2>. QED  BY <2>1 DEF Right, Pairs, Scan
  <1>3. TotalsMatch(d)
    BY <1>1 DEF TotalsMatch, Chunks
  <1>4. Cardinality({}) = 0
    BY FS_EmptySet
  <1>5. /\ d.global = [instance_count |-> 0, updated_instance_count |-> 0,
                       instance_correct_count |-> 0, acc_weak_instance_count |-> 0]
        /\ \A ap \in Labels \X Labels : d.confusion[ap] = 0
    BY DEF EmptyDatabase
  <1>. HIDE DEF d
  <1>6. Globals(d, 0) /\ Covers(d)
    BY <1>2, <1>4, <1>5 DEF Globals, Covers
  <1>7. Counters(d, 0)
    BY <1>2, <1>3, <1>6 DEF Counters
  <1>8. Cardinality(Updated(d)) = 0 /\ Cardinality(Updated(d)) + 0 = 0 /\ Early = 0
    BY <1>1, <1>2, <1>4 DEF Early
  <1>. QED  BY <1>1, <1>7, <1>8 DEF CounterInv, d

LEMMA NextCounters ==
    ASSUME VerdictInv, CounterInv, [Next]_vars
    PROVE  CounterInv'
  <1>1. CASE UNCHANGED vars
    <2>1. UNCHANGED <<disk, db, pc, job>>
      BY <1>1 DEF vars
    <2>2. Early' = Early /\ (RoutedMatch' <=> RoutedMatch)
      BY <2>1 DEF Early, RoutedMatch
    <2>. QED  BY <2>1, <2>2 DEF CounterInv
  <1>2. CASE Begin
    BY <1>2, InsertCounters, UpdateBeginCounters, RebuildBeginCounters, EasyCounters DEF Begin
  <1>3. CASE Step
    BY <1>3, RemoveOldestCounters, GrowCounters, WalkCounters, ArriveCounters, RuleAddCounters,
       UpdateFinishCounters, RebuildInstallCounters, EasyCounters DEF Step
  <1>4. CASE Fault \/ Restart
    BY <1>4, EasyCounters
  <1>. QED  BY <1>1, <1>2, <1>3, <1>4 DEF Next

LEMMA CountersHold == ASSUME ReopenAfterFailure PROVE Spec => [](VerdictInv /\ CounterInv)
  <1>. DEFINE Inv == VerdictInv /\ CounterInv
  <1>1. Init => Inv
    BY InitVerdicts, InitCounters
  <1>2. Inv /\ [Next]_vars => Inv'
    BY NextVerdicts, NextCounters
  <1>. QED  BY <1>1, <1>2, PTL DEF Spec

\* verify_global and verify_etc_2: in every database that is ever committed the global
\* counters, which insert, update, rebuild and remove_chunk keep by increments, are
\* what a scan of the rows finds, for a caller that opens a new object after an
\* exception.
THEOREM GlobalsStayMatched == ASSUME ReopenAfterFailure PROVE Spec => []GlobalsMatch
  <1>1. ASSUME VerdictInv, CounterInv PROVE GlobalsMatch
    <2>1. Verdicts(disk) /\ Globals(disk, Cardinality(Updated(disk)))
      BY <1>1 DEF VerdictInv, VerdictPart, CounterInv, Counters
    <2>2. Right(disk) = {i \in Stored(disk) : disk.instance[i].correct}
      <3>1. \A i \in Stored(disk) : i \in Updated(disk) \/ i \in Rows(disk, {"new"})
        BY DEF Stored, Updated, Rows
      <3>2. \A i \in Stored(disk) : disk.instance[i].correct => i \in Updated(disk)
        BY <2>1, <3>1 DEF Verdicts, Fresh
      <3>3. Updated(disk) \subseteq Stored(disk)
        BY DEF Stored, Updated, Rows
      <3>. QED  BY <3>2, <3>3 DEF Right
    <2>. QED  BY <2>1, <2>2 DEF Globals, GlobalsMatch, Pairs
  <1>. QED  BY <1>1, CountersHold, PTL

\* What is left of verify_etc_6, and verify_etc_3: no cell of the committed global
\* confusion matrix is below the number of instances it stands for, so that what
\* remove_chunk takes away of it never makes it negative.
THEOREM ConfusionStaysCovered == ASSUME ReopenAfterFailure PROVE Spec => []ConfusionCovers
  <1>1. ASSUME CounterInv PROVE ConfusionCovers
    <2>1. Covers(disk)
      BY <1>1 DEF CounterInv, Counters
    <2>. QED  BY <2>1 DEF Covers, ConfusionCovers, Scanned, Scan
  <1>. QED  BY <1>1, CountersHold, PTL

\* The checks of remove_chunk never fail: the rows it meets of an updated chunk are as
\* many as the chunk counts, and no counter comes out below zero.
THEOREM RemovalSucceeds ==
    ASSUME ReopenAfterFailure
    PROVE  Spec => [](pc = "limit" /\ MayRemove => ~RemovalFails(db, Oldest))
  <1>. DEFINE Never == pc = "limit" /\ MayRemove => ~RemovalFails(db, Oldest)
  <1>1. ASSUME VerdictInv, CounterInv, pc = "limit", MayRemove
        PROVE  ~RemovalFails(db, Oldest)
    <2>. DEFINE c == Oldest
                e == WithoutChunk(db, c)
    <2>1. /\ db \in Database /\ WeakFits(db) /\ Verdicts(db) /\ ChunksFit(db)
          /\ Counters(db, Cardinality(Updated(db)) + 0)
      BY <1>1, Typed DEF VerdictInv, VerdictPart, StageVerdicts, CacheInv, Inductive,
         CounterInv, Early
    <2>2. c \in Chunks(db, {"new", "updated"}) /\ c \in 1..Len(db.chunk)
      BY <1>1, <2>1, OldestChunk
    <2>3. Cardinality(Updated(db)) \in Nat
      BY <2>1, RowsFinite DEF Updated
    <2>4. Counters(db, Cardinality(Updated(db)))
      BY <2>1, <2>3
    <2>. HIDE DEF c
    <2>5. e \in Database /\ WeakFits(e)
      BY <2>1, <2>2, WithoutChunkTyped DEF Kept
    <2>. HIDE DEF e
    <2>6. Counters(e, Cardinality(Updated(e)))
      BY <2>1, <2>2, <2>4, <2>5, DroppedCounters DEF e
    <2>7. /\ IsFiniteSet(Stored(e)) /\ IsFiniteSet(Updated(e)) /\ IsFiniteSet(Right(e))
          /\ IsFiniteSet(Pairs(e))
      BY <2>5, RowsFinite
    <2>8. /\ Cardinality(Stored(e)) \in Nat /\ Cardinality(Updated(e)) \in Nat
          /\ Cardinality(Right(e)) \in Nat /\ Cardinality(Pairs(e)) \in Nat
      BY <2>7, FS_CardinalityType
    <2>9. /\ e.global.instance_count >= 0 /\ e.global.updated_instance_count >= 0
          /\ e.global.instance_correct_count >= 0 /\ e.global.acc_weak_instance_count >= 0
      BY <2>6, <2>8 DEF Counters, Globals
    <2>10. db.chunk[c].state = "updated" => db.chunk[c].total = Cardinality(Met(db, c))
      BY <2>1, <2>2, <2>4, MetRows DEF Counters, TotalsMatch
    <2>11. ~RemovalFails(db, c)
      BY <2>5, <2>9, <2>10 DEF RemovalFails, e, Database, Global
    <2>. QED  BY <2>11 DEF c
  <1>2. VerdictInv /\ CounterInv => Never
    BY <1>1
  <1>. QED  BY <1>2, CountersHold, PTL

-----------------------------------------------------------------------------
(* The ledger: what an operation has done so far to the rows and the chunks.  *)

Gone(d) == Chunks(d, {"removed"})

\* Chunks go oldest first.
Downward(d) == \A c \in Gone(d) : \A b \in 1..c : b \in Gone(d)

\* With the rows that e adds to d the limit is exceeded.
Exceeds(d, e) == Cardinality(Stored(d)) + Len(e.instance) - Len(d.instance) > Upper

\* A chunk was inserted, and old ones dropped when that was too much.
Inserted(d, e) ==
    /\ Len(e.chunk) = Len(d.chunk) + 1 /\ Len(e.instance) > Len(d.instance)
    /\ \A i \in 1..Len(d.instance) : e.instance[i] = d.instance[i]
    /\ \A i \in 1..Len(e.instance) :
          i \notin 1..Len(d.instance) => e.instance[i].chunk = Len(e.chunk)
    /\ \A c \in 1..Len(d.chunk) : e.chunk[c].state \in {d.chunk[c].state, "removed"}
    /\ e.chunk[Len(e.chunk)].state \in {"new", "removed"}
    /\ Downward(e)
    /\ Gone(e) # Gone(d) => LimitUse /\ Cardinality(Stored(e)) >= Lower /\ Exceeds(d, e)

SameOwners(d, e) ==
    /\ Len(e.instance) = Len(d.instance)
    /\ \A i \in 1..Len(d.instance) : e.instance[i].chunk = d.instance[i].chunk
    /\ Len(e.chunk) = Len(d.chunk) /\ Gone(e) = Gone(d)

\* Rows without a verdict get one, the others keep theirs.
UpdatedSome(d, e) ==
    /\ SameOwners(d, e) /\ Chunks(d, {"new"}) # {}
    /\ \A i \in Updated(d) : e.instance[i].correct = d.instance[i].correct

LedgerInv ==
    /\ Downward(disk)
    /\ pc = "limit" => Inserted(disk, db) /\ LimitUse /\ Exceeds(disk, db)
    /\ pc \in {"route", "rule_add"} => UpdatedSome(disk, db) /\ Updated(db) = Updated(disk)
    /\ job.building => Chunks(disk, {"new"}) # {}
    /\ pc = "commit" =>
          \/ Inserted(disk, db) /\ (LimitUse => Cardinality(Stored(db)) <= Upper)
          \/ UpdatedSome(disk, db) /\ Updated(db) = Stored(disk)
          \/ /\ SameOwners(disk, db) /\ Updated(db) = Updated(disk)
             /\ Cardinality(Right(db)) > Cardinality(Right(disk))

-----------------------------------------------------------------------------
(* Every step preserves it: the steps that change no row.                    *)

LEMMA QuietLedger ==
    ASSUME LedgerInv, UNCHANGED disk, job'.building => job.building,
           pc' \notin {"limit", "route", "rule_add", "commit"}
    PROVE  LedgerInv'
  BY DEF LedgerInv

LEMMA EndLedger ==
    ASSUME LedgerInv, UNCHANGED disk, job' = NoJob, pc' = "idle"
    PROVE  LedgerInv'
  BY QuietLedger DEF NoJob

\* The walk of update goes on.
LEMMA RoutingLedger ==
    ASSUME LedgerInv, UNCHANGED <<disk, db>>, job'.building = job.building,
           pc \in {"route", "rule_add"}, pc' \in {"route", "rule_add"}
    PROVE  LedgerInv'
  BY DEF LedgerInv

LEMMA WalkLedger ==
    ASSUME VerdictInv, LedgerInv, NoChilds \/ NoMatch \/ StepDown \/ JumpToGeneration
    PROVE  LedgerInv'
  <1>1. /\ UNCHANGED <<disk, db>> /\ pc \in {"predict", "route"}
        /\ \/ pc' = "throw" /\ job' = job
           \/ pc' = "idle" /\ job' = NoJob
           \/ /\ \/ pc = "predict" /\ pc' = "predict"
                 \/ pc = "route" /\ pc' \in {"route", "rule_add"}
              /\ \E n : job' = [job EXCEPT !.cur = n]
    BY DEF NoChilds, NoMatch, StepDown, JumpToGeneration, Visit, Walking
  <1>2. \A n : job' = [job EXCEPT !.cur = n] => job'.building = job.building
    BY Typed DEF VerdictInv, Job
  <1>3. CASE pc' = "throw" /\ job' = job
    BY <1>1, <1>3, QuietLedger
  <1>4. CASE pc' = "idle" /\ job' = NoJob
    BY <1>1, <1>4, EndLedger
  <1>5. CASE pc = "predict" /\ pc' = "predict" /\ job'.building = job.building
    BY <1>1, <1>5, QuietLedger
  <1>6. CASE pc = "route" /\ pc' \in {"route", "rule_add"} /\ job'.building = job.building
    BY <1>1, <1>6, RoutingLedger
  <1>. QED  BY <1>1, <1>2, <1>3, <1>4, <1>5, <1>6

LEMMA CommitLedger ==
    ASSUME LedgerInv, Commit
    PROVE  LedgerInv'
  <1>1. pc = "commit" /\ disk' = db /\ pc' = "idle" /\ job' = NoJob
    BY DEF Commit
  <1>2. Downward(db)
    BY <1>1 DEF LedgerInv, Inserted, UpdatedSome, SameOwners, Downward
  <1>. QED  BY <1>1, <1>2 DEF LedgerInv, NoJob

LEMMA EasyLedger ==
    ASSUME VerdictInv, CounterInv, LedgerInv,
           \/ LimitDone \/ Fault \/ Commit \/ Unwind \/ Restart \/ RebuildGiveUp
           \/ RebuildBegin \/ \E x : PredictBegin(x)
    PROVE  LedgerInv'
  <1>1. CASE Unwind \/ Restart \/ RebuildGiveUp
    BY <1>1, EndLedger DEF Unwind, Restart, RebuildGiveUp
  <1>2. CASE Fault
    BY <1>2, QuietLedger DEF Fault
  <1>3. CASE \E x : PredictBegin(x)
    <2>1. UNCHANGED disk /\ pc' = "predict" /\ ~job'.building
      BY <1>3 DEF PredictBegin, NoJob
    <2>. QED  BY <2>1, QuietLedger
  <1>4. CASE RebuildBegin
    <2>1. UNCHANGED disk /\ pc' \in {"throw", "grow"} /\ ~job'.building
      BY <1>4, AnnouncedRows, Typed DEF RebuildBegin, VerdictInv
    <2>. QED  BY <2>1, QuietLedger
  <1>5. CASE LimitDone
    <2>1. /\ pc = "limit" /\ UNCHANGED <<disk, db, job>> /\ pc' \in {"commit", "throw"}
          /\ pc' = "commit" => LimitReached(db)
      BY <1>5 DEF LimitDone
    <2>2. CASE pc' = "throw"
      BY <2>1, <2>2, QuietLedger
    <2>3. CASE pc' = "commit"
      <3>1. Cardinality(Stored(db)) <= Upper
        <4>1. db.global.instance_count = Cardinality(Stored(db)) /\ IsFiniteSet(Stored(db))
          BY <2>1, Typed, RowsFinite DEF CounterInv, Counters, Globals, VerdictInv, CacheInv,
             Inductive
        <4>2. Cardinality(Stored(db)) \in Nat
          BY <4>1, FS_CardinalityType
        <4>3. Upper \in Nat
          BY LimitAssumption
        <4>. QED  BY <2>1, <2>3, <4>1, <4>2, <4>3 DEF LimitReached
      <3>. QED  BY <2>1, <2>3, <3>1 DEF LedgerInv
    <2>. QED  BY <2>1, <2>2, <2>3
  <1>. QED  BY <1>1, <1>2, <1>3, <1>4, <1>5, CommitLedger

LEMMA UpdateBeginLedger ==
    ASSUME VerdictInv, LedgerInv, UpdateBegin
    PROVE  LedgerInv'
  <1>1. /\ pc = "idle" /\ UNCHANGED disk /\ db = disk /\ db \in Database
        /\ Chunks(disk, {"new"}) # {}
    BY Typed DEF UpdateBegin, CanBegin, VerdictInv, CacheInv, TreeInv, Grows
  <1>2. /\ db.generation # <<>> => pc' = "route" /\ db' = disk
        /\ db.generation = <<>> => pc' = "grow"
    BY <1>1 DEF UpdateBegin
  <1>3. UpdatedSome(disk, disk)
    BY <1>1 DEF UpdatedSome, SameOwners
  <1>. QED  BY <1>1, <1>2, <1>3 DEF LedgerInv

LEMMA GrowLedger ==
    ASSUME VerdictInv, LedgerInv, GrowLeaf \/ GrowSplit
    PROVE  LedgerInv'
  <1>1. /\ pc = "grow" /\ UNCHANGED disk /\ RowsSame(db, db') /\ job'.building = job.building
        /\ pc' = Grown
    <2>1. CacheInv
      BY DEF VerdictInv
    <2>. QED  BY <2>1, NodeGrown
  <1>2. /\ pc' \in {"grow", "route", "judge"}
        /\ pc' = "route" => job.building
    BY <1>1 DEF Grown
  <1>3. db'.instance = disk.instance /\ db'.chunk = disk.chunk
    BY <1>1 DEF RowsSame, VerdictInv, VerdictPart, StageVerdicts, TrainedVerdicts
  <1>4. SameOwners(disk, db') /\ Updated(db') = Updated(disk)
    BY <1>3 DEF SameOwners, Gone, Chunks, Updated, Rows
  <1>5. job.building => UpdatedSome(disk, db')
    BY <1>3, <1>4 DEF UpdatedSome, LedgerInv
  <1>. QED  BY <1>1, <1>2, <1>4, <1>5 DEF LedgerInv

-----------------------------------------------------------------------------
(* The steps that change rows.                                               *)

LEMMA AddedRows ==
    ASSUME NEW d \in Database, NEW e \in Database, NEW b, RowsAdded(d, e, b), ChunksFit(d),
           Downward(d)
    PROVE  Inserted(d, e)
  <1>1. Len(d.instance) \in Nat /\ Len(d.chunk) \in Nat /\ Len(b) \in Nat /\ Len(b) # 0
    BY Lengths DEF RowsAdded
  <1>2. /\ Len(e.chunk) = Len(d.chunk) + 1
        /\ \A k \in 1..Len(d.chunk) : e.chunk[k] = d.chunk[k]
        /\ e.chunk[Len(d.chunk) + 1].state = "new"
    BY DEF RowsAdded
  <1>3. Gone(e) = Gone(d)
    <2>. DEFINE n == Len(d.chunk)
                m == n + 1
    <2>1. 1..m = (1..n) \cup {m} /\ m \notin 1..n
      BY <1>1
    <2>2. /\ Len(e.chunk) = m /\ e.chunk[m].state = "new"
          /\ \A k \in 1..n : e.chunk[k] = d.chunk[k]
      BY <1>2
    <2>. HIDE DEF m
    <2>. QED  BY <2>1, <2>2 DEF Gone, Chunks
  <1>4. Downward(e)
    BY <1>3 DEF Downward
  <1>5. Len(e.instance) > Len(d.instance)
    BY <1>1 DEF RowsAdded
  <1>6. \A c \in 1..Len(d.chunk) : e.chunk[c].state \in {d.chunk[c].state, "removed"}
    BY <1>2
  <1>7. /\ \A i \in 1..Len(d.instance) : e.instance[i] = d.instance[i]
        /\ \A i \in 1..Len(e.instance) :
              i \notin 1..Len(d.instance) => e.instance[i].chunk = Len(e.chunk)
    BY <1>2 DEF RowsAdded
  <1>8. e.chunk[Len(e.chunk)].state = "new"
    BY <1>2
  <1>. QED  BY <1>2, <1>3, <1>4, <1>5, <1>6, <1>7, <1>8 DEF Inserted

\* The counter of the instances is their number.
LEMMA InstanceCount ==
    ASSUME VerdictInv, CounterInv, pc # "throw"
    PROVE  /\ db.global.instance_count = Cardinality(Stored(db))
           /\ Cardinality(Stored(db)) \in Nat
  <1>1. IsFiniteSet(Stored(db))
    BY Typed, RowsFinite DEF VerdictInv, CacheInv, Inductive
  <1>. QED  BY <1>1, FS_CardinalityType DEF CounterInv, Counters, Globals

LEMMA InsertLedger ==
    ASSUME VerdictInv, CounterInv, VerdictInv', CounterInv', LedgerInv,
           NEW b \in Batches, Insert(b)
    PROVE  LedgerInv'
  <1>1. /\ pc = "idle" /\ db = disk /\ db \in Database /\ UNCHANGED <<disk, job>>
        /\ db' = WithChunk(db, b) /\ ChunksFit(db) /\ Downward(disk)
        /\ pc' = IF LimitUse /\ db'.global.instance_count > Upper THEN "limit" ELSE "commit"
    BY Typed DEF Insert, CanBegin, VerdictInv, VerdictPart, CacheInv, TreeInv, Grows, LedgerInv
  <1>2. db' \in Database
    BY <1>1, WithChunkTyped DEF VerdictInv, CacheInv, Inductive, Kept
  <1>3. RowsAdded(db, db', b)
    BY <1>1, WithChunkRows
  <1>4. Inserted(disk, db')
    BY <1>1, <1>2, <1>3, AddedRows
  <1>5. /\ db.global.instance_count = Cardinality(Stored(disk))
        /\ Cardinality(Stored(disk)) \in Nat
    BY <1>1, InstanceCount
  <1>6. db'.global.instance_count = Cardinality(Stored(db')) /\ Cardinality(Stored(db')) \in Nat
    <2>1. pc' # "throw"
      BY <1>1
    <2>2. IsFiniteSet(Stored(db'))
      BY <1>2, RowsFinite DEF VerdictInv, CacheInv, Inductive
    <2>. QED  BY <2>1, <2>2, FS_CardinalityType DEF CounterInv, Counters, Globals
  <1>7. /\ db'.global.instance_count = db.global.instance_count + Len(b)
        /\ Len(db'.instance) = Len(disk.instance) + Len(b)
        /\ Len(disk.instance) \in Nat /\ Len(b) \in Nat
    <2>1. db.global \in Global
      BY <1>1 DEF Database
    <2>. QED  BY <1>1, <1>3, <2>1, Lengths DEF RowsAdded, Global
  <1>8. Upper \in Nat
    BY LimitAssumption
  <1>9. CASE pc' = "limit"
    <2>1. LimitUse /\ Exceeds(disk, db')
      BY <1>1, <1>5, <1>7, <1>8, <1>9 DEF Exceeds
    <2>. QED  BY <1>1, <1>4, <1>9, <2>1 DEF LedgerInv
  <1>10. CASE pc' = "commit"
    <2>1. LimitUse => Cardinality(Stored(db')) <= Upper
      BY <1>1, <1>6, <1>8, <1>10
    <2>. QED  BY <1>1, <1>4, <1>10, <2>1 DEF LedgerInv
  <1>. QED  BY <1>1, <1>9, <1>10

LEMMA RemoveOldestLedger ==
    ASSUME VerdictInv, CounterInv, VerdictInv', CounterInv', LedgerInv, RemoveOldest
    PROVE  LedgerInv'
  <1>. DEFINE c == Oldest
  <1>1. CASE pc' = "throw" /\ UNCHANGED <<disk, db>>
    BY <1>1, QuietLedger DEF RemoveOldest
  <1>2. CASE db' = WithoutChunk(db, c) /\ UNCHANGED <<pc, disk>>
    <2>1. /\ pc = "limit" /\ db \in Database /\ MayRemove /\ job' = job
          /\ Inserted(disk, db) /\ LimitUse /\ Exceeds(disk, db)
      BY <1>2, Typed DEF RemoveOldest, VerdictInv, LedgerInv
    <2>2. /\ c \in Chunks(db, {"new", "updated"}) /\ c \in 1..Len(db.chunk)
          /\ \A k \in Chunks(db, {"new", "updated"}) : c <= k
          /\ db.global.instance_count - db.chunk[c].total >= Lower
      BY <2>1, OldestChunk DEF MayRemove
    <2>. HIDE DEF c
    <2>3. RowsDropped(db, db', c) /\ CountsDropped(db, db', c)
      BY <1>2, <2>1, <2>2, WithoutChunkRows, WithoutChunkCounters
    <2>4. /\ db'.instance = db.instance /\ Len(db'.chunk) = Len(db.chunk)
          /\ \A k \in 1..Len(db.chunk) : k # c => db'.chunk[k] = db.chunk[k]
          /\ db'.chunk[c].state = "removed"
      BY <2>3 DEF RowsDropped
    <2>5. Gone(db') = Gone(db) \cup {c}
      BY <2>2, <2>4 DEF Gone, Chunks
    <2>6. Downward(db')
      <3>1. ASSUME NEW b \in 1..c PROVE b \in Gone(db')
        <4>1. Len(db.chunk) \in Nat
          BY <2>1, Lengths
        <4>2. b \in 1..Len(db.chunk) /\ (b = c \/ b < c)
          BY <2>2, <4>1
        <4>3. CASE b < c
          <5>1. b \notin Chunks(db, {"new", "updated"})
            BY <2>2, <4>1, <4>2, <4>3
          <5>2. db.chunk[b].state \in {"new", "updated", "removed"}
            <6>1. db.chunk[b] \in Chunk
              BY <2>1, <4>2, RowTypes
            <6>. QED  BY <6>1 DEF Chunk
          <5>. QED  BY <2>5, <4>2, <5>1, <5>2 DEF Gone, Chunks
        <4>. QED  BY <2>5, <4>2, <4>3
      <3>2. Downward(db)
        BY <2>1 DEF Inserted
      <3>. QED  BY <2>5, <3>1, <3>2 DEF Downward
    <2>7. Cardinality(Stored(db')) >= Lower
      <3>1. pc' # "throw" /\ db' \in Database
        BY <1>2, <2>1, RemoveOldestStep DEF VerdictInv, CacheInv, Inductive, TypeOK
      <3>2. db'.global.instance_count = Cardinality(Stored(db'))
        BY <3>1 DEF CounterInv, Counters, Globals
      <3>3. db'.global.instance_count = db.global.instance_count - db.chunk[c].total
        BY <2>3 DEF CountsDropped
      <3>. QED  BY <2>2, <3>2, <3>3
    <2>8. Exceeds(disk, db')
      BY <2>1, <2>4 DEF Exceeds
    <2>9. /\ Len(db'.chunk) = Len(disk.chunk) + 1
          /\ \A k \in 1..Len(disk.chunk) : db'.chunk[k].state \in {disk.chunk[k].state, "removed"}
          /\ db'.chunk[Len(db'.chunk)].state \in {"new", "removed"}
      <3>1. /\ Len(db.chunk) = Len(disk.chunk) + 1
            /\ \A k \in 1..Len(disk.chunk) : db.chunk[k].state \in {disk.chunk[k].state, "removed"}
            /\ db.chunk[Len(db.chunk)].state \in {"new", "removed"}
        BY <2>1 DEF Inserted
      <3>2. Len(disk.chunk) \in Nat
        BY Typed, Lengths DEF VerdictInv
      <3>3. \A k \in 1..Len(db.chunk) : db'.chunk[k].state \in {db.chunk[k].state, "removed"}
        BY <2>4
      <3>. QED  BY <2>4, <3>1, <3>2, <3>3
    <2>10. /\ Len(db'.instance) > Len(disk.instance)
           /\ \A i \in 1..Len(disk.instance) : db'.instance[i] = disk.instance[i]
           /\ \A i \in 1..Len(db'.instance) :
                 i \notin 1..Len(disk.instance) => db'.instance[i].chunk = Len(db'.chunk)
      BY <2>1, <2>4 DEF Inserted
    <2>11. Inserted(disk, db')
      BY <2>1, <2>6, <2>7, <2>8, <2>9, <2>10 DEF Inserted
    <2>. QED  BY <1>2, <2>1, <2>8, <2>11 DEF LedgerInv
  <1>. QED  BY <1>1, <1>2 DEF RemoveOldest

\* An instance without a verdict is judged.
LEMMA JudgedLedger ==
    ASSUME VerdictInv, LedgerInv, pc \in {"route", "rule_add"}, pc' = "route", UNCHANGED disk,
           NEW i \in job.todo, job'.building = job.building,
           NEW d, RowsSame(db, d), NEW k, RowJudged(d, db', i, k)
    PROVE  LedgerInv'
  <1>1. /\ UpdatedSome(disk, db) /\ Updated(db) = Updated(disk) /\ RoutedVerdicts
    BY DEF LedgerInv, VerdictInv, VerdictPart, StageVerdicts
  <1>2. i \in Rows(db, {"new"}) /\ i \notin Updated(db)
    BY <1>1 DEF RoutedVerdicts, Rows, Updated
  <1>3. /\ db'.chunk = db.chunk /\ Len(db'.instance) = Len(db.instance)
        /\ \A j \in 1..Len(db.instance) : /\ j # i => db'.instance[j] = db.instance[j]
                                          /\ db'.instance[j].chunk = db.instance[j].chunk
    BY DEF RowsSame, RowJudged
  <1>4. Updated(db') = Updated(disk)
    BY <1>1, <1>3 DEF Updated, Rows
  <1>5. SameOwners(disk, db')
    BY <1>1, <1>3 DEF UpdatedSome, SameOwners, Gone, Chunks
  <1>6. \A j \in Updated(disk) : db'.instance[j].correct = disk.instance[j].correct
    <2>1. \A j \in Updated(disk) : j \in 1..Len(db.instance) /\ j # i
      BY <1>1, <1>2 DEF Updated, Rows
    <2>. QED  BY <1>1, <1>3, <2>1 DEF UpdatedSome
  <1>7. UpdatedSome(disk, db')
    BY <1>1, <1>5, <1>6 DEF UpdatedSome
  <1>. QED  BY <1>4, <1>7 DEF LedgerInv

LEMMA ArriveLedger ==
    ASSUME VerdictInv, LedgerInv, Arrive
    PROVE  LedgerInv'
  <1>. DEFINE i == Least(job.todo)
  <1>1. /\ Visit /\ UNCHANGED disk
        /\ \/ pc = "predict" /\ pc' = "idle" /\ job' = NoJob
           \/ pc = "route" /\ pc' = "route" /\ db' = Judged(db, i, Choice)
                           /\ job' = Counted(i, Choice, FALSE)
    BY DEF Arrive, Visit, Walking
  <1>2. CASE pc = "predict" /\ pc' = "idle" /\ job' = NoJob
    BY <1>1, <1>2, EndLedger
  <1>3. CASE pc = "route" /\ pc' = "route" /\ db' = Judged(db, i, Choice)
                         /\ job' = Counted(i, Choice, FALSE)
    <2>1. db \in Database /\ job \in Job /\ CacheInv
      BY Typed DEF VerdictInv
    <2>2. i \in job.todo /\ i \in 1..Len(db.instance)
      BY <1>1, <1>3, <2>1, TodoLeast DEF Visit, Walking, CacheInv
    <2>3. job'.building = job.building
      BY <1>3, <2>1, CountedTodo
    <2>4. RowJudged(db, db', i, Choice) /\ RowsSame(db, db)
      BY <1>3, <2>1, <2>2, JudgedRows DEF RowsSame
    <2>. HIDE DEF i
    <2>. QED  BY <1>1, <1>3, <2>2, <2>3, <2>4, JudgedLedger
  <1>. QED  BY <1>1, <1>2, <1>3

LEMMA RuleAddLedger ==
    ASSUME VerdictInv, LedgerInv, RuleAdd
    PROVE  LedgerInv'
  <1>. DEFINE i == Least(job.todo)
  <1>1. /\ pc = "rule_add" /\ UNCHANGED disk /\ i \in job.todo /\ i \in 1..Len(db.instance)
        /\ CacheInv /\ db \in Database /\ job \in Job
    BY RuleAdded, Typed DEF VerdictInv
  <1>2. CASE pc' = "throw"
    <2>1. job' = job
      BY <1>2 DEF RuleAdd
    <2>. QED  BY <1>1, <1>2, <2>1, QuietLedger
  <1>3. CASE pc' # "throw"
    <2>0. PICK child : \E d \in Database :
                    /\ d = WithRule(db, child, i) /\ pc' = "route"
                    /\ db' = Judged(d, i, ChildRow(d, Len(d.treenode)))
                    /\ job' = Counted(i, ChildRow(d, Len(d.treenode)), TRUE)
      BY <1>1, <1>3, RuleAdded
    <2>1. PICK d \in Database :
                    /\ d = WithRule(db, child, i) /\ pc' = "route"
                    /\ db' = Judged(d, i, ChildRow(d, Len(d.treenode)))
                    /\ job' = Counted(i, ChildRow(d, Len(d.treenode)), TRUE)
      BY <2>0
    <2>. DEFINE k == ChildRow(d, Len(d.treenode))
    <2>. HIDE DEF i
    <2>2. RowsSame(db, d)
      BY <1>1, <2>1, WithRuleRows
    <2>3. job'.building = job.building
      BY <1>1, <2>1, CountedTodo
    <2>4. i \in 1..Len(d.instance)
      BY <1>1, <2>2 DEF RowsSame
    <2>5. RowJudged(d, db', i, k) /\ pc' = "route"
      BY <2>1, <2>4, JudgedRows
    <2>. HIDE DEF k
    <2>. QED  BY <1>1, <2>2, <2>3, <2>5, JudgedLedger
  <1>. QED  BY <1>2, <1>3

LEMMA UpdateFinishLedger ==
    ASSUME VerdictInv, LedgerInv, UpdateFinish
    PROVE  LedgerInv'
  <1>1. /\ pc = "route" /\ pc' = "commit" /\ UNCHANGED <<disk, job>> /\ db \in Database
        /\ UpdatedSome(disk, db) /\ Updated(db) = Updated(disk) /\ ChunksFit(db)
        /\ ChunksFit(disk) /\ disk \in Database
    BY Typed DEF UpdateFinish, LedgerInv, VerdictInv, VerdictPart
  <1>2. /\ db'.instance = db.instance /\ Len(db'.chunk) = Len(db.chunk)
        /\ \A c \in 1..Len(db.chunk) :
              /\ db.chunk[c].state # "new" => db'.chunk[c] = db.chunk[c]
              /\ db.chunk[c].state = "new" => db'.chunk[c].state = "updated"
    <2>. DEFINE total(c) == Cardinality({r \in job.routed : db.instance[r.instance].chunk = c})
    <2>1. /\ db'.instance = db.instance /\ Len(db'.chunk) = Len(db.chunk)
          /\ \A c \in 1..Len(db.chunk) :
                db'.chunk[c] = IF db.chunk[c].state # "new" THEN db.chunk[c]
                               ELSE [state |-> "updated", total |-> total(c)]
      BY <1>1, FinishRows
    <2>2. \A c : [state |-> "updated", total |-> total(c)].state = "updated"
      OBVIOUS
    <2>. HIDE DEF total
    <2>. QED  BY <2>1, <2>2
  <1>3. Gone(db') = Gone(db)
    BY <1>2 DEF Gone, Chunks
  <1>4. SameOwners(disk, db')
    BY <1>1, <1>2, <1>3 DEF UpdatedSome, SameOwners
  <1>5. UpdatedSome(disk, db')
    BY <1>1, <1>2, <1>4 DEF UpdatedSome
  <1>6. Updated(db') = Stored(disk)
    <2>1. ASSUME NEW i \in 1..Len(disk.instance)
          PROVE  LET c == disk.instance[i].chunk
                 IN  /\ db'.instance[i].chunk = c /\ c \in 1..Len(db.chunk)
                     /\ db'.chunk[c].state = "updated"
                          <=> disk.chunk[c].state \in {"new", "updated"}
      <3>. DEFINE c == disk.instance[i].chunk
      <3>1. /\ db'.instance[i].chunk = c /\ c \in 1..Len(disk.chunk)
            /\ Len(db.chunk) = Len(disk.chunk)
        BY <1>1, <1>4 DEF SameOwners, ChunksFit, UpdatedSome
      <3>2. /\ db.chunk[c].state \in {"new", "updated", "removed"}
            /\ disk.chunk[c].state \in {"new", "updated", "removed"}
        <4>1. db.chunk[c] \in Chunk /\ disk.chunk[c] \in Chunk
          BY <1>1, <3>1, RowTypes
        <4>. QED  BY <4>1 DEF Chunk
      <3>3. db.chunk[c].state = "removed" <=> disk.chunk[c].state = "removed"
        BY <1>1, <3>1 DEF UpdatedSome, SameOwners, Gone, Chunks
      <3>. HIDE DEF c
      <3>4. db'.chunk[c].state = "updated" <=> disk.chunk[c].state \in {"new", "updated"}
        BY <1>2, <3>1, <3>2, <3>3
      <3>. QED  BY <3>1, <3>4 DEF c
    <2>2. Len(db'.instance) = Len(disk.instance)
      BY <1>4 DEF SameOwners
    <2>. QED  BY <2>1, <2>2 DEF Updated, Stored, Rows
  <1>. QED  BY <1>1, <1>5, <1>6 DEF LedgerInv

LEMMA RebuildInstallLedger ==
    ASSUME VerdictInv, CounterInv, CounterInv', LedgerInv, RebuildInstall
    PROVE  LedgerInv'
  <1>1. /\ pc = "judge" /\ pc' = "commit" /\ UNCHANGED <<disk, job>> /\ db \in Database
        /\ db.instance = disk.instance /\ db.chunk = disk.chunk /\ Improves
        /\ job.rows \subseteq 1..Len(db.instance)
    BY Typed DEF RebuildInstall, VerdictInv, VerdictPart, StageVerdicts, TrainedVerdicts,
       CacheInv, Inductive, JobFits
  <1>2. /\ Len(db'.instance) = Len(db.instance) /\ db'.chunk = db.chunk
        /\ \A i \in 1..Len(db.instance) : db'.instance[i].chunk = db.instance[i].chunk
    BY <1>1, InstalledRows
  <1>3. SameOwners(disk, db') /\ Updated(db') = Updated(disk)
    BY <1>1, <1>2 DEF SameOwners, Gone, Chunks, Updated, Rows
  <1>4. /\ db'.global.instance_correct_count = Cardinality(Right(db'))
        /\ db.global.instance_correct_count = Cardinality(Right(db))
    BY <1>1 DEF CounterInv, Counters, Globals
  <1>5. Right(db) = Right(disk)
    BY <1>1 DEF Right, Updated, Rows
  <1>6. db'.global.instance_correct_count = db.global.instance_correct_count
            + Cardinality(CorrectAfter) - Cardinality(CorrectBefore)
    BY <1>1, InstalledCounters
  <1>7. /\ Cardinality(CorrectBefore) < Cardinality(CorrectAfter)
        /\ Cardinality(CorrectBefore) \in Nat /\ Cardinality(CorrectAfter) \in Nat
    <2>1. /\ CorrectBefore \in SUBSET (1..Len(db.instance))
          /\ CorrectAfter \in SUBSET (1..Len(db.instance))
      BY <1>1 DEF CorrectBefore, CorrectAfter
    <2>2. Len(db.instance) \in Nat
      BY <1>1, Lengths
    <2>3. Cardinality(CorrectBefore) \in Nat /\ Cardinality(CorrectAfter) \in Nat
      BY <2>1, <2>2, PositionsFinite
    <2>. QED  BY <1>1, <2>3 DEF Improves
  <1>8. db.global.instance_correct_count \in Int
    BY <1>1 DEF Database, Global
  <1>9. Cardinality(Right(db')) > Cardinality(Right(disk))
    BY <1>4, <1>5, <1>6, <1>7, <1>8
  <1>. QED  BY <1>1, <1>3, <1>9 DEF LedgerInv

-----------------------------------------------------------------------------
(* The invariant of the ledger, and its steps.                               *)

LEMMA InitLedger == Init => LedgerInv
  <1>. SUFFICES ASSUME Init PROVE LedgerInv
    OBVIOUS
  <1>1. disk.chunk = <<>> /\ pc = "idle" /\ ~job.building
    BY DEF Init, EmptyDatabase, NoJob
  <1>2. Gone(disk) = {}
    BY <1>1 DEF Gone, Chunks
  <1>. QED  BY <1>1, <1>2 DEF LedgerInv, Downward

LEMMA NextLedger ==
    ASSUME VerdictInv, CounterInv, VerdictInv', CounterInv', LedgerInv, [Next]_vars
    PROVE  LedgerInv'
  <1>1. CASE UNCHANGED vars
    <2>1. UNCHANGED <<disk, db, pc, job>>
      BY <1>1 DEF vars
    <2>. QED  BY <2>1 DEF LedgerInv
  <1>2. CASE Begin
    BY <1>2, InsertLedger, UpdateBeginLedger, EasyLedger DEF Begin
  <1>3. CASE Step
    BY <1>3, RemoveOldestLedger, GrowLedger, WalkLedger, ArriveLedger, RuleAddLedger,
       UpdateFinishLedger, RebuildInstallLedger, EasyLedger DEF Step
  <1>4. CASE Fault \/ Restart
    BY <1>4, EasyLedger
  <1>. QED  BY <1>1, <1>2, <1>3, <1>4 DEF Next

LEMMA LedgerHolds ==
    ASSUME ReopenAfterFailure
    PROVE  Spec => [](VerdictInv /\ CounterInv /\ LedgerInv)
  <1>. DEFINE Inv == VerdictInv /\ CounterInv /\ LedgerInv
  <1>1. Init => Inv
    BY InitVerdicts, InitCounters, InitLedger
  <1>2. Inv /\ [Next]_vars => Inv'
    BY NextVerdicts, NextCounters, NextLedger
  <1>. QED  BY <1>1, <1>2, PTL DEF Spec

\* Only a commit changes the committed database.
LEMMA OnlyCommit ==
    ASSUME [Next]_vars, ~Commit
    PROVE  UNCHANGED disk
  <1>1. CASE UNCHANGED vars
    BY <1>1 DEF vars
  <1>2. CASE Begin
    BY <1>2 DEF Begin, Insert, UpdateBegin, RebuildBegin, PredictBegin
  <1>3. CASE Step
    <2>1. CASE \/ RemoveOldest \/ LimitDone \/ GrowLeaf \/ GrowSplit
      BY <2>1 DEF RemoveOldest, LimitDone, GrowLeaf, GrowSplit
    <2>2. CASE NoChilds \/ NoMatch \/ StepDown \/ JumpToGeneration \/ Arrive
      BY <2>2 DEF NoChilds, NoMatch, StepDown, JumpToGeneration, Arrive, Visit
    <2>3. CASE RuleAdd \/ UpdateFinish \/ RebuildGiveUp \/ RebuildInstall \/ Unwind
      BY <2>3 DEF RuleAdd, UpdateFinish, RebuildGiveUp, RebuildInstall, Unwind
    <2>. QED  BY <1>3, <2>1, <2>2, <2>3 DEF Step
  <1>4. CASE Fault \/ Restart
    BY <1>4 DEF Fault, Restart
  <1>. QED  BY <1>1, <1>2, <1>3, <1>4 DEF Next

-----------------------------------------------------------------------------
(* What the ledger sees of a database.                                       *)

Owners(d) == [i \in 1..Len(d.instance) |-> d.instance[i].chunk]

LEMMA OwnersSeen ==
    ASSUME NEW d \in Database
    PROVE  /\ Len(Owners(d)) = Len(d.instance)
           /\ \A i \in 1..Len(d.instance) : Owners(d)[i] = d.instance[i].chunk
  <1>1. Len(d.instance) \in Nat
    BY Lengths
  <1>2. \A i \in 1..Len(d.instance) : d.instance[i].chunk \in Nat
    <2>1. \A i \in 1..Len(d.instance) : d.instance[i] \in Instance
      BY RowTypes
    <2>. QED  BY <2>1 DEF Instance
  <1>3. Owners(d) \in Seq(Nat) /\ Len(Owners(d)) = Len(d.instance)
    BY <1>1, <1>2 DEF Owners
  <1>. QED  BY <1>3 DEF Owners

LEMMA StoredSeen ==
    ASSUME NEW d \in Database, ChunksFit(d)
    PROVE  {i \in 1..Len(Owners(d)) : Owners(d)[i] \notin Gone(d)} = Stored(d)
  <1>1. ASSUME NEW i \in 1..Len(d.instance)
        PROVE  /\ d.instance[i].chunk \in 1..Len(d.chunk)
               /\ d.chunk[d.instance[i].chunk].state \in {"new", "updated", "removed"}
    <2>1. d.instance[i].chunk \in 1..Len(d.chunk)
      BY DEF ChunksFit
    <2>2. d.chunk[d.instance[i].chunk] \in Chunk
      BY <2>1, RowTypes
    <2>. QED  BY <2>1, <2>2 DEF Chunk
  <1>2. \A i \in 1..Len(d.instance) :
            Owners(d)[i] \notin Gone(d) <=> d.chunk[d.instance[i].chunk].state \in {"new", "updated"}
    BY <1>1, OwnersSeen DEF Gone, Chunks
  <1>3. Len(Owners(d)) = Len(d.instance)
    BY OwnersSeen
  <1>. QED  BY <1>2, <1>3 DEF Stored, Rows

\* The variables of the ledger and what it derives from them, now and after a commit.
LEMMA SeenByLedger ==
    ASSUME disk \in Database, disk' \in Database, ChunksFit(disk), ChunksFit(disk')
    PROVE  /\ Abstract!Stored = Stored(disk) /\ (Abstract!Stored)' = Stored(disk')
           /\ Abstract!Instances = 1..Len(disk.instance)
  <1>1. Abstract!Stored = Stored(disk)
    BY StoredSeen DEF Abstract!Stored, Abstract!Instances, Owners, Gone
  <1>2. (Abstract!Stored)' = Stored(disk')
    <2>1. (Abstract!Stored)' = {i \in 1..Len(Owners(disk')) : Owners(disk')[i] \notin Gone(disk')}
      BY DEF Abstract!Stored, Abstract!Instances, Owners, Gone, Chunks
    <2>. QED  BY <2>1, StoredSeen
  <1>3. Abstract!Instances = 1..Len(disk.instance)
    BY OwnersSeen DEF Abstract!Instances, Owners
  <1>. QED  BY <1>1, <1>2, <1>3

\* The ledger counts as this module does.
LEMMA SameCount == ASSUME NEW S PROVE Abstract!Cardinality(S) = Cardinality(S)
  BY Zenon DEF Abstract!Cardinality, Cardinality

\* The variables of the ledger are its view of the committed database.
LEMMA SameInLedger ==
    ASSUME disk \in Database, disk' \in Database, SameOwners(disk, disk')
    PROVE  /\ Owners(disk') = Owners(disk) /\ Len(disk'.chunk) = Len(disk.chunk)
           /\ Gone(disk') = Gone(disk)
  <1>1. Len(disk'.instance) = Len(disk.instance)
    BY DEF SameOwners
  <1>2. \A i \in 1..Len(disk.instance) : disk'.instance[i].chunk = disk.instance[i].chunk
    BY DEF SameOwners
  <1>3. Owners(disk') = Owners(disk)
    BY <1>1, <1>2 DEF Owners
  <1>. QED  BY <1>3 DEF SameOwners

\* insert_chunk_csv, committed.
LEMMA InsertSimulated ==
    ASSUME disk \in Database, disk' \in Database, ChunksFit(disk), ChunksFit(disk'),
           Downward(disk), Verdicts(disk),
           Inserted(disk, disk'), LimitUse => Cardinality(Stored(disk')) <= Upper
    PROVE  Abstract!Insert
  <1>1. Abstract!Stored = Stored(disk) /\ (Abstract!Stored)' = Stored(disk')
    BY SeenByLedger
  <1>2. /\ Len(Owners(disk)) = Len(disk.instance) /\ Len(Owners(disk')) = Len(disk'.instance)
        /\ \A i \in 1..Len(disk.instance) : Owners(disk)[i] = disk.instance[i].chunk
        /\ \A i \in 1..Len(disk'.instance) : Owners(disk')[i] = disk'.instance[i].chunk
    BY OwnersSeen
  <1>3. /\ Len(disk.instance) \in Nat /\ Len(disk'.instance) \in Nat
        /\ Len(disk.chunk) \in Nat /\ Len(disk'.chunk) = Len(disk.chunk) + 1
        /\ Len(disk'.instance) > Len(disk.instance)
    BY Lengths DEF Inserted
  <1>4. Abstract!Extended
    <2>1. ASSUME NEW i \in 1..Len(disk'.instance)
          PROVE  Owners(disk')[i] = IF i <= Len(disk.instance) THEN Owners(disk)[i]
                                    ELSE Len(disk.chunk) + 1
      <3>1. CASE i \in 1..Len(disk.instance)
        <4>1. disk'.instance[i] = disk.instance[i]
          BY <3>1 DEF Inserted
        <4>. QED  BY <1>2, <1>3, <3>1, <4>1
      <3>2. CASE i \notin 1..Len(disk.instance)
        <4>1. disk'.instance[i].chunk = Len(disk.chunk) + 1
          BY <1>3, <3>2 DEF Inserted
        <4>. QED  BY <1>2, <1>3, <3>2, <4>1
      <3>. QED  BY <3>1, <3>2
    <2>. QED  BY <1>2, <1>3, <2>1 DEF Abstract!Extended, Owners
  <1>5. Gone(disk) \subseteq Gone(disk')
    <2>1. ASSUME NEW c \in Gone(disk) PROVE c \in Gone(disk')
      <3>1. c \in 1..Len(disk.chunk) /\ disk.chunk[c].state = "removed"
        BY DEF Gone, Chunks
      <3>2. disk'.chunk[c].state = "removed"
        BY <3>1 DEF Inserted
      <3>3. c \in 1..Len(disk'.chunk)
        BY <1>3, <3>1
      <3>. QED  BY <3>2, <3>3 DEF Gone, Chunks
    <2>. QED  BY <2>1
  <1>6. \A c \in Gone(disk') : c <= Len(disk.chunk) + 1 /\ \A b \in 1..c : b \in Gone(disk')
    BY <1>3 DEF Inserted, Downward, Gone, Chunks
  <1>7. Gone(disk') # Gone(disk) =>
            /\ LimitUse /\ Cardinality(Stored(disk')) >= Lower
            /\ Cardinality(Stored(disk)) + Len(Owners(disk')) - Len(Owners(disk)) > Upper
    BY <1>2 DEF Inserted, Exceeds
  <1>8. Abstract!Trimmed
    BY <1>1, <1>5, <1>6, <1>7, SameCount DEF Abstract!Trimmed, Owners, Gone
  <1>9. Updated(disk') = Updated(disk) \cap Stored(disk')
    <2>1. ASSUME NEW i \in 1..Len(disk.instance)
          PROVE  /\ disk'.instance[i] = disk.instance[i]
                 /\ disk'.chunk[disk.instance[i].chunk].state
                      \in {disk.chunk[disk.instance[i].chunk].state, "removed"}
      BY DEF Inserted, ChunksFit
    <2>2. ASSUME NEW i \in 1..Len(disk'.instance), i \notin 1..Len(disk.instance)
          PROVE  disk'.chunk[disk'.instance[i].chunk].state # "updated"
      BY <2>2 DEF Inserted
    <2>3. \A i \in 1..Len(disk.instance) : i \in 1..Len(disk'.instance)
      BY <1>3
    <2>. QED  BY <2>1, <2>2, <2>3 DEF Updated, Stored, Rows
  <1>10. Right(disk') = Right(disk) \cap Stored(disk')
    <2>1. \A i \in Updated(disk) : disk'.instance[i] = disk.instance[i]
      BY DEF Inserted, Updated, Rows
    <2>. QED  BY <1>9, <2>1 DEF Right
  <1>. QED  BY <1>1, <1>4, <1>8, <1>9, <1>10 DEF Abstract!Insert, Right

\* update, committed.
LEMMA UpdateSimulated ==
    ASSUME disk \in Database, disk' \in Database, ChunksFit(disk), ChunksFit(disk'),
           TotalsMatch(disk), UpdatedSome(disk, disk'), Updated(disk') = Stored(disk)
    PROVE  Abstract!Update
  <1>1. Abstract!Stored = Stored(disk)
    BY SeenByLedger
  <1>2. /\ Owners(disk') = Owners(disk) /\ Len(disk'.chunk) = Len(disk.chunk)
        /\ Gone(disk') = Gone(disk)
    BY SameInLedger DEF UpdatedSome
  <1>3. Updated(disk) # Stored(disk)
    <2>1. PICK c \in 1..Len(disk.chunk) : disk.chunk[c].state = "new"
      BY DEF UpdatedSome, Chunks
    <2>2. PICK i \in 1..Len(disk.instance) : disk.instance[i].chunk = c
      BY DEF TotalsMatch, RowsOf
    <2>3. i \in Stored(disk) /\ i \notin Updated(disk)
      BY <2>1, <2>2 DEF Stored, Updated, Rows
    <2>. QED  BY <2>3
  <1>4. Right(disk') \subseteq Stored(disk)
    BY DEF Right
  <1>5. Right(disk') \cap Updated(disk) = Right(disk)
    <2>1. \A i \in Updated(disk) : /\ i \in Updated(disk')
                                   /\ disk'.instance[i].correct = disk.instance[i].correct
      <3>1. Updated(disk) \subseteq Stored(disk)
        BY DEF Updated, Stored, Rows
      <3>. QED  BY <3>1 DEF UpdatedSome
    <2>. QED  BY <2>1 DEF Right
  <1>. QED  BY <1>1, <1>2, <1>3, <1>4, <1>5 DEF Abstract!Update, Right, Owners, Gone

\* rebuild, committed.
LEMMA RebuildSimulated ==
    ASSUME disk \in Database, disk' \in Database, SameOwners(disk, disk'),
           Updated(disk') = Updated(disk), Cardinality(Right(disk')) > Cardinality(Right(disk))
    PROVE  Abstract!Rebuild
  <1>1. /\ Owners(disk') = Owners(disk) /\ Len(disk'.chunk) = Len(disk.chunk)
        /\ Gone(disk') = Gone(disk)
    BY SameInLedger
  <1>2. Right(disk') \subseteq Updated(disk)
    BY DEF Right
  <1>. QED  BY <1>1, <1>2, SameCount DEF Abstract!Rebuild, Right, Owners, Gone

-----------------------------------------------------------------------------
(* The refinement.                                                           *)

LEMMA InitSimulated == Init => Abstract!Init
  <1>. SUFFICES ASSUME Init PROVE Abstract!Init
    OBVIOUS
  <1>1. disk.instance = <<>> /\ disk.chunk = <<>>
    BY DEF Init, EmptyDatabase
  <1>2. Len(disk.instance) = 0 /\ Len(disk.chunk) = 0
    BY <1>1
  <1>3. Updated(disk) = {} /\ Gone(disk) = {} /\ Right(disk) = {} /\ Owners(disk) = <<>>
    BY <1>2 DEF Updated, Rows, Gone, Chunks, Right, Owners
  <1>. QED  BY <1>2, <1>3 DEF Abstract!Init, Gone, Right, Owners

LEMMA StepSimulated ==
    ASSUME VerdictInv, CounterInv, LedgerInv, VerdictInv', [Next]_vars
    PROVE  Abstract!Next \/ UNCHANGED Abstract!vars
  <1>1. CASE Commit
    <2>1. pc = "commit" /\ disk' = db
      BY <1>1 DEF Commit
    <2>2. /\ disk \in Database /\ disk' \in Database /\ ChunksFit(disk) /\ ChunksFit(disk')
          /\ Downward(disk) /\ Verdicts(disk) /\ TotalsMatch(disk)
      BY <2>1, Typed DEF VerdictInv, VerdictPart, CounterInv, Counters, LedgerInv
    <2>3. CASE Inserted(disk, disk') /\ (LimitUse => Cardinality(Stored(disk')) <= Upper)
      BY <2>2, <2>3, InsertSimulated DEF Abstract!Next
    <2>4. CASE UpdatedSome(disk, disk') /\ Updated(disk') = Stored(disk)
      BY <2>2, <2>4, UpdateSimulated DEF Abstract!Next
    <2>5. CASE /\ SameOwners(disk, disk') /\ Updated(disk') = Updated(disk)
               /\ Cardinality(Right(disk')) > Cardinality(Right(disk))
      BY <2>2, <2>5, RebuildSimulated DEF Abstract!Next
    <2>. QED  BY <2>1, <2>3, <2>4, <2>5 DEF LedgerInv
  <1>2. CASE ~Commit
    <2>1. UNCHANGED disk
      BY <1>2, OnlyCommit
    <2>. QED  BY <2>1 DEF Abstract!vars, Chunks, Updated, Rows
  <1>. QED  BY <1>1, <1>2

\* The committed database implements the ledger: whatever the steps of an operation do
\* on the way, each one is atomic, loses and judges no instance twice, removes whole
\* chunks oldest first within the bounds, and a rebuild is kept only with more right
\* verdicts than before; for a caller that opens a new object after an exception.
THEOREM CommitsImplementLedger == ASSUME ReopenAfterFailure PROVE Spec => ImplementsLedger
  <1>. DEFINE Inv == VerdictInv /\ CounterInv /\ LedgerInv
  <1>1. Spec => []Inv
    BY LedgerHolds
  <1>2. Init => Abstract!Init
    BY InitSimulated
  <1>3. Inv /\ Inv' /\ [Next]_vars => [Abstract!Next]_(Abstract!vars)
    BY StepSimulated
  <1>. QED  BY <1>1, <1>2, <1>3, PTL DEF Spec, ImplementsLedger, Abstract!Spec

=============================================================================
