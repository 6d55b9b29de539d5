----------------------------- MODULE SupulModel -----------------------------
(***************************************************************************)
(* The incremental learner of supul (supul/supul/impl/model.hpp): chunks   *)
(* of instances are inserted, `update' routes every new instance to a leaf *)
(* of the stored decision tree (adding a rule for a nominal value no child *)
(* knows), `rebuild' replaces the weak leaves by a tree of a new           *)
(* generation, and the chunk limit drops the oldest chunks.  Every         *)
(* operation runs in one exclusive transaction of the database, while the  *)
(* object keeps a cache of treenodes that no transaction protects.         *)
(*                                                                         *)
(* `disk' is the last committed database and `db' what the open            *)
(* transaction sees.  The other variables are the memory of the object.    *)
(* An operation is several steps, so that an error, a crash or a restart   *)
(* may fall between any two of them.                                       *)
(***************************************************************************)
EXTENDS Integers, Sequences, FiniteSets, TLC

CONSTANTS
    Nominal,       \* features of type TEXT_ID
    Numeric,       \* features of a numeric type
    Labels,        \* string ids of the class labels
    Batches,       \* CSV files: sequences of rows [x |-> feature values, y |-> label]
    MinInstances,  \* decision_tree::train, min_instances
    WeakAccuracy,  \* property model.weak_treenode_condition.accuracy, in percent
    WeakTotal,     \* property model.weak_treenode_condition.total_count
    LimitUse,      \* property limit.chunk.use
    Lower, Upper,  \* properties limit.chunk.instance_(lower|upper)_bound
    Faults,        \* whether the database or the file system may fail
    ReopenAfterFailure, \* whether the caller opens a new object after an exception
    MaxChunks      \* bound: chunks ever added

Features == Nominal \cup Numeric

ASSUME BatchAssumption ==
    /\ Labels \subseteq Nat /\ Labels # {}
    /\ Batches \subseteq Seq([x : [Features -> Nat], y : Labels]) \ {<<>>}

ASSUME LimitAssumption ==
    /\ {MinInstances, WeakAccuracy, WeakTotal, Lower, Upper, MaxChunks} \subseteq Nat
    /\ {LimitUse, Faults, ReopenAfterFailure} \subseteq BOOLEAN
    /\ Nominal \cap Numeric = {}
    /\ Lower <= Upper /\ Upper > 0 /\ WeakTotal > 0 /\ MinInstances > 0

VARIABLES
    disk,    \* the committed database
    db,      \* the database as the open transaction sees it
    known,   \* treenode_cache: parents whose list of childs is cached
    kids,    \* treenode_cache: the cached childs
    roots,   \* get_root_ref_treenode_id_cache: <<generation, root>>
    first,   \* first_root_ref_treenode_id, 0 when not read yet
    pc,      \* stage of the operation under way
    job,     \* its local variables
    failed   \* an operation of this object has thrown

cache == <<known, kids, roots, first>>
vars == <<disk, db, cache, pc, job, failed>>

-----------------------------------------------------------------------------
(* The tables (db/schema.hpp).  Ids come from AUTOINCREMENT and are never   *)
(* used again, so a table is the sequence of the rows ever added to it and  *)
(* a row's id its position.  0 stands for NULL, and for -1.  The rows of a  *)
(* removed chunk keep their place and count as deleted.  `weak' holds the   *)
(* generations that rebuilt an instance; weak_count is how many they are.   *)

Chunk    == [total : Nat, state : {"new", "updated", "removed"}]
Instance == [x : [Features -> Nat], y : Labels, chunk : Nat,
             ref : Nat, correct : BOOLEAN, weak : SUBSET Nat]
Treenode == [generation : Nat, parent : Nat, rule : Nat, leaf : Nat]
Rule     == [feature : Features, type : {"equ", "lte", "gt"}, value : Nat]
LeafInfo == [label : Labels, type : {"leaf", "go_to_generation"}, go_to : Nat,
             correct : Int, total : Int]
Global   == [instance_count : Int, updated_instance_count : Int,
             instance_correct_count : Int, acc_weak_instance_count : Int]

Database == [chunk : Seq(Chunk), instance : Seq(Instance), generation : Seq(Nat),
             treenode : Seq(Treenode), rule : Seq(Rule), leaf_info : Seq(LeafInfo),
             global : Global, confusion : [Labels \X Labels -> Int]]

EmptyDatabase ==
    [chunk |-> <<>>, instance |-> <<>>, generation |-> <<>>, treenode |-> <<>>,
     rule |-> <<>>, leaf_info |-> <<>>,
     global |-> [instance_count |-> 0, updated_instance_count |-> 0,
                 instance_correct_count |-> 0, acc_weak_instance_count |-> 0],
     confusion |-> [c \in Labels \X Labels |-> 0]]

Chunks(d, states) == {c \in 1..Len(d.chunk) : d.chunk[c].state \in states}

\* The instances of the chunks in the given states.
Rows(d, states) == {i \in 1..Len(d.instance) : d.chunk[d.instance[i].chunk].state \in states}

Stored(d)  == Rows(d, {"new", "updated"})
Updated(d) == Rows(d, {"updated"})

\* db::base::get_treenode: the childs of a treenode, left-joined with rule and leaf_info.
NoRule == [feature |-> "none", type |-> "none", value |-> 0]
NoLeaf == [label |-> 0, type |-> "none", go_to |-> 0, correct |-> 0, total |-> 0]
ChildRow(d, n) ==
    LET t == d.treenode[n]
    IN  [id |-> n, parent |-> t.parent, rule_id |-> t.rule, leaf_id |-> t.leaf,
         rule |-> IF t.rule \in 1..Len(d.rule) THEN d.rule[t.rule] ELSE NoRule,
         leaf |-> IF t.leaf \in 1..Len(d.leaf_info) THEN d.leaf_info[t.leaf] ELSE NoLeaf]
Childs(d, p) == {ChildRow(d, n) : n \in {m \in 1..Len(d.treenode) : d.treenode[m].parent = p}}

\* What is added first comes first.
FirstOf(S) == CHOOSE k \in S : \A j \in S : k.id <= j.id

\* Mutant: a leaf that an earlier generation replaced can be weak again.
IsWeakMutant(leaf) == /\ leaf.correct * 100 <= WeakAccuracy * leaf.total
                      /\ leaf.total >= WeakTotal

\* A leaf that `rebuild' replaces: its type, accuracy and number of instances.
IsWeak(leaf) == /\ leaf.type = "leaf"
                /\ leaf.correct * 100 <= WeakAccuracy * leaf.total
                /\ leaf.total >= WeakTotal

-----------------------------------------------------------------------------
(* Training (decision_tree.engine.hpp).  Entropies are abstracted: any split *)
(* that passes the tests of split_tree may have the best gain ratio.         *)

Having(d, S, l) == {i \in S : d.instance[i].y = l}

\* get_label_index: the most frequent label, the smallest of them on a tie.
Majority(d, S) ==
    CHOOSE l \in Labels : \A m \in Labels :
        LET cl == Cardinality(Having(d, S, l))
            cm == Cardinality(Having(d, S, m))
        IN  cl > cm \/ (cl = cm /\ l <= m)

Leaf(d, S) == [label |-> Majority(d, S), type |-> "leaf", go_to |-> 0,
               correct |-> Cardinality(Having(d, S, Majority(d, S))),
               total |-> Cardinality(S)]

\* Mutant: a row at the threshold goes neither way.
BranchMutant(d, S, rule, rank) ==
    [rule |-> rule, rank |-> rank,
     rows |-> {i \in S : CASE rule.type = "equ" -> d.instance[i].x[rule.feature] = rule.value
                          [] rule.type = "lte" -> d.instance[i].x[rule.feature] < rule.value
                          [] rule.type = "gt"  -> d.instance[i].x[rule.feature] > rule.value}]

\* A branch of a split; `rank' is its place among its siblings.
Branch(d, S, rule, rank) ==
    [rule |-> rule, rank |-> rank,
     rows |-> {i \in S : CASE rule.type = "equ" -> d.instance[i].x[rule.feature] = rule.value
                          [] rule.type = "lte" -> d.instance[i].x[rule.feature] <= rule.value
                          [] rule.type = "gt"  -> d.instance[i].x[rule.feature] > rule.value}]

ValuesOf(d, S, f) == {d.instance[i].x[f] : i \in S}
NominalSplit(d, S, f) ==
    {Branch(d, S, [feature |-> f, type |-> "equ", value |-> v], v) : v \in ValuesOf(d, S, f)}
NumericSplit(d, S, f, v) ==
    {Branch(d, S, [feature |-> f, type |-> "lte", value |-> v], 0),
     Branch(d, S, [feature |-> f, type |-> "gt",  value |-> v], 1)}

\* The splits of a feature that gain anything, one of which is its best.
FeatureSplits(d, S, f) ==
    {sp \in IF f \in Nominal THEN {NominalSplit(d, S, f)}
            ELSE {NumericSplit(d, S, f, d.instance[i].x[f]) : i \in S} :
        \E b \in sp, l \in Labels :
            Cardinality(Having(d, b.rows, l)) * Cardinality(S)
              # Cardinality(Having(d, S, l)) * Cardinality(b.rows)}

\* split_tree takes a split without a branch under min_instances.  A feature whose
\* best split has one is passed over, though another threshold might do.
Small(sp) == \E b \in sp : Cardinality(b.rows) < MinInstances
Splits(d, S) == {sp \in UNION {FeatureSplits(d, S, f) : f \in Features} : ~Small(sp)}
PassedOver(d, S, f) ==
    FeatureSplits(d, S, f) # {} => \E sp \in FeatureSplits(d, S, f) : Small(sp)

\* post_pruning (weight 1.2) and combine_same_label turn a node whose childs
\* are all leaves into a leaf; combine_same_label skips the root.
Wrong(d, S) == S \ Having(d, S, Majority(d, S))
Collapses(d, S, sp, root) ==
    \/ Cardinality(Wrong(d, S)) * 10 < Cardinality(UNION {Wrong(d, b.rows) : b \in sp}) * 12
    \/ ~root /\ \A b, c \in sp : Majority(d, b.rows) = Majority(d, c.rows)

Stays(d, S, sp, root) ==
    Collapses(d, S, sp, root) => \E b \in sp : Splits(d, b.rows) # {}
IsLeaf(d, S, root) ==
    \/ \A f \in Features : PassedOver(d, S, f)
    \/ \E sp \in Splits(d, S) : Collapses(d, S, sp, root)

-----------------------------------------------------------------------------
(* Locals of an operation.  `pending' is the stack of insert_tree and        *)
(* `placed' its treenode_id_map, kept for every row of a leaf; `routed'      *)
(* holds one record for every instance that `update' has counted, from which *)
(* its counters and its confusion matrix are read.                           *)

Pending == [parent : Nat, rule : Rule \cup {<<>>}, rank : Nat, rows : SUBSET Nat]
Routed  == [instance : Nat, leaf : Nat, actual : Labels, predicted : Labels, added : BOOLEAN]
Job     == [todo : SUBSET Nat, cur : Nat, x : [Features -> Nat], routed : SUBSET Routed,
            pending : SUBSET Pending, placed : SUBSET (Nat \X Nat), rows : SUBSET Nat,
            building : BOOLEAN]
NoJob   == [todo |-> {}, cur |-> 0, x |-> [f \in Features |-> 0], routed |-> {},
            pending |-> {}, placed |-> {}, rows |-> {}, building |-> FALSE]

Root(rows) == {[parent |-> 0, rule |-> <<>>, rank |-> 0, rows |-> rows]}

Least(S) == CHOOSE n \in S : \A m \in S : n <= m

Init ==
    /\ disk = EmptyDatabase /\ db = EmptyDatabase
    /\ known = {} /\ kids = {} /\ roots = {} /\ first = 0
    /\ pc = "idle" /\ job = NoJob /\ failed = FALSE

CanBegin == pc = "idle" /\ (ReopenAfterFailure => ~failed)

\* Mutant: only the cache of the roots is cleared.
ClearAllCacheMutant == roots' = {} /\ UNCHANGED <<known, kids, first>>

\* clear_all_cache does not touch first_root_ref_treenode_id.
ClearAllCache == known' = {} /\ kids' = {} /\ roots' = {} /\ UNCHANGED first

-----------------------------------------------------------------------------
(* insert_chunk_csv *)

WithChunk(d, batch) ==
    LET c == Len(d.chunk) + 1
    IN  [d EXCEPT !.chunk = Append(@, [total |-> Len(batch), state |-> "new"]),
                  !.instance = @ \o [k \in 1..Len(batch) |->
                      [x |-> batch[k].x, y |-> batch[k].y, chunk |-> c,
                       ref |-> 0, correct |-> FALSE, weak |-> {}]],
                  !.global.instance_count = @ + Len(batch)]

Insert(batch) ==
    /\ CanBegin
    /\ Len(db.chunk) < MaxChunks
    /\ db' = WithChunk(db, batch)
    /\ pc' = IF LimitUse /\ db'.global.instance_count > Upper THEN "limit" ELSE "commit"
    /\ UNCHANGED <<disk, cache, job, failed>>

\* The join of an instance with its leaf: get_leaf_info_by_chunk_id.
LeafId(d, i)  == d.treenode[d.instance[i].ref].leaf
LabelOf(d, i) == d.leaf_info[LeafId(d, i)].label
Met(d, c) == {i \in Stored(d) : /\ d.instance[i].chunk = c
                                /\ d.instance[i].ref \in 1..Len(d.treenode)
                                /\ LeafId(d, i) \in 1..Len(d.leaf_info)}

\* remove_chunk: takes back what the chunk's instances added to the counters.
WithoutChunk(d, c) ==
    LET met   == Met(d, c)
        right == {i \in met : d.instance[i].y = LabelOf(d, i)}
        g == d.global
    IN  [d EXCEPT
          !.chunk[c].state = "removed",
          !.confusion = [ap \in Labels \X Labels |->
              @[ap] - Cardinality({i \in met : <<d.instance[i].y, LabelOf(d, i)>> = ap})],
          !.leaf_info = [l \in 1..Len(d.leaf_info) |->
              [d.leaf_info[l] EXCEPT
                 !.correct = @ - Cardinality({i \in right : LeafId(d, i) = l}),
                 !.total   = @ - Cardinality({i \in met : LeafId(d, i) = l})]],
          !.global = [instance_count |-> g.instance_count - d.chunk[c].total,
                      updated_instance_count |-> g.updated_instance_count
                          - (IF d.chunk[c].state = "updated" THEN d.chunk[c].total ELSE 0),
                      instance_correct_count |-> g.instance_correct_count - Cardinality(right),
                      acc_weak_instance_count |-> g.acc_weak_instance_count
                          - Cardinality(UNION {{i} \X d.instance[i].weak : i \in met})]]

\* The checks of remove_chunk: the rows joined to a leaf against total_count,
\* and no counter under zero.
RemovalFails(d, c) ==
    LET g == WithoutChunk(d, c).global
    IN  \/ /\ d.chunk[c].state = "updated"
           /\ d.chunk[c].total # Cardinality(Met(d, c))
        \/ g.instance_count < 0 \/ g.updated_instance_count < 0
        \/ g.instance_correct_count < 0 \/ g.acc_weak_instance_count < 0

\* chunk_limit: the oldest chunk goes as long as Lower instances remain.
Oldest == Least(Chunks(db, {"new", "updated"}))
MayRemove == /\ Chunks(db, {"new", "updated"}) # {}
             /\ db.global.instance_count - db.chunk[Oldest].total >= Lower

RemoveOldest ==
    /\ pc = "limit" /\ MayRemove
    /\ IF RemovalFails(db, Oldest)
       THEN pc' = "throw" /\ UNCHANGED <<db, cache>>
       ELSE db' = WithoutChunk(db, Oldest) /\ ClearAllCache /\ UNCHANGED pc
    /\ UNCHANGED <<disk, job, failed>>

LimitReached(d) == Lower <= d.global.instance_count /\ d.global.instance_count < Upper
LimitDone ==
    /\ pc = "limit" /\ ~MayRemove
    /\ pc' = IF LimitReached(db) THEN "commit" ELSE "throw"
    /\ UNCHANGED <<disk, db, cache, job, failed>>

-----------------------------------------------------------------------------
(* update: the not updated chunks.  While the generation table is empty,    *)
(* build_first_tree trains on all their instances before they are routed.    *)

UpdateBegin ==
    /\ CanBegin
    /\ Chunks(db, {"new"}) # {}
    /\ IF db.generation = <<>>
       THEN /\ db' = [db EXCEPT !.generation = <<0>>,
                         !.global.updated_instance_count = Cardinality(Rows(db, {"new"}))]
            /\ pc' = "grow"
       ELSE pc' = "route" /\ UNCHANGED db
    /\ job' = [NoJob EXCEPT !.todo = Rows(db, {"new"}),
                            !.building = (db.generation = <<>>),
                            !.pending = IF db.generation = <<>>
                                        THEN Root(Rows(db, {"new"})) ELSE {}]
    /\ UNCHANGED <<disk, cache, failed>>

\* insert_tree visits the treenodes depth first, siblings in the order of the
\* split: the next one is a child of the newest treenode that has some left.
IsTop(n) == \A m \in job.pending :
                n.parent > m.parent \/ (n.parent = m.parent /\ n.rank <= m.rank)

WithTreenode(d, n, leaves) ==
    LET id == Len(d.treenode) + 1
        g  == Len(d.generation)
        rules == IF n.parent = 0 THEN <<>> ELSE <<n.rule>>
    IN  [d EXCEPT
          !.rule = @ \o rules,
          !.leaf_info = @ \o leaves,
          !.treenode = Append(@, [generation |-> g, parent |-> n.parent,
              rule |-> IF rules = <<>> THEN 0 ELSE Len(d.rule) + 1,
              leaf |-> IF leaves = <<>> THEN 0 ELSE Len(d.leaf_info) + 1]),
          !.generation[g] = IF n.parent = 0 THEN id ELSE @]

Grown == IF job'.pending # {} THEN "grow" ELSE IF job.building THEN "route" ELSE "judge"

GrowLeaf ==
    /\ pc = "grow"
    /\ \E n \in job.pending :
        /\ IsTop(n)
        /\ IsLeaf(db, n.rows, n.parent = 0)
        /\ db' = WithTreenode(db, n, <<Leaf(db, n.rows)>>)
        /\ job' = [job EXCEPT !.pending = @ \ {n},
                              !.placed = @ \cup (n.rows \X {Len(db.treenode) + 1})]
    /\ pc' = Grown
    /\ UNCHANGED <<disk, cache, failed>>

GrowSplit ==
    /\ pc = "grow"
    /\ \E n \in job.pending : \E sp \in Splits(db, n.rows) :
        /\ IsTop(n)
        /\ Stays(db, n.rows, sp, n.parent = 0)
        /\ db' = WithTreenode(db, n, <<>>)
        /\ job' = [job EXCEPT !.pending = (@ \ {n}) \cup
              {[parent |-> Len(db.treenode) + 1, rule |-> b.rule,
                rank |-> b.rank, rows |-> b.rows] : b \in sp}]
    /\ pc' = Grown
    /\ UNCHANGED <<disk, cache, failed>>

-----------------------------------------------------------------------------
(* predict_main, one round of its loop at a time; shared by update ("route") *)
(* and predict ("predict").  Childs are read through the cache.              *)

Walking == (pc = "route" /\ job.todo # {}) \/ pc = "predict"
Subject == IF pc = "predict" THEN job.x ELSE db.instance[Least(job.todo)].x

FirstRoot == IF first # 0 THEN first ELSE db.generation[1]
Here == IF job.cur # 0 THEN job.cur ELSE FirstRoot

\* get_treenode_from_cache
Seen(p) == IF p \in known THEN {k \in kids : k.parent = p} ELSE Childs(db, p)
Remember(p) == known' = known \cup {p} /\ kids' = kids \cup Seen(p)

\* eval_treenode
Matches(rule, x) ==
    CASE rule.type = "equ" -> x[rule.feature] = rule.value
      [] rule.type = "lte" -> x[rule.feature] <= rule.value
      [] rule.type = "gt"  -> x[rule.feature] > rule.value

Matched == {k \in Seen(Here) : Matches(k.rule, Subject)}
Choice  == FirstOf(Matched)

Visit == Walking /\ Remember(Here) /\ first' = FirstRoot /\ UNCHANGED <<disk, failed>>

NoChilds ==
    /\ Visit
    /\ Seen(Here) = {}
    /\ pc' = "throw"
    /\ UNCHANGED <<db, roots, job>>

\* No child matches: predict answers with the leaf of an earlier generation,
\* or that no rule matched; update goes on to add a rule.
NoMatch ==
    /\ Visit
    /\ Seen(Here) # {} /\ Matched = {}
    /\ IF pc = "predict" THEN pc' = "idle" /\ job' = NoJob
       ELSE pc' = "rule_add" /\ job' = [job EXCEPT !.cur = Here]
    /\ UNCHANGED <<db, roots>>

StepDown ==
    /\ Visit
    /\ Matched # {} /\ Choice.leaf_id = 0
    /\ job' = [job EXCEPT !.cur = Choice.id]
    /\ UNCHANGED <<db, roots, pc>>

\* Mutant: every generation is looked up as the first one.
RootsOfMutant(g) == IF g \in 1..Len(db.generation) THEN {<<g, db.generation[1]>>} ELSE {}

\* get_root_ref_treenode_id_from_cache
RootsOf(g) == LET cached == {r \in roots : r[1] = g}
              IN  IF cached # {} \/ g \notin 1..Len(db.generation) THEN cached
                  ELSE {<<g, db.generation[g]>>}

JumpToGeneration ==
    /\ Visit
    /\ Matched # {} /\ Choice.leaf_id # 0 /\ Choice.leaf.type = "go_to_generation"
    /\ roots' = roots \cup RootsOf(Choice.leaf.go_to)
    /\ IF RootsOf(Choice.leaf.go_to) = {} THEN pc' = "throw" /\ UNCHANGED job
       ELSE /\ \E r \in RootsOf(Choice.leaf.go_to) : job' = [job EXCEPT !.cur = r[2]]
            /\ UNCHANGED pc
    /\ UNCHANGED db

\* Mutant: the verdict is not written with the leaf.
JudgedMutant(d, i, k) == [d EXCEPT !.instance[i].ref = k.id]

\* The instance is judged by leaf k: update_instance_info, and the counters.
Judged(d, i, k) ==
    [d EXCEPT !.instance[i].ref = k.id,
              !.instance[i].correct = (d.instance[i].y = k.leaf.label)]
Counted(i, k, added) ==
    [job EXCEPT !.todo = @ \ {i}, !.cur = 0,
       !.routed = @ \cup {[instance |-> i, leaf |-> k.leaf_id, added |-> added,
                           actual |-> db.instance[i].y, predicted |-> k.leaf.label]}]

Arrive ==
    /\ Visit
    /\ Matched # {} /\ Choice.leaf_id # 0 /\ Choice.leaf.type = "leaf"
    /\ IF pc = "predict" THEN pc' = "idle" /\ job' = NoJob /\ UNCHANGED db
       ELSE LET i == Least(job.todo)
            IN  db' = Judged(db, i, Choice) /\ job' = Counted(i, Choice, FALSE) /\ UNCHANGED pc
    /\ UNCHANGED roots

-----------------------------------------------------------------------------
(* get_leaf_treenode_with_rule_add: the instance has a nominal value that no *)
(* child of job.cur knows.  A rule is copied with that value and becomes the *)
(* rule of a new leaf that says the instance's own label.                    *)

\* The id handed to copy_rule is the first child's treenode id.
CopiedRule(child) == child.id

CanAddRule(child) == /\ child.rule.type = "equ"
                     /\ CopiedRule(child) \in 1..Len(db.rule)
                     /\ child.id \in 1..Len(db.treenode)

\* The copy keeps its type; a rule on a REAL feature keeps its value_real too.
WithRule(d, child, i) ==
    LET copy == d.rule[CopiedRule(child)]
        value == d.instance[i].x[child.rule.feature]
    IN  [d EXCEPT
          !.rule = Append(@, IF copy.type = "equ" THEN [copy EXCEPT !.value = value] ELSE copy),
          !.leaf_info = Append(@, [label |-> d.instance[i].y, type |-> "leaf", go_to |-> 0,
                                   correct |-> 1, total |-> 1]),
          !.treenode = Append(@, [generation |-> d.treenode[child.id].generation,
                                  parent |-> job.cur, rule |-> Len(d.rule) + 1,
                                  leaf |-> Len(d.leaf_info) + 1])]

RuleAdd ==
    /\ pc = "rule_add"
    /\ LET i == Least(job.todo)
           childs == Seen(job.cur)
           child == FirstOf(childs)
           d == WithRule(db, child, i)
           new == ChildRow(d, Len(d.treenode))
       IN  IF ~CanAddRule(child) THEN pc' = "throw" /\ UNCHANGED <<db, known, kids, job>>
           ELSE /\ known' = known \cup {job.cur}
                /\ kids' = {k \in kids : k.parent # job.cur} \cup Childs(d, job.cur)
                /\ IF Cardinality(Childs(d, job.cur)) # Cardinality(childs) + 1
                   THEN pc' = "throw" /\ db' = d /\ UNCHANGED job
                   ELSE pc' = "route" /\ db' = Judged(d, i, new) /\ job' = Counted(i, new, TRUE)
    /\ UNCHANGED <<disk, roots, first, failed>>

-----------------------------------------------------------------------------
(* The end of update: every instance has its leaf, the counters follow.      *)

\* Mutant: an instance that brought its own leaf counts there once more.
HitsMutant(l) == {r \in job.routed : r.leaf = l /\ ~job.building}
Hits(l) == {r \in job.routed : r.leaf = l /\ ~r.added /\ ~job.building}
Gained(leaf, l) ==
    [leaf EXCEPT !.correct = @ + Cardinality({r \in Hits(l) : r.actual = r.predicted}),
                 !.total   = @ + Cardinality(Hits(l))]

UpdateFinish ==
    /\ pc = "route" /\ job.todo = {}
    /\ db' = [db EXCEPT
         !.chunk = [c \in 1..Len(@) |->
             IF @[c].state # "new" THEN @[c]
             ELSE [state |-> "updated",
                   total |-> Cardinality({r \in job.routed : db.instance[r.instance].chunk = c})]],
         !.leaf_info = [l \in 1..Len(@) |-> Gained(@[l], l)],
         !.global.updated_instance_count =
             @ + (IF job.building THEN 0 ELSE Cardinality(job.routed)),
         !.global.instance_correct_count =
             @ + Cardinality({r \in job.routed : r.actual = r.predicted}),
         !.confusion = [ap \in Labels \X Labels |->
             @[ap] + Cardinality({r \in job.routed : <<r.actual, r.predicted>> = ap})]]
    /\ kids' = {[k EXCEPT !.leaf = Gained(@, k.leaf_id)] : k \in kids}
    /\ pc' = "commit"
    /\ UNCHANGED <<disk, known, roots, first, job, failed>>

-----------------------------------------------------------------------------
(* rebuild: the weak leaves send on to a new generation, a tree trained on   *)
(* their instances.  The model trains and inserts it in one go ("grow"), and *)
(* judges it afterwards; giving up rolls the insertion back too.             *)

\* Mutant: the type changes, the generation to go to stays NULL.
SentOnMutant(leaf, g) ==
    IF IsWeak(leaf) THEN [leaf EXCEPT !.type = "go_to_generation", !.go_to = -1] ELSE leaf

SentOn(leaf, g) == IF IsWeak(leaf) THEN [leaf EXCEPT !.type = "go_to_generation", !.go_to = g]
                   ELSE leaf

RebuildBegin ==
    /\ CanBegin
    /\ \E l \in 1..Len(db.leaf_info) : IsWeak(db.leaf_info[l])
    /\ LET g == Len(db.generation) + 1
           d == [db EXCEPT !.generation = Append(@, 0),
                           !.leaf_info = [l \in 1..Len(@) |-> SentOn(@[l], g)]]
           rows == {i \in UNION {Met(d, c) : c \in Chunks(d, {"new", "updated"})} :
                      d.leaf_info[LeafId(d, i)].go_to = g}
       IN  /\ db' = d
           /\ kids' = {[k EXCEPT !.leaf = SentOn(@, g)] : k \in kids}
           /\ job' = [NoJob EXCEPT !.rows = rows, !.pending = Root(rows)]
           /\ pc' = IF rows = {} THEN "throw" ELSE "grow"
    /\ UNCHANGED <<disk, known, roots, first, failed>>

\* The leaf of the new tree that row i falls in (treenode_id_map of dt.predict).
NewRef(i)   == CHOOSE n \in 1..Len(db.treenode) : <<i, n>> \in job.placed
NewLabel(i) == db.leaf_info[db.treenode[NewRef(i)].leaf].label

\* Mutant: counted before the weak leaves are marked, the query finds nothing.
CorrectBeforeMutant == {}
CorrectBefore == {i \in job.rows : db.instance[i].correct}
CorrectAfter  == {i \in job.rows : db.instance[i].y = NewLabel(i)}
\* Mutant: every tree that is more than a root is kept.
ImprovesMutant == db.treenode[db.generation[Len(db.generation)]].leaf = 0
Improves == /\ db.treenode[db.generation[Len(db.generation)]].leaf = 0
            /\ Cardinality(CorrectBefore) < Cardinality(CorrectAfter)

RebuildGiveUp ==
    /\ pc = "judge" /\ ~Improves
    /\ db' = disk /\ ClearAllCache
    /\ pc' = "idle" /\ job' = NoJob
    /\ UNCHANGED <<disk, failed>>

\* get_confusion_matrix_diff: a cell that only the old predictions have keeps
\* their count, with its sign.
Before(ap) == Cardinality({i \in job.rows : <<db.instance[i].y, LabelOf(db, i)>> = ap})
After(ap)  == Cardinality({i \in job.rows : <<db.instance[i].y, NewLabel(i)>> = ap})
\* Mutant: the difference with its sign turned.
DiffMutant(ap) == Before(ap) - After(ap)
Diff(ap)   == IF After(ap) # 0 THEN After(ap) - Before(ap) ELSE Before(ap)

\* A rebuilt row: its new leaf, its verdict there, and one more in weak_count.
Rebuilt(i) == [db.instance[i] EXCEPT !.ref = NewRef(i), !.correct = (i \in CorrectAfter),
                                     !.weak = @ \cup {Len(db.generation)}]

RebuildInstall ==
    /\ pc = "judge" /\ Improves
    /\ db' = [db EXCEPT
         !.instance = [i \in 1..Len(@) |->
             IF i \in job.rows THEN Rebuilt(i) ELSE @[i]],
         !.global.instance_correct_count =
             @ + Cardinality(CorrectAfter) - Cardinality(CorrectBefore),
         !.global.acc_weak_instance_count = @ + Cardinality(job.rows),
         !.confusion = [ap \in Labels \X Labels |-> @[ap] + Diff(ap)]]
    /\ pc' = "commit"
    /\ UNCHANGED <<disk, cache, job, failed>>

-----------------------------------------------------------------------------
(* predict reads only, but fills the caches.                                 *)
PredictBegin(x) ==
    /\ CanBegin
    /\ db.generation # <<>> \/ first # 0
    /\ pc' = "predict" /\ job' = [NoJob EXCEPT !.x = x]
    /\ UNCHANGED <<disk, db, cache, failed>>

(* The end of a transaction: transaction_guard, and the catch of the api.    *)
Commit ==
    /\ pc = "commit"
    /\ disk' = db /\ pc' = "idle" /\ job' = NoJob
    /\ UNCHANGED <<db, cache, failed>>

\* The database or a file fails under an operation, its commit included.
Fault ==
    /\ Faults /\ pc \notin {"idle", "throw"}
    /\ pc' = "throw"
    /\ UNCHANGED <<disk, db, cache, job, failed>>

\* ~transaction_guard rolls the database back; the caches stay as they are.
Unwind ==
    /\ pc = "throw"
    /\ db' = disk /\ pc' = "idle" /\ job' = NoJob /\ failed' = TRUE
    /\ UNCHANGED <<disk, cache>>

\* The process ends, at any moment, and a new object opens the database.
Restart ==
    /\ db' = disk /\ known' = {} /\ kids' = {} /\ roots' = {} /\ first' = 0
    /\ pc' = "idle" /\ job' = NoJob /\ failed' = FALSE
    /\ UNCHANGED disk

Begin == \/ \E b \in Batches : Insert(b)
         \/ UpdateBegin
         \/ RebuildBegin
         \/ \E b \in Batches : \E k \in 1..Len(b) : PredictBegin(b[k].x)

Step == \/ RemoveOldest \/ LimitDone
        \/ GrowLeaf \/ GrowSplit
        \/ NoChilds \/ NoMatch \/ StepDown \/ JumpToGeneration \/ Arrive
        \/ RuleAdd \/ UpdateFinish
        \/ RebuildGiveUp \/ RebuildInstall
        \/ Commit \/ Unwind

Next == Begin \/ Step \/ Fault \/ Restart

\* An operation that has begun runs on; nobody has to begin one.
Fairness == WF_vars(Step)

Spec == Init /\ [][Next]_vars
FairSpec == Spec /\ Fairness

-----------------------------------------------------------------------------
(* Properties                                                                *)

NoLeafType   == [label : {0}, type : {"none"}, go_to : {0}, correct : Int, total : Int]
ChildRowType == [id : Nat, parent : Nat, rule_id : Nat, leaf_id : Nat,
                 rule : Rule \cup {NoRule}, leaf : LeafInfo \cup NoLeafType]
Stages == {"idle", "grow", "route", "predict", "rule_add", "judge", "limit", "commit", "throw"}

\* The type of every variable, the tables of the database included.
TypeOK ==
    /\ disk \in Database /\ db \in Database
    /\ known \subseteq Nat /\ kids \subseteq ChildRowType
    /\ roots \subseteq Nat \X Nat /\ first \in Nat
    /\ pc \in Stages /\ job \in Job /\ failed \in BOOLEAN

\* Training loses no row: until a rebuild is over, every row it was given waits
\* under a node not yet inserted or has its leaf in the new tree, where rebuild
\* looks it up in treenode_id_map (and throws when it is not there).
NoRowLost ==
    /\ \A i \in job.rows : \/ \E n \in job.pending : i \in n.rows
                           \/ \E t \in 1..Len(db.treenode) : <<i, t>> \in job.placed
    /\ pc = "judge" => job.pending = {}

\* What else has to hold for every step to keep the types: the rows an operation
\* works on exist, and so does the root it walks from.
WeakFits(d) ==
    \A i \in 1..Len(d.instance) : d.instance[i].weak \subseteq 1..Len(d.generation)
JobFits ==
    /\ job.todo \subseteq 1..Len(db.instance) /\ job.rows \subseteq 1..Len(db.instance)
    /\ IsFiniteSet(job.routed)
    /\ \A n \in job.pending : /\ n.rows \subseteq 1..Len(db.instance)
                              /\ n.parent # 0 => n.rule \in Rule
HasRoot ==
    /\ pc \in {"grow", "judge"} => db.generation # <<>>
    /\ pc \in {"route", "rule_add", "predict"} => first # 0 \/ db.generation # <<>>
CanCopy == pc = "rule_add" => job.todo # {} /\ Seen(job.cur) # {}

Inductive == /\ TypeOK /\ NoRowLost
             /\ WeakFits(disk) /\ WeakFits(db) /\ JobFits /\ HasRoot /\ CanCopy

\* The verdict on every instance is current (instance_info): an instance of an
\* updated chunk refers to a leaf that is still in force, never to one that a
\* rebuild has sent on, and `correct' is the comparison of its own label with
\* that leaf's; an instance of a chunk not updated refers to nothing.
VerdictsCurrent ==
    \A i \in Stored(disk) :
        IF i \in Updated(disk)
        THEN /\ disk.instance[i].ref \in 1..Len(disk.treenode)
             /\ LeafId(disk, i) # 0
             /\ disk.leaf_info[LeafId(disk, i)].type = "leaf"
             /\ disk.instance[i].correct = (disk.instance[i].y = LabelOf(disk, i))
        ELSE disk.instance[i].ref = 0 /\ ~disk.instance[i].correct /\ disk.instance[i].weak = {}

\* verify_etc_1, leaf by leaf: the counters by which rebuild finds weak leaves
\* are those of the instances that refer to the leaf, through training, routing,
\* added rules, rebuilds and the removal of chunks.
LeafCountsMatch ==
    \A l \in 1..Len(disk.leaf_info) :
        disk.leaf_info[l].type = "leaf" =>
            LET here == {i \in Updated(disk) : LeafId(disk, i) = l}
            IN  /\ disk.leaf_info[l].total = Cardinality(here)
                /\ disk.leaf_info[l].correct =
                     Cardinality({i \in here : disk.instance[i].y = disk.leaf_info[l].label})

\* verify_global and verify_etc_2: the global counters, kept by increments in
\* insert, update, rebuild and remove_chunk, are what a scan of the rows finds.
GlobalsMatch ==
    disk.global =
        [instance_count |-> Cardinality(Stored(disk)),
         updated_instance_count |-> Cardinality(Updated(disk)),
         instance_correct_count |-> Cardinality({i \in Stored(disk) : disk.instance[i].correct}),
         acc_weak_instance_count |->
             Cardinality(UNION {{i} \X disk.instance[i].weak : i \in Stored(disk)})]

Scanned(d, ap) == Cardinality({i \in Updated(d) : <<d.instance[i].y, LabelOf(d, i)>> = ap})

\* What is left of verify_etc_6: no cell of the global confusion matrix is below
\* the number of instances it stands for, so that no removal makes one negative
\* (verify_etc_3).
ConfusionCovers == \A ap \in Labels \X Labels : disk.confusion[ap] >= Scanned(disk, ap)

\* verify_etc_6: the global confusion matrix is the one of a scan of all instances.
ConfusionExact == \A ap \in Labels \X Labels : disk.confusion[ap] = Scanned(disk, ap)

Coherent == /\ kids = UNION {Childs(db, p) : p \in known}
            /\ \A r \in roots : r[1] \in 1..Len(db.generation) /\ r[2] = db.generation[r[1]]
            /\ first # 0 => db.generation # <<>> /\ first = db.generation[1]

\* verify_cache: while no operation of the object has thrown, the caches hold what
\* the database of the open transaction does, at every step: rules added,
\* leaves counted or sent on, chunks removed, a rebuild given up.
CacheCoherent == ~failed => Coherent

\* The leaf that predict_main reaches from the first root in database d.
LandsOn(d, x) ==
    LET Taken(n) == {k \in Childs(d, n) : Matches(k.rule, x)}
        walk[n \in 1..Len(d.treenode)] ==
            IF Taken(n) = {} THEN 0
            ELSE LET k == FirstOf(Taken(n))
                 IN  IF k.leaf_id = 0 THEN walk[k.id]
                     ELSE IF k.leaf.type = "leaf" THEN k.id
                     ELSE walk[d.generation[k.leaf.go_to]]
    IN  walk[d.generation[1]]

SiblingsAlike(d) ==
    \A m, n \in 1..Len(d.treenode) :
        d.treenode[m].parent = d.treenode[n].parent /\ d.treenode[m].parent # 0
        => d.rule[d.treenode[m].rule].feature = d.rule[d.treenode[n].rule].feature

\* The treenode an updated instance refers to is the one predict would reach for
\* it now, whatever rules and generations came after it was routed; as long as
\* siblings have rules on one feature, which a wrongly copied rule breaks.
RoutesAgree ==
    SiblingsAlike(disk) =>
        \A i \in Updated(disk) : LandsOn(disk, disk.instance[i].x) = disk.instance[i].ref

\* The committed database implements the ledger: each operation is atomic, loses
\* and judges no instance twice, removes whole chunks oldest first within the
\* bounds, and a rebuild is kept only with more right verdicts than before.
Abstract == INSTANCE Ledger WITH
    Limited <- LimitUse,
    owner   <- [i \in 1..Len(disk.instance) |-> disk.instance[i].chunk],
    chunks  <- Len(disk.chunk),
    dropped <- Chunks(disk, {"removed"}),
    judged  <- Updated(disk),
    right   <- {i \in Updated(disk) : disk.instance[i].correct}
ImplementsLedger == Abstract!Spec

\* "(lower <= instance_count) && (instance_count <= upper)": with the instances in
\* these bounds and no chunk left that may go, the limit is reached.
LimitAccepts ==
    pc = "limit" /\ ~MayRemove
        /\ Lower <= db.global.instance_count /\ db.global.instance_count <= Upper
    => LimitReached(db)

\* "copies one of the children": the rule copied for a new value is a sibling's.
CopiesASibling ==
    pc = "rule_add" =>
        LET childs == Seen(job.cur)
            child == FirstOf(childs)
        IN  CopiedRule(child) \in {k.rule_id : k \in childs}

\* "all cache and database contents match" between operations, also after one
\* that failed.
CacheMatches == pc = "idle" => Coherent

\* Every operation ends: the walk through generations, the rules it adds, the
\* training and the removal of chunks all come to an end.
OperationsEnd == pc # "idle" ~> pc = "idle"

=============================================================================
