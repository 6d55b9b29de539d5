-------------------------- MODULE SupulVerdictProofs --------------------------
(***************************************************************************)
(* The caches of the learner hold what the database of the open            *)
(* transaction does, and every verdict that the database stores is the one *)
(* of a leaf in force, for every set of features, labels and batches, as   *)
(* long as an object that has failed is not used again.                    *)
(***************************************************************************)
EXTENDS SupulModelProofs

-----------------------------------------------------------------------------
(* The invariant of the caches.                                              *)

\* A treenode refers to a rule and a leaf that are there, or to none.
RefsFit(d) ==
    \A n \in 1..Len(d.treenode) : /\ d.treenode[n].rule \in 0..Len(d.rule)
                                  /\ d.treenode[n].leaf \in 0..Len(d.leaf_info)

\* Every generation has its root.
RootsFit(d) == \A g \in 1..Len(d.generation) : d.generation[g] \in 1..Len(d.treenode)

\* A transaction adds generations and treenodes, and begins with what is committed.
Grows ==
    /\ Len(disk.generation) <= Len(db.generation)
    /\ \A g \in 1..Len(disk.generation) : db.generation[g] = disk.generation[g]
    /\ Len(disk.treenode) <= Len(db.treenode)
    /\ pc \in {"idle", "predict"} => db = disk

\* While a tree is inserted its generation is the newest, its nodes are below nodes
\* of this transaction, and its root is pending or in place.
TreeInserted ==
    /\ Len(db.generation) = Len(disk.generation) + 1
    /\ \A n \in job.pending : \/ n.parent = 0
                              \/ n.parent \in (Len(disk.treenode) + 1)..Len(db.treenode)
    /\ \/ \E n \in job.pending : n.parent = 0
       \/ db.generation[Len(db.generation)] \in 1..Len(db.treenode)

TreeInv ==
    /\ RefsFit(disk) /\ RefsFit(db) /\ RootsFit(disk) /\ Grows
    /\ pc \notin {"grow", "throw"} => RootsFit(db)
    /\ pc = "grow" => TreeInserted
    /\ pc \in {"route", "rule_add"} => db.generation # <<>>
    /\ \A r \in job.routed : r.leaf # 0

\* What the caches know is in the database, and the committed part of it while
\* a tree is inserted.
CacheFits ==
    /\ Coherent
    /\ known \subseteq 1..Len(db.treenode) /\ job.cur \in 0..Len(db.treenode)
    /\ pc = "rule_add" => job.cur # 0
    /\ pc \in {"grow", "judge"} =>
         /\ known \subseteq 1..Len(disk.treenode)
         /\ \A r \in roots : r[1] \in 1..Len(disk.generation)
         /\ first # 0 => disk.generation # <<>>

CacheInv == Inductive /\ TreeInv /\ (~failed => CacheFits)

-----------------------------------------------------------------------------
(* Childs of a database that has changed.                                    *)

\* The tables of the tree are the same.
TreeSame(d, e) == /\ e.generation = d.generation /\ e.treenode = d.treenode
                  /\ e.rule = d.rule /\ e.leaf_info = d.leaf_info

LEMMA SameChilds ==
    ASSUME NEW d, NEW e, TreeSame(d, e)
    PROVE  /\ \A p : Childs(e, p) = Childs(d, p)
           /\ RefsFit(e) <=> RefsFit(d)
           /\ RootsFit(e) <=> RootsFit(d)
  BY DEF TreeSame, Childs, ChildRow, RefsFit, RootsFit

\* One more treenode, with or without a rule and a leaf of its own.
TreeGrown(d, e) ==
    /\ Len(e.treenode) = Len(d.treenode) + 1
    /\ \A n \in 1..Len(d.treenode) : e.treenode[n] = d.treenode[n]
    /\ Len(d.rule) <= Len(e.rule)
    /\ \A r \in 1..Len(d.rule) : e.rule[r] = d.rule[r]
    /\ Len(d.leaf_info) <= Len(e.leaf_info)
    /\ \A l \in 1..Len(d.leaf_info) : e.leaf_info[l] = d.leaf_info[l]
    /\ e.treenode[Len(e.treenode)].rule \in 0..Len(e.rule)
    /\ e.treenode[Len(e.treenode)].leaf \in 0..Len(e.leaf_info)

\* A new treenode is a child of its parent and of no other.
LEMMA GrownChilds ==
    ASSUME NEW d \in Database, NEW e \in Database, RefsFit(d), TreeGrown(d, e),
           NEW p, p # e.treenode[Len(e.treenode)].parent
    PROVE  Childs(e, p) = Childs(d, p)
  <1>1. Len(d.treenode) \in Nat /\ Len(e.treenode) = Len(d.treenode) + 1
        /\ Len(d.rule) \in Nat /\ Len(e.rule) \in Nat
        /\ Len(d.leaf_info) \in Nat /\ Len(e.leaf_info) \in Nat
    BY Lengths DEF TreeGrown
  <1>2. ASSUME NEW n \in 1..Len(d.treenode) PROVE ChildRow(e, n) = ChildRow(d, n)
    <2>1. e.treenode[n] = d.treenode[n]
      BY DEF TreeGrown
    <2>2. /\ d.treenode[n].rule \in 0..Len(d.rule)
          /\ d.treenode[n].leaf \in 0..Len(d.leaf_info)
      BY DEF RefsFit
    <2>. DEFINE r == d.treenode[n].rule
                l == d.treenode[n].leaf
    <2>3. /\ (r \in 1..Len(e.rule)) = (r \in 1..Len(d.rule))
          /\ (l \in 1..Len(e.leaf_info)) = (l \in 1..Len(d.leaf_info))
      <3>1. Len(d.rule) <= Len(e.rule) /\ Len(d.leaf_info) <= Len(e.leaf_info)
        BY DEF TreeGrown
      <3>2. r \in 0..Len(d.rule) /\ l \in 0..Len(d.leaf_info)
        BY <2>2
      <3>. HIDE DEF r, l
      <3>. QED  BY <1>1, <3>1, <3>2
    <2>4. /\ r \in 1..Len(d.rule) => e.rule[r] = d.rule[r]
          /\ l \in 1..Len(d.leaf_info) => e.leaf_info[l] = d.leaf_info[l]
      BY DEF TreeGrown
    <2>. QED  BY <2>1, <2>3, <2>4 DEF ChildRow
  <1>3. \A n : n \in 1..Len(e.treenode) /\ e.treenode[n].parent = p <=>
               n \in 1..Len(d.treenode) /\ d.treenode[n].parent = p
    <2>1. \A n \in 1..Len(d.treenode) : e.treenode[n] = d.treenode[n]
      BY DEF TreeGrown
    <2>2. \A n : n \in 1..Len(e.treenode) <=>
                 n \in 1..Len(d.treenode) \/ n = Len(e.treenode)
      BY <1>1
    <2>. TAKE n
    <2>3. n = Len(e.treenode) => e.treenode[n].parent # p
      OBVIOUS
    <2>4. n \in 1..Len(d.treenode) => e.treenode[n].parent = d.treenode[n].parent
      BY <2>1
    <2>. QED  BY <2>2, <2>3, <2>4
  <1>4. {m \in 1..Len(e.treenode) : e.treenode[m].parent = p} =
        {m \in 1..Len(d.treenode) : d.treenode[m].parent = p}
    BY <1>3
  <1>. QED  BY <1>2, <1>4 DEF Childs

LEMMA GrownRefs ==
    ASSUME NEW d \in Database, NEW e \in Database, RefsFit(d), TreeGrown(d, e)
    PROVE  RefsFit(e)
  <1>1. Len(d.treenode) \in Nat /\ Len(e.treenode) = Len(d.treenode) + 1
        /\ Len(d.rule) \in Nat /\ Len(e.rule) \in Nat
        /\ Len(d.leaf_info) \in Nat /\ Len(e.leaf_info) \in Nat
    BY Lengths DEF TreeGrown
  <1>. SUFFICES ASSUME NEW n \in 1..Len(e.treenode)
                PROVE  /\ e.treenode[n].rule \in 0..Len(e.rule)
                       /\ e.treenode[n].leaf \in 0..Len(e.leaf_info)
    BY DEF RefsFit
  <1>2. CASE n = Len(e.treenode)
    BY <1>2 DEF TreeGrown
  <1>3. CASE n # Len(e.treenode)
    <2>1. n \in 1..Len(d.treenode)
      BY <1>1, <1>3
    <2>2. e.treenode[n] = d.treenode[n]
      BY <2>1 DEF TreeGrown
    <2>3. /\ d.treenode[n].rule \in 0..Len(d.rule)
          /\ d.treenode[n].leaf \in 0..Len(d.leaf_info)
      BY <2>1 DEF RefsFit
    <2>. QED  BY <1>1, <2>2, <2>3 DEF TreeGrown
  <1>. QED  BY <1>2, <1>3

-----------------------------------------------------------------------------
(* What every operation does to the tables of the tree.                      *)

LEMMA WithChunkTree ==
    ASSUME NEW d \in Database, NEW b \in Batches
    PROVE  TreeSame(d, WithChunk(d, b))
  BY DEF WithChunk, TreeSame, Database

LEMMA WithoutChunkTree ==
    ASSUME NEW d \in Database, NEW c
    PROVE  LET e == WithoutChunk(d, c)
           IN  /\ e.generation = d.generation /\ e.treenode = d.treenode
               /\ e.rule = d.rule /\ Len(e.leaf_info) = Len(d.leaf_info)
  <1>. DEFINE e == WithoutChunk(d, c)
  <1>1. e.generation = d.generation /\ e.treenode = d.treenode /\ e.rule = d.rule
    BY DEF WithoutChunk, Database
  <1>2. DOMAIN e.leaf_info = 1..Len(d.leaf_info)
    BY DEF WithoutChunk, Database
  <1>3. Len(d.leaf_info) \in Nat
    BY Lengths
  <1>. HIDE DEF e
  <1>4. Len(e.leaf_info) = Len(d.leaf_info)
    BY <1>2, <1>3
  <1>. QED  BY <1>1, <1>4 DEF e

LEMMA JudgedTree ==
    ASSUME NEW d \in Database, NEW i, NEW k
    PROVE  TreeSame(d, Judged(d, i, k))
  BY DEF Judged, TreeSame, Database

LEMMA WithTreenodeTree ==
    ASSUME NEW d \in Database, d.generation # <<>>, NEW n, n.parent \in Nat,
           NEW leaves \in Seq(LeafInfo), Len(leaves) \in {0, 1}
    PROVE  LET e == WithTreenode(d, n, leaves)
               g == Len(d.generation)
           IN  /\ TreeGrown(d, e)
               /\ e.treenode[Len(e.treenode)].parent = n.parent
               /\ Len(e.generation) = g
               /\ \A h \in 1..g : e.generation[h] =
                     IF h = g /\ n.parent = 0 THEN Len(e.treenode) ELSE d.generation[h]
  <1>. DEFINE e == WithTreenode(d, n, leaves)
              id == Len(d.treenode) + 1
              g == Len(d.generation)
              rules == IF n.parent = 0 THEN <<>> ELSE <<n.rule>>
              node == [generation |-> g, parent |-> n.parent,
                       rule |-> IF rules = <<>> THEN 0 ELSE Len(d.rule) + 1,
                       leaf |-> IF leaves = <<>> THEN 0 ELSE Len(d.leaf_info) + 1]
              rule == d.rule \o rules
              leaf == d.leaf_info \o leaves
              nodes == Append(d.treenode, node)
              root == IF n.parent = 0 THEN id ELSE d.generation[g]
              gens == [d.generation EXCEPT ![g] = root]
  <1>1. /\ d.rule \in Seq(Rule) /\ d.leaf_info \in Seq(LeafInfo)
        /\ d.treenode \in Seq(Treenode) /\ d.generation \in Seq(Nat)
        /\ Len(d.rule) \in Nat /\ Len(d.leaf_info) \in Nat /\ Len(d.treenode) \in Nat
        /\ g \in Nat /\ g # 0
    BY DEF Database
  <1>2. e.rule = rule /\ e.leaf_info = leaf /\ e.treenode = nodes /\ e.generation = gens
    BY DEF WithTreenode, Database
  <1>. HIDE DEF e
  <1>3. /\ Len(nodes) = Len(d.treenode) + 1 /\ nodes[Len(nodes)] = node
        /\ \A m \in 1..Len(d.treenode) : nodes[m] = d.treenode[m]
    BY <1>1
  <1>4. /\ Len(leaf) = Len(d.leaf_info) + Len(leaves)
        /\ \A l \in 1..Len(d.leaf_info) : leaf[l] = d.leaf_info[l]
    BY <1>1
  <1>5. /\ Len(rule) = Len(d.rule) + Len(rules) /\ Len(rules) \in {0, 1}
        /\ rules = <<>> \/ Len(rules) = 1
        /\ \A r \in 1..Len(d.rule) : rule[r] = d.rule[r]
    <2>1. rules \in Seq({n.rule}) /\ Len(rules) \in {0, 1} /\ (rules = <<>> \/ Len(rules) = 1)
      <3>1. n.parent = 0 => rules = <<>>
        OBVIOUS
      <3>2. n.parent # 0 => rules = <<n.rule>>
        OBVIOUS
      <3>3. /\ <<>> \in Seq({n.rule}) /\ Len(<<>>) = 0
            /\ <<n.rule>> \in Seq({n.rule}) /\ Len(<<n.rule>>) = 1
        OBVIOUS
      <3>. HIDE DEF rules
      <3>. QED  BY <3>1, <3>2, <3>3
    <2>. HIDE DEF rules
    <2>. QED  BY <1>1, <2>1
  <1>6. leaves = <<>> \/ Len(leaves) = 1
    OBVIOUS
  <1>. HIDE DEF rules, rule, leaf, nodes
  <1>7. /\ node.rule \in 0..Len(rule) /\ node.leaf \in 0..Len(leaf)
        /\ node.parent = n.parent
    BY <1>1, <1>4, <1>5, <1>6
  <1>. HIDE DEF node
  <1>8. TreeGrown(d, e)
    <2>1. Len(d.rule) <= Len(rule) /\ Len(d.leaf_info) <= Len(leaf)
      BY <1>1, <1>4, <1>5
    <2>. QED  BY <1>2, <1>3, <1>4, <1>5, <1>7, <2>1 DEF TreeGrown
  <1>9. Len(gens) = g /\ \A h \in 1..g :
            gens[h] = IF h = g /\ n.parent = 0 THEN id ELSE d.generation[h]
    BY <1>1
  <1>. QED  BY <1>2, <1>3, <1>7, <1>8, <1>9 DEF e

LEMMA WithRuleTree ==
    ASSUME NEW d \in Database, NEW child, NEW i
    PROVE  LET e == WithRule(d, child, i)
           IN  /\ TreeGrown(d, e)
               /\ e.treenode[Len(e.treenode)].parent = job.cur
               /\ e.generation = d.generation
               /\ e.treenode[Len(e.treenode)].leaf # 0
  <1>. DEFINE e == WithRule(d, child, i)
              copy == d.rule[CopiedRule(child)]
              value == d.instance[i].x[child.rule.feature]
              rule == IF copy.type = "equ" THEN [copy EXCEPT !.value = value] ELSE copy
              leaf == [label |-> d.instance[i].y, type |-> "leaf", go_to |-> 0,
                       correct |-> 1, total |-> 1]
              node == [generation |-> d.treenode[child.id].generation, parent |-> job.cur,
                       rule |-> Len(d.rule) + 1, leaf |-> Len(d.leaf_info) + 1]
              rules == Append(d.rule, rule)
              leaves == Append(d.leaf_info, leaf)
              nodes == Append(d.treenode, node)
  <1>1. /\ d.rule \in Seq(Rule) /\ d.leaf_info \in Seq(LeafInfo)
        /\ d.treenode \in Seq(Treenode)
        /\ Len(d.rule) \in Nat /\ Len(d.leaf_info) \in Nat /\ Len(d.treenode) \in Nat
    BY DEF Database
  <1>2. /\ e.rule = rules /\ e.leaf_info = leaves /\ e.treenode = nodes
        /\ e.generation = d.generation
    BY DEF WithRule, Database
  <1>. HIDE DEF e, rule, leaf
  <1>3. node.parent = job.cur /\ node.rule = Len(d.rule) + 1 /\ node.leaf = Len(d.leaf_info) + 1
    OBVIOUS
  <1>. HIDE DEF node
  <1>4. /\ Len(nodes) = Len(d.treenode) + 1 /\ nodes[Len(nodes)] = node
        /\ \A m \in 1..Len(d.treenode) : nodes[m] = d.treenode[m]
    BY <1>1
  <1>5. /\ Len(rules) = Len(d.rule) + 1 /\ \A r \in 1..Len(d.rule) : rules[r] = d.rule[r]
    BY <1>1
  <1>6. /\ Len(leaves) = Len(d.leaf_info) + 1
        /\ \A l \in 1..Len(d.leaf_info) : leaves[l] = d.leaf_info[l]
    BY <1>1
  <1>. HIDE DEF rules, leaves, nodes
  <1>7. TreeGrown(d, e)
    BY <1>1, <1>2, <1>3, <1>4, <1>5, <1>6 DEF TreeGrown
  <1>. QED  BY <1>1, <1>2, <1>3, <1>4, <1>7 DEF e

LEMMA FinishTree ==
    ASSUME db \in Database, UpdateFinish
    PROVE  /\ db'.generation = db.generation /\ db'.treenode = db.treenode
           /\ db'.rule = db.rule /\ Len(db'.leaf_info) = Len(db.leaf_info)
           /\ \A l \in 1..Len(db.leaf_info) : db'.leaf_info[l] = Gained(db.leaf_info[l], l)
  <1>1. /\ db'.generation = db.generation /\ db'.treenode = db.treenode /\ db'.rule = db.rule
        /\ db'.leaf_info = [l \in 1..Len(db.leaf_info) |-> Gained(db.leaf_info[l], l)]
    BY DEF UpdateFinish, Database
  <1>. QED  BY <1>1, Lengths

LEMMA AnnouncedTree ==
    ASSUME db \in Database, RebuildBegin
    PROVE  /\ db'.treenode = db.treenode /\ db'.rule = db.rule
           /\ Len(db'.generation) = Len(db.generation) + 1
           /\ \A g \in 1..Len(db.generation) : db'.generation[g] = db.generation[g]
           /\ Len(db'.leaf_info) = Len(db.leaf_info)
           /\ \A l \in 1..Len(db.leaf_info) :
                 db'.leaf_info[l] = SentOn(db.leaf_info[l], Len(db.generation) + 1)
  <1>1. /\ db'.treenode = db.treenode /\ db'.rule = db.rule
        /\ db'.generation = Append(db.generation, 0)
        /\ db'.leaf_info = [l \in 1..Len(db.leaf_info) |->
                              SentOn(db.leaf_info[l], Len(db.generation) + 1)]
    BY DEF RebuildBegin, Database
  <1>2. db.generation \in Seq(Nat)
    BY DEF Database
  <1>. QED  BY <1>1, <1>2, Lengths

LEMMA InstalledTree ==
    ASSUME db \in Database, RebuildInstall
    PROVE  TreeSame(db, db')
  BY DEF RebuildInstall, TreeSame, Database

-----------------------------------------------------------------------------
(* Every step preserves the invariant: the steps that leave the tree alone.  *)

LEMMA Typed ==
    ASSUME CacheInv
    PROVE  /\ disk \in Database /\ db \in Database /\ known \subseteq Nat
           /\ job \in Job /\ first \in Nat /\ pc \in Stages
           /\ Len(disk.generation) \in Nat /\ Len(db.generation) \in Nat
           /\ Len(disk.treenode) \in Nat /\ Len(db.treenode) \in Nat
  BY Lengths DEF CacheInv, Inductive, TypeOK

\* With nothing cached the caches are coherent, but for the first root.
LEMMA EmptyCoherent ==
    ASSUME known' = {}, kids' = {}, roots' = {},
           first' # 0 => db'.generation # <<>> /\ first' = db'.generation[1]
    PROVE  Coherent'
  BY DEF Coherent

LEMMA SameCoherent ==
    ASSUME Coherent, TreeSame(db, db'), UNCHANGED cache
    PROVE  Coherent'
  <1>1. \A p : Childs(db', p) = Childs(db, p)
    BY SameChilds
  <1>. QED  BY <1>1 DEF TreeSame, Coherent, cache

\* An operation goes on, or ends in an exception, with the tree as it was.
LEMMA TreeUntouched ==
    ASSUME CacheInv, TreeSame(db, db'), UNCHANGED <<disk, cache, job, failed>>,
           pc # "grow" \/ pc' = "throw", pc # "throw", pc' \in {"limit", "commit", "throw"}
    PROVE  TreeInv' /\ (~failed' => CacheFits')
  <1>1. RefsFit(db') /\ (RootsFit(db') <=> RootsFit(db))
    BY SameChilds DEF CacheInv, TreeInv
  <1>2. Grows'
    BY DEF CacheInv, TreeInv, Grows, TreeSame
  <1>3. TreeInv'
    BY <1>1, <1>2 DEF CacheInv, TreeInv
  <1>4. ~failed' => CacheFits'
    BY SameCoherent DEF CacheInv, CacheFits, TreeSame, cache
  <1>. QED  BY <1>3, <1>4

LEMMA InsertCaches ==
    ASSUME CacheInv, NEW b \in Batches, Insert(b)
    PROVE  TreeInv' /\ (~failed' => CacheFits')
  <1>1. TreeSame(db, db')
    BY Typed, WithChunkTree DEF Insert
  <1>. QED  BY <1>1, TreeUntouched DEF Insert, CanBegin

LEMMA LimitDoneCaches ==
    ASSUME CacheInv, LimitDone
    PROVE  TreeInv' /\ (~failed' => CacheFits')
  <1>1. TreeSame(db, db')
    BY DEF LimitDone, TreeSame
  <1>. QED  BY <1>1, TreeUntouched DEF LimitDone

LEMMA FaultCaches ==
    ASSUME CacheInv, Fault
    PROVE  TreeInv' /\ (~failed' => CacheFits')
  <1>1. TreeSame(db, db')
    BY DEF Fault, TreeSame
  <1>. QED  BY <1>1, TreeUntouched DEF Fault

LEMMA InstallCaches ==
    ASSUME CacheInv, RebuildInstall
    PROVE  TreeInv' /\ (~failed' => CacheFits')
  <1>1. TreeSame(db, db')
    BY Typed, InstalledTree
  <1>. QED  BY <1>1, TreeUntouched DEF RebuildInstall

LEMMA RemoveOldestCaches ==
    ASSUME CacheInv, RemoveOldest
    PROVE  TreeInv' /\ (~failed' => CacheFits')
  <1>1. CASE pc' = "throw" /\ UNCHANGED <<db, cache>>
    <2>1. TreeSame(db, db')
      BY <1>1 DEF TreeSame
    <2>. QED  BY <1>1, <2>1, TreeUntouched DEF RemoveOldest
  <1>2. CASE db' = WithoutChunk(db, Oldest) /\ ClearAllCache /\ UNCHANGED pc
    <2>1. /\ db'.generation = db.generation /\ db'.treenode = db.treenode
          /\ db'.rule = db.rule /\ Len(db'.leaf_info) = Len(db.leaf_info)
      BY <1>2, Typed, WithoutChunkTree
    <2>2. pc = "limit" /\ UNCHANGED <<disk, job, failed>>
      BY DEF RemoveOldest
    <2>3. RefsFit(db') /\ RootsFit(db')
      BY <2>1, <2>2 DEF CacheInv, TreeInv, RefsFit, RootsFit
    <2>4. TreeInv'
      BY <1>2, <2>1, <2>2, <2>3 DEF CacheInv, TreeInv, Grows
    <2>5. ~failed' => CacheFits'
      BY <1>2, <2>1, <2>2, EmptyCoherent DEF CacheInv, CacheFits, Coherent, ClearAllCache
    <2>. QED  BY <2>4, <2>5
  <1>. QED  BY <1>1, <1>2 DEF RemoveOldest

-----------------------------------------------------------------------------
(* The end of a transaction.                                                 *)

LEMMA CommitCaches ==
    ASSUME CacheInv, Commit
    PROVE  TreeInv' /\ (~failed' => CacheFits')
  <1>1. /\ pc = "commit" /\ disk' = db /\ db' = db /\ pc' = "idle" /\ job' = NoJob
        /\ UNCHANGED <<known, kids, roots, first, failed>>
    BY DEF Commit, cache
  <1>2. TreeInv'
    BY <1>1, Typed DEF CacheInv, TreeInv, Grows, NoJob
  <1>3. ~failed' => CacheFits'
    BY <1>1, Typed DEF CacheInv, CacheFits, Coherent, NoJob
  <1>. QED  BY <1>2, <1>3

\* Back to what is committed.
LEMMA BackToDisk ==
    ASSUME CacheInv, db' = disk, disk' = disk, pc' = "idle", job' = NoJob
    PROVE  TreeInv'
  BY Typed DEF CacheInv, TreeInv, Grows, NoJob

LEMMA UnwindCaches ==
    ASSUME CacheInv, Unwind
    PROVE  TreeInv' /\ (~failed' => CacheFits')
  BY BackToDisk DEF Unwind

LEMMA RestartCaches ==
    ASSUME CacheInv, Restart
    PROVE  TreeInv' /\ (~failed' => CacheFits')
  BY BackToDisk, EmptyCoherent, Typed DEF Restart, CacheFits, NoJob

LEMMA GiveUpCaches ==
    ASSUME CacheInv, RebuildGiveUp
    PROVE  TreeInv' /\ (~failed' => CacheFits')
  <1>1. /\ pc = "judge" /\ db' = disk /\ disk' = disk /\ pc' = "idle" /\ job' = NoJob
        /\ known' = {} /\ kids' = {} /\ roots' = {} /\ UNCHANGED <<first, failed>>
    BY DEF RebuildGiveUp, ClearAllCache
  <1>2. ASSUME ~failed PROVE CacheFits'
    <2>1. first # 0 => disk.generation # <<>> /\ first = db.generation[1]
      BY <1>1, <1>2 DEF CacheInv, CacheFits, Coherent
    <2>2. first # 0 => first = disk.generation[1]
      <3>1. disk.generation # <<>> => 1 \in 1..Len(disk.generation)
        BY Typed DEF Database
      <3>. QED  BY <2>1, <3>1 DEF CacheInv, TreeInv, Grows
    <2>. QED  BY <1>1, <2>1, <2>2, EmptyCoherent, Typed DEF CacheFits, NoJob
  <1>. QED  BY <1>1, <1>2, BackToDisk

LEMMA PredictBeginCaches ==
    ASSUME CacheInv, NEW x, PredictBegin(x)
    PROVE  TreeInv' /\ (~failed' => CacheFits')
  <1>1. /\ pc = "idle" /\ pc' = "predict" /\ job'.cur = 0 /\ job'.routed = {}
        /\ UNCHANGED <<disk, db, known, kids, roots, first, failed>>
    BY DEF PredictBegin, CanBegin, cache, NoJob
  <1>2. TreeInv'
    BY <1>1 DEF CacheInv, TreeInv, Grows
  <1>3. ~failed' => CacheFits'
    BY <1>1, Typed DEF CacheInv, CacheFits, Coherent
  <1>. QED  BY <1>2, <1>3

-----------------------------------------------------------------------------
(* The start and the end of update, the start of rebuild.                    *)

LEMMA UpdateBeginCaches ==
    ASSUME CacheInv, UpdateBegin
    PROVE  TreeInv' /\ (~failed' => CacheFits')
  <1>1. /\ pc = "idle" /\ db = disk /\ job'.cur = 0 /\ job'.routed = {}
        /\ UNCHANGED <<disk, known, kids, roots, first, failed>>
    BY DEF UpdateBegin, CanBegin, cache, NoJob, CacheInv, TreeInv, Grows
  <1>2. CASE db.generation # <<>>
    <2>1. db' = db /\ pc' = "route"
      BY <1>2 DEF UpdateBegin
    <2>2. TreeInv'
      BY <1>1, <1>2, <2>1, Typed DEF CacheInv, TreeInv, Grows
    <2>3. ~failed' => CacheFits'
      BY <1>1, <2>1, Typed DEF CacheInv, CacheFits, Coherent
    <2>. QED  BY <2>2, <2>3
  <1>3. CASE db.generation = <<>>
    <2>1. /\ pc' = "grow" /\ job'.pending = Root(Rows(db, {"new"}))
          /\ db'.generation = <<0>> /\ db'.treenode = db.treenode
          /\ db'.rule = db.rule /\ db'.leaf_info = db.leaf_info
      BY <1>3, Typed DEF UpdateBegin, NoJob, Database
    <2>2. \A n \in job'.pending : n.parent = 0
      BY <2>1 DEF Root
    <2>3. \E n \in job'.pending : n.parent = 0
      BY <2>1 DEF Root
    <2>4. RefsFit(db')
      BY <2>1 DEF CacheInv, TreeInv, RefsFit
    <2>5. Len(db.generation) = 0 /\ Len(db'.generation) = 1
      BY <1>3, <2>1
    <2>6. TreeInv'
      BY <1>1, <2>1, <2>2, <2>3, <2>4, <2>5, Typed DEF CacheInv, TreeInv, Grows, TreeInserted
    <2>7. \A p : Childs(db', p) = Childs(db, p)
      BY <2>1 DEF Childs, ChildRow
    <2>8. ASSUME ~failed PROVE CacheFits'
      <3>1. Coherent /\ known \subseteq 1..Len(db.treenode)
        BY <2>8 DEF CacheInv, CacheFits
      <3>2. roots = {} /\ first = 0
        BY <1>3, <2>5, <3>1 DEF Coherent
      <3>3. Coherent'
        BY <1>1, <2>7, <3>1, <3>2 DEF Coherent
      <3>. QED  BY <1>1, <2>1, <3>1, <3>2, <3>3, Typed DEF CacheFits
    <2>. QED  BY <1>1, <2>6, <2>8
  <1>. QED  BY <1>2, <1>3

\* The cached childs, one by one.
LEMMA CachedKids ==
    ASSUME Coherent, NEW k
    PROVE  k \in kids <=> \E n \in 1..Len(db.treenode) :
                              db.treenode[n].parent \in known /\ k = ChildRow(db, n)
  BY DEF Coherent, Childs

LEMMA UpdateFinishCaches ==
    ASSUME CacheInv, UpdateFinish
    PROVE  TreeInv' /\ (~failed' => CacheFits')
  <1>1. /\ db'.generation = db.generation /\ db'.treenode = db.treenode
        /\ db'.rule = db.rule /\ Len(db'.leaf_info) = Len(db.leaf_info)
        /\ \A l \in 1..Len(db.leaf_info) : db'.leaf_info[l] = Gained(db.leaf_info[l], l)
    BY Typed, FinishTree
  <1>2. /\ pc = "route" /\ pc' = "commit" /\ UNCHANGED <<disk, known, roots, first, job, failed>>
        /\ kids' = {[k EXCEPT !.leaf = Gained(@, k.leaf_id)] : k \in kids}
    BY DEF UpdateFinish
  <1>3. RefsFit(db') /\ RootsFit(db')
    BY <1>1, <1>2 DEF CacheInv, TreeInv, RefsFit, RootsFit
  <1>4. TreeInv'
    BY <1>1, <1>2, <1>3 DEF CacheInv, TreeInv, Grows
  <1>. DEFINE gain(k) == [k EXCEPT !.leaf = Gained(@, k.leaf_id)]
  <1>5. ASSUME NEW n \in 1..Len(db.treenode)
        PROVE  gain(ChildRow(db, n)) = ChildRow(db', n)
    <2>. DEFINE l == db.treenode[n].leaf
    <2>1. l \in 0..Len(db.leaf_info) /\ Len(db.leaf_info) \in Nat
      BY Typed, Lengths DEF CacheInv, TreeInv, RefsFit
    <2>2. CASE l \in 1..Len(db.leaf_info)
      BY <1>1, <2>2 DEF ChildRow
    <2>3. CASE l = 0
      <3>1. Hits(0) = {} /\ {r \in Hits(0) : r.actual = r.predicted} = {}
        BY DEF Hits, CacheInv, TreeInv
      <3>2. Cardinality({}) = 0
        BY FS_EmptySet
      <3>3. Gained(NoLeaf, 0) = NoLeaf
        <4>1. Gained(NoLeaf, 0) = [NoLeaf EXCEPT !.correct = @ + 0, !.total = @ + 0]
          BY <3>1, <3>2 DEF Gained
        <4>2. NoLeaf.correct + 0 = 0 /\ NoLeaf.total + 0 = 0
          BY DEF NoLeaf
        <4>3. Gained(NoLeaf, 0) = [NoLeaf EXCEPT !.correct = 0, !.total = 0]
          BY <4>1, <4>2
        <4>. QED  BY <4>3 DEF NoLeaf
      <3>. QED  BY <1>1, <2>3, <3>3 DEF ChildRow
    <2>. QED  BY <2>1, <2>2, <2>3
  <1>6. ASSUME ~failed PROVE CacheFits'
    <2>1. Coherent
      BY <1>6 DEF CacheInv, CacheFits
    <2>2. kids' = {gain(k) : k \in kids}
      BY <1>2
    <2>. HIDE DEF gain
    <2>3. \A k : k \in kids <=> \E n \in 1..Len(db.treenode) :
                    db.treenode[n].parent \in known /\ k = ChildRow(db, n)
      BY <2>1, CachedKids
    <2>4. \A k : k \in kids' <=> \E n \in 1..Len(db.treenode) :
                    db.treenode[n].parent \in known /\ k = ChildRow(db', n)
      BY <1>5, <2>2, <2>3
    <2>5. kids' = UNION {Childs(db', p) : p \in known}
      BY <1>1, <2>4 DEF Childs
    <2>6. Coherent'
      BY <1>1, <1>2, <2>1, <2>5 DEF Coherent
    <2>. QED  BY <1>1, <1>2, <1>6, <2>6 DEF CacheInv, CacheFits
  <1>. QED  BY <1>2, <1>4, <1>6

LEMMA RebuildBeginCaches ==
    ASSUME CacheInv, RebuildBegin
    PROVE  TreeInv' /\ (~failed' => CacheFits')
  <1>. DEFINE g == Len(db.generation) + 1
  <1>1. /\ db'.treenode = db.treenode /\ db'.rule = db.rule
        /\ Len(db'.generation) = Len(db.generation) + 1
        /\ \A h \in 1..Len(db.generation) : db'.generation[h] = db.generation[h]
        /\ Len(db'.leaf_info) = Len(db.leaf_info)
        /\ \A l \in 1..Len(db.leaf_info) : db'.leaf_info[l] = SentOn(db.leaf_info[l], g)
    BY Typed, AnnouncedTree
  <1>2. /\ pc = "idle" /\ db = disk /\ pc' \in {"throw", "grow"}
        /\ UNCHANGED <<disk, known, roots, first, failed>>
        /\ kids' = {[k EXCEPT !.leaf = SentOn(@, g)] : k \in kids}
    BY DEF RebuildBegin, CanBegin, CacheInv, TreeInv, Grows
  <1>3. /\ job'.cur = 0 /\ job'.routed = {} /\ \A n \in job'.pending : n.parent = 0
        /\ \E n \in job'.pending : n.parent = 0
    <2>1. PICK rows : job' = [NoJob EXCEPT !.rows = rows, !.pending = Root(rows)]
      BY DEF RebuildBegin
    <2>2. /\ job'.cur = 0 /\ job'.routed = {} /\ job'.pending = Root(rows)
      BY <2>1 DEF NoJob
    <2>. QED  BY <2>2 DEF Root
  <1>4. RefsFit(db')
    BY <1>1 DEF CacheInv, TreeInv, RefsFit
  <1>5. TreeInv'
    BY <1>1, <1>2, <1>3, <1>4, Typed DEF CacheInv, TreeInv, Grows, TreeInserted
  <1>. DEFINE sent(k) == [k EXCEPT !.leaf = SentOn(@, g)]
  <1>6. ASSUME NEW n \in 1..Len(db.treenode)
        PROVE  sent(ChildRow(db, n)) = ChildRow(db', n)
    <2>. DEFINE l == db.treenode[n].leaf
    <2>1. l \in 0..Len(db.leaf_info) /\ Len(db.leaf_info) \in Nat
      BY Typed, Lengths DEF CacheInv, TreeInv, RefsFit
    <2>2. CASE l \in 1..Len(db.leaf_info)
      BY <1>1, <2>2 DEF ChildRow
    <2>3. CASE l = 0
      <3>1. SentOn(NoLeaf, g) = NoLeaf
        BY DEF SentOn, IsWeak, NoLeaf
      <3>. QED  BY <1>1, <2>3, <3>1 DEF ChildRow
    <2>. QED  BY <2>1, <2>2, <2>3
  <1>7. ASSUME ~failed PROVE CacheFits'
    <2>1. Coherent /\ known \subseteq 1..Len(db.treenode)
      BY <1>7 DEF CacheInv, CacheFits
    <2>2. kids' = {sent(k) : k \in kids}
      BY <1>2
    <2>. HIDE DEF sent
    <2>3. \A k : k \in kids <=> \E n \in 1..Len(db.treenode) :
                    db.treenode[n].parent \in known /\ k = ChildRow(db, n)
      BY <2>1, CachedKids
    <2>4. \A k : k \in kids' <=> \E n \in 1..Len(db.treenode) :
                    db.treenode[n].parent \in known /\ k = ChildRow(db', n)
      BY <1>6, <2>2, <2>3
    <2>5. kids' = UNION {Childs(db', p) : p \in known}
      BY <1>1, <2>4 DEF Childs
    <2>6. \A r \in roots : r[1] \in 1..Len(db.generation) /\ r[2] = db'.generation[r[1]]
      BY <1>1, <2>1 DEF Coherent
    <2>7. first # 0 => /\ db.generation # <<>> /\ db'.generation # <<>>
                       /\ first = db'.generation[1]
      <3>1. db.generation # <<>> => 1 \in 1..Len(db.generation)
        BY Typed DEF Database
      <3>2. db'.generation # <<>>
        BY <1>1, Typed
      <3>. QED  BY <1>1, <2>1, <3>1, <3>2 DEF Coherent
    <2>8. \A h \in 1..Len(db.generation) : h \in 1..Len(db'.generation)
      BY <1>1, Typed
    <2>9. Coherent'
      BY <1>2, <2>5, <2>6, <2>7, <2>8 DEF Coherent
    <2>. QED  BY <1>1, <1>2, <1>3, <2>1, <2>6, <2>7, <2>9, Typed DEF CacheFits
  <1>. QED  BY <1>2, <1>5, <1>7

-----------------------------------------------------------------------------
(* Training.  The cache knows no treenode of the tree that is inserted.      *)

LEMMA NodePlaced ==
    ASSUME CacheInv, pc = "grow", NEW n \in job.pending,
           NEW leaves \in Seq(LeafInfo), Len(leaves) \in {0, 1},
           NEW new, \A m \in new : m.parent = Len(db.treenode) + 1,
           db' = WithTreenode(db, n, leaves), job'.pending = (job.pending \ {n}) \cup new,
           job'.cur = job.cur, job'.routed = job.routed, pc' = Grown,
           UNCHANGED <<disk, cache, failed>>
    PROVE  TreeInv' /\ (~failed' => CacheFits')
  <1>. DEFINE g == Len(db.generation)
              id == Len(db.treenode) + 1
              old == Len(disk.treenode)
  <1>1. /\ TreeInserted /\ RefsFit(disk) /\ RefsFit(db) /\ RootsFit(disk) /\ Grows
        /\ \A r \in job.routed : r.leaf # 0
    BY DEF CacheInv, TreeInv
  <1>2. /\ g = Len(disk.generation) + 1 /\ Len(disk.generation) \in Nat
        /\ old \in Nat /\ Len(db.treenode) \in Nat /\ old <= Len(db.treenode)
        /\ g \in Nat
    BY <1>1, Typed DEF TreeInserted, Grows
  <1>3. n.parent \in Nat /\ db.generation # <<>>
    <2>1. n \in Pending
      BY Typed DEF Job
    <2>2. Len(db.generation) # 0
      BY <1>2
    <2>. QED  BY <2>1, <2>2 DEF Pending
  <1>4. /\ TreeGrown(db, db') /\ db'.treenode[Len(db'.treenode)].parent = n.parent
        /\ Len(db'.generation) = g /\ Len(db'.treenode) = id
        /\ \A h \in 1..g : db'.generation[h] =
              IF h = g /\ n.parent = 0 THEN Len(db'.treenode) ELSE db.generation[h]
    <2>. DEFINE e == WithTreenode(db, n, leaves)
    <2>1. /\ TreeGrown(db, e) /\ e.treenode[Len(e.treenode)].parent = n.parent
          /\ Len(e.generation) = g
          /\ \A h \in 1..g : e.generation[h] =
                IF h = g /\ n.parent = 0 THEN Len(e.treenode) ELSE db.generation[h]
      BY <1>3, Typed, WithTreenodeTree
    <2>2. db' = e
      OBVIOUS
    <2>. HIDE DEF e
    <2>. QED  BY <2>1, <2>2 DEF TreeGrown
  <1>5. db' \in Database
    <2>1. n \in Pending /\ n.rows \subseteq 1..Len(db.instance) /\ (n.parent # 0 => n.rule \in Rule)
      BY DEF CacheInv, Inductive, TypeOK, Job, JobFits
    <2>2. WeakFits(db)
      BY DEF CacheInv, Inductive
    <2>3. Kept(db, WithTreenode(db, n, leaves))
      BY <1>3, <2>1, <2>2, Typed, WithTreenodeTyped
    <2>. QED  BY <2>3 DEF Kept
  <1>6. RefsFit(db')
    BY <1>1, <1>4, <1>5, Typed, GrownRefs
  <1>7. \A h \in 1..Len(disk.generation) :
            h \in 1..g /\ db'.generation[h] = disk.generation[h] /\ db'.generation[h] = db.generation[h]
    BY <1>1, <1>2, <1>4 DEF Grows
  <1>8. \A m \in job'.pending : m.parent = 0 \/ m.parent \in (old + 1)..Len(db'.treenode)
    <2>. TAKE m \in job'.pending
    <2>1. CASE m \in job.pending
      BY <1>1, <1>2, <1>4, <2>1 DEF TreeInserted
    <2>2. CASE m \in new
      BY <1>2, <1>4, <2>2
    <2>. QED  BY <2>1, <2>2
  <1>9. \/ \E m \in job'.pending : m.parent = 0
        \/ db'.generation[g] \in 1..Len(db'.treenode)
    <2>1. CASE n.parent = 0
      BY <1>2, <1>4, <2>1
    <2>2. CASE n.parent # 0
      <3>1. db'.generation[g] = db.generation[g]
        BY <1>2, <1>4, <2>2
      <3>2. CASE \E m \in job.pending : m.parent = 0
        BY <2>2, <3>2
      <3>3. CASE db.generation[g] \in 1..Len(db.treenode)
        BY <1>2, <1>4, <3>1, <3>3
      <3>. QED  BY <1>1, <3>2, <3>3 DEF TreeInserted
    <2>. QED  BY <2>1, <2>2
  <1>10. pc' \in {"grow", "route", "judge"} /\ (pc' # "grow" => job'.pending = {})
    BY DEF Grown
  <1>11. pc' # "grow" => RootsFit(db')
    <2>1. SUFFICES ASSUME pc' # "grow", NEW h \in 1..g
                   PROVE  db'.generation[h] \in 1..Len(db'.treenode)
      BY <1>4 DEF RootsFit
    <2>2. CASE h = g
      BY <1>9, <1>10, <2>1, <2>2
    <2>3. CASE h # g
      <3>1. h \in 1..Len(disk.generation)
        BY <1>2, <2>3
      <3>2. db'.generation[h] \in 1..old
        BY <1>1, <1>7, <3>1 DEF RootsFit
      <3>. QED  BY <1>2, <1>4, <3>2
    <2>. QED  BY <2>2, <2>3
  <1>12. TreeInserted'
    BY <1>2, <1>4, <1>8, <1>9 DEF TreeInserted
  <1>13. Grows'
    BY <1>1, <1>2, <1>4, <1>7, <1>10 DEF Grows
  <1>14. TreeInv'
    BY <1>1, <1>2, <1>4, <1>6, <1>10, <1>11, <1>12, <1>13 DEF TreeInv
  <1>15. ASSUME ~failed PROVE CacheFits'
    <2>1. /\ Coherent /\ known \subseteq 1..old /\ job.cur \in 0..Len(db.treenode)
          /\ \A r \in roots : r[1] \in 1..Len(disk.generation)
          /\ first # 0 => disk.generation # <<>>
      BY <1>15 DEF CacheInv, CacheFits
    <2>2. ASSUME NEW p \in known PROVE Childs(db', p) = Childs(db, p)
      <3>1. p # n.parent
        BY <1>1, <1>2, <2>1, <2>2 DEF TreeInserted
      <3>. QED  BY <1>1, <1>4, <1>5, <3>1, Typed, GrownChilds
    <2>3. \A r \in roots : r[1] \in 1..g /\ db'.generation[r[1]] = db.generation[r[1]]
      BY <1>7, <2>1
    <2>4. disk.generation # <<>> => 1 \in 1..Len(disk.generation)
      BY Typed DEF Database
    <2>5. first # 0 => db'.generation # <<>> /\ first = db'.generation[1]
      BY <1>2, <1>4, <1>7, <2>1, <2>4 DEF Coherent
    <2>6. kids = UNION {Childs(db', p) : p \in known}
      BY <2>1, <2>2 DEF Coherent
    <2>7. Coherent'
      BY <1>4, <2>1, <2>3, <2>5, <2>6 DEF Coherent, cache
    <2>. QED  BY <1>2, <1>4, <1>10, <2>1, <2>7 DEF CacheFits, cache
  <1>. QED  BY <1>14, <1>15

LEMMA GrowLeafCaches ==
    ASSUME CacheInv, GrowLeaf
    PROVE  TreeInv' /\ (~failed' => CacheFits')
  <1>1. PICK n \in job.pending :
            /\ db' = WithTreenode(db, n, <<Leaf(db, n.rows)>>)
            /\ job' = [job EXCEPT !.pending = @ \ {n},
                                  !.placed = @ \cup (n.rows \X {Len(db.treenode) + 1})]
    BY DEF GrowLeaf
  <1>2. <<Leaf(db, n.rows)>> \in Seq(LeafInfo) /\ Len(<<Leaf(db, n.rows)>>) = 1
    <2>1. n.rows \subseteq 1..Len(db.instance)
      BY DEF CacheInv, Inductive, JobFits
    <2>2. IsFiniteSet(n.rows)
      BY <2>1, Typed, PositionsFinite, Lengths
    <2>3. Leaf(db, n.rows) \in LeafInfo
      BY <2>2, LeafType
    <2>. QED  BY <2>3
  <1>. DEFINE leaves == <<Leaf(db, n.rows)>>
              none == {}
  <1>3. /\ leaves \in Seq(LeafInfo) /\ Len(leaves) \in {0, 1}
        /\ db' = WithTreenode(db, n, leaves)
    BY <1>1, <1>2
  <1>. HIDE DEF leaves
  <1>4. /\ job'.pending = (job.pending \ {n}) \cup none /\ job'.cur = job.cur
        /\ job'.routed = job.routed /\ \A m \in none : m.parent = Len(db.treenode) + 1
    BY <1>1, Typed DEF Job
  <1>. HIDE DEF none
  <1>5. pc = "grow" /\ pc' = Grown /\ UNCHANGED <<disk, cache, failed>>
    BY DEF GrowLeaf
  <1>. QED  BY <1>3, <1>4, <1>5, NodePlaced, Zenon

LEMMA GrowSplitCaches ==
    ASSUME CacheInv, GrowSplit
    PROVE  TreeInv' /\ (~failed' => CacheFits')
  <1>. DEFINE node(b) == [parent |-> Len(db.treenode) + 1, rule |-> b.rule,
                          rank |-> b.rank, rows |-> b.rows]
  <1>1. PICK n \in job.pending : \E sp \in Splits(db, n.rows) :
            /\ db' = WithTreenode(db, n, <<>>)
            /\ job' = [job EXCEPT !.pending = (@ \ {n}) \cup {node(b) : b \in sp}]
    BY DEF GrowSplit
  <1>2. PICK sp \in Splits(db, n.rows) :
            /\ db' = WithTreenode(db, n, <<>>)
            /\ job' = [job EXCEPT !.pending = (@ \ {n}) \cup {node(b) : b \in sp}]
    BY <1>1
  <1>. DEFINE new == {node(b) : b \in sp}
  <1>3. \A m \in new : m.parent = Len(db.treenode) + 1
    OBVIOUS
  <1>. HIDE DEF new
  <1>4. /\ job'.pending = (job.pending \ {n}) \cup new /\ job'.cur = job.cur
        /\ job'.routed = job.routed
    BY <1>2, Typed DEF Job, new
  <1>. DEFINE none == <<>>
  <1>5. none \in Seq(LeafInfo) /\ Len(none) \in {0, 1} /\ db' = WithTreenode(db, n, none)
    BY <1>2
  <1>. HIDE DEF none
  <1>6. pc = "grow" /\ pc' = Grown /\ UNCHANGED <<disk, cache, failed>>
    BY DEF GrowSplit
  <1>. QED  BY <1>3, <1>4, <1>5, <1>6, NodePlaced, Zenon

-----------------------------------------------------------------------------
(* The walk.                                                                 *)

\* Where a walk stands is in the database, and what it is shown is what is there.
LEMMA WalkSees ==
    ASSUME CacheInv, ~failed, Visit
    PROVE  /\ Here \in 1..Len(db.treenode) /\ Seen(Here) = Childs(db, Here)
           /\ \A k \in Childs(db, Here) : k.id \in 1..Len(db.treenode)
           /\ known' = known \cup {Here}
           /\ kids' = UNION {Childs(db, p) : p \in known'}
           /\ db.generation # <<>> /\ first' = db.generation[1]
  <1>1. /\ Coherent /\ known \subseteq 1..Len(db.treenode)
        /\ job.cur \in 0..Len(db.treenode)
    BY DEF CacheInv, CacheFits
  <1>2. pc \in {"route", "predict"} /\ RootsFit(db)
    BY DEF Visit, Walking, CacheInv, TreeInv
  <1>3. db.generation # <<>>
    BY <1>1, <1>2 DEF CacheInv, Inductive, HasRoot, Coherent
  <1>4. FirstRoot = db.generation[1]
    BY <1>1 DEF FirstRoot, Coherent
  <1>5. 1 \in 1..Len(db.generation)
    BY <1>3, Typed DEF Database
  <1>6. Here \in 1..Len(db.treenode)
    BY <1>1, <1>2, <1>4, <1>5 DEF Here, RootsFit
  <1>. DEFINE here == Here
  <1>. HIDE DEF here
  <1>7. \A p, k : k \in Childs(db, p) => k.parent = p
    BY DEF Childs, ChildRow
  <1>8. ASSUME here \in known PROVE {k \in kids : k.parent = here} = Childs(db, here)
    <2>1. kids = UNION {Childs(db, p) : p \in known}
      BY <1>1 DEF Coherent
    <2>. QED  BY <1>7, <1>8, <2>1
  <1>9. Seen(here) = Childs(db, here)
    BY <1>8 DEF Seen
  <1>10. kids' = kids \cup Childs(db, here) /\ known' = known \cup {here}
    BY <1>9 DEF Visit, Remember, here
  <1>11. kids' = UNION {Childs(db, p) : p \in known'}
    BY <1>1, <1>10 DEF Coherent
  <1>12. \A k \in Childs(db, here) : k.id \in 1..Len(db.treenode)
    BY DEF Childs, ChildRow
  <1>. QED  BY <1>3, <1>4, <1>6, <1>9, <1>10, <1>11, <1>12 DEF here, Visit

\* A round of the walk leaves the tree as it is.
LEMMA WalkTree ==
    ASSUME CacheInv, Visit, TreeSame(db, db'), pc = "predict" => UNCHANGED db,
           \/ pc' \in {pc, "throw"}
           \/ pc = "predict" /\ pc' = "idle"
           \/ pc = "route" /\ pc' = "rule_add",
           \A r \in job'.routed : r.leaf # 0
    PROVE  TreeInv'
  <1>1. pc \in {"route", "predict"} /\ UNCHANGED disk
    BY DEF Visit, Walking
  <1>2. RefsFit(db') /\ RootsFit(db')
    BY <1>1, SameChilds DEF CacheInv, TreeInv
  <1>3. Grows'
    BY <1>1 DEF CacheInv, TreeInv, Grows, TreeSame
  <1>. QED  BY <1>1, <1>2, <1>3 DEF CacheInv, TreeInv, TreeSame

LEMMA WalkCoherent ==
    ASSUME CacheInv, ~failed, Visit, TreeSame(db, db'),
           \A r \in roots' : r[1] \in 1..Len(db.generation) /\ r[2] = db.generation[r[1]],
           job'.cur \in 0..Len(db.treenode), pc' \notin {"grow", "judge"},
           pc' = "rule_add" => job'.cur # 0
    PROVE  CacheFits'
  <1>1. \A p : Childs(db', p) = Childs(db, p)
    BY SameChilds
  <1>2. Coherent'
    BY <1>1, WalkSees DEF TreeSame, Coherent
  <1>3. known' \subseteq 1..Len(db.treenode)
    BY WalkSees DEF CacheInv, CacheFits
  <1>. QED  BY <1>2, <1>3 DEF CacheFits, TreeSame

LEMMA NoChildsCaches ==
    ASSUME CacheInv, NoChilds
    PROVE  TreeInv' /\ (~failed' => CacheFits')
  <1>1. Visit /\ pc' = "throw" /\ UNCHANGED <<db, roots, job>>
    BY DEF NoChilds
  <1>2. TreeSame(db, db') /\ \A r \in job'.routed : r.leaf # 0
    BY <1>1 DEF TreeSame, CacheInv, TreeInv
  <1>3. ~failed => /\ job'.cur \in 0..Len(db.treenode)
                   /\ \A r \in roots' : /\ r[1] \in 1..Len(db.generation)
                                        /\ r[2] = db.generation[r[1]]
    BY <1>1 DEF CacheInv, CacheFits, Coherent
  <1>4. UNCHANGED failed
    BY <1>1 DEF Visit
  <1>. QED  BY <1>1, <1>2, <1>3, <1>4, WalkTree, WalkCoherent

LEMMA NoMatchCaches ==
    ASSUME CacheInv, NoMatch
    PROVE  TreeInv' /\ (~failed' => CacheFits')
  <1>1. /\ Visit /\ UNCHANGED <<db, roots>>
        /\ IF pc = "predict" THEN pc' = "idle" /\ job' = NoJob
           ELSE pc' = "rule_add" /\ job' = [job EXCEPT !.cur = Here]
    BY DEF NoMatch
  <1>2. UNCHANGED failed /\ pc \in {"route", "predict"}
    BY <1>1 DEF Visit, Walking
  <1>3. TreeSame(db, db')
    BY <1>1 DEF TreeSame
  <1>4. \/ pc = "predict" /\ pc' = "idle" /\ job'.routed = {} /\ job'.cur = 0
        \/ pc = "route" /\ pc' = "rule_add" /\ job'.routed = job.routed /\ job'.cur = Here
    BY <1>1, <1>2, Typed DEF NoJob, Job
  <1>5. \A r \in job'.routed : r.leaf # 0
    BY <1>4 DEF CacheInv, TreeInv
  <1>6. TreeInv'
    BY <1>1, <1>3, <1>4, <1>5, WalkTree
  <1>7. ASSUME ~failed PROVE CacheFits'
    <2>1. Here \in 1..Len(db.treenode)
      BY <1>1, <1>7, WalkSees
    <2>2. job'.cur \in 0..Len(db.treenode) /\ (pc' = "rule_add" => job'.cur # 0)
      BY <1>4, <2>1, Typed
    <2>3. \A r \in roots' : r[1] \in 1..Len(db.generation) /\ r[2] = db.generation[r[1]]
      BY <1>1, <1>7 DEF CacheInv, CacheFits, Coherent
    <2>. QED  BY <1>1, <1>3, <1>4, <1>7, <2>2, <2>3, WalkCoherent
  <1>. QED  BY <1>2, <1>6, <1>7

\* The child that the walk goes to is a treenode.
LEMMA ChoiceFound ==
    ASSUME CacheInv, ~failed, Visit, Matched # {}
    PROVE  Choice \in Childs(db, Here) /\ Choice.id \in 1..Len(db.treenode)
  <1>1. Matched \subseteq Childs(db, Here)
    BY WalkSees DEF Matched
  <1>2. \A k \in Matched : k.id \in Nat
    BY <1>1, WalkSees, Typed
  <1>3. Choice \in Matched
    BY <1>2, FirstExists DEF Choice
  <1>. QED  BY <1>1, <1>3, WalkSees

LEMMA StepDownCaches ==
    ASSUME CacheInv, StepDown
    PROVE  TreeInv' /\ (~failed' => CacheFits')
  <1>1. /\ Visit /\ Matched # {} /\ job' = [job EXCEPT !.cur = Choice.id]
        /\ UNCHANGED <<db, roots, pc>>
    BY DEF StepDown
  <1>2. UNCHANGED failed /\ pc \in {"route", "predict"}
    BY <1>1 DEF Visit, Walking
  <1>3. TreeSame(db, db')
    BY <1>1 DEF TreeSame
  <1>4. job'.routed = job.routed /\ job'.cur = Choice.id
    BY <1>1, Typed DEF Job
  <1>5. TreeInv'
    BY <1>1, <1>3, <1>4, WalkTree DEF CacheInv, TreeInv
  <1>6. ASSUME ~failed PROVE CacheFits'
    <2>1. job'.cur \in 0..Len(db.treenode)
      BY <1>1, <1>4, <1>6, ChoiceFound, Typed
    <2>2. \A r \in roots' : r[1] \in 1..Len(db.generation) /\ r[2] = db.generation[r[1]]
      BY <1>1, <1>6 DEF CacheInv, CacheFits, Coherent
    <2>. QED  BY <1>1, <1>2, <1>3, <1>6, <2>1, <2>2, WalkCoherent
  <1>. QED  BY <1>2, <1>5, <1>6

LEMMA JumpCaches ==
    ASSUME CacheInv, JumpToGeneration
    PROVE  TreeInv' /\ (~failed' => CacheFits')
  <1>. DEFINE found == RootsOf(Choice.leaf.go_to)
  <1>1. /\ Visit /\ roots' = roots \cup found /\ UNCHANGED db
        /\ \/ pc' = "throw" /\ UNCHANGED job
           \/ (\E r \in found : job' = [job EXCEPT !.cur = r[2]]) /\ UNCHANGED pc
    BY DEF JumpToGeneration
  <1>. HIDE DEF found
  <1>2. UNCHANGED failed /\ pc \in {"route", "predict"}
    BY <1>1 DEF Visit, Walking
  <1>3. TreeSame(db, db')
    BY <1>1 DEF TreeSame
  <1>4. /\ job'.routed = job.routed
        /\ job'.cur = job.cur \/ \E r \in found : job'.cur = r[2]
    BY <1>1, Typed DEF Job
  <1>5. TreeInv'
    BY <1>1, <1>3, <1>4, WalkTree DEF CacheInv, TreeInv
  <1>6. ASSUME ~failed PROVE CacheFits'
    <2>1. \A r \in roots : r[1] \in 1..Len(db.generation) /\ r[2] = db.generation[r[1]]
      BY <1>6 DEF CacheInv, CacheFits, Coherent
    <2>2. \A r \in found : r[1] \in 1..Len(db.generation) /\ r[2] = db.generation[r[1]]
      BY <2>1 DEF RootsOf, found
    <2>3. RootsFit(db) /\ job.cur \in 0..Len(db.treenode)
      BY <1>2, <1>6 DEF CacheInv, CacheFits, TreeInv
    <2>4. job'.cur \in 0..Len(db.treenode)
      BY <1>4, <2>2, <2>3, Typed DEF RootsFit
    <2>5. \A r \in roots' : r[1] \in 1..Len(db.generation) /\ r[2] = db.generation[r[1]]
      BY <1>1, <2>1, <2>2
    <2>6. pc' \in {"throw", "route", "predict"}
      BY <1>1, <1>2
    <2>. QED  BY <1>1, <1>3, <1>6, <2>4, <2>5, <2>6, WalkCoherent
  <1>. QED  BY <1>2, <1>5, <1>6

\* An instance is counted at a leaf.
LEMMA CountedLeaf ==
    ASSUME CacheInv, NEW i, NEW k, k.leaf_id # 0, NEW added
    PROVE  LET j == Counted(i, k, added)
           IN  j.cur = 0 /\ \A r \in j.routed : r.leaf # 0
  <1>. DEFINE rec == [instance |-> i, leaf |-> k.leaf_id, added |-> added,
                      actual |-> db.instance[i].y, predicted |-> k.leaf.label]
              j == Counted(i, k, added)
  <1>1. j = [job EXCEPT !.todo = @ \ {i}, !.cur = 0, !.routed = @ \cup {rec}]
    BY DEF Counted
  <1>2. rec.leaf # 0
    OBVIOUS
  <1>. HIDE DEF rec, j
  <1>3. j.cur = 0 /\ j.routed = job.routed \cup {rec}
    BY <1>1, Typed DEF Job
  <1>. QED  BY <1>2, <1>3 DEF CacheInv, TreeInv, j

LEMMA ArriveCaches ==
    ASSUME CacheInv, Arrive
    PROVE  TreeInv' /\ (~failed' => CacheFits')
  <1>1. /\ Visit /\ Choice.leaf_id # 0 /\ UNCHANGED roots
        /\ IF pc = "predict" THEN pc' = "idle" /\ job' = NoJob /\ UNCHANGED db
           ELSE /\ db' = Judged(db, Least(job.todo), Choice)
                /\ job' = Counted(Least(job.todo), Choice, FALSE) /\ UNCHANGED pc
    BY DEF Arrive
  <1>2. UNCHANGED failed /\ pc \in {"route", "predict"}
    BY <1>1 DEF Visit, Walking
  <1>3. TreeSame(db, db') /\ (pc = "predict" => UNCHANGED db)
    <2>1. CASE pc = "predict"
      BY <1>1, <2>1 DEF TreeSame
    <2>2. CASE pc # "predict"
      <3>1. db' = Judged(db, Least(job.todo), Choice)
        BY <1>1, <2>2
      <3>. QED  BY <2>2, <3>1, Typed, JudgedTree
    <2>. QED  BY <2>1, <2>2
  <1>4. job'.cur = 0 /\ \A r \in job'.routed : r.leaf # 0
    <2>1. CASE pc = "predict"
      BY <1>1, <2>1 DEF NoJob
    <2>2. CASE pc # "predict"
      <3>1. job' = Counted(Least(job.todo), Choice, FALSE)
        BY <1>1, <2>2
      <3>. QED  BY <1>1, <3>1, CountedLeaf
    <2>. QED  BY <2>1, <2>2
  <1>5. TreeInv'
    BY <1>1, <1>3, <1>4, WalkTree
  <1>6. ASSUME ~failed PROVE CacheFits'
    <2>1. \A r \in roots' : r[1] \in 1..Len(db.generation) /\ r[2] = db.generation[r[1]]
      BY <1>1, <1>6 DEF CacheInv, CacheFits, Coherent
    <2>2. job'.cur \in 0..Len(db.treenode)
      BY <1>4, Typed
    <2>3. pc' \in {"idle", "route", "predict"}
      BY <1>1, <1>2
    <2>. QED  BY <1>1, <1>3, <1>6, <2>1, <2>2, <2>3, WalkCoherent
  <1>. QED  BY <1>2, <1>5, <1>6

-----------------------------------------------------------------------------
(* A rule is added.  The childs of its parent are read again.                *)

LEMMA RuleAddCaches ==
    ASSUME CacheInv, RuleAdd
    PROVE  TreeInv' /\ (~failed' => CacheFits')
  <1>. DEFINE i == Least(job.todo)
              child == FirstOf(Seen(job.cur))
              d == WithRule(db, child, i)
              new == ChildRow(d, Len(d.treenode))
  <1>1. pc = "rule_add" /\ UNCHANGED <<disk, roots, first, failed>>
    BY DEF RuleAdd
  <1>2. \/ /\ ~CanAddRule(child)
           /\ pc' = "throw" /\ UNCHANGED <<db, known, kids, job>>
        \/ /\ CanAddRule(child)
           /\ known' = known \cup {job.cur}
           /\ kids' = {k \in kids : k.parent # job.cur} \cup Childs(d, job.cur)
           /\ \/ pc' = "throw" /\ db' = d /\ UNCHANGED job
              \/ pc' = "route" /\ db' = Judged(d, i, new) /\ job' = Counted(i, new, TRUE)
    BY DEF RuleAdd
  <1>3. CASE ~CanAddRule(child)
    <2>1. TreeSame(db, db')
      BY <1>2, <1>3 DEF TreeSame
    <2>. QED  BY <1>1, <1>2, <1>3, <2>1, TreeUntouched DEF cache
  <1>4. CASE CanAddRule(child)
    <2>1. /\ TreeGrown(db, d) /\ d.treenode[Len(d.treenode)].parent = job.cur
          /\ d.generation = db.generation /\ d.treenode[Len(d.treenode)].leaf # 0
      BY Typed, WithRuleTree
    <2>2. d \in Database
      <3>1. i \in 1..Len(db.instance)
        BY <1>1, TodoLeast DEF CacheInv, Inductive, CanCopy
      <3>2. child \in ChildRowType
        <4>. DEFINE childs == Seen(job.cur)
        <4>1. childs # {}
          BY <1>1 DEF CacheInv, Inductive, CanCopy
        <4>2. \A k \in childs : k \in ChildRowType /\ k.id \in Nat
          BY SeenTyped DEF ChildRowType, CacheInv, Inductive
        <4>3. child = FirstOf(childs)
          OBVIOUS
        <4>. HIDE DEF childs, child
        <4>. QED  BY <4>1, <4>2, <4>3, FirstExists
      <3>3. child.rule.type = "equ" /\ child.id \in 1..Len(db.rule) /\ child.id \in 1..Len(db.treenode)
        BY <1>4 DEF CanAddRule, CopiedRule
      <3>4. job.cur \in Nat /\ WeakFits(db)
        BY Typed DEF Job, CacheInv, Inductive
      <3>. HIDE DEF child, i
      <3>. QED  BY <3>1, <3>2, <3>3, <3>4, Typed, WithRuleTyped DEF Kept
    <2>. HIDE DEF d, i, child
    <2>3. new.leaf_id # 0
      BY <2>1 DEF ChildRow
    <2>. HIDE DEF new
    <2>4. /\ TreeSame(d, db') /\ pc' \in {"throw", "route"}
          /\ job'.cur \in {0, job.cur} /\ \A r \in job'.routed : r.leaf # 0
      <3>1. CASE pc' = "throw" /\ db' = d /\ UNCHANGED job
        BY <3>1 DEF TreeSame, CacheInv, TreeInv
      <3>2. CASE pc' = "route" /\ db' = Judged(d, i, new) /\ job' = Counted(i, new, TRUE)
        <4>1. TreeSame(d, db')
          BY <2>2, <3>2, JudgedTree
        <4>2. job'.cur = 0 /\ \A r \in job'.routed : r.leaf # 0
          BY <2>3, <3>2, CountedLeaf
        <4>. QED  BY <3>2, <4>1, <4>2
      <3>. QED  BY <1>2, <1>4, <3>1, <3>2
    <2>5. /\ RefsFit(db) /\ RefsFit(disk) /\ RootsFit(db) /\ RootsFit(disk) /\ Grows
          /\ db.generation # <<>>
      BY <1>1 DEF CacheInv, TreeInv
    <2>6. Len(d.treenode) = Len(db.treenode) + 1
      BY <2>1 DEF TreeGrown
    <2>7. RefsFit(db') /\ RootsFit(db')
      <3>1. RefsFit(d)
        BY <2>1, <2>2, <2>5, Typed, GrownRefs
      <3>2. RootsFit(d)
        BY <2>1, <2>5, <2>6, Typed DEF RootsFit
      <3>. QED  BY <2>4, <3>1, <3>2, SameChilds
    <2>8. Grows'
      BY <1>1, <2>1, <2>4, <2>5, <2>6, Typed DEF Grows, TreeSame
    <2>9. TreeInv'
      BY <1>1, <2>1, <2>4, <2>5, <2>7, <2>8 DEF TreeInv, TreeSame
    <2>10. ASSUME ~failed PROVE CacheFits'
      <3>1. /\ Coherent /\ known \subseteq 1..Len(db.treenode)
            /\ job.cur \in 1..Len(db.treenode)
        <4>1. job.cur \in 0..Len(db.treenode) /\ job.cur # 0
          BY <1>1, <2>10 DEF CacheInv, CacheFits
        <4>. QED  BY <2>10, <4>1, Typed DEF CacheInv, CacheFits
      <3>2. \A p : p # job.cur => Childs(d, p) = Childs(db, p)
        BY <2>1, <2>2, <2>5, Typed, GrownChilds
      <3>3. \A p : Childs(db', p) = Childs(d, p)
        BY <2>4, SameChilds
      <3>4. \A p, k : k \in Childs(db, p) => k.parent = p
        BY DEF Childs, ChildRow
      <3>. DEFINE cur == job.cur
      <3>. HIDE DEF cur
      <3>5. kids = UNION {Childs(db, p) : p \in known}
        BY <3>1 DEF Coherent
      <3>6. {k \in kids : k.parent # cur} = UNION {Childs(db, p) : p \in known \ {cur}}
        BY <3>4, <3>5
      <3>7. UNION {Childs(db, p) : p \in known \ {cur}} = UNION {Childs(d, p) : p \in known \ {cur}}
        BY <3>2 DEF cur
      <3>8. kids' = UNION {Childs(d, p) : p \in known'}
        <4>1. /\ kids' = {k \in kids : k.parent # cur} \cup Childs(d, cur)
              /\ known' = known \cup {cur}
          BY <1>2, <1>4 DEF cur
        <4>. QED  BY <3>6, <3>7, <4>1
      <3>9. kids' = UNION {Childs(db', p) : p \in known'}
        BY <3>3, <3>8
      <3>10. Coherent'
        BY <1>1, <2>1, <2>4, <3>1, <3>9 DEF Coherent, TreeSame
      <3>11. known' \subseteq 1..Len(db'.treenode) /\ job'.cur \in 0..Len(db'.treenode)
        <4>1. known' = known \cup {job.cur}
          BY <1>2, <1>4
        <4>2. Len(db'.treenode) = Len(db.treenode) + 1 /\ Len(db.treenode) \in Nat
          BY <2>4, <2>6, Typed DEF TreeSame
        <4>3. 1..Len(db.treenode) \subseteq 1..Len(db'.treenode)
          BY <4>2
        <4>4. known' \subseteq 1..Len(db'.treenode) /\ job.cur \in 1..Len(db'.treenode)
          BY <3>1, <4>1, <4>3
        <4>. QED  BY <2>4, <4>2, <4>4
      <3>. QED  BY <2>4, <3>10, <3>11 DEF CacheFits
    <2>. QED  BY <1>1, <2>9, <2>10
  <1>. QED  BY <1>3, <1>4

-----------------------------------------------------------------------------
(* The theorem.                                                              *)

LEMMA InitCaches == Init => CacheInv
  <1>. SUFFICES ASSUME Init PROVE CacheInv
    OBVIOUS
  <1>1. Inductive
    BY InitInductive
  <1>2. /\ Len(db.treenode) = 0 /\ Len(db.generation) = 0 /\ db.generation = <<>>
        /\ disk = db /\ pc = "idle"
    BY DEF Init, EmptyDatabase
  <1>3. RefsFit(db) /\ RootsFit(db) /\ Grows
    BY <1>2 DEF RefsFit, RootsFit, Grows
  <1>4. TreeInv
    BY <1>2, <1>3 DEF TreeInv, Init, NoJob
  <1>5. CacheFits
    BY <1>2 DEF CacheFits, Coherent, Init, NoJob
  <1>. QED  BY <1>1, <1>4, <1>5 DEF CacheInv

LEMMA NextCaches == CacheInv /\ [Next]_vars => CacheInv'
  <1>. SUFFICES ASSUME CacheInv, [Next]_vars PROVE CacheInv'
    OBVIOUS
  <1>1. Inductive'
    BY NextInductive DEF CacheInv
  <1>2. CASE UNCHANGED vars
    <2>1. UNCHANGED <<disk, db, known, kids, roots, first, pc, job, failed>>
      BY <1>2 DEF vars, cache
    <2>2. TreeInv'
      BY <2>1 DEF CacheInv, TreeInv, RefsFit, RootsFit, Grows, TreeInserted
    <2>3. ~failed' => CacheFits'
      <3>1. Coherent => Coherent'
        BY <2>1 DEF Coherent, Childs, ChildRow
      <3>. QED  BY <2>1, <3>1 DEF CacheInv, CacheFits
    <2>. QED  BY <1>1, <2>2, <2>3 DEF CacheInv
  <1>3. CASE Begin
    BY <1>1, <1>3, InsertCaches, UpdateBeginCaches, RebuildBeginCaches, PredictBeginCaches
    DEF Begin, CacheInv
  <1>4. CASE Step
    BY <1>1, <1>4, RemoveOldestCaches, LimitDoneCaches, GrowLeafCaches, GrowSplitCaches,
       NoChildsCaches, NoMatchCaches, StepDownCaches, JumpCaches, ArriveCaches, RuleAddCaches,
       UpdateFinishCaches, GiveUpCaches, InstallCaches, CommitCaches, UnwindCaches
    DEF Step, CacheInv
  <1>5. CASE Fault \/ Restart
    BY <1>1, <1>5, FaultCaches, RestartCaches DEF CacheInv
  <1>. QED  BY <1>2, <1>3, <1>4, <1>5 DEF Next

\* verify_cache: until an operation of the object throws, the cached childs, roots
\* and first root are those of the database that the open transaction sees, after
\* every step of every operation: while a tree is inserted, rules are added, leaves
\* are counted or sent on, chunks are removed, and after a rebuild is given up.
THEOREM CachesStayCoherent == Spec => []CacheCoherent
  <1>1. Spec => []CacheInv
    BY InitCaches, NextCaches, PTL DEF Spec
  <1>2. CacheInv => CacheCoherent
    BY DEF CacheInv, CacheFits, CacheCoherent
  <1>. QED  BY <1>1, <1>2, PTL

-----------------------------------------------------------------------------
(* The invariant of the verdicts.                                            *)

\* An object that has thrown begins nothing.
Reopened == failed => pc = "idle"

ChunksFit(d) == \A i \in 1..Len(d.instance) : d.instance[i].chunk \in 1..Len(d.chunk)

\* A row without a verdict.
Fresh(d, i) == /\ d.instance[i].ref = 0 /\ ~d.instance[i].correct
               /\ d.instance[i].weak = {}

\* A row with the verdict of its leaf, and one whose leaf is in force.
Referred(d, i) == /\ d.instance[i].ref \in 1..Len(d.treenode)
                  /\ LeafId(d, i) \in 1..Len(d.leaf_info)
                  /\ d.instance[i].correct = (d.instance[i].y = LabelOf(d, i))
InForce(d, i)  == d.leaf_info[LeafId(d, i)].type = "leaf"

Verdicts(d) == /\ \A i \in Updated(d) : Referred(d, i) /\ InForce(d, i)
               /\ \A i \in Rows(d, {"new"}) : Fresh(d, i)

\* While instances are routed, those that are done are judged already.
RoutedVerdicts ==
    /\ job.todo \subseteq Rows(db, {"new"})
    /\ \A i \in Updated(db) : Referred(db, i) /\ InForce(db, i)
    /\ \A i \in Rows(db, {"new"}) :
          IF i \in job.todo THEN Fresh(db, i)
          ELSE Referred(db, i) /\ InForce(db, i) /\ db.instance[i].weak = {}

\* While a tree is inserted no row changes.  The rows of a rebuild, and no others,
\* refer to a leaf that was sent on; what has a place in the new tree has a leaf.
TrainedVerdicts ==
    /\ db.instance = disk.instance /\ db.chunk = disk.chunk
    /\ job.building => job.todo = Rows(db, {"new"}) /\ job.rows = {}
    /\ job.rows \subseteq Updated(db)
    /\ \A i \in Updated(db) : Referred(db, i) /\ (InForce(db, i) \/ i \in job.rows)
    /\ \A i \in Rows(db, {"new"}) : Fresh(db, i)
    /\ \A q \in job.placed : LET t == q[2]
                             IN  /\ t \in 1..Len(db.treenode)
                                 /\ db.treenode[t].leaf \in 1..Len(db.leaf_info)
                                 /\ db.leaf_info[db.treenode[t].leaf].type = "leaf"

StageVerdicts ==
    /\ pc \in {"idle", "predict", "limit", "commit"} => Verdicts(db)
    /\ pc \in {"route", "rule_add"} => RoutedVerdicts
    /\ pc \in {"grow", "judge"} => TrainedVerdicts

VerdictPart == ChunksFit(disk) /\ ChunksFit(db) /\ Verdicts(disk) /\ StageVerdicts

VerdictInv == CacheInv /\ Reopened /\ VerdictPart

-----------------------------------------------------------------------------
(* What every operation does to the rows.                                    *)

\* The rows are the same.
RowsSame(d, e) == e.instance = d.instance /\ e.chunk = d.chunk

LEMMA SameRows ==
    ASSUME NEW d, NEW e, RowsSame(d, e)
    PROVE  /\ \A states : Rows(e, states) = Rows(d, states)
           /\ Updated(e) = Updated(d) /\ Stored(e) = Stored(d)
           /\ ChunksFit(e) <=> ChunksFit(d)
  BY DEF RowsSame, Rows, Updated, Stored, ChunksFit

\* A leaf keeps its place and its label.
TreeLasts(d, e) ==
    /\ Len(d.treenode) <= Len(e.treenode)
    /\ \A n \in 1..Len(d.treenode) : e.treenode[n] = d.treenode[n]
    /\ Len(d.leaf_info) <= Len(e.leaf_info)
    /\ \A l \in 1..Len(d.leaf_info) : e.leaf_info[l].label = d.leaf_info[l].label

LeavesLast(d, e) == \A l \in 1..Len(d.leaf_info) : e.leaf_info[l].type = d.leaf_info[l].type

LEMMA Positions ==
    ASSUME NEW m \in Nat, NEW n \in Nat, m <= n
    PROVE  1..m \subseteq 1..n
  OBVIOUS

\* A verdict outlives what is added to the tree.
LEMMA VerdictLasts ==
    ASSUME NEW d \in Database, NEW e \in Database, TreeLasts(d, e), NEW i,
           e.instance[i] = d.instance[i], Referred(d, i)
    PROVE  /\ Referred(e, i) /\ LeafId(e, i) = LeafId(d, i) /\ LabelOf(e, i) = LabelOf(d, i)
           /\ LeavesLast(d, e) /\ InForce(d, i) => InForce(e, i)
  <1>1. /\ d.instance[i].ref \in 1..Len(d.treenode) /\ LeafId(d, i) \in 1..Len(d.leaf_info)
        /\ d.instance[i].correct = (d.instance[i].y = LabelOf(d, i))
    BY DEF Referred
  <1>2. LeafId(e, i) = LeafId(d, i)
    BY <1>1 DEF LeafId, TreeLasts
  <1>3. LabelOf(e, i) = LabelOf(d, i)
    BY <1>1, <1>2 DEF LabelOf, TreeLasts
  <1>4. 1..Len(d.treenode) \subseteq 1..Len(e.treenode)
        /\ 1..Len(d.leaf_info) \subseteq 1..Len(e.leaf_info)
    BY Positions, Lengths DEF TreeLasts
  <1>5. Referred(e, i)
    BY <1>1, <1>2, <1>3, <1>4 DEF Referred
  <1>6. LeavesLast(d, e) /\ InForce(d, i) => InForce(e, i)
    BY <1>1, <1>2 DEF LeavesLast, InForce
  <1>. QED  BY <1>2, <1>3, <1>5, <1>6

LEMMA GrownLasts ==
    ASSUME NEW d \in Database, NEW e \in Database, TreeGrown(d, e)
    PROVE  TreeLasts(d, e) /\ LeavesLast(d, e)
  <1>1. Len(d.treenode) <= Len(e.treenode)
    BY Lengths DEF TreeGrown
  <1>. QED  BY <1>1 DEF TreeGrown, TreeLasts, LeavesLast

LEMMA SameLasts ==
    ASSUME NEW d \in Database, NEW e, TreeSame(d, e)
    PROVE  TreeLasts(d, e) /\ LeavesLast(d, e)
  BY Lengths DEF TreeSame, TreeLasts, LeavesLast

\* A chunk is added after the others, with fresh rows after the others.
RowsAdded(d, e, b) ==
    /\ Len(e.instance) = Len(d.instance) + Len(b) /\ Len(b) \in Nat /\ Len(b) # 0
    /\ \A i \in 1..Len(d.instance) : e.instance[i] = d.instance[i]
    /\ \A i \in 1..Len(e.instance) : i \notin 1..Len(d.instance) =>
          e.instance[i].chunk = Len(d.chunk) + 1 /\ Fresh(e, i)
    /\ Len(e.chunk) = Len(d.chunk) + 1
    /\ \A k \in 1..Len(d.chunk) : e.chunk[k] = d.chunk[k]
    /\ e.chunk[Len(d.chunk) + 1] = [total |-> Len(b), state |-> "new"]
    /\ e.global = [d.global EXCEPT !.instance_count = @ + Len(b)]
    /\ e.confusion = d.confusion

LEMMA WithChunkRows ==
    ASSUME NEW d \in Database, NEW b \in Batches
    PROVE  RowsAdded(d, WithChunk(d, b), b)
  <1>. DEFINE e == WithChunk(d, b)
              c == Len(d.chunk) + 1
              news == [k \in 1..Len(b) |-> [x |-> b[k].x, y |-> b[k].y, chunk |-> c,
                                            ref |-> 0, correct |-> FALSE, weak |-> {}]]
              chunk == [total |-> Len(b), state |-> "new"]
              chunks == Append(d.chunk, chunk)
              instances == d.instance \o news
  <1>1. /\ e.instance = instances /\ e.chunk = chunks /\ e.confusion = d.confusion
        /\ e.global = [d.global EXCEPT !.instance_count = @ + Len(b)]
    BY DEF WithChunk, Database
  <1>2. d.chunk \in Seq(Chunk) /\ d.instance \in Seq(Instance) /\ Len(d.chunk) \in Nat
    BY DEF Database
  <1>3. Len(b) \in Nat /\ Len(b) # 0
    <2>1. b # <<>>
      BY BatchAssumption
    <2>. QED  BY <2>1, BatchType
  <1>4. /\ Len(chunks) = c /\ chunks[c] = chunk
        /\ \A k \in 1..Len(d.chunk) : chunks[k] = d.chunk[k]
    BY <1>2
  <1>5. news \in Seq(Instance) /\ Len(news) = Len(b)
    <2>1. \A k \in 1..Len(b) : b[k].x \in [Features -> Nat] /\ b[k].y \in Labels
      BY BatchType
    <2>2. \A k \in 1..Len(b) : news[k] \in Instance
      BY <1>2, <2>1 DEF Instance
    <2>3. news \in [1..Len(b) -> Instance]
      BY <2>2
    <2>. HIDE DEF news
    <2>. QED  BY <1>3, <2>3, FunctionIsSeq
  <1>6. \A k \in 1..Len(b) : /\ news[k].chunk = c /\ news[k].ref = 0
                             /\ ~news[k].correct /\ news[k].weak = {}
    OBVIOUS
  <1>. HIDE DEF news
  <1>7. /\ Len(instances) = Len(d.instance) + Len(news)
        /\ \A k \in 1..Len(d.instance) : instances[k] = d.instance[k]
        /\ \A k \in 1..Len(instances) : k \notin 1..Len(d.instance) =>
              k - Len(d.instance) \in 1..Len(news)
              /\ instances[k] = news[k - Len(d.instance)]
    <2>1. instances = d.instance \o news
      OBVIOUS
    <2>. HIDE DEF instances
    <2>2. d.instance \in Seq(Instance) /\ news \in Seq(Instance)
      BY <1>2, <1>5
    <2>. QED  BY <2>1, <2>2, Concatenated
  <1>. HIDE DEF instances, chunks, chunk, e
  <1>8. \A i \in 1..Len(e.instance) : i \notin 1..Len(d.instance) =>
            e.instance[i].chunk = c /\ Fresh(e, i)
    BY <1>1, <1>5, <1>6, <1>7 DEF Fresh
  <1>. QED  BY <1>1, <1>3, <1>4, <1>5, <1>7, <1>8 DEF RowsAdded, chunk, e

\* A chunk is dropped; its rows stay in place.
RowsDropped(d, e, c) ==
    /\ e.instance = d.instance /\ Len(e.chunk) = Len(d.chunk)
    /\ \A k \in 1..Len(d.chunk) : /\ k # c => e.chunk[k] = d.chunk[k]
                                  /\ e.chunk[k].total = d.chunk[k].total
    /\ e.chunk[c].state = "removed"
    /\ TreeLasts(d, e) /\ LeavesLast(d, e)

LEMMA WithoutChunkRows ==
    ASSUME NEW d \in Database, NEW c \in 1..Len(d.chunk)
    PROVE  RowsDropped(d, WithoutChunk(d, c), c)
  <1>. DEFINE e == WithoutChunk(d, c)
              met == Met(d, c)
              right == {i \in met : d.instance[i].y = LabelOf(d, i)}
              correct(l) == d.leaf_info[l].correct - Cardinality({i \in right : LeafId(d, i) = l})
              total(l) == d.leaf_info[l].total - Cardinality({i \in met : LeafId(d, i) = l})
              leaf(l) == [d.leaf_info[l] EXCEPT !.correct = correct(l), !.total = total(l)]
  <1>1. /\ e.instance = d.instance /\ e.treenode = d.treenode
        /\ e.chunk = [d.chunk EXCEPT ![c].state = "removed"]
        /\ e.leaf_info = [l \in 1..Len(d.leaf_info) |-> leaf(l)]
    BY DEF WithoutChunk, Database
  <1>2. Len(e.leaf_info) = Len(d.leaf_info)
    BY WithoutChunkTree
  <1>. HIDE DEF e, correct, total
  <1>3. d.chunk \in Seq(Chunk) /\ \A k \in 1..Len(d.chunk) : d.chunk[k] \in Chunk
    BY RowTypes DEF Database
  <1>4. /\ Len(e.chunk) = Len(d.chunk) /\ e.chunk[c].state = "removed"
        /\ \A k \in 1..Len(d.chunk) : /\ k # c => e.chunk[k] = d.chunk[k]
                                      /\ e.chunk[k].total = d.chunk[k].total
    <2>. DEFINE chunk == [d.chunk[c] EXCEPT !.state = "removed"]
                chunks == [d.chunk EXCEPT ![c] = chunk]
    <2>1. e.chunk = chunks
      BY <1>1
    <2>2. chunk \in Chunk /\ chunk.state = "removed" /\ chunk.total = d.chunk[c].total
      BY <1>3 DEF Chunk
    <2>. HIDE DEF chunk
    <2>3. Len(chunks) = Len(d.chunk)
          /\ \A k \in 1..Len(d.chunk) : chunks[k] = IF k = c THEN chunk ELSE d.chunk[k]
      BY <1>3, <2>2, RowChanged
    <2>. HIDE DEF chunks
    <2>. QED  BY <2>1, <2>2, <2>3
  <1>5. \A l \in 1..Len(d.leaf_info) :
            leaf(l).label = d.leaf_info[l].label /\ leaf(l).type = d.leaf_info[l].type
    <2>1. \A l \in 1..Len(d.leaf_info) : d.leaf_info[l] \in LeafInfo
      BY RowTypes
    <2>. QED  BY <2>1 DEF LeafInfo
  <1>. HIDE DEF leaf
  <1>6. \A l \in 1..Len(d.leaf_info) : /\ e.leaf_info[l].label = d.leaf_info[l].label
                                       /\ e.leaf_info[l].type = d.leaf_info[l].type
    BY <1>1, <1>5
  <1>7. TreeLasts(d, e) /\ LeavesLast(d, e)
    <2>1. e.treenode = d.treenode
      BY <1>1
    <2>. QED  BY <1>2, <1>6, <2>1, Lengths DEF TreeLasts, LeavesLast
  <1>. QED  BY <1>1, <1>4, <1>7 DEF RowsDropped, e

LEMMA WithTreenodeRows ==
    ASSUME NEW d \in Database, NEW n, NEW leaves, NEW e, e = WithTreenode(d, n, leaves)
    PROVE  RowsSame(d, e) /\ e.global = d.global /\ e.confusion = d.confusion
  BY DEF WithTreenode, Database, RowsSame

LEMMA WithRuleRows ==
    ASSUME NEW d \in Database, NEW child, NEW i, NEW e, e = WithRule(d, child, i)
    PROVE  RowsSame(d, e) /\ e.global = d.global /\ e.confusion = d.confusion
  BY DEF WithRule, Database, RowsSame

\* One row gets its leaf and its verdict, the others stay.
RowJudged(d, e, i, k) ==
    /\ e.chunk = d.chunk /\ e.global = d.global /\ e.confusion = d.confusion
    /\ Len(e.instance) = Len(d.instance)
    /\ \A j \in 1..Len(d.instance) : /\ j # i => e.instance[j] = d.instance[j]
                                     /\ e.instance[j].chunk = d.instance[j].chunk
    /\ e.instance[i].ref = k.id /\ e.instance[i].y = d.instance[i].y
    /\ e.instance[i].correct = (d.instance[i].y = k.leaf.label)
    /\ e.instance[i].weak = d.instance[i].weak

LEMMA JudgedRows ==
    ASSUME NEW d \in Database, NEW i \in 1..Len(d.instance), NEW k
    PROVE  RowJudged(d, Judged(d, i, k), i, k)
  <1>. DEFINE e == Judged(d, i, k)
              verdict == d.instance[i].y = k.leaf.label
              row == [d.instance[i] EXCEPT !.ref = k.id, !.correct = verdict]
  <1>1. /\ e.chunk = d.chunk /\ e.global = d.global /\ e.confusion = d.confusion
        /\ e.instance = [d.instance EXCEPT ![i] = row]
    BY DEF Judged, Database
  <1>2. d.instance \in Seq(Instance) /\ d.instance[i] \in Instance
    BY RowTypes DEF Database
  <1>. HIDE DEF e, verdict
  <1>3. /\ row.ref = k.id /\ row.correct = verdict /\ row.y = d.instance[i].y
        /\ row.chunk = d.instance[i].chunk /\ row.weak = d.instance[i].weak
    BY <1>2 DEF Instance
  <1>. HIDE DEF row
  <1>4. /\ Len(e.instance) = Len(d.instance) /\ e.instance[i] = row
        /\ \A j \in 1..Len(d.instance) : j # i => e.instance[j] = d.instance[j]
    BY <1>1, <1>2
  <1>. QED  BY <1>1, <1>3, <1>4 DEF RowJudged, e, verdict

LEMMA FinishRows ==
    ASSUME db \in Database, UpdateFinish
    PROVE  /\ db'.instance = db.instance /\ Len(db'.chunk) = Len(db.chunk)
           /\ \A c \in 1..Len(db.chunk) :
                 db'.chunk[c] =
                    IF db.chunk[c].state # "new" THEN db.chunk[c]
                    ELSE [state |-> "updated",
                          total |-> Cardinality({r \in job.routed :
                                                   db.instance[r.instance].chunk = c})]
           /\ TreeLasts(db, db') /\ LeavesLast(db, db')
  <1>. DEFINE counted(c) == Cardinality({r \in job.routed : db.instance[r.instance].chunk = c})
              chunk(c) == IF db.chunk[c].state # "new" THEN db.chunk[c]
                          ELSE [state |-> "updated", total |-> counted(c)]
  <1>1. db'.instance = db.instance /\ db'.chunk = [c \in 1..Len(db.chunk) |-> chunk(c)]
    BY DEF UpdateFinish, Database
  <1>2. Len(db'.chunk) = Len(db.chunk) /\ \A c \in 1..Len(db.chunk) : db'.chunk[c] = chunk(c)
    <2>. HIDE DEF chunk
    <2>. QED  BY <1>1, Lengths
  <1>3. \A leaf \in LeafInfo : \A l : /\ Gained(leaf, l).label = leaf.label
                                       /\ Gained(leaf, l).type = leaf.type
    <2>. TAKE leaf \in LeafInfo
    <2>. TAKE l
    <2>. DEFINE m == leaf.correct + Cardinality({r \in Hits(l) : r.actual = r.predicted})
                n == leaf.total + Cardinality(Hits(l))
    <2>1. Gained(leaf, l) = [leaf EXCEPT !.correct = m, !.total = n]
      BY DEF Gained
    <2>. HIDE DEF m, n
    <2>. QED  BY <2>1 DEF LeafInfo
  <1>4. \A l \in 1..Len(db.leaf_info) : /\ db'.leaf_info[l].label = db.leaf_info[l].label
                                        /\ db'.leaf_info[l].type = db.leaf_info[l].type
    <2>1. \A l \in 1..Len(db.leaf_info) : db.leaf_info[l] \in LeafInfo
      BY RowTypes
    <2>. QED  BY <1>3, <2>1, FinishTree
  <1>5. TreeLasts(db, db') /\ LeavesLast(db, db')
    BY <1>4, FinishTree, Lengths DEF TreeLasts, LeavesLast
  <1>. QED  BY <1>1, <1>2, <1>5

\* SentOn changes the type of the weak leaves, and the label of none.
LEMMA SentOnKeeps ==
    ASSUME NEW leaf \in LeafInfo, NEW g
    PROVE  /\ SentOn(leaf, g).label = leaf.label
           /\ SentOn(leaf, g).type = leaf.type \/ SentOn(leaf, g).go_to = g
           /\ leaf.type = "leaf" /\ SentOn(leaf, g).type # "leaf" => SentOn(leaf, g).go_to = g
  <1>1. CASE IsWeak(leaf)
    BY <1>1 DEF SentOn, LeafInfo
  <1>2. CASE ~IsWeak(leaf)
    BY <1>2 DEF SentOn
  <1>. QED  BY <1>1, <1>2

LEMMA AnnouncedRows ==
    ASSUME db \in Database, RebuildBegin
    PROVE  /\ RowsSame(db, db') /\ db'.global = db.global /\ db'.confusion = db.confusion
           /\ TreeLasts(db, db')
           /\ job'.rows = {i \in UNION {Met(db', c) : c \in Chunks(db', {"new", "updated"})} :
                             db'.leaf_info[LeafId(db', i)].go_to = Len(db.generation) + 1}
           /\ job'.todo = {} /\ job'.placed = {} /\ ~job'.building /\ job'.routed = {}
           /\ \A l \in 1..Len(db.leaf_info) :
                 db.leaf_info[l].type = "leaf" =>
                    \/ db'.leaf_info[l].type = "leaf"
                    \/ db'.leaf_info[l].go_to = Len(db.generation) + 1
  <1>1. RowsSame(db, db') /\ db'.global = db.global /\ db'.confusion = db.confusion
    BY DEF RebuildBegin, RowsSame, Database
  <1>2. \A l \in 1..Len(db.leaf_info) : db.leaf_info[l] \in LeafInfo
    BY RowTypes
  <1>3. TreeLasts(db, db')
    BY <1>2, AnnouncedTree, SentOnKeeps, Lengths DEF TreeLasts
  <1>4. \A l \in 1..Len(db.leaf_info) :
            db.leaf_info[l].type = "leaf" =>
               \/ db'.leaf_info[l].type = "leaf"
               \/ db'.leaf_info[l].go_to = Len(db.generation) + 1
    BY <1>2, AnnouncedTree, SentOnKeeps
  <1>5. PICK rows :
            /\ rows = {i \in UNION {Met(db', c) : c \in Chunks(db', {"new", "updated"})} :
                         db'.leaf_info[LeafId(db', i)].go_to = Len(db.generation) + 1}
            /\ job' = [NoJob EXCEPT !.rows = rows, !.pending = Root(rows)]
    BY DEF RebuildBegin
  <1>6. job'.rows = rows /\ job'.todo = {} /\ job'.placed = {} /\ ~job'.building /\ job'.routed = {}
    BY <1>5 DEF NoJob
  <1>. QED  BY <1>1, <1>3, <1>4, <1>5, <1>6

LEMMA InstalledRows ==
    ASSUME db \in Database, RebuildInstall, job.rows \subseteq 1..Len(db.instance)
    PROVE  /\ Len(db'.instance) = Len(db.instance) /\ db'.chunk = db.chunk
           /\ \A i \in 1..Len(db.instance) : i \notin job.rows => db'.instance[i] = db.instance[i]
           /\ \A i \in job.rows :
                 /\ db'.instance[i].ref = NewRef(i) /\ db'.instance[i].y = db.instance[i].y
                 /\ db'.instance[i].chunk = db.instance[i].chunk
                 /\ db'.instance[i].x = db.instance[i].x
                 /\ db'.instance[i].correct = (i \in CorrectAfter)
                 /\ db'.instance[i].weak = db.instance[i].weak \cup {Len(db.generation)}
  <1>1. /\ db'.instance = [i \in 1..Len(db.instance) |->
                             IF i \in job.rows THEN Rebuilt(i) ELSE db.instance[i]]
        /\ db'.chunk = db.chunk
    BY DEF RebuildInstall, Database
  <1>2. /\ Len(db'.instance) = Len(db.instance)
        /\ \A i \in 1..Len(db.instance) :
              db'.instance[i] = IF i \in job.rows THEN Rebuilt(i) ELSE db.instance[i]
    BY <1>1, Lengths
  <1>3. ASSUME NEW i \in job.rows
        PROVE  /\ Rebuilt(i).ref = NewRef(i) /\ Rebuilt(i).y = db.instance[i].y
               /\ Rebuilt(i).chunk = db.instance[i].chunk
               /\ Rebuilt(i).x = db.instance[i].x
               /\ Rebuilt(i).correct = (i \in CorrectAfter)
               /\ Rebuilt(i).weak = db.instance[i].weak \cup {Len(db.generation)}
    <2>. DEFINE right == i \in CorrectAfter
    <2>1. db.instance[i] \in Instance
      BY RowTypes
    <2>2. Rebuilt(i) = [db.instance[i] EXCEPT !.ref = NewRef(i), !.correct = right,
                                              !.weak = @ \cup {Len(db.generation)}]
      BY DEF Rebuilt
    <2>. HIDE DEF right
    <2>3. /\ Rebuilt(i).ref = NewRef(i) /\ Rebuilt(i).y = db.instance[i].y
          /\ Rebuilt(i).chunk = db.instance[i].chunk /\ Rebuilt(i).x = db.instance[i].x
          /\ Rebuilt(i).correct = right
          /\ Rebuilt(i).weak = db.instance[i].weak \cup {Len(db.generation)}
      BY <2>1, <2>2 DEF Instance
    <2>. QED  BY <2>3 DEF right
  <1>. QED  BY <1>1, <1>2, <1>3

-----------------------------------------------------------------------------
(* Every step preserves the invariant: the steps that judge nothing.         *)

Quiet4 == {"idle", "predict", "limit", "commit"}

\* The operation ends, begins or goes on with the database as it was.
LEMMA QuietVerdicts ==
    ASSUME VerdictInv, UNCHANGED <<disk, db>>,
           \/ pc' = "throw"
           \/ pc \in Quiet4 /\ pc' \in Quiet4
    PROVE  VerdictPart'
  <1>1. ChunksFit(disk') /\ ChunksFit(db') /\ Verdicts(disk')
    BY DEF VerdictInv, VerdictPart
  <1>2. StageVerdicts'
    BY DEF VerdictInv, VerdictPart, StageVerdicts, Quiet4
  <1>. QED  BY <1>1, <1>2 DEF VerdictPart

LEMMA BackVerdicts ==
    ASSUME VerdictInv, db' = disk, disk' = disk, pc' = "idle"
    PROVE  VerdictPart'
  BY DEF VerdictInv, VerdictPart, StageVerdicts

\* The walk of update goes on, with the database and the rows to do as they were.
LEMMA RoutingVerdicts ==
    ASSUME VerdictInv, UNCHANGED <<disk, db>>, job'.todo = job.todo,
           pc \in {"route", "rule_add"}, pc' \in {"route", "rule_add"}
    PROVE  VerdictPart'
  <1>1. ChunksFit(disk') /\ ChunksFit(db') /\ Verdicts(disk')
    BY DEF VerdictInv, VerdictPart
  <1>2. RoutedVerdicts'
    BY DEF VerdictInv, VerdictPart, StageVerdicts, RoutedVerdicts
  <1>. QED  BY <1>1, <1>2 DEF VerdictPart, StageVerdicts

\* The chunk that goes is one that is stored.
LEMMA OldestChunk ==
    ASSUME db \in Database, MayRemove
    PROVE  /\ Oldest \in Chunks(db, {"new", "updated"}) /\ Oldest \in 1..Len(db.chunk)
           /\ \A c \in Chunks(db, {"new", "updated"}) : Oldest <= c
  <1>1. Chunks(db, {"new", "updated"}) \in SUBSET Nat
    BY Lengths DEF Chunks
  <1>2. /\ Oldest \in Chunks(db, {"new", "updated"})
        /\ \A c \in Chunks(db, {"new", "updated"}) : Oldest <= c
    BY <1>1, LeastExists DEF Oldest, MayRemove
  <1>. QED  BY <1>2 DEF Chunks

LEMMA InsertVerdicts ==
    ASSUME VerdictInv, NEW b \in Batches, Insert(b)
    PROVE  VerdictPart'
  <1>. DEFINE n == Len(db.instance)
              c == Len(db.chunk) + 1
  <1>1. /\ db' = WithChunk(db, b) /\ pc = "idle" /\ pc' \in Quiet4 /\ UNCHANGED disk
        /\ db \in Database /\ Verdicts(db) /\ ChunksFit(db) /\ ChunksFit(disk) /\ Verdicts(disk)
    BY Typed DEF Insert, CanBegin, Quiet4, VerdictInv, VerdictPart, StageVerdicts
  <1>2. /\ Len(db'.instance) = n + Len(b) /\ Len(b) \in Nat
        /\ \A i \in 1..n : db'.instance[i] = db.instance[i]
        /\ \A i \in 1..Len(db'.instance) : i \notin 1..n =>
              db'.instance[i].chunk = c /\ Fresh(db', i)
        /\ Len(db'.chunk) = c /\ db'.chunk[c].state = "new"
        /\ \A k \in 1..Len(db.chunk) : db'.chunk[k] = db.chunk[k]
    <2>1. db \in Database /\ db' = WithChunk(db, b)
      BY <1>1
    <2>2. RowsAdded(db, db', b)
      BY <2>1, WithChunkRows
    <2>. QED  BY <2>2 DEF RowsAdded
  <1>3. n \in Nat /\ Len(db.chunk) \in Nat /\ c \in Nat /\ c \notin 1..Len(db.chunk)
    BY <1>1, Lengths
  <1>4. db' \in Database
    BY <1>1, WithChunkTyped DEF VerdictInv, CacheInv, Inductive
  <1>5. ChunksFit(db')
    <2>1. ASSUME NEW i \in 1..Len(db'.instance) PROVE db'.instance[i].chunk \in 1..c
      <3>1. i \in 1..n => db'.instance[i].chunk \in 1..Len(db.chunk)
        BY <1>1, <1>2 DEF ChunksFit
      <3>2. i \notin 1..n => db'.instance[i].chunk = c
        BY <1>2
      <3>. QED  BY <1>3, <3>1, <3>2
    <2>. QED  BY <1>2, <2>1 DEF ChunksFit
  <1>6. \A i \in 1..n : db'.chunk[db'.instance[i].chunk] = db.chunk[db.instance[i].chunk]
    BY <1>1, <1>2 DEF ChunksFit
  <1>7. TreeSame(db, db')
    BY <1>1, WithChunkTree
  <1>8. Verdicts(db')
    <2>1. ASSUME NEW i \in Updated(db') PROVE Referred(db', i) /\ InForce(db', i)
      <3>1. i \in 1..Len(db'.instance) /\ db'.chunk[db'.instance[i].chunk].state = "updated"
        BY DEF Updated, Rows
      <3>2. i \in 1..n
        BY <1>2, <3>1
      <3>3. i \in Updated(db)
        BY <1>6, <3>1, <3>2 DEF Updated, Rows
      <3>4. Referred(db, i) /\ InForce(db, i)
        BY <1>1, <3>3 DEF Verdicts
      <3>. QED  BY <1>1, <1>2, <1>4, <1>7, <3>2, <3>4, SameLasts, VerdictLasts
    <2>2. ASSUME NEW i \in Rows(db', {"new"}) PROVE Fresh(db', i)
      <3>1. i \in 1..Len(db'.instance) /\ db'.chunk[db'.instance[i].chunk].state = "new"
        BY DEF Rows
      <3>2. CASE i \in 1..n
        <4>1. i \in Rows(db, {"new"})
          BY <1>6, <3>1, <3>2 DEF Rows
        <4>. QED  BY <1>1, <1>2, <3>2, <4>1 DEF Verdicts, Fresh
      <3>3. CASE i \notin 1..n
        BY <1>2, <3>1, <3>3
      <3>. QED  BY <3>2, <3>3
    <2>. QED  BY <2>1, <2>2 DEF Verdicts
  <1>. QED  BY <1>1, <1>5, <1>8 DEF VerdictPart, StageVerdicts, Quiet4

LEMMA RemoveOldestVerdicts ==
    ASSUME VerdictInv, RemoveOldest
    PROVE  VerdictPart'
  <1>1. CASE pc' = "throw" /\ UNCHANGED <<disk, db>>
    BY <1>1, QuietVerdicts
  <1>2. CASE db' = WithoutChunk(db, Oldest) /\ UNCHANGED <<pc, disk>>
    <2>. DEFINE c == Oldest
    <2>1. /\ pc = "limit" /\ db \in Database /\ db' \in Database
          /\ Verdicts(db) /\ ChunksFit(db) /\ ChunksFit(disk) /\ Verdicts(disk)
      <3>1. db' \in Database
        BY RemoveOldestStep DEF VerdictInv, CacheInv, Inductive, TypeOK
      <3>. QED  BY <3>1, Typed DEF RemoveOldest, VerdictInv, VerdictPart, StageVerdicts
    <2>2. c \in 1..Len(db.chunk)
      BY <2>1, OldestChunk DEF RemoveOldest
    <2>3. /\ db'.instance = db.instance /\ Len(db'.chunk) = Len(db.chunk)
          /\ \A k \in 1..Len(db.chunk) : k # c => db'.chunk[k] = db.chunk[k]
          /\ db'.chunk[c].state = "removed"
          /\ TreeLasts(db, db') /\ LeavesLast(db, db')
      <3>1. RowsDropped(db, db', c)
        BY <1>2, <2>1, <2>2, WithoutChunkRows
      <3>. QED  BY <3>1 DEF RowsDropped
    <2>. HIDE DEF c
    <2>4. Updated(db') \subseteq Updated(db) /\ Rows(db', {"new"}) \subseteq Rows(db, {"new"})
      BY <2>1, <2>3 DEF Updated, Rows, ChunksFit
    <2>5. ASSUME NEW i \in Updated(db') PROVE Referred(db', i) /\ InForce(db', i)
      BY <2>1, <2>3, <2>4, VerdictLasts DEF Verdicts
    <2>6. \A i \in Rows(db', {"new"}) : Fresh(db', i)
      BY <2>1, <2>3, <2>4 DEF Verdicts, Fresh
    <2>7. Verdicts(db') /\ ChunksFit(db')
      BY <2>1, <2>3, <2>5, <2>6 DEF Verdicts, ChunksFit
    <2>. QED  BY <1>2, <2>1, <2>7 DEF VerdictPart, StageVerdicts
  <1>. QED  BY <1>1, <1>2 DEF RemoveOldest

LEMMA LimitDoneVerdicts ==
    ASSUME VerdictInv, LimitDone
    PROVE  VerdictPart'
  BY QuietVerdicts DEF LimitDone, Quiet4

LEMMA FaultVerdicts ==
    ASSUME VerdictInv, Fault
    PROVE  VerdictPart'
  BY QuietVerdicts DEF Fault

LEMMA PredictBeginVerdicts ==
    ASSUME VerdictInv, NEW x, PredictBegin(x)
    PROVE  VerdictPart'
  BY QuietVerdicts DEF PredictBegin, CanBegin, Quiet4

LEMMA CommitVerdicts ==
    ASSUME VerdictInv, Commit
    PROVE  VerdictPart'
  BY DEF Commit, VerdictInv, VerdictPart, StageVerdicts

LEMMA BackAgainVerdicts ==
    ASSUME VerdictInv, Unwind \/ Restart \/ RebuildGiveUp
    PROVE  VerdictPart'
  BY BackVerdicts DEF Unwind, Restart, RebuildGiveUp

LEMMA NoChildsVerdicts ==
    ASSUME VerdictInv, NoChilds
    PROVE  VerdictPart'
  BY QuietVerdicts DEF NoChilds, Visit

LEMMA NoMatchVerdicts ==
    ASSUME VerdictInv, NoMatch
    PROVE  VerdictPart'
  <1>1. /\ UNCHANGED <<disk, db>>
        /\ \/ pc = "predict" /\ pc' = "idle"
           \/ pc = "route" /\ pc' = "rule_add" /\ job' = [job EXCEPT !.cur = Here]
    BY DEF NoMatch, Visit, Walking
  <1>2. job' = [job EXCEPT !.cur = Here] => job'.todo = job.todo
    BY Typed DEF VerdictInv, Job
  <1>. QED  BY <1>1, <1>2, QuietVerdicts, RoutingVerdicts DEF Quiet4

LEMMA StepDownVerdicts ==
    ASSUME VerdictInv, StepDown
    PROVE  VerdictPart'
  <1>1. /\ UNCHANGED <<disk, db, pc>> /\ pc \in {"predict", "route"}
        /\ job' = [job EXCEPT !.cur = Choice.id]
    BY DEF StepDown, Visit, Walking
  <1>2. job'.todo = job.todo
    BY <1>1, Typed DEF VerdictInv, Job
  <1>. QED  BY <1>1, <1>2, QuietVerdicts, RoutingVerdicts DEF Quiet4

LEMMA JumpVerdicts ==
    ASSUME VerdictInv, JumpToGeneration
    PROVE  VerdictPart'
  <1>1. /\ UNCHANGED <<disk, db>> /\ pc \in {"predict", "route"}
        /\ \/ pc' = "throw"
           \/ UNCHANGED pc /\ \E r : job' = [job EXCEPT !.cur = r[2]]
    BY DEF JumpToGeneration, Visit, Walking
  <1>2. \A r : job' = [job EXCEPT !.cur = r[2]] => job'.todo = job.todo
    BY Typed DEF VerdictInv, Job
  <1>. QED  BY <1>1, <1>2, QuietVerdicts, RoutingVerdicts DEF Quiet4

-----------------------------------------------------------------------------
(* The steps that begin to judge.                                            *)

LEMMA UpdateBeginVerdicts ==
    ASSUME VerdictInv, UpdateBegin
    PROVE  VerdictPart'
  <1>1. /\ pc = "idle" /\ UNCHANGED disk /\ db = disk
        /\ db \in Database /\ Verdicts(db) /\ ChunksFit(db) /\ ChunksFit(disk) /\ Verdicts(disk)
    BY Typed DEF UpdateBegin, CanBegin, VerdictInv, VerdictPart, StageVerdicts,
       CacheInv, TreeInv, Grows
  <1>2. /\ db'.instance = db.instance /\ db'.chunk = db.chunk
        /\ db'.treenode = db.treenode /\ db'.leaf_info = db.leaf_info
    BY <1>1 DEF UpdateBegin, Database
  <1>3. /\ job'.todo = Rows(db, {"new"}) /\ job'.rows = {} /\ job'.placed = {}
        /\ job'.building = (db.generation = <<>>)
        /\ pc' = IF db.generation = <<>> THEN "grow" ELSE "route"
    BY DEF UpdateBegin, NoJob
  <1>4. /\ Updated(db') = Updated(db) /\ Rows(db', {"new"}) = Rows(db, {"new"})
        /\ ChunksFit(db')
    BY <1>1, <1>2, SameRows DEF RowsSame
  <1>5. \A i : /\ Referred(db', i) <=> Referred(db, i)
               /\ InForce(db', i) <=> InForce(db, i)
               /\ Fresh(db', i) <=> Fresh(db, i)
    BY <1>2 DEF Referred, InForce, Fresh, LeafId, LabelOf
  <1>6. TrainedVerdicts' /\ RoutedVerdicts'
    BY <1>1, <1>2, <1>3, <1>4, <1>5 DEF TrainedVerdicts, RoutedVerdicts, Verdicts
  <1>. QED  BY <1>1, <1>3, <1>4, <1>6 DEF VerdictPart, StageVerdicts

LEMMA RebuildBeginVerdicts ==
    ASSUME VerdictInv, RebuildBegin
    PROVE  VerdictPart'
  <1>. DEFINE g == Len(db.generation) + 1
              met == UNION {Met(db', c) : c \in Chunks(db', {"new", "updated"})}
  <1>1. /\ pc = "idle" /\ UNCHANGED disk /\ db = disk /\ pc' \in {"throw", "grow"}
        /\ db \in Database /\ Verdicts(db) /\ ChunksFit(db) /\ ChunksFit(disk) /\ Verdicts(disk)
    BY Typed DEF RebuildBegin, CanBegin, VerdictInv, VerdictPart, StageVerdicts,
       CacheInv, TreeInv, Grows
  <1>2. db' \in Database
    BY <1>1, AnnouncedTyped DEF Kept, VerdictInv, CacheInv, Inductive
  <1>3. /\ RowsSame(db, db') /\ TreeLasts(db, db')
        /\ job'.rows = {i \in met : db'.leaf_info[LeafId(db', i)].go_to = g}
        /\ job'.todo = {} /\ job'.placed = {} /\ ~job'.building
        /\ \A l \in 1..Len(db.leaf_info) :
              db.leaf_info[l].type = "leaf" =>
                 db'.leaf_info[l].type = "leaf" \/ db'.leaf_info[l].go_to = g
    BY <1>1, AnnouncedRows
  <1>4. /\ Updated(db') = Updated(db) /\ Rows(db', {"new"}) = Rows(db, {"new"})
        /\ ChunksFit(db') /\ db'.instance = db.instance /\ db'.chunk = db.chunk
    BY <1>1, <1>3, SameRows DEF RowsSame
  <1>5. \A i \in Rows(db', {"new"}) : Fresh(db', i)
    BY <1>1, <1>4 DEF Verdicts, Fresh
  <1>6. job'.rows \subseteq Updated(db')
    <2>1. \A c : \A i \in Met(db', c) : i \in Stored(db') /\ db'.instance[i].ref # 0
      BY <1>2, Lengths DEF Met
    <2>2. \A i \in job'.rows : i \in Stored(db') /\ db'.instance[i].ref # 0
      BY <1>3, <2>1
    <2>3. \A i \in Stored(db') : i \in Updated(db') \/ i \in Rows(db', {"new"})
      BY DEF Stored, Updated, Rows
    <2>. QED  BY <1>5, <2>2, <2>3 DEF Fresh
  <1>7. ASSUME NEW i \in Updated(db')
        PROVE  Referred(db', i) /\ (InForce(db', i) \/ i \in job'.rows)
    <2>1. Referred(db, i) /\ InForce(db, i) /\ db'.instance[i] = db.instance[i]
      BY <1>1, <1>4 DEF Verdicts
    <2>2. Referred(db', i) /\ LeafId(db', i) = LeafId(db, i)
      BY <1>1, <1>2, <1>3, <2>1, VerdictLasts
    <2>3. \/ InForce(db', i)
          \/ db'.leaf_info[LeafId(db', i)].go_to = g
      BY <1>3, <2>1, <2>2 DEF InForce, Referred
    <2>4. i \in met
      <3>1. /\ i \in 1..Len(db'.instance)
            /\ db'.chunk[db'.instance[i].chunk].state = "updated"
        BY DEF Updated, Rows
      <3>2. db'.instance[i].chunk \in Chunks(db', {"new", "updated"})
        BY <1>4, <3>1 DEF ChunksFit, Chunks
      <3>3. i \in Stored(db')
        BY <3>1 DEF Stored, Rows
      <3>4. i \in Met(db', db'.instance[i].chunk)
        BY <2>2, <3>3 DEF Met, Referred
      <3>. QED  BY <3>2, <3>4
    <2>. HIDE DEF met, g
    <2>. QED  BY <1>3, <2>2, <2>3, <2>4
  <1>8. TrainedVerdicts'
    BY <1>1, <1>3, <1>4, <1>5, <1>6, <1>7 DEF TrainedVerdicts
  <1>. QED  BY <1>1, <1>4, <1>8 DEF VerdictPart, StageVerdicts

-----------------------------------------------------------------------------
(* A tree is inserted.                                                       *)

\* A treenode that is added with a leaf refers to it.
LeafAdded(d, e, leaf) ==
    LET l == Len(d.leaf_info) + 1
    IN  /\ Len(e.leaf_info) = l /\ e.leaf_info[l] = leaf
        /\ Len(e.treenode) = Len(d.treenode) + 1 /\ e.treenode[Len(d.treenode) + 1].leaf = l

LEMMA WithTreenodeLeaf ==
    ASSUME NEW d \in Database, NEW n, NEW leaf \in LeafInfo
    PROVE  LeafAdded(d, WithTreenode(d, n, <<leaf>>), leaf)
  <1>. DEFINE e == WithTreenode(d, n, <<leaf>>)
              rules == IF n.parent = 0 THEN <<>> ELSE <<n.rule>>
              rule == IF rules = <<>> THEN 0 ELSE Len(d.rule) + 1
              node == [generation |-> Len(d.generation), parent |-> n.parent,
                       rule |-> rule, leaf |-> Len(d.leaf_info) + 1]
  <1>1. <<leaf>> # <<>>
    OBVIOUS
  <1>2. e.leaf_info = d.leaf_info \o <<leaf>> /\ e.treenode = Append(d.treenode, node)
    BY <1>1 DEF WithTreenode, Database
  <1>. HIDE DEF rule, e
  <1>3. node.leaf = Len(d.leaf_info) + 1
    OBVIOUS
  <1>. HIDE DEF node
  <1>4. d.leaf_info \in Seq(LeafInfo) /\ d.treenode \in Seq(Treenode)
    BY DEF Database
  <1>5. /\ Len(e.leaf_info) = Len(d.leaf_info) + 1
        /\ e.leaf_info[Len(d.leaf_info) + 1] = leaf
    BY <1>2, <1>4
  <1>6. /\ Len(e.treenode) = Len(d.treenode) + 1
        /\ e.treenode[Len(d.treenode) + 1] = node
    BY <1>2, <1>4
  <1>. QED  BY <1>3, <1>5, <1>6 DEF LeafAdded, e

LEMMA NodeVerdicts ==
    ASSUME VerdictInv, pc = "grow", db' \in Database, TreeGrown(db, db'), RowsSame(db, db'),
           UNCHANGED disk, job'.todo = job.todo, job'.rows = job.rows,
           job'.building = job.building, pc' = Grown,
           \A q \in job'.placed : \/ q \in job.placed
                                  \/ /\ q[2] = Len(db.treenode) + 1
                                     /\ \E leaf : leaf.type = "leaf" /\ LeafAdded(db, db', leaf)
    PROVE  VerdictPart'
  <1>1. /\ db \in Database /\ TrainedVerdicts /\ ChunksFit(db) /\ ChunksFit(disk)
        /\ Verdicts(disk)
    BY Typed DEF VerdictInv, VerdictPart, StageVerdicts
  <1>2. TreeLasts(db, db') /\ LeavesLast(db, db')
    BY <1>1, GrownLasts
  <1>3. /\ Updated(db') = Updated(db) /\ Rows(db', {"new"}) = Rows(db, {"new"})
        /\ ChunksFit(db') /\ db'.instance = db.instance /\ db'.chunk = db.chunk
    BY <1>1, SameRows DEF RowsSame
  <1>4. \A i \in Rows(db', {"new"}) : Fresh(db', i)
    BY <1>1, <1>3 DEF TrainedVerdicts, Fresh
  <1>5. ASSUME NEW i \in Updated(db')
        PROVE  Referred(db', i) /\ (InForce(db', i) \/ i \in job.rows)
    <2>1. Referred(db, i) /\ (InForce(db, i) \/ i \in job.rows)
          /\ db'.instance[i] = db.instance[i]
      BY <1>1, <1>3 DEF TrainedVerdicts
    <2>. QED  BY <1>1, <1>2, <2>1, VerdictLasts
  <1>6. ASSUME NEW q \in job'.placed
        PROVE  LET t == q[2]
               IN  /\ t \in 1..Len(db'.treenode)
                   /\ db'.treenode[t].leaf \in 1..Len(db'.leaf_info)
                   /\ db'.leaf_info[db'.treenode[t].leaf].type = "leaf"
    <2>1. CASE q \in job.placed
      <3>. DEFINE t == q[2]
                  l == db.treenode[t].leaf
      <3>1. t \in 1..Len(db.treenode) /\ l \in 1..Len(db.leaf_info)
            /\ db.leaf_info[l].type = "leaf"
        BY <1>1, <2>1 DEF TrainedVerdicts
      <3>2. 1..Len(db.treenode) \subseteq 1..Len(db'.treenode)
            /\ 1..Len(db.leaf_info) \subseteq 1..Len(db'.leaf_info)
        BY <1>1, <1>2, Positions, Lengths DEF TreeLasts
      <3>3. db'.treenode[t] = db.treenode[t] /\ db'.leaf_info[l].type = db.leaf_info[l].type
        BY <1>2, <3>1 DEF TreeLasts, LeavesLast
      <3>. QED  BY <3>1, <3>2, <3>3
    <2>2. CASE q \notin job.placed
      <3>1. q[2] = Len(db.treenode) + 1
        BY <2>2
      <3>2. PICK leaf : leaf.type = "leaf" /\ LeafAdded(db, db', leaf)
        BY <2>2
      <3>3. Len(db.treenode) \in Nat /\ Len(db.leaf_info) \in Nat
        BY <1>1, Lengths
      <3>. QED  BY <3>1, <3>2, <3>3 DEF LeafAdded
    <2>. QED  BY <2>1, <2>2
  <1>7. TrainedVerdicts'
    BY <1>1, <1>3, <1>4, <1>5, <1>6 DEF TrainedVerdicts
  <1>8. pc' = "route" => RoutedVerdicts'
    <2>. HAVE pc' = "route"
    <2>1. job'.building
      BY DEF Grown
    <2>. QED  BY <1>1, <1>3, <1>4, <1>5, <2>1 DEF TrainedVerdicts, RoutedVerdicts
  <1>9. pc' \in {"grow", "judge", "route"}
    BY DEF Grown
  <1>. QED  BY <1>1, <1>3, <1>7, <1>8, <1>9 DEF VerdictPart, StageVerdicts

\* What GrowLeaf and GrowSplit have in common.
LEMMA NodeGrown ==
    ASSUME CacheInv, GrowLeaf \/ GrowSplit
    PROVE  /\ pc = "grow" /\ pc' = Grown /\ UNCHANGED disk /\ db' \in Database
           /\ TreeGrown(db, db') /\ RowsSame(db, db')
           /\ db'.global = db.global /\ db'.confusion = db.confusion
           /\ Len(db'.generation) = Len(db.generation)
           /\ job'.todo = job.todo /\ job'.rows = job.rows
           /\ job'.building = job.building /\ job'.routed = job.routed
  <1>1. pc = "grow" /\ pc' = Grown /\ UNCHANGED disk
    BY DEF GrowLeaf, GrowSplit
  <1>2. PICK n \in job.pending : \E leaves : \E new, places :
            /\ leaves = <<>> \/ leaves = <<Leaf(db, n.rows)>>
            /\ db' = WithTreenode(db, n, leaves)
            /\ job' = [job EXCEPT !.pending = new, !.placed = places]
    <2>1. CASE GrowLeaf
      <3>1. PICK n \in job.pending :
                /\ db' = WithTreenode(db, n, <<Leaf(db, n.rows)>>)
                /\ job' = [job EXCEPT !.pending = @ \ {n},
                                      !.placed = @ \cup (n.rows \X {Len(db.treenode) + 1})]
        BY <2>1 DEF GrowLeaf
      <3>. QED  BY <3>1
    <2>2. CASE GrowSplit
      <3>1. PICK n \in job.pending : \E new :
                /\ db' = WithTreenode(db, n, <<>>)
                /\ job' = [job EXCEPT !.pending = (@ \ {n}) \cup new]
        BY <2>2 DEF GrowSplit
      <3>2. PICK new : job' = [job EXCEPT !.pending = new, !.placed = job.placed]
        <4>1. PICK new : job' = [job EXCEPT !.pending = (@ \ {n}) \cup new]
          BY <3>1
        <4>2. job' = [job EXCEPT !.pending = (job.pending \ {n}) \cup new, !.placed = job.placed]
          BY <4>1, Typed DEF Job
        <4>. QED  BY <4>2
      <3>. QED  BY <3>1, <3>2
    <2>. QED  BY <2>1, <2>2
  <1>3. PICK leaves : \E new, places :
            /\ leaves = <<>> \/ leaves = <<Leaf(db, n.rows)>>
            /\ db' = WithTreenode(db, n, leaves)
            /\ job' = [job EXCEPT !.pending = new, !.placed = places]
    BY <1>2
  <1>4. n.parent \in Nat /\ Leaf(db, n.rows) \in LeafInfo
    <2>1. n.rows \subseteq 1..Len(db.instance) /\ n \in Pending
      BY Typed DEF CacheInv, Inductive, JobFits, Job
    <2>2. IsFiniteSet(n.rows)
      BY <2>1, Typed, PositionsFinite, Lengths
    <2>. QED  BY <2>1, <2>2, LeafType DEF Pending
  <1>5. leaves \in Seq(LeafInfo) /\ Len(leaves) \in {0, 1}
    <2>. DEFINE leaf == Leaf(db, n.rows)
    <2>1. leaf \in LeafInfo /\ (leaves = <<>> \/ leaves = <<leaf>>)
      BY <1>3, <1>4
    <2>. HIDE DEF leaf
    <2>2. CASE leaves = <<>>
      BY <2>2
    <2>3. CASE leaves = <<leaf>>
      BY <2>1, <2>3
    <2>. QED  BY <2>1, <2>2, <2>3
  <1>6. db \in Database /\ db.generation # <<>> /\ db' \in Database
    <2>1. Inductive'
      BY GrowLeafStep, GrowSplitStep DEF CacheInv
    <2>. QED  BY <1>1, <2>1, Typed DEF CacheInv, Inductive, HasRoot, TypeOK
  <1>7. db' = WithTreenode(db, n, leaves)
    BY <1>3
  <1>8. TreeGrown(db, db') /\ Len(db'.generation) = Len(db.generation)
    BY <1>4, <1>5, <1>6, <1>7, WithTreenodeTree
  <1>9. RowsSame(db, db') /\ db'.global = db.global /\ db'.confusion = db.confusion
    BY <1>6, <1>7, WithTreenodeRows
  <1>10. /\ job'.todo = job.todo /\ job'.rows = job.rows
         /\ job'.building = job.building /\ job'.routed = job.routed
    BY <1>3, Typed DEF Job
  <1>. QED  BY <1>1, <1>6, <1>8, <1>9, <1>10

LEMMA GrowLeafVerdicts ==
    ASSUME VerdictInv, GrowLeaf
    PROVE  VerdictPart'
  <1>1. PICK n \in job.pending :
            /\ db' = WithTreenode(db, n, <<Leaf(db, n.rows)>>)
            /\ job' = [job EXCEPT !.pending = @ \ {n},
                                  !.placed = @ \cup (n.rows \X {Len(db.treenode) + 1})]
    BY DEF GrowLeaf
  <1>2. Leaf(db, n.rows) \in LeafInfo /\ Leaf(db, n.rows).type = "leaf"
    <2>1. n.rows \subseteq 1..Len(db.instance)
      BY DEF VerdictInv, CacheInv, Inductive, JobFits
    <2>2. IsFiniteSet(n.rows)
      BY <2>1, Typed, PositionsFinite, Lengths DEF VerdictInv
    <2>. QED  BY <2>2, LeafType DEF Leaf
  <1>. DEFINE leaf == Leaf(db, n.rows)
  <1>3. leaf \in LeafInfo /\ leaf.type = "leaf" /\ db' = WithTreenode(db, n, <<leaf>>)
    BY <1>1, <1>2
  <1>. HIDE DEF leaf
  <1>4. LeafAdded(db, db', leaf)
    BY <1>3, Typed, WithTreenodeLeaf DEF VerdictInv
  <1>5. job'.placed = job.placed \cup (n.rows \X {Len(db.treenode) + 1})
    BY <1>1, Typed DEF VerdictInv, Job
  <1>6. \A q \in job'.placed : \/ q \in job.placed
                               \/ /\ q[2] = Len(db.treenode) + 1
                                  /\ \E lf : lf.type = "leaf" /\ LeafAdded(db, db', lf)
    BY <1>3, <1>4, <1>5
  <1>7. CacheInv
    BY DEF VerdictInv
  <1>. QED  BY <1>6, <1>7, NodeGrown, NodeVerdicts

LEMMA GrowSplitVerdicts ==
    ASSUME VerdictInv, GrowSplit
    PROVE  VerdictPart'
  <1>1. PICK n, new : job' = [job EXCEPT !.pending = (@ \ {n}) \cup new]
    BY DEF GrowSplit
  <1>2. job'.placed = job.placed
    BY <1>1, Typed DEF VerdictInv, Job
  <1>3. CacheInv
    BY DEF VerdictInv
  <1>. QED  BY <1>2, <1>3, NodeGrown, NodeVerdicts

-----------------------------------------------------------------------------
(* An instance is judged.                                                    *)

\* Row i gets the leaf of treenode n of d, which is db or db with a rule added.
LEMMA JudgedVerdicts ==
    ASSUME VerdictInv, pc \in {"route", "rule_add"}, pc' = "route", UNCHANGED disk,
           NEW i \in job.todo, job'.todo = job.todo \ {i},
           NEW d \in Database, RowsSame(db, d), TreeLasts(db, d), LeavesLast(db, d),
           NEW n \in 1..Len(d.treenode), d.treenode[n].leaf \in 1..Len(d.leaf_info),
           d.leaf_info[d.treenode[n].leaf].type = "leaf",
           TreeSame(d, db'), RowJudged(d, db', i, ChildRow(d, n)), db' \in Database
    PROVE  VerdictPart'
  <1>. DEFINE l == d.treenode[n].leaf
              k == ChildRow(d, n)
  <1>1. /\ db \in Database /\ RoutedVerdicts /\ ChunksFit(db) /\ ChunksFit(disk)
        /\ Verdicts(disk)
    BY Typed DEF VerdictInv, VerdictPart, StageVerdicts
  <1>2. k.id = n /\ k.leaf = d.leaf_info[l]
    BY DEF ChildRow
  <1>3. i \in Rows(db, {"new"}) /\ Fresh(db, i) /\ i \in 1..Len(db.instance)
    BY <1>1 DEF RoutedVerdicts, Rows
  <1>4. /\ d.instance = db.instance /\ d.chunk = db.chunk
        /\ db'.treenode = d.treenode /\ db'.leaf_info = d.leaf_info
    BY DEF RowsSame, TreeSame
  <1>. HIDE DEF k
  <1>5. /\ db'.chunk = db.chunk /\ Len(db'.instance) = Len(db.instance)
        /\ \A j \in 1..Len(db.instance) : /\ j # i => db'.instance[j] = db.instance[j]
                                          /\ db'.instance[j].chunk = db.instance[j].chunk
        /\ db'.instance[i].ref = n /\ db'.instance[i].y = db.instance[i].y
        /\ db'.instance[i].correct = (db.instance[i].y = d.leaf_info[l].label)
        /\ db'.instance[i].weak = db.instance[i].weak
    BY <1>2, <1>4 DEF RowJudged, k
  <1>6. Updated(db') = Updated(db) /\ Rows(db', {"new"}) = Rows(db, {"new"}) /\ ChunksFit(db')
    BY <1>1, <1>5 DEF Updated, Rows, ChunksFit
  <1>7. Referred(db', i) /\ InForce(db', i) /\ db'.instance[i].weak = {}
    <2>1. LeafId(db', i) = l
      BY <1>4, <1>5 DEF LeafId
    <2>2. LabelOf(db', i) = d.leaf_info[l].label
      BY <1>4, <2>1 DEF LabelOf
    <2>. QED  BY <1>3, <1>4, <1>5, <2>1, <2>2 DEF Referred, InForce, Fresh
  <1>8. TreeLasts(db, db') /\ LeavesLast(db, db')
    BY <1>4 DEF TreeLasts, LeavesLast
  <1>9. \A j \in 1..Len(db.instance) :
            j # i /\ Referred(db, j) /\ InForce(db, j) => Referred(db', j) /\ InForce(db', j)
    BY <1>1, <1>5, <1>8, VerdictLasts
  <1>10. ASSUME NEW j \in Updated(db') PROVE Referred(db', j) /\ InForce(db', j)
    <2>1. j \in Updated(db) /\ j \in 1..Len(db.instance) /\ j # i
      BY <1>3, <1>6 DEF Updated, Rows
    <2>. QED  BY <1>1, <1>9, <2>1 DEF RoutedVerdicts
  <1>11. ASSUME NEW j \in Rows(db', {"new"})
         PROVE  IF j \in job'.todo THEN Fresh(db', j)
                ELSE Referred(db', j) /\ InForce(db', j) /\ db'.instance[j].weak = {}
    <2>1. j \in Rows(db, {"new"}) /\ j \in 1..Len(db.instance)
      BY <1>6 DEF Rows
    <2>2. CASE j = i
      BY <1>7, <2>2
    <2>3. CASE j # i
      BY <1>1, <1>5, <1>9, <2>1, <2>3 DEF RoutedVerdicts, Fresh
    <2>. QED  BY <2>2, <2>3
  <1>12. RoutedVerdicts'
    BY <1>1, <1>6, <1>10, <1>11 DEF RoutedVerdicts
  <1>. QED  BY <1>1, <1>6, <1>12 DEF VerdictPart, StageVerdicts

\* The locals after an instance was judged.
LEMMA CountedTodo ==
    ASSUME job \in Job, NEW i, NEW k, NEW added, job' = Counted(i, k, added)
    PROVE  job'.todo = job.todo \ {i} /\ job'.rows = job.rows /\ job'.building = job.building
  BY DEF Counted, Job

LEMMA ArriveVerdicts ==
    ASSUME VerdictInv, Arrive
    PROVE  VerdictPart'
  <1>. DEFINE i == Least(job.todo)
              n == Choice.id
  <1>1. /\ Visit /\ Matched # {} /\ Choice.leaf_id # 0 /\ Choice.leaf.type = "leaf"
        /\ UNCHANGED disk
        /\ \/ pc = "predict" /\ pc' = "idle" /\ UNCHANGED db
           \/ pc = "route" /\ pc' = "route" /\ db' = Judged(db, i, Choice)
                           /\ job' = Counted(i, Choice, FALSE)
    BY DEF Arrive, Visit, Walking
  <1>2. CASE pc = "predict" /\ pc' = "idle" /\ UNCHANGED db
    BY <1>1, <1>2, QuietVerdicts DEF Quiet4
  <1>3. CASE pc = "route" /\ pc' = "route" /\ db' = Judged(db, i, Choice)
                         /\ job' = Counted(i, Choice, FALSE)
    <2>1. /\ CacheInv /\ ~failed /\ db \in Database /\ job \in Job /\ RefsFit(db)
      BY <1>3, Typed DEF VerdictInv, Reopened, CacheInv, TreeInv
    <2>2. Choice \in Childs(db, Here) /\ n \in 1..Len(db.treenode)
      BY <1>1, <2>1, ChoiceFound
    <2>3. Choice = ChildRow(db, n)
      BY <2>2 DEF Childs, ChildRow
    <2>4. i \in job.todo /\ i \in 1..Len(db.instance)
      BY <1>1, <1>3, <2>1, TodoLeast DEF Visit, Walking, CacheInv
    <2>5. db' \in Database
      BY ArriveStep DEF VerdictInv, CacheInv, Inductive, TypeOK
    <2>. DEFINE k == Choice
    <2>. HIDE DEF k
    <2>6. db.treenode[n].leaf = k.leaf_id /\ db.treenode[n].leaf \in 0..Len(db.leaf_info)
      BY <2>1, <2>2, <2>3 DEF ChildRow, RefsFit, k
    <2>7. db.treenode[n].leaf \in 1..Len(db.leaf_info)
      <3>1. k.leaf_id # 0 /\ Len(db.leaf_info) \in Nat
        BY <1>1, <2>1, Lengths DEF k
      <3>. QED  BY <2>6, <3>1
    <2>8. db.leaf_info[db.treenode[n].leaf].type = "leaf"
      <3>1. ChildRow(db, n).leaf = db.leaf_info[db.treenode[n].leaf]
        BY <2>7 DEF ChildRow
      <3>. QED  BY <1>1, <2>3, <3>1
    <2>9. job'.todo = job.todo \ {i}
      BY <1>3, <2>1, CountedTodo
    <2>10. TreeSame(db, db') /\ RowJudged(db, db', i, Choice)
      BY <1>3, <2>1, <2>4, JudgedTree, JudgedRows
    <2>11. RowsSame(db, db) /\ TreeLasts(db, db) /\ LeavesLast(db, db)
      BY <2>1, Lengths DEF RowsSame, TreeLasts, LeavesLast
    <2>. HIDE DEF n, i
    <2>12. RowJudged(db, db', i, ChildRow(db, n))
      BY <2>3, <2>10
    <2>. QED  BY <1>1, <1>3, <2>1, <2>2, <2>4, <2>5, <2>7, <2>8, <2>9, <2>10, <2>11, <2>12,
              JudgedVerdicts
  <1>. QED  BY <1>1, <1>2, <1>3

LEMMA WithRuleLeaf ==
    ASSUME NEW d \in Database, NEW child, NEW i
    PROVE  \E leaf : /\ leaf.type = "leaf" /\ leaf.label = d.instance[i].y
                     /\ LeafAdded(d, WithRule(d, child, i), leaf)
  <1>. DEFINE e == WithRule(d, child, i)
              leaf == [label |-> d.instance[i].y, type |-> "leaf", go_to |-> 0,
                       correct |-> 1, total |-> 1]
              node == [generation |-> d.treenode[child.id].generation, parent |-> job.cur,
                       rule |-> Len(d.rule) + 1, leaf |-> Len(d.leaf_info) + 1]
  <1>1. e.leaf_info = Append(d.leaf_info, leaf) /\ e.treenode = Append(d.treenode, node)
    BY DEF WithRule, Database
  <1>2. node.leaf = Len(d.leaf_info) + 1
    OBVIOUS
  <1>3. leaf.type = "leaf" /\ leaf.label = d.instance[i].y
    OBVIOUS
  <1>. HIDE DEF e, leaf, node
  <1>4. d.leaf_info \in Seq(LeafInfo) /\ d.treenode \in Seq(Treenode)
    BY DEF Database
  <1>5. /\ Len(e.leaf_info) = Len(d.leaf_info) + 1
        /\ e.leaf_info[Len(d.leaf_info) + 1] = leaf
    BY <1>1, <1>4
  <1>6. /\ Len(e.treenode) = Len(d.treenode) + 1
        /\ e.treenode[Len(d.treenode) + 1] = node
    BY <1>1, <1>4
  <1>7. LeafAdded(d, e, leaf)
    BY <1>2, <1>5, <1>6 DEF LeafAdded
  <1>. QED  BY <1>3, <1>7 DEF e

\* A rule is added or the operation throws, with the database as it was or with the
\* rule in it, to be rolled back.
LEMMA RuleAdded ==
    ASSUME CacheInv, RuleAdd
    PROVE  /\ pc = "rule_add" /\ UNCHANGED <<disk, failed>>
           /\ Least(job.todo) \in job.todo /\ Least(job.todo) \in 1..Len(db.instance)
           /\ \/ pc' = "throw"
              \/ \E child : \E d \in Database :
                    /\ child = FirstOf(Seen(job.cur)) /\ CanAddRule(child)
                    /\ d = WithRule(db, child, Least(job.todo))
                    /\ pc' = "route"
                    /\ db' = Judged(d, Least(job.todo), ChildRow(d, Len(d.treenode)))
                    /\ job' = Counted(Least(job.todo), ChildRow(d, Len(d.treenode)), TRUE)
  <1>. DEFINE i == Least(job.todo)
              childs == Seen(job.cur)
              child == FirstOf(childs)
              d == WithRule(db, child, i)
              new == ChildRow(d, Len(d.treenode))
  <1>1. pc = "rule_add" /\ UNCHANGED <<disk, failed>>
    BY DEF RuleAdd
  <1>2. i \in job.todo /\ i \in 1..Len(db.instance)
    BY <1>1, TodoLeast DEF CacheInv, Inductive, CanCopy
  <1>3. \/ pc' = "throw"
        \/ /\ CanAddRule(child) /\ pc' = "route"
           /\ db' = Judged(d, i, new) /\ job' = Counted(i, new, TRUE)
    BY DEF RuleAdd
  <1>4. child \in ChildRowType
    <2>1. childs # {}
      BY <1>1 DEF CacheInv, Inductive, CanCopy
    <2>2. \A k \in childs : k \in ChildRowType /\ k.id \in Nat
      BY SeenTyped DEF ChildRowType, CacheInv, Inductive
    <2>3. child = FirstOf(childs)
      OBVIOUS
    <2>. HIDE DEF childs, child
    <2>. QED  BY <2>1, <2>2, <2>3, FirstExists
  <1>5. ASSUME CanAddRule(child) PROVE d \in Database
    <2>1. child.rule.type = "equ" /\ child.id \in 1..Len(db.rule) /\ child.id \in 1..Len(db.treenode)
      BY <1>5 DEF CanAddRule, CopiedRule
    <2>2. job.cur \in Nat /\ WeakFits(db)
      BY Typed DEF Job, CacheInv, Inductive
    <2>. HIDE DEF child, i
    <2>. QED  BY <1>2, <1>4, <2>1, <2>2, Typed, WithRuleTyped DEF Kept
  <1>6. ASSUME pc' # "throw"
        PROVE  \E c : \E e \in Database :
                    /\ c = FirstOf(Seen(job.cur)) /\ CanAddRule(c)
                    /\ e = WithRule(db, c, i) /\ pc' = "route"
                    /\ db' = Judged(e, i, ChildRow(e, Len(e.treenode)))
                    /\ job' = Counted(i, ChildRow(e, Len(e.treenode)), TRUE)
    <2>1. d \in Database /\ pc' = "route" /\ db' = Judged(d, i, new) /\ job' = Counted(i, new, TRUE)
          /\ child = FirstOf(Seen(job.cur)) /\ CanAddRule(child)
      BY <1>3, <1>5, <1>6
    <2>. HIDE DEF child
    <2>. QED  BY <2>1
  <1>. HIDE DEF i
  <1>. QED  BY <1>1, <1>2, <1>6 DEF i

LEMMA RuleAddVerdicts ==
    ASSUME VerdictInv, RuleAdd
    PROVE  VerdictPart'
  <1>. DEFINE i == Least(job.todo)
  <1>1. /\ pc = "rule_add" /\ UNCHANGED disk /\ i \in job.todo /\ i \in 1..Len(db.instance)
        /\ CacheInv /\ db \in Database /\ job \in Job
    BY RuleAdded, Typed DEF VerdictInv
  <1>2. CASE pc' = "throw"
    <2>1. \/ UNCHANGED db
          \/ \E child : db' = WithRule(db, child, i)
      BY <1>2 DEF RuleAdd
    <2>2. \A child : db' = WithRule(db, child, i) => RowsSame(db, db')
      BY <1>1, WithRuleRows
    <2>3. RowsSame(db, db')
      BY <2>1, <2>2 DEF RowsSame
    <2>4. ChunksFit(db') /\ ChunksFit(disk) /\ Verdicts(disk)
      BY <2>3, SameRows DEF VerdictInv, VerdictPart
    <2>. QED  BY <1>1, <1>2, <2>4 DEF VerdictPart, StageVerdicts
  <1>3. CASE pc' # "throw"
    <2>0. PICK child : \E d \in Database :
                    /\ d = WithRule(db, child, i) /\ pc' = "route"
                    /\ db' = Judged(d, i, ChildRow(d, Len(d.treenode)))
                    /\ job' = Counted(i, ChildRow(d, Len(d.treenode)), TRUE)
      BY <1>1, <1>3, RuleAdded
    <2>1. PICK d \in Database :
                    /\ d = WithRule(db, child, i) /\ pc' = "route"
                    /\ db' = Judged(d, i, ChildRow(d, Len(d.treenode)))
                    /\ job' = Counted(i, ChildRow(d, Len(d.treenode)), TRUE)
      BY <2>0
    <2>. HIDE DEF i
    <2>2. RowsSame(db, d) /\ TreeGrown(db, d)
      BY <1>1, <2>1, WithRuleRows, WithRuleTree
    <2>3. TreeLasts(db, d) /\ LeavesLast(db, d)
      BY <1>1, <2>2, GrownLasts
    <2>4. PICK leaf : leaf.type = "leaf" /\ LeafAdded(db, d, leaf)
      BY <1>1, <2>1, WithRuleLeaf
    <2>. DEFINE n == Len(d.treenode)
    <2>5. /\ n \in 1..Len(d.treenode) /\ d.treenode[n].leaf \in 1..Len(d.leaf_info)
          /\ d.leaf_info[d.treenode[n].leaf].type = "leaf"
      <3>1. Len(db.treenode) \in Nat /\ Len(db.leaf_info) \in Nat
        BY <1>1, Lengths
      <3>. QED  BY <2>4, <3>1 DEF LeafAdded
    <2>6. db' \in Database
      BY RuleAddStep DEF VerdictInv, CacheInv, Inductive, TypeOK
    <2>7. job'.todo = job.todo \ {i}
      BY <1>1, <2>1, CountedTodo
    <2>8. i \in 1..Len(d.instance)
      BY <1>1, <2>2 DEF RowsSame
    <2>9. TreeSame(d, db') /\ RowJudged(d, db', i, ChildRow(d, n))
      BY <2>1, <2>8, JudgedTree, JudgedRows
    <2>10. RowJudged(d, db', i, ChildRow(d, n)) /\ pc' = "route"
      BY <2>1, <2>9
    <2>. HIDE DEF n
    <2>. QED  BY <1>1, <2>2, <2>3, <2>5, <2>6, <2>7, <2>9, <2>10, JudgedVerdicts
  <1>. QED  BY <1>2, <1>3

LEMMA UpdateFinishVerdicts ==
    ASSUME VerdictInv, UpdateFinish
    PROVE  VerdictPart'
  <1>1. /\ pc = "route" /\ job.todo = {} /\ pc' = "commit" /\ UNCHANGED disk
        /\ db \in Database /\ RoutedVerdicts /\ ChunksFit(db) /\ ChunksFit(disk)
        /\ Verdicts(disk)
    BY Typed DEF UpdateFinish, VerdictInv, VerdictPart, StageVerdicts
  <1>2. db' \in Database
    BY UpdateFinishStep DEF VerdictInv, CacheInv, Inductive, TypeOK
  <1>3. /\ db'.instance = db.instance /\ Len(db'.chunk) = Len(db.chunk)
        /\ \A c \in 1..Len(db.chunk) :
              /\ db.chunk[c].state # "new" => db'.chunk[c] = db.chunk[c]
              /\ db.chunk[c].state = "new" => db'.chunk[c].state = "updated"
        /\ TreeLasts(db, db') /\ LeavesLast(db, db')
    <2>. DEFINE total(c) == Cardinality({r \in job.routed : db.instance[r.instance].chunk = c})
    <2>1. /\ db'.instance = db.instance /\ Len(db'.chunk) = Len(db.chunk)
          /\ \A c \in 1..Len(db.chunk) :
                db'.chunk[c] = IF db.chunk[c].state # "new" THEN db.chunk[c]
                               ELSE [state |-> "updated", total |-> total(c)]
          /\ TreeLasts(db, db') /\ LeavesLast(db, db')
      BY <1>1, FinishRows
    <2>2. \A c : [state |-> "updated", total |-> total(c)].state = "updated"
      OBVIOUS
    <2>. HIDE DEF total
    <2>. QED  BY <2>1, <2>2
  <1>4. ChunksFit(db')
    BY <1>1, <1>3 DEF ChunksFit
  <1>5. /\ Rows(db', {"new"}) = {}
        /\ \A i \in Updated(db') : i \in Updated(db) \/ i \in Rows(db, {"new"})
    <2>1. ASSUME NEW i \in 1..Len(db'.instance)
          PROVE  LET c == db.instance[i].chunk
                 IN  /\ db'.instance[i].chunk = c
                     /\ db'.chunk[c].state # "new"
                     /\ db'.chunk[c].state = "updated" => db.chunk[c].state \in {"new", "updated"}
      BY <1>1, <1>3 DEF ChunksFit
    <2>. QED  BY <1>3, <2>1 DEF Updated, Rows
  <1>6. ASSUME NEW i \in Updated(db') PROVE Referred(db', i) /\ InForce(db', i)
    <2>1. Referred(db, i) /\ InForce(db, i)
      BY <1>1, <1>5 DEF RoutedVerdicts
    <2>. QED  BY <1>1, <1>2, <1>3, <2>1, VerdictLasts
  <1>7. Verdicts(db')
    BY <1>5, <1>6 DEF Verdicts
  <1>. QED  BY <1>1, <1>4, <1>7 DEF VerdictPart, StageVerdicts

\* Every row of a rebuild has its leaf in the new tree.
LEMMA RowPlaced ==
    ASSUME CacheInv, pc = "judge", NEW i \in job.rows
    PROVE  NewRef(i) \in 1..Len(db.treenode) /\ <<i, NewRef(i)>> \in job.placed
  <1>1. \E t \in 1..Len(db.treenode) : <<i, t>> \in job.placed
    BY DEF CacheInv, Inductive, NoRowLost
  <1>. QED  BY <1>1 DEF NewRef

LEMMA RebuildInstallVerdicts ==
    ASSUME VerdictInv, RebuildInstall
    PROVE  VerdictPart'
  <1>1. /\ pc = "judge" /\ pc' = "commit" /\ UNCHANGED disk
        /\ db \in Database /\ TrainedVerdicts /\ ChunksFit(db) /\ ChunksFit(disk)
        /\ Verdicts(disk) /\ job.rows \subseteq 1..Len(db.instance) /\ CacheInv
    BY Typed DEF RebuildInstall, VerdictInv, VerdictPart, StageVerdicts, CacheInv,
       Inductive, JobFits
  <1>2. db' \in Database
    BY RebuildInstallStep DEF VerdictInv, CacheInv, Inductive, TypeOK
  <1>3. /\ Len(db'.instance) = Len(db.instance) /\ db'.chunk = db.chunk
        /\ \A i \in 1..Len(db.instance) : i \notin job.rows => db'.instance[i] = db.instance[i]
        /\ \A i \in job.rows :
              /\ db'.instance[i].ref = NewRef(i) /\ db'.instance[i].y = db.instance[i].y
              /\ db'.instance[i].chunk = db.instance[i].chunk
              /\ db'.instance[i].correct = (i \in CorrectAfter)
    BY <1>1, InstalledRows
  <1>4. TreeSame(db, db') /\ TreeLasts(db, db') /\ LeavesLast(db, db')
    BY <1>1, InstalledTree, SameLasts
  <1>5. Updated(db') = Updated(db) /\ Rows(db', {"new"}) = Rows(db, {"new"}) /\ ChunksFit(db')
    <2>1. \A i \in 1..Len(db.instance) : db'.instance[i].chunk = db.instance[i].chunk
      BY <1>3
    <2>. QED  BY <1>1, <1>3, <2>1 DEF Updated, Rows, ChunksFit
  <1>6. ASSUME NEW i \in job.rows PROVE Referred(db', i) /\ InForce(db', i)
    <2>. DEFINE n == NewRef(i)
                l == db.treenode[n].leaf
    <2>1. <<i, n>> \in job.placed
      BY <1>1, RowPlaced
    <2>. HIDE DEF n
    <2>2. /\ n \in 1..Len(db.treenode) /\ l \in 1..Len(db.leaf_info)
          /\ db.leaf_info[l].type = "leaf"
      BY <1>1, <2>1 DEF TrainedVerdicts
    <2>3. db'.instance[i].ref = n /\ db'.treenode = db.treenode /\ db'.leaf_info = db.leaf_info
      BY <1>3, <1>4 DEF TreeSame, n
    <2>4. LeafId(db', i) = l /\ LabelOf(db', i) = NewLabel(i)
      BY <2>3 DEF LeafId, LabelOf, NewLabel, n
    <2>5. db'.instance[i].correct = (db'.instance[i].y = LabelOf(db', i))
      <3>1. i \in CorrectAfter <=> db.instance[i].y = NewLabel(i)
        BY DEF CorrectAfter
      <3>2. db'.instance[i].y = db.instance[i].y /\ db'.instance[i].correct = (i \in CorrectAfter)
        BY <1>3
      <3>. QED  BY <2>4, <3>1, <3>2
    <2>. QED  BY <2>2, <2>3, <2>4, <2>5 DEF Referred, InForce
  <1>7. ASSUME NEW i \in Updated(db') PROVE Referred(db', i) /\ InForce(db', i)
    <2>1. CASE i \notin job.rows
      <3>1. Referred(db, i) /\ InForce(db, i)
        BY <1>1, <1>5, <2>1 DEF TrainedVerdicts
      <3>2. db'.instance[i] = db.instance[i]
        BY <1>3, <1>5, <2>1 DEF Updated, Rows
      <3>. QED  BY <1>1, <1>2, <1>4, <3>1, <3>2, VerdictLasts
    <2>. QED  BY <1>6, <2>1
  <1>8. \A i \in Rows(db', {"new"}) : Fresh(db', i)
    <2>1. \A i \in Rows(db, {"new"}) : i \notin job.rows /\ Fresh(db, i) /\ i \in 1..Len(db.instance)
      BY <1>1 DEF TrainedVerdicts, Rows, Updated
    <2>. QED  BY <1>3, <1>5, <2>1 DEF Fresh
  <1>. QED  BY <1>1, <1>5, <1>7, <1>8 DEF VerdictPart, StageVerdicts, Verdicts

-----------------------------------------------------------------------------
(* The theorem.                                                              *)

\* Only an object that has not failed begins an operation, and only an operation
\* goes on.
LEMMA NextReopened ==
    ASSUME ReopenAfterFailure, Reopened, [Next]_vars
    PROVE  Reopened'
  <1>1. CASE UNCHANGED vars
    BY <1>1 DEF vars, Reopened
  <1>2. CASE Begin
    BY <1>2 DEF Begin, Insert, UpdateBegin, RebuildBegin, PredictBegin, CanBegin, Reopened
  <1>3. CASE Step
    <2>1. CASE RemoveOldest \/ LimitDone \/ GrowLeaf \/ GrowSplit \/ RuleAdd \/ UpdateFinish
      BY <2>1 DEF RemoveOldest, LimitDone, GrowLeaf, GrowSplit, RuleAdd, UpdateFinish, Reopened
    <2>2. CASE NoChilds \/ NoMatch \/ StepDown \/ JumpToGeneration \/ Arrive
      BY <2>2 DEF NoChilds, NoMatch, StepDown, JumpToGeneration, Arrive, Visit, Walking, Reopened
    <2>3. CASE RebuildGiveUp \/ RebuildInstall \/ Commit \/ Unwind
      BY <2>3 DEF RebuildGiveUp, RebuildInstall, Commit, Unwind, Reopened
    <2>. QED  BY <1>3, <2>1, <2>2, <2>3 DEF Step
  <1>4. CASE Fault \/ Restart
    BY <1>4 DEF Fault, Restart, Reopened
  <1>. QED  BY <1>1, <1>2, <1>3, <1>4 DEF Next

LEMMA InitVerdicts == Init => VerdictInv
  <1>. SUFFICES ASSUME Init PROVE VerdictInv
    OBVIOUS
  <1>1. CacheInv
    BY InitCaches
  <1>2. disk = db /\ Len(db.instance) = 0 /\ pc = "idle" /\ ~failed
    BY DEF Init, EmptyDatabase
  <1>3. ChunksFit(db) /\ Verdicts(db)
    BY <1>2 DEF ChunksFit, Verdicts, Updated, Rows
  <1>. QED  BY <1>1, <1>2, <1>3 DEF VerdictInv, Reopened, VerdictPart, StageVerdicts

LEMMA NextVerdicts ==
    ASSUME ReopenAfterFailure, VerdictInv, [Next]_vars
    PROVE  VerdictInv'
  <1>1. CacheInv' /\ Reopened'
    BY NextCaches, NextReopened DEF VerdictInv
  <1>2. CASE UNCHANGED vars
    <2>1. UNCHANGED <<disk, db, pc, job>>
      BY <1>2 DEF vars
    <2>2. VerdictPart'
      BY <2>1 DEF VerdictInv, VerdictPart, StageVerdicts, RoutedVerdicts, TrainedVerdicts
    <2>. QED  BY <1>1, <2>2 DEF VerdictInv
  <1>3. CASE Begin
    BY <1>1, <1>3, InsertVerdicts, UpdateBeginVerdicts, RebuildBeginVerdicts,
       PredictBeginVerdicts DEF Begin, VerdictInv
  <1>4. CASE Step
    BY <1>1, <1>4, RemoveOldestVerdicts, LimitDoneVerdicts, GrowLeafVerdicts,
       GrowSplitVerdicts, NoChildsVerdicts, NoMatchVerdicts, StepDownVerdicts, JumpVerdicts,
       ArriveVerdicts, RuleAddVerdicts, UpdateFinishVerdicts, RebuildInstallVerdicts,
       CommitVerdicts, BackAgainVerdicts DEF Step, VerdictInv
  <1>5. CASE Fault \/ Restart
    BY <1>1, <1>5, FaultVerdicts, BackAgainVerdicts DEF VerdictInv
  <1>. QED  BY <1>2, <1>3, <1>4, <1>5 DEF Next

\* instance_info: in every database that is ever committed, an instance of an updated
\* chunk refers to a leaf that no rebuild has sent on, and `correct' compares its own
\* label with that leaf's; an instance of a chunk not updated has no verdict.  It holds
\* for a caller that opens a new object after an exception: an object used on routes
\* instances with caches that no longer fit the database.
THEOREM VerdictsStayCurrent == ASSUME ReopenAfterFailure PROVE Spec => []VerdictsCurrent
  <1>1. VerdictInv /\ [Next]_vars => VerdictInv'
    BY NextVerdicts
  <1>2. Spec => []VerdictInv
    BY <1>1, InitVerdicts, PTL DEF Spec
  <1>3. ASSUME VerdictInv PROVE VerdictsCurrent
    <2>1. disk \in Database /\ Verdicts(disk)
      BY <1>3, Typed DEF VerdictInv, VerdictPart
    <2>. SUFFICES ASSUME NEW i \in Stored(disk)
                  PROVE  IF i \in Updated(disk)
                         THEN /\ disk.instance[i].ref \in 1..Len(disk.treenode)
                              /\ LeafId(disk, i) # 0
                              /\ disk.leaf_info[LeafId(disk, i)].type = "leaf"
                              /\ disk.instance[i].correct = (disk.instance[i].y = LabelOf(disk, i))
                         ELSE disk.instance[i].ref = 0 /\ ~disk.instance[i].correct
                              /\ disk.instance[i].weak = {}
      BY DEF VerdictsCurrent
    <2>2. CASE i \in Updated(disk)
      <3>1. Referred(disk, i) /\ InForce(disk, i)
        BY <2>1, <2>2 DEF Verdicts
      <3>. QED  BY <2>1, <2>2, <3>1, Lengths DEF Referred, InForce
    <2>3. CASE i \notin Updated(disk)
      <3>1. i \in Rows(disk, {"new"})
        BY <2>3 DEF Stored, Updated, Rows
      <3>. QED  BY <2>1, <2>3, <3>1 DEF Verdicts, Fresh
    <2>. QED  BY <2>2, <2>3
  <1>. QED  BY <1>2, <1>3, PTL

=============================================================================
