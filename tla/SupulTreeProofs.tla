--------------------------- MODULE SupulTreeProofs ---------------------------
(***************************************************************************)
(* The trees of the learner: the counters of every leaf are those of the   *)
(* instances that refer to it, and an instance refers to the leaf that     *)
(* predict reaches for it now, for every set of features, labels and       *)
(* batches, as long as an object that has failed is not used again.        *)
(***************************************************************************)
EXTENDS SupulLedgerProofs

-----------------------------------------------------------------------------
(* The invariant of the counters of the leaves.                              *)

\* The instances of the updated chunks at leaf l.
At(d, l) == {i \in Updated(d) : LeafId(d, i) = l}
RightAt(d, l, S) == {i \in S : d.instance[i].y = d.leaf_info[l].label}

\* The counters of leaf l are those of the instances S.
Holds(d, l, S) == /\ d.leaf_info[l].total = Cardinality(S)
                  /\ d.leaf_info[l].correct = Cardinality(RightAt(d, l, S))
LeafIds(d) == {l \in 1..Len(d.leaf_info) : d.leaf_info[l].type = "leaf"}
LeavesHold(d) == \A l \in LeafIds(d) : Holds(d, l, At(d, l))

\* What a leaf has counted before its instances are updated: those it was trained
\* on, or the one that brought it.
TrainedAt(l) == {i \in 1..Len(db.instance) :
                   \E n \in 1..Len(db.treenode) : <<i, n>> \in job.placed
                                                  /\ db.treenode[n].leaf = l}
AddedAt(l) == {r.instance : r \in {q \in job.routed : q.leaf = l /\ q.added}}

Growing == pc \in {"grow", "judge"}
Routing == pc \in {"route", "rule_add"}
Ahead(l) == IF Routing /\ ~job.building THEN AddedAt(l) ELSE TrainedAt(l)

\* Every row of the training is in one place, under a pending node or in a leaf.
Trained == IF job.building THEN Rows(db, {"new"}) ELSE job.rows
OnePlace ==
    /\ \A q \in job.placed : q[1] \in Trained
    /\ \A p, q \in job.placed : p[1] = q[1] => p = q
    /\ \A n \in job.pending : n.rows \subseteq Trained
    /\ \A n \in job.pending : \A q \in job.placed : q[1] \notin n.rows
    /\ \A m, n \in job.pending : m = n \/ m.rows \cap n.rows = {}

\* The rows at each treenode of the tree that grows, behind the treenodes `from': all of
\* them at the root, and those of the parent that match its rule elsewhere.  A leaf is
\* the place of its rows, and another node sends each of its rows on.
RowsUnder(d, p, rule, under) == {i \in under[p] : Matches(rule, d.instance[i].x)}
Inner(d, from, p) == p \in 1..Len(d.treenode) /\ p > from /\ d.treenode[p].leaf = 0
Spread(d, from, rows, under, pending, placed) ==
    /\ \A n \in 1..Len(d.treenode) : n > from =>
         LET t == d.treenode[n]
         IN  /\ IF t.parent = 0 THEN under[n] = rows
                ELSE /\ Inner(d, from, t.parent) /\ t.rule \in 1..Len(d.rule)
                     /\ under[n] = RowsUnder(d, t.parent, d.rule[t.rule], under)
             /\ t.leaf # 0 => \A i \in under[n] : <<i, n>> \in placed
             /\ t.leaf = 0 => \A i \in under[n] :
                  \/ \E m \in 1..Len(d.treenode) : d.treenode[m].parent = n /\ i \in under[m]
                  \/ \E m \in pending : m.parent = n /\ i \in m.rows
    /\ \A n \in pending :
         IF n.parent = 0 THEN n.rows = rows
         ELSE Inner(d, from, n.parent) /\ n.rows = RowsUnder(d, n.parent, n.rule, under)
FirstTree(under) ==
    /\ Spread(db, 0, Rows(db, {"new"}), under, job.pending, job.placed)
    /\ pc = "route" /\ job.todo # {} /\ job.cur # 0 =>
         Inner(db, 0, job.cur) /\ Least(job.todo) \in under[job.cur]

Building ==
    /\ pc \notin {"rule_add", "judge"} /\ Len(db.generation) = 1
    /\ IF pc = "grow" THEN job.cur = 0 ELSE job.pending = {}
    /\ db.generation[1] # 0 => /\ db.generation[1] \in 1..Len(db.treenode)
                               /\ db.treenode[db.generation[1]].parent = 0
    /\ LeafIds(db) = 1..Len(db.leaf_info)
    /\ \E under \in [1..Len(db.treenode) -> SUBSET (1..Len(db.instance))] : FirstTree(under)

\* Without a generation there is no tree; a leaf goes nowhere.
Sound(d) == /\ d.generation = <<>> => Len(d.treenode) = 0 /\ Len(d.leaf_info) = 0
            /\ \A l \in LeafIds(d) : d.leaf_info[l].go_to = 0

LeafPart ==
    /\ Sound(disk) /\ (pc # "throw" => Sound(db))
    /\ LeavesHold(disk) /\ (pc \in Quiet4 => LeavesHold(db))
    /\ Growing \/ Routing => \A l \in LeafIds(db) : Holds(db, l, At(db, l) \cup Ahead(l))
    /\ Growing \/ (Routing /\ job.building) => OnePlace
    /\ (Growing \/ Routing) /\ job.building => Building
    /\ Growing => \A i \in job.rows : db.leaf_info[LeafId(db, i)].type # "leaf"
    /\ Routing => \A r \in job.routed :
         /\ r.leaf = LeafId(db, r.instance)
         /\ job.building => <<r.instance, db.instance[r.instance].ref>> \in job.placed

-----------------------------------------------------------------------------
(* Leaves of a database that has changed elsewhere.                          *)

LEMMA SameHolds ==
    ASSUME NEW d, NEW e, NEW l, NEW S, Holds(d, l, S),
           e.leaf_info[l].total = d.leaf_info[l].total,
           e.leaf_info[l].correct = d.leaf_info[l].correct,
           e.leaf_info[l].label = d.leaf_info[l].label,
           \A i \in S : e.instance[i].y = d.instance[i].y
    PROVE  Holds(e, l, S)
  <1>1. RightAt(e, l, S) = RightAt(d, l, S)
    BY DEF RightAt
  <1>. QED  BY <1>1 DEF Holds

LEMMA SameAt ==
    ASSUME NEW d, NEW e, Updated(e) = Updated(d),
           \A i \in Updated(d) : LeafId(e, i) = LeafId(d, i)
    PROVE  \A l : At(e, l) = At(d, l)
  BY DEF At

\* The leaves are the same, and so are the updated rows and where they are.
LEMMA SameLeaves ==
    ASSUME NEW d, NEW e, LeavesHold(d), e.leaf_info = d.leaf_info, e.treenode = d.treenode,
           Updated(e) = Updated(d),
           \A i \in Updated(d) : /\ e.instance[i].ref = d.instance[i].ref
                                 /\ e.instance[i].y = d.instance[i].y
    PROVE  LeavesHold(e)
  <1>1. LeafIds(e) = LeafIds(d)
    BY DEF LeafIds
  <1>2. \A i \in Updated(d) : LeafId(e, i) = LeafId(d, i)
    BY DEF LeafId
  <1>3. ASSUME NEW l \in LeafIds(d) PROVE Holds(e, l, At(e, l))
    <2>1. At(e, l) = At(d, l)
      BY <1>2, SameAt
    <2>2. Holds(d, l, At(d, l)) /\ \A i \in At(d, l) : e.instance[i].y = d.instance[i].y
      BY DEF LeavesHold, At
    <2>. QED  BY <2>1, <2>2, SameHolds
  <1>. QED  BY <1>1, <1>3 DEF LeavesHold

LEMMA AtFinite ==
    ASSUME NEW d \in Database
    PROVE  \A l : IsFiniteSet(At(d, l)) /\ At(d, l) \subseteq 1..Len(d.instance)
  <1>1. \A l : At(d, l) \in SUBSET (1..Len(d.instance))
    BY DEF At, Updated, Rows
  <1>2. Len(d.instance) \in Nat
    BY Lengths
  <1>. QED  BY <1>1, <1>2, PositionsFinite

-----------------------------------------------------------------------------
(* The steps that leave the counters of the leaves alone.                    *)

LEMMA QuietLeaves ==
    ASSUME LeafPart, UNCHANGED <<disk, db>>,
           \/ pc' = "throw"
           \/ pc \in Quiet4 /\ pc' \in Quiet4
    PROVE  LeafPart'
  BY DEF LeafPart, Quiet4, Growing, Routing

LEMMA BackLeaves ==
    ASSUME LeafPart, db' = disk, disk' = disk, pc' = "idle"
    PROVE  LeafPart'
  BY DEF LeafPart, Growing, Routing

LEMMA CommitLeaves ==
    ASSUME LeafPart, Commit
    PROVE  LeafPart'
  BY DEF LeafPart, Commit, Quiet4, Growing, Routing

LEMMA EasyLeaves ==
    ASSUME LeafPart,
           \/ LimitDone \/ Fault \/ Commit \/ Unwind \/ Restart \/ RebuildGiveUp
           \/ NoChilds \/ \E x : PredictBegin(x)
    PROVE  LeafPart'
  <1>1. CASE LimitDone \/ Fault \/ \E x : PredictBegin(x)
    BY <1>1, QuietLeaves DEF LimitDone, Fault, PredictBegin, CanBegin, Quiet4
  <1>2. CASE Unwind \/ Restart \/ RebuildGiveUp
    BY <1>2, BackLeaves DEF Unwind, Restart, RebuildGiveUp
  <1>3. CASE NoChilds
    BY <1>3, QuietLeaves DEF NoChilds, Visit
  <1>. QED  BY <1>1, <1>2, <1>3, CommitLeaves

LEMMA InsertLeaves ==
    ASSUME VerdictInv, LeafPart, NEW b \in Batches, Insert(b)
    PROVE  LeafPart'
  <1>1. /\ db' = WithChunk(db, b) /\ pc = "idle" /\ pc' \in {"limit", "commit"}
        /\ UNCHANGED disk /\ db \in Database /\ ChunksFit(db)
    BY Typed DEF Insert, CanBegin, VerdictInv, VerdictPart
  <1>2. RowsAdded(db, db', b) /\ TreeSame(db, db')
    BY <1>1, WithChunkRows, WithChunkTree
  <1>3. Updated(db') = Updated(db)
    <2>. DEFINE len == Len(db.instance)
                c == Len(db.chunk) + 1
    <2>1. /\ \A i \in 1..len : /\ db'.instance[i] = db.instance[i]
                               /\ db.instance[i].chunk \in 1..Len(db.chunk)
          /\ \A i \in 1..Len(db'.instance) : i \notin 1..len => db'.instance[i].chunk = c
          /\ \A k \in 1..Len(db.chunk) : db'.chunk[k] = db.chunk[k]
          /\ db'.chunk[c].state = "new" /\ 1..len \subseteq 1..Len(db'.instance)
      <3>1. len \in Nat /\ Len(b) \in Nat /\ Len(db'.instance) = len + Len(b)
        BY <1>1, <1>2, Lengths DEF RowsAdded
      <3>. QED  BY <1>1, <1>2, <3>1 DEF RowsAdded, ChunksFit
    <2>. HIDE DEF len, c
    <2>. QED  BY <2>1 DEF Updated, Rows, len
  <1>4. \A i \in Updated(db) : db'.instance[i] = db.instance[i]
    BY <1>2 DEF RowsAdded, Updated, Rows
  <1>5. LeavesHold(db) /\ Sound(db) /\ LeavesHold(disk) /\ Sound(disk)
    BY <1>1 DEF LeafPart, Quiet4
  <1>6. LeavesHold(db')
    BY <1>2, <1>3, <1>4, <1>5, SameLeaves DEF TreeSame
  <1>7. Sound(db')
    BY <1>2, <1>5 DEF Sound, TreeSame, LeafIds
  <1>. QED  BY <1>1, <1>5, <1>6, <1>7 DEF LeafPart, Growing, Routing

\* remove_chunk takes back what the rows of the chunk count at their leaves.
LEMMA DroppedLeaves ==
    ASSUME NEW d \in Database, LeavesHold(d), Sound(d), Verdicts(d), ChunksFit(d),
           NEW c \in Chunks(d, {"new", "updated"}), NEW e, e = WithoutChunk(d, c)
    PROVE  LeavesHold(e) /\ Sound(e)
  <1>. DEFINE met(l) == {i \in Met(d, c) : LeafId(d, i) = l}
              hits(l) == {i \in met(l) : d.instance[i].y = LabelOf(d, i)}
  <1>1. c \in 1..Len(d.chunk)
    BY DEF Chunks
  <1>2. /\ e.instance = d.instance /\ Len(e.chunk) = Len(d.chunk)
        /\ \A k \in 1..Len(d.chunk) : k # c => e.chunk[k] = d.chunk[k]
        /\ e.chunk[c].state = "removed"
        /\ TreeLasts(d, e) /\ LeavesLast(d, e)
    BY <1>1, WithoutChunkRows DEF RowsDropped
  <1>3. Met(d, c) = RowsOf(d, c) \cap Updated(d)
    BY MetRows
  <1>4. Updated(e) = Updated(d) \ RowsOf(d, c)
    <2>1. \A i \in 1..Len(d.instance) :
             e.chunk[d.instance[i].chunk].state = "updated" <=>
               /\ d.chunk[d.instance[i].chunk].state = "updated" /\ d.instance[i].chunk # c
      BY <1>2 DEF ChunksFit
    <2>. QED  BY <1>2, <2>1 DEF Updated, Rows, RowsOf
  <1>5. /\ e.treenode = d.treenode /\ Len(e.leaf_info) = Len(d.leaf_info)
        /\ \A l \in 1..Len(d.leaf_info) :
             /\ e.leaf_info[l].label = d.leaf_info[l].label
             /\ e.leaf_info[l].type = d.leaf_info[l].type
             /\ e.leaf_info[l].go_to = d.leaf_info[l].go_to
             /\ e.leaf_info[l].total = d.leaf_info[l].total - Cardinality(met(l))
             /\ e.leaf_info[l].correct = d.leaf_info[l].correct - Cardinality(hits(l))
    <2>. DEFINE right == {i \in Met(d, c) : d.instance[i].y = LabelOf(d, i)}
                at(l) == {i \in right : LeafId(d, i) = l}
                m(l) == d.leaf_info[l].correct - Cardinality(at(l))
                n(l) == d.leaf_info[l].total - Cardinality(met(l))
                leaf(l) == [d.leaf_info[l] EXCEPT !.correct = m(l), !.total = n(l)]
    <2>1. e.treenode = d.treenode /\ e.leaf_info = [l \in 1..Len(d.leaf_info) |-> leaf(l)]
      BY DEF WithoutChunk, Database
    <2>2. \A l : at(l) = hits(l)
      OBVIOUS
    <2>3. \A l \in 1..Len(d.leaf_info) : d.leaf_info[l] \in LeafInfo
      BY RowTypes
    <2>. HIDE DEF at, met, hits
    <2>4. \A l : m(l) = d.leaf_info[l].correct - Cardinality(hits(l))
      BY <2>2
    <2>. HIDE DEF m, n
    <2>5. \A l \in 1..Len(d.leaf_info) :
             /\ leaf(l).label = d.leaf_info[l].label /\ leaf(l).type = d.leaf_info[l].type
             /\ leaf(l).go_to = d.leaf_info[l].go_to
             /\ leaf(l).correct = m(l) /\ leaf(l).total = n(l)
      BY <2>3 DEF LeafInfo
    <2>. HIDE DEF leaf
    <2>6. Len(e.leaf_info) = Len(d.leaf_info)
          /\ \A l \in 1..Len(d.leaf_info) : e.leaf_info[l] = leaf(l)
      BY <2>1, <2>3, Lengths, WithoutChunkTree
    <2>. QED  BY <2>1, <2>4, <2>5, <2>6 DEF n
  <1>. HIDE DEF met, hits
  <1>6. \A i : LeafId(e, i) = LeafId(d, i)
    BY <1>2, <1>5 DEF LeafId
  <1>7. LeafIds(e) = LeafIds(d)
    BY <1>5 DEF LeafIds
  <1>8. ASSUME NEW l \in LeafIds(d) PROVE Holds(e, l, At(e, l))
    <2>. DEFINE S == At(d, l)
                T == At(e, l)
                U == met(l)
                R == RightAt(d, l, S)
                Q == RightAt(e, l, T)
                P == hits(l)
    <2>1. l \in 1..Len(d.leaf_info) /\ Holds(d, l, S)
      BY DEF LeafIds, LeavesHold
    <2>2. S = T \cup U /\ T \cap U = {} /\ IsFiniteSet(S)
      <3>1. IsFiniteSet(S)
        BY AtFinite
      <3>. QED  BY <1>3, <1>4, <1>6, <3>1 DEF At, met
    <2>3. \A i \in U : LabelOf(d, i) = d.leaf_info[l].label
      BY DEF LabelOf, met
    <2>4. R = Q \cup P /\ Q \cap P = {}
      BY <1>2, <1>5, <2>1, <2>2, <2>3 DEF RightAt, hits
    <2>5. /\ d.leaf_info[l].total = Cardinality(S) /\ d.leaf_info[l].correct = Cardinality(R)
          /\ e.leaf_info[l].total = d.leaf_info[l].total - Cardinality(U)
          /\ e.leaf_info[l].correct = d.leaf_info[l].correct - Cardinality(P)
      BY <1>5, <2>1 DEF Holds
    <2>6. IsFiniteSet(R)
      BY <2>2, FS_Subset DEF RightAt
    <2>. HIDE DEF S, T, U, R, Q, P
    <2>7. /\ Cardinality(S) = Cardinality(T) + Cardinality(U)
          /\ Cardinality(T) \in Nat /\ Cardinality(U) \in Nat
      BY <2>2, Parted
    <2>8. /\ Cardinality(R) = Cardinality(Q) + Cardinality(P)
          /\ Cardinality(Q) \in Nat /\ Cardinality(P) \in Nat
      BY <2>4, <2>6, Parted
    <2>9. e.leaf_info[l].total = Cardinality(T) /\ e.leaf_info[l].correct = Cardinality(Q)
      BY <2>5, <2>7, <2>8
    <2>. QED  BY <2>9 DEF Holds, T, Q
  <1>9. Sound(e)
    <2>1. e.generation = d.generation
      BY DEF WithoutChunk, Database
    <2>2. \A l \in LeafIds(e) : e.leaf_info[l].go_to = 0
      BY <1>5, <1>7 DEF Sound, LeafIds
    <2>. QED  BY <1>5, <2>1, <2>2 DEF Sound
  <1>. QED  BY <1>7, <1>8, <1>9 DEF LeavesHold

LEMMA RemoveOldestLeaves ==
    ASSUME VerdictInv, LeafPart, RemoveOldest
    PROVE  LeafPart'
  <1>1. CASE pc' = "throw" /\ UNCHANGED <<disk, db>>
    BY <1>1, QuietLeaves
  <1>2. CASE db' = WithoutChunk(db, Oldest) /\ UNCHANGED <<pc, disk>>
    <2>1. /\ pc = "limit" /\ db \in Database /\ Verdicts(db) /\ ChunksFit(db)
          /\ LeavesHold(db) /\ Sound(db) /\ LeavesHold(disk) /\ Sound(disk)
      BY <1>2, Typed DEF RemoveOldest, VerdictInv, VerdictPart, StageVerdicts, LeafPart, Quiet4
    <2>2. Oldest \in Chunks(db, {"new", "updated"})
      BY <2>1, OldestChunk DEF RemoveOldest
    <2>3. LeavesHold(db') /\ Sound(db')
      BY <1>2, <2>1, <2>2, DroppedLeaves
    <2>. QED  BY <1>2, <2>1, <2>3 DEF LeafPart, Growing, Routing
  <1>. QED  BY <1>1, <1>2 DEF RemoveOldest

LEMMA UpdateBeginLeaves ==
    ASSUME VerdictInv, LeafPart, UpdateBegin
    PROVE  LeafPart'
  <1>1. /\ pc = "idle" /\ UNCHANGED disk /\ db \in Database
        /\ LeavesHold(db) /\ Sound(db) /\ LeavesHold(disk) /\ Sound(disk)
    BY Typed DEF UpdateBegin, CanBegin, VerdictInv, LeafPart, Quiet4
  <1>2. CASE db.generation # <<>>
    <2>1. db' = db /\ pc' = "route" /\ ~job'.building /\ job'.routed = {}
      BY <1>2 DEF UpdateBegin, NoJob
    <2>2. \A l : Ahead(l)' = {}
      BY <2>1 DEF Ahead, AddedAt, Routing
    <2>3. \A l \in LeafIds(db') : Holds(db', l, At(db', l) \cup Ahead(l)')
      BY <1>1, <2>1, <2>2 DEF LeavesHold
    <2>. QED  BY <1>1, <2>1, <2>3 DEF LeafPart, Quiet4, Growing, Routing
  <1>3. CASE db.generation = <<>>
    <2>. DEFINE new == Rows(db, {"new"})
    <2>1. /\ pc' = "grow" /\ job'.building /\ job'.rows = {} /\ job'.placed = {} /\ job'.cur = 0
          /\ job'.pending = Root(new)
      BY <1>3 DEF UpdateBegin, NoJob
    <2>2. /\ db'.instance = db.instance /\ db'.chunk = db.chunk /\ db'.generation = <<0>>
          /\ Len(db'.treenode) = 0 /\ Len(db'.leaf_info) = 0
      BY <1>1, <1>3 DEF UpdateBegin, Database, Sound
    <2>3. Rows(db', {"new"}) = new /\ Trained' = new
      BY <2>1, <2>2 DEF Rows, Trained
    <2>4. LeafIds(db') = {}
          /\ Len(db'.generation) = 1 /\ db'.generation[1] = 0
      BY <2>2 DEF LeafIds
    <2>. HIDE DEF new
    <2>5. OnePlace'
      BY <2>1, <2>3 DEF OnePlace, Root
    <2>6. Building'
      <3>. DEFINE under == [n \in 1..0 |-> {}]
      <3>1. under \in [1..Len(db'.treenode) -> SUBSET (1..Len(db'.instance))]
        BY <2>2
      <3>2. FirstTree(under)'
        <4>1. \A n \in job'.pending : n.parent = 0 /\ n.rows = Rows(db', {"new"})
          BY <2>1, <2>3 DEF Root
        <4>. QED  BY <2>1, <2>2, <4>1 DEF FirstTree, Spread
      <3>3. LeafIds(db') = 1..Len(db'.leaf_info)
        BY <2>2, <2>4
      <3>. HIDE DEF under
      <3>. QED  BY <2>1, <2>4, <3>1, <3>2, <3>3 DEF Building
    <2>7. Sound(db')
      BY <2>2, <2>4 DEF Sound
    <2>. QED  BY <1>1, <2>1, <2>4, <2>5, <2>6, <2>7 DEF LeafPart, Quiet4, Growing, Routing
  <1>. QED  BY <1>2, <1>3

LEMMA RebuildBeginLeaves ==
    ASSUME VerdictInv, LeafPart, RebuildBegin
    PROVE  LeafPart'
  <1>. DEFINE g == Len(db.generation) + 1
              e == db'
  <1>1. /\ pc = "idle" /\ UNCHANGED disk /\ db \in Database /\ pc' \in {"throw", "grow"}
        /\ LeavesHold(db) /\ Sound(db) /\ LeavesHold(disk) /\ Sound(disk)
    BY Typed DEF RebuildBegin, CanBegin, VerdictInv, LeafPart, Quiet4
  <1>2. /\ RowsSame(db, e)
        /\ job'.rows = {i \in UNION {Met(e, c) : c \in Chunks(e, {"new", "updated"})} :
                           e.leaf_info[LeafId(e, i)].go_to = g}
        /\ job'.placed = {} /\ ~job'.building
    BY <1>1, AnnouncedRows
  <1>3. /\ e.treenode = db.treenode /\ Len(e.generation) = g /\ Len(e.leaf_info) = Len(db.leaf_info)
        /\ \A l \in 1..Len(db.leaf_info) : e.leaf_info[l] = SentOn(db.leaf_info[l], g)
    BY <1>1, AnnouncedTree
  <1>4. job'.pending = Root(job'.rows)
    BY DEF RebuildBegin, NoJob
  <1>5. g \in Nat /\ g # 0
    BY <1>1, Lengths
  <1>. HIDE DEF g, e
  <1>6. \A l \in LeafIds(e) : l \in LeafIds(db) /\ e.leaf_info[l] = db.leaf_info[l]
    <2>1. \A leaf \in LeafInfo :
             SentOn(leaf, g).type = "leaf" => SentOn(leaf, g) = leaf
      BY DEF SentOn, LeafInfo, IsWeak
    <2>2. \A l \in 1..Len(db.leaf_info) : db.leaf_info[l] \in LeafInfo
      BY <1>1, RowTypes
    <2>. QED  BY <1>3, <2>1, <2>2 DEF LeafIds
  <1>7. Sound(e)
    <2>1. e.generation # <<>>
      BY <1>3, <1>5
    <2>. QED  BY <1>1, <1>6, <2>1 DEF Sound
  <1>8. CASE pc' = "throw"
    BY <1>1, <1>7, <1>8 DEF LeafPart, Quiet4, Growing, Routing
  <1>9. CASE pc' = "grow"
    <2>1. \A l : Ahead(l)' = {}
      BY <1>2, <1>9 DEF Ahead, TrainedAt, Routing
    <2>2. \A l : At(e, l) = At(db, l)
      <3>1. Updated(e) = Updated(db) /\ \A i : LeafId(e, i) = LeafId(db, i)
        BY <1>2, <1>3, SameRows DEF LeafId, RowsSame
      <3>. QED  BY <3>1, SameAt
    <2>3. ASSUME NEW l \in LeafIds(e) PROVE Holds(e, l, At(e, l) \cup Ahead(l)')
      <3>1. Holds(db, l, At(db, l)) /\ e.leaf_info[l] = db.leaf_info[l]
        BY <1>1, <1>6 DEF LeavesHold
      <3>2. Holds(e, l, At(db, l))
        BY <1>2, <3>1, SameHolds DEF RowsSame
      <3>. QED  BY <2>1, <2>2, <3>2
    <2>4. OnePlace'
      <3>1. Trained' = job'.rows
        BY <1>2 DEF Trained
      <3>. QED  BY <1>2, <1>4, <3>1 DEF OnePlace, Root
    <2>5. ASSUME NEW i \in job'.rows PROVE e.leaf_info[LeafId(e, i)].type # "leaf"
      <3>1. LeafId(e, i) \in 1..Len(e.leaf_info) /\ e.leaf_info[LeafId(e, i)].go_to = g
        BY <1>2 DEF Met
      <3>. QED  BY <1>5, <1>7, <3>1 DEF Sound, LeafIds
    <2>. QED  BY <1>1, <1>2, <1>7, <1>9, <2>3, <2>4, <2>5
              DEF LeafPart, Quiet4, Growing, Routing, e
  <1>. QED  BY <1>1, <1>8, <1>9

-----------------------------------------------------------------------------
(* A tree grows.                                                             *)

LEMMA BranchRows ==
    ASSUME NEW d, NEW S, NEW rule, NEW rank
    PROVE  LET b == Branch(d, S, rule, rank)
           IN  /\ b.rule = rule
               /\ b.rows = {i \in S : Matches(b.rule, d.instance[i].x)}
  BY DEF Branch, Matches

\* The branches of a split have no row in common.
LEMMA SplitParts ==
    ASSUME NEW d \in Database, NEW S \in SUBSET (1..Len(d.instance)), NEW sp \in Splits(d, S)
    PROVE  /\ \A b \in sp : b.rows = {i \in S : Matches(b.rule, d.instance[i].x)}
           /\ \A b, c \in sp : b = c \/ b.rows \cap c.rows = {}
  <1>1. \A i \in S, f \in Features : d.instance[i].x[f] \in Nat
    BY RowTypes DEF Instance
  <1>2. CASE \E f \in Nominal : sp = NominalSplit(d, S, f)
    <2>1. PICK f \in Nominal : sp = NominalSplit(d, S, f)
      BY <1>2
    <2>. DEFINE rule(v) == [feature |-> f, type |-> "equ", value |-> v]
                branch(v) == Branch(d, S, rule(v), v)
    <2>2. sp = {branch(v) : v \in ValuesOf(d, S, f)}
      BY <2>1 DEF NominalSplit
    <2>3. \A v : branch(v).rows = {i \in S : Matches(branch(v).rule, d.instance[i].x)}
      BY BranchRows
    <2>4. \A v : branch(v).rows = {i \in S : d.instance[i].x[f] = v}
      BY DEF Branch
    <2>. HIDE DEF branch
    <2>5. \A v, w : v = w \/ branch(v).rows \cap branch(w).rows = {}
      BY <2>4
    <2>. QED  BY <2>2, <2>3, <2>5
  <1>3. CASE \E f \in Numeric, j \in S : sp = NumericSplit(d, S, f, d.instance[j].x[f])
    <2>1. PICK f \in Numeric, j \in S : sp = NumericSplit(d, S, f, d.instance[j].x[f])
      BY <1>3
    <2>. DEFINE v == d.instance[j].x[f]
                low == Branch(d, S, [feature |-> f, type |-> "lte", value |-> v], 0)
                high == Branch(d, S, [feature |-> f, type |-> "gt", value |-> v], 1)
    <2>2. sp = {low, high}
      BY <2>1 DEF NumericSplit
    <2>3. /\ low.rows = {i \in S : Matches(low.rule, d.instance[i].x)}
          /\ high.rows = {i \in S : Matches(high.rule, d.instance[i].x)}
      BY BranchRows
    <2>4. low.rows = {k \in S : d.instance[k].x[f] <= v}
      BY DEF Branch
    <2>5. high.rows = {k \in S : d.instance[k].x[f] > v}
      BY DEF Branch
    <2>6. v \in Nat /\ \A i \in S : d.instance[i].x[f] \in Nat
      BY <1>1 DEF Features
    <2>. HIDE DEF low, high, v
    <2>7. low.rows \cap high.rows = {}
      <3>1. ASSUME NEW i \in low.rows, i \in high.rows PROVE FALSE
        <4>1. i \in S /\ d.instance[i].x[f] <= v /\ d.instance[i].x[f] > v
          BY <2>4, <2>5, <3>1
        <4>2. d.instance[i].x[f] \in Nat
          BY <2>6, <4>1
        <4>. QED  BY <2>6, <4>1, <4>2
      <3>. QED  BY <3>1
    <2>. QED  BY <2>2, <2>3, <2>7
  <1>. QED  BY <1>2, <1>3 DEF Splits, FeatureSplits, Features

\* The parts of a new treenode.
LEMMA NodeParts ==
    ASSUME NEW d \in Database, d.generation # <<>>, NEW n, n.parent \in Nat,
           n.parent # 0 => n.rule \in Rule,
           NEW leaves \in Seq(LeafInfo), Len(leaves) \in {0, 1},
           NEW e, e = WithTreenode(d, n, leaves)
    PROVE  LET t == e.treenode[Len(d.treenode) + 1]
           IN  /\ t.parent = n.parent
               /\ n.parent # 0 => t.rule \in 1..Len(e.rule) /\ e.rule[t.rule] = n.rule
               /\ t.leaf = IF Len(leaves) = 0 THEN 0 ELSE Len(d.leaf_info) + 1
               /\ Len(e.leaf_info) = Len(d.leaf_info) + Len(leaves)
               /\ Len(leaves) = 1 => e.leaf_info[Len(d.leaf_info) + 1] = leaves[1]
  <1>. DEFINE rules == IF n.parent = 0 THEN <<>> ELSE <<n.rule>>
              node == [generation |-> Len(d.generation), parent |-> n.parent,
                       rule |-> IF rules = <<>> THEN 0 ELSE Len(d.rule) + 1,
                       leaf |-> IF leaves = <<>> THEN 0 ELSE Len(d.leaf_info) + 1]
  <1>1. /\ e.treenode = Append(d.treenode, node) /\ e.rule = d.rule \o rules
        /\ e.leaf_info = d.leaf_info \o leaves
    BY DEF WithTreenode, Database
  <1>2. /\ d.treenode \in Seq(Treenode) /\ d.rule \in Seq(Rule)
        /\ d.leaf_info \in Seq(LeafInfo)
    BY DEF Database
  <1>3. e.treenode[Len(d.treenode) + 1] = node
    <2>. HIDE DEF node
    <2>. QED  BY <1>1, <1>2
  <1>4. n.parent # 0 => /\ node.rule = Len(d.rule) + 1 /\ node.rule \in 1..Len(e.rule)
                        /\ e.rule[node.rule] = n.rule
    BY <1>1, <1>2
  <1>5. node.parent = n.parent /\ node.leaf = IF leaves = <<>> THEN 0 ELSE Len(d.leaf_info) + 1
    OBVIOUS
  <1>6. leaves = <<>> <=> Len(leaves) = 0
    OBVIOUS
  <1>7. /\ Len(e.leaf_info) = Len(d.leaf_info) + Len(leaves)
        /\ Len(leaves) = 1 => e.leaf_info[Len(d.leaf_info) + 1] = leaves[1]
    BY <1>1, <1>2
  <1>. HIDE DEF node
  <1>. QED  BY <1>3, <1>4, <1>5, <1>6, <1>7

NodeStands(n, leaves) ==
    LET N == Len(db.treenode) + 1
        g == Len(db.generation)
        t == db'.treenode[N]
    IN  /\ t.parent = n.parent /\ Len(db'.treenode) = N
        /\ n.parent # 0 => t.rule \in 1..Len(db'.rule) /\ db'.rule[t.rule] = n.rule
        /\ db'.generation[g] = IF n.parent = 0 THEN N ELSE db.generation[g]
        /\ t.leaf = IF Len(leaves) = 0 THEN 0 ELSE Len(db.leaf_info) + 1
        /\ Len(db'.leaf_info) = Len(db.leaf_info) + Len(leaves)
        /\ Len(leaves) = 1 => db'.leaf_info[Len(db.leaf_info) + 1] = leaves[1]

\* Node n was inserted, as a leaf with the places of its rows, or with new nodes
\* below it that it hands them to, without a row in common.
InPlace(n) ==
    LET N == Len(db.treenode) + 1
        g == Len(db.generation)
        t == db'.treenode[N]
    IN  /\ t.parent = n.parent /\ Len(db'.treenode) = N
        /\ n.parent # 0 => t.rule \in 1..Len(db'.rule) /\ db'.rule[t.rule] = n.rule
        /\ db'.generation[g] = IF n.parent = 0 THEN N ELSE db.generation[g]
        /\ job'.cur = job.cur
BecameLeaf(n) ==
    LET N == Len(db.treenode) + 1
        L == Len(db.leaf_info) + 1
    IN  /\ db'.treenode[N].leaf = L /\ Len(db'.leaf_info) = L
        /\ db'.leaf_info[L] = Leaf(db, n.rows)
        /\ job'.pending = job.pending \ {n}
        /\ job'.placed = job.placed \cup (n.rows \X {N})
HandedOn(n) ==
    LET N == Len(db.treenode) + 1
    IN  /\ db'.treenode[N].leaf = 0 /\ Len(db'.leaf_info) = Len(db.leaf_info)
        /\ job'.placed = job.placed
        /\ \E new : /\ job'.pending = (job.pending \ {n}) \cup new
                    /\ \A m \in new :
                         /\ m.parent = N /\ m.rows \subseteq n.rows
                         /\ m.rows = {i \in n.rows : Matches(m.rule, db.instance[i].x)}
                    /\ \A i \in n.rows : \E m \in new : i \in m.rows
                    /\ \A m, k \in new : m = k \/ m.rows \cap k.rows = {}

LEMMA NodeAdded ==
    ASSUME VerdictInv, GrowLeaf \/ GrowSplit
    PROVE  \E n \in job.pending : InPlace(n) /\ (BecameLeaf(n) \/ HandedOn(n))
  <1>1. /\ db \in Database /\ db.generation # <<>> /\ job \in Job /\ pc = "grow"
        /\ Len(db.treenode) \in Nat
    BY Typed DEF VerdictInv, CacheInv, Inductive, HasRoot, GrowLeaf, GrowSplit
  <1>2. ASSUME NEW n \in job.pending
        PROVE  /\ n.parent \in Nat /\ (n.parent # 0 => n.rule \in Rule)
               /\ n.rows \in SUBSET (1..Len(db.instance)) /\ Leaf(db, n.rows) \in LeafInfo
    <2>1. /\ n \in Pending /\ (n.parent # 0 => n.rule \in Rule)
          /\ n.rows \in SUBSET (1..Len(db.instance))
      BY <1>1 DEF VerdictInv, CacheInv, Inductive, JobFits, Job
    <2>2. IsFiniteSet(n.rows)
      BY <1>1, <2>1, PositionsFinite, Lengths
    <2>. QED  BY <1>1, <2>1, <2>2, LeafType DEF Pending
  <1>3. ASSUME NEW n \in job.pending, NEW leaves \in Seq(LeafInfo), Len(leaves) \in {0, 1},
               db' = WithTreenode(db, n, leaves)
        PROVE  NodeStands(n, leaves)
    <2>1. n.parent \in Nat /\ (n.parent # 0 => n.rule \in Rule)
      BY <1>2
    <2>2. /\ TreeGrown(db, db')
          /\ \A h \in 1..Len(db.generation) : db'.generation[h] =
                IF h = Len(db.generation) /\ n.parent = 0 THEN Len(db'.treenode)
                ELSE db.generation[h]
      BY <1>1, <1>3, <2>1, WithTreenodeTree
    <2>3. Len(db'.treenode) = Len(db.treenode) + 1
      BY <2>2 DEF TreeGrown
    <2>. DEFINE g == Len(db.generation)
    <2>4. db'.generation[g] = IF n.parent = 0 THEN Len(db.treenode) + 1 ELSE db.generation[g]
      <3>1. g \in 1..g
        BY <1>1, Lengths
      <3>. QED  BY <2>2, <2>3, <3>1
    <2>5. LET t == db'.treenode[Len(db.treenode) + 1]
          IN  /\ t.parent = n.parent
              /\ n.parent # 0 => t.rule \in 1..Len(db'.rule) /\ db'.rule[t.rule] = n.rule
              /\ t.leaf = IF Len(leaves) = 0 THEN 0 ELSE Len(db.leaf_info) + 1
              /\ Len(db'.leaf_info) = Len(db.leaf_info) + Len(leaves)
              /\ Len(leaves) = 1 => db'.leaf_info[Len(db.leaf_info) + 1] = leaves[1]
      <3>1. db \in Database /\ db.generation # <<>>
        BY <1>1
      <3>2. db' = WithTreenode(db, n, leaves) /\ Len(leaves) \in {0, 1}
        BY <1>3
      <3>. QED  BY <2>1, <3>1, <3>2, NodeParts
    <2>. QED  BY <2>3, <2>4, <2>5, Zenon DEF NodeStands
  <1>4. CASE GrowLeaf
    <2>1. PICK n \in job.pending :
             /\ db' = WithTreenode(db, n, <<Leaf(db, n.rows)>>)
             /\ job' = [job EXCEPT !.pending = @ \ {n},
                                   !.placed = @ \cup (n.rows \X {Len(db.treenode) + 1})]
      BY <1>4 DEF GrowLeaf
    <2>2. /\ job'.pending = job.pending \ {n} /\ job'.cur = job.cur
          /\ job'.placed = job.placed \cup (n.rows \X {Len(db.treenode) + 1})
      BY <1>1, <2>1 DEF Job
    <2>. DEFINE leaf == Leaf(db, n.rows)
                leaves == <<leaf>>
    <2>3. leaf \in LeafInfo /\ db' = WithTreenode(db, n, leaves)
      BY <1>2, <2>1
    <2>. HIDE DEF leaf
    <2>4. leaves \in Seq(LeafInfo) /\ Len(leaves) = 1 /\ leaves[1] = leaf
      BY <2>3
    <2>. HIDE DEF leaves
    <2>5. /\ Len(db'.leaf_info) = Len(db.leaf_info) + 1
          /\ db'.treenode[Len(db.treenode) + 1].leaf = Len(db.leaf_info) + 1
          /\ db'.leaf_info[Len(db.leaf_info) + 1] = leaf
      <3>1. NodeStands(n, leaves)
        BY <1>3, <2>3, <2>4
      <3>. QED  BY <2>4, <3>1 DEF NodeStands
    <2>6. NodeStands(n, leaves)
      BY <1>3, <2>3, <2>4
    <2>7. BecameLeaf(n)
      BY <2>2, <2>5 DEF leaf, BecameLeaf
    <2>8. InPlace(n)
      BY <2>2, <2>6 DEF InPlace, NodeStands
    <2>. QED  BY <2>7, <2>8
  <1>5. CASE GrowSplit
    <2>1. PICK n \in job.pending : \E sp \in Splits(db, n.rows) :
             /\ db' = WithTreenode(db, n, <<>>)
             /\ job' = [job EXCEPT !.pending = (@ \ {n}) \cup
                  {[parent |-> Len(db.treenode) + 1, rule |-> b.rule,
                    rank |-> b.rank, rows |-> b.rows] : b \in sp}]
      BY <1>5 DEF GrowSplit
    <2>2. PICK sp \in Splits(db, n.rows) :
             /\ db' = WithTreenode(db, n, <<>>)
             /\ job' = [job EXCEPT !.pending = (@ \ {n}) \cup
                  {[parent |-> Len(db.treenode) + 1, rule |-> b.rule,
                    rank |-> b.rank, rows |-> b.rows] : b \in sp}]
      BY <2>1
    <2>. DEFINE N == Len(db.treenode) + 1
                below(b) == [parent |-> N, rule |-> b.rule, rank |-> b.rank, rows |-> b.rows]
                new == {below(b) : b \in sp}
    <2>3. /\ job'.pending = (job.pending \ {n}) \cup new /\ job'.cur = job.cur
          /\ job'.placed = job.placed
      BY <1>1, <2>2 DEF Job
    <2>4. /\ \A b \in sp : b.rows = {i \in n.rows : Matches(b.rule, db.instance[i].x)}
          /\ \A b, c \in sp : b = c \/ b.rows \cap c.rows = {}
          /\ \A i \in n.rows : \E b \in sp : i \in b.rows
      BY <1>1, <1>2, SplitParts, SplitTyped
    <2>5. \A b : /\ below(b).parent = N /\ below(b).rule = b.rule /\ below(b).rows = b.rows
      OBVIOUS
    <2>. HIDE DEF below
    <2>6. /\ \A m \in new : /\ m.parent = N /\ m.rows \subseteq n.rows
                            /\ m.rows = {i \in n.rows : Matches(m.rule, db.instance[i].x)}
          /\ \A i \in n.rows : \E m \in new : i \in m.rows
          /\ \A m, k \in new : m = k \/ m.rows \cap k.rows = {}
      <3>1. \A b \in sp : /\ below(b).rows \subseteq n.rows
                          /\ below(b).rows = {i \in n.rows : Matches(below(b).rule, db.instance[i].x)}
        BY <2>4, <2>5
      <3>2. \A i \in n.rows : \E m \in new : i \in m.rows
        BY <2>4, <2>5
      <3>3. \A m, k \in new : m = k \/ m.rows \cap k.rows = {}
        BY <2>4, <2>5
      <3>. QED  BY <2>5, <3>1, <3>2, <3>3
    <2>. HIDE DEF new
    <2>7. \E X : /\ job'.pending = (job.pending \ {n}) \cup X
                 /\ \A m \in X : /\ m.parent = N /\ m.rows \subseteq n.rows
                                 /\ m.rows = {i \in n.rows : Matches(m.rule, db.instance[i].x)}
                 /\ \A i \in n.rows : \E m \in X : i \in m.rows
                 /\ \A m, k \in X : m = k \/ m.rows \cap k.rows = {}
      BY <2>3, <2>6
    <2>8. <<>> \in Seq(LeafInfo) /\ Len(<<>>) = 0
      OBVIOUS
    <2>9. /\ db'.treenode[N].parent = n.parent /\ Len(db'.treenode) = N
          /\ n.parent # 0 => /\ db'.treenode[N].rule \in 1..Len(db'.rule)
                             /\ db'.rule[db'.treenode[N].rule] = n.rule
          /\ db'.generation[Len(db.generation)] =
               IF n.parent = 0 THEN N ELSE db.generation[Len(db.generation)]
          /\ db'.treenode[N].leaf = 0 /\ Len(db'.leaf_info) = Len(db.leaf_info)
      <3>1. NodeStands(n, <<>>)
        BY <1>3, <2>2, <2>8
      <3>2. Len(db.leaf_info) \in Nat
        BY <1>1, Lengths
      <3>. QED  BY <2>8, <3>1, <3>2 DEF NodeStands
    <2>10. InPlace(n)
      BY <2>3, <2>9 DEF InPlace
    <2>11. HandedOn(n)
      BY <2>3, <2>7, <2>9 DEF HandedOn
    <2>. QED  BY <2>10, <2>11
  <1>. QED  BY <1>4, <1>5

\* The places of the new treenode are those of its rows.
LEMMA PlacesGrown ==
    ASSUME VerdictInv, LeafPart, pc = "grow", db' \in Database, TreeGrown(db, db'),
           RowsSame(db, db'), NEW n \in job.pending, InPlace(n), BecameLeaf(n) \/ HandedOn(n)
    PROVE  /\ \A l \in 1..Len(db.leaf_info) : TrainedAt(l)' = TrainedAt(l)
           /\ \A l : BecameLeaf(n) /\ l = Len(db.leaf_info) + 1 => TrainedAt(l)' = n.rows
  <1>. DEFINE N == Len(db.treenode) + 1
              L == Len(db.leaf_info) + 1
  <1>1. /\ db \in Database /\ job \in Job /\ TrainedVerdicts
        /\ n.rows \in SUBSET (1..Len(db.instance)) /\ RefsFit(db)
        /\ Len(db.treenode) \in Nat /\ Len(db.leaf_info) \in Nat
    BY Typed, Lengths DEF VerdictInv, VerdictPart, StageVerdicts, CacheInv, TreeInv, Inductive,
       JobFits
  <1>2. /\ db'.instance = db.instance /\ Len(db'.treenode) = N
        /\ \A t \in 1..Len(db.treenode) : db'.treenode[t] = db.treenode[t]
    BY DEF TreeGrown, RowsSame, InPlace
  <1>3. \A q \in job.placed : /\ q[2] \in 1..Len(db.treenode)
                              /\ db.treenode[q[2]].leaf \in 1..Len(db.leaf_info)
    BY <1>1 DEF TrainedVerdicts
  <1>4. ASSUME NEW i, NEW t
        PROVE  /\ <<i, t>> \in job.placed => /\ t \in 1..Len(db.treenode)
                                             /\ db.treenode[t].leaf \in 1..Len(db.leaf_info)
               /\ HandedOn(n) => (<<i, t>> \in job'.placed <=> <<i, t>> \in job.placed)
               /\ BecameLeaf(n) =>
                    (<<i, t>> \in job'.placed <=> <<i, t>> \in job.placed \/ (i \in n.rows /\ t = N))
    BY <1>3 DEF BecameLeaf, HandedOn
  <1>5. BecameLeaf(n) => db'.treenode[N].leaf = L
    BY DEF BecameLeaf
  <1>6. /\ N \notin 1..Len(db.treenode) /\ L \notin 1..Len(db.leaf_info)
        /\ \A t \in 1..Len(db.treenode) : t \in 1..N
        /\ N \in 1..N
    BY <1>1
  <1>. HIDE DEF N, L
  <1>7. ASSUME NEW l \in 1..Len(db.leaf_info), NEW i
        PROVE  i \in TrainedAt(l)' <=> i \in TrainedAt(l)
    BY <1>2, <1>4, <1>5, <1>6, <1>7 DEF TrainedAt
  <1>8. ASSUME BecameLeaf(n), NEW i, NEW l, l = L PROVE i \in TrainedAt(l)' <=> i \in n.rows
    <2>1. ASSUME i \in TrainedAt(l)' PROVE i \in n.rows
      <3>1. PICK t : <<i, t>> \in job'.placed /\ t \in 1..N /\ db'.treenode[t].leaf = l
        BY <1>2, <2>1 DEF TrainedAt
      <3>2. <<i, t>> \notin job.placed
        BY <1>2, <1>4, <1>6, <1>8, <3>1
      <3>. QED  BY <1>4, <1>8, <3>1, <3>2
    <2>2. ASSUME i \in n.rows PROVE i \in TrainedAt(l)'
      <3>1. <<i, N>> \in job'.placed /\ i \in 1..Len(db'.instance)
        BY <1>1, <1>2, <1>4, <1>8, <2>2
      <3>2. N \in 1..Len(db'.treenode) /\ db'.treenode[N].leaf = l
        BY <1>2, <1>5, <1>6, <1>8
      <3>3. \E t \in 1..Len(db'.treenode) : <<i, t>> \in job'.placed /\ db'.treenode[t].leaf = l
        BY <3>1, <3>2
      <3>. QED  BY <3>1, <3>3 DEF TrainedAt
    <2>. QED  BY <2>1, <2>2
  <1>9. \A l \in 1..Len(db.leaf_info) : TrainedAt(l)' = TrainedAt(l)
    <2>. SUFFICES ASSUME NEW l \in 1..Len(db.leaf_info) PROVE TrainedAt(l)' = TrainedAt(l)
      OBVIOUS
    <2>1. \A i : i \in TrainedAt(l)' <=> i \in TrainedAt(l)
      BY <1>7
    <2>. QED  BY <2>1
  <1>10. ASSUME BecameLeaf(n), NEW l, l = L PROVE TrainedAt(l)' = n.rows
    <2>1. \A i : i \in TrainedAt(l)' <=> i \in n.rows
      BY <1>8, <1>10
    <2>. QED  BY <2>1
  <1>. QED  BY <1>9, <1>10 DEF L

\* The new leaf counts its rows.
LEMMA LeafHolds ==
    ASSUME NEW d, NEW e, NEW l, NEW S, e.leaf_info[l] = Leaf(d, S), e.instance = d.instance
    PROVE  /\ Holds(e, l, S) /\ e.leaf_info[l].type = "leaf" /\ e.leaf_info[l].go_to = 0
  BY DEF Leaf, Holds, RightAt, Having

\* An updated row stays with its leaf in a tree that has grown.
LEMMA AtGrown ==
    ASSUME NEW d \in Database, NEW e \in Database, TreeGrown(d, e), RowsSame(d, e),
           \A i \in Updated(d) : Referred(d, i)
    PROVE  /\ \A i \in Updated(d) : LeafId(e, i) = LeafId(d, i)
           /\ \A l : At(e, l) = At(d, l)
           /\ \A l : l \notin 1..Len(d.leaf_info) => At(e, l) = {}
  <1>1. Updated(e) = Updated(d) /\ e.instance = d.instance
    BY SameRows DEF RowsSame
  <1>2. \A i \in Updated(d) : LeafId(e, i) = LeafId(d, i)
    BY <1>1, GrownLasts, VerdictLasts
  <1>3. \A l : At(e, l) = At(d, l)
    BY <1>1, <1>2, SameAt
  <1>4. \A l : l \notin 1..Len(d.leaf_info) => At(d, l) = {}
    BY DEF At, Referred
  <1>. QED  BY <1>2, <1>3, <1>4

\* The tree grows by the node: its rows are under it.
LEMMA SpreadGrown ==
    ASSUME VerdictInv, pc = "grow", db' \in Database, TreeGrown(db, db'), RowsSame(db, db'),
           NEW n \in job.pending, InPlace(n), BecameLeaf(n) \/ HandedOn(n),
           NEW from \in Nat, from <= Len(db.treenode), NEW rows,
           NEW under \in [1..Len(db.treenode) -> SUBSET (1..Len(db.instance))],
           Spread(db, from, rows, under, job.pending, job.placed)
    PROVE  \E below \in [1..Len(db'.treenode) -> SUBSET (1..Len(db'.instance))] :
              Spread(db', from, rows, below, job'.pending, job'.placed)
  <1>. DEFINE N == Len(db.treenode) + 1
  <1>1. /\ db \in Database /\ n.rows \in SUBSET (1..Len(db.instance)) /\ n.parent \in Nat
        /\ Len(db.treenode) \in Nat /\ Len(db.rule) \in Nat /\ N \in Nat
    BY Typed, Lengths DEF VerdictInv, CacheInv, Inductive, JobFits, Job, Pending
  <1>2. /\ db'.instance = db.instance /\ Len(db'.treenode) = N
        /\ \A m \in 1..Len(db.treenode) : db'.treenode[m] = db.treenode[m]
        /\ 1..Len(db.rule) \subseteq 1..Len(db'.rule)
        /\ \A r \in 1..Len(db.rule) : db'.rule[r] = db.rule[r]
    <2>1. Len(db.rule) <= Len(db'.rule) /\ Len(db'.rule) \in Nat
      BY Lengths DEF TreeGrown
    <2>. QED  BY <1>1, <2>1 DEF TreeGrown, RowsSame, InPlace
  <1>3. /\ 1..N = (1..Len(db.treenode)) \cup {N} /\ N \notin 1..Len(db.treenode) /\ N # 0
        /\ N > from
    BY <1>1
  <1>. DEFINE t == db'.treenode[N]
  <1>5. PICK below \in [1..N -> SUBSET (1..Len(db.instance))] :
           below[N] = n.rows /\ \A m \in 1..Len(db.treenode) : below[m] = under[m]
    <2>. DEFINE f == [m \in 1..N |-> IF m = N THEN n.rows ELSE under[m]]
    <2>1. \A m \in 1..N : (IF m = N THEN n.rows ELSE under[m]) \in SUBSET (1..Len(db.instance))
      BY <1>1, <1>3
    <2>2. f \in [1..N -> SUBSET (1..Len(db.instance))]
      BY <2>1
    <2>3. f[N] = n.rows /\ \A m \in 1..Len(db.treenode) : f[m] = under[m]
      BY <1>3
    <2>. QED  BY <2>2, <2>3
  <1>6. /\ t.parent = n.parent
        /\ n.parent # 0 => t.rule \in 1..Len(db'.rule) /\ db'.rule[t.rule] = n.rule
    BY DEF InPlace
  <1>7. /\ \A q \in job.placed : q \in job'.placed
        /\ t.leaf # 0 => \A i \in n.rows : <<i, N>> \in job'.placed
        /\ t.leaf = 0 => \A i \in n.rows : \E m \in job'.pending : m.parent = N /\ i \in m.rows
        /\ t.leaf = 0 => \A m \in job'.pending : m \notin job.pending =>
              m.parent = N /\ m.rows = {i \in n.rows : Matches(m.rule, db.instance[i].x)}
        /\ t.leaf # 0 => \A m \in job'.pending : m \in job.pending
        /\ \A m \in job.pending : m \in job'.pending \/ m = n
    <2>1. CASE BecameLeaf(n)
      <3>1. Len(db.leaf_info) \in Nat
        BY <1>1, Lengths
      <3>. QED  BY <1>3, <2>1, <3>1 DEF BecameLeaf
    <2>2. CASE HandedOn(n)
      BY <2>2 DEF HandedOn
    <2>. QED  BY <2>1, <2>2
  <1>. HIDE DEF N, t
  <1>8. ASSUME NEW p, Inner(db, from, p)
        PROVE  Inner(db', from, p) /\ p \in 1..Len(db.treenode) /\ p # N
               /\ \A rule : RowsUnder(db', p, rule, below) = RowsUnder(db, p, rule, under)
    BY <1>2, <1>3, <1>5, <1>8 DEF Inner, RowsUnder
  <1>9. ASSUME NEW m \in 1..Len(db.treenode), m > from
        PROVE  /\ IF db'.treenode[m].parent = 0 THEN below[m] = rows
                  ELSE /\ Inner(db', from, db'.treenode[m].parent)
                       /\ db'.treenode[m].rule \in 1..Len(db'.rule)
                       /\ below[m] = RowsUnder(db', db'.treenode[m].parent,
                                               db'.rule[db'.treenode[m].rule], below)
               /\ db'.treenode[m].leaf # 0 => \A i \in below[m] : <<i, m>> \in job'.placed
               /\ db'.treenode[m].leaf = 0 => \A i \in below[m] :
                    \/ \E k \in 1..N : db'.treenode[k].parent = m /\ i \in below[k]
                    \/ \E k \in job'.pending : k.parent = m /\ i \in k.rows
    <2>1. db'.treenode[m] = db.treenode[m] /\ below[m] = under[m]
      BY <1>2, <1>5
    <2>2. IF db.treenode[m].parent = 0 THEN under[m] = rows
          ELSE /\ Inner(db, from, db.treenode[m].parent) /\ db.treenode[m].rule \in 1..Len(db.rule)
               /\ under[m] = RowsUnder(db, db.treenode[m].parent,
                                       db.rule[db.treenode[m].rule], under)
      BY <1>9 DEF Spread
    <2>3. db.treenode[m].leaf # 0 => \A i \in under[m] : <<i, m>> \in job.placed
      BY <1>9 DEF Spread
    <2>4. db.treenode[m].leaf = 0 => \A i \in under[m] :
            \/ \E k \in 1..Len(db.treenode) : db.treenode[k].parent = m /\ i \in under[k]
            \/ \E k \in job.pending : k.parent = m /\ i \in k.rows
      BY <1>9 DEF Spread
    <2>5. IF db'.treenode[m].parent = 0 THEN below[m] = rows
          ELSE /\ Inner(db', from, db'.treenode[m].parent)
               /\ db'.treenode[m].rule \in 1..Len(db'.rule)
               /\ below[m] = RowsUnder(db', db'.treenode[m].parent,
                                       db'.rule[db'.treenode[m].rule], below)
      <3>1. CASE db.treenode[m].parent = 0
        BY <2>1, <2>2, <3>1
      <3>2. CASE db.treenode[m].parent # 0
        BY <1>2, <1>8, <2>1, <2>2, <3>2
      <3>. QED  BY <3>1, <3>2
    <2>6. ASSUME db'.treenode[m].leaf = 0, NEW i \in below[m]
          PROVE  \/ \E k \in 1..N : db'.treenode[k].parent = m /\ i \in below[k]
                 \/ \E k \in job'.pending : k.parent = m /\ i \in k.rows
      <3>1. CASE \E k \in 1..Len(db.treenode) : db.treenode[k].parent = m /\ i \in under[k]
        BY <1>2, <1>3, <1>5, <3>1
      <3>2. CASE \E k \in job.pending : k.parent = m /\ i \in k.rows
        BY <1>3, <1>5, <1>6, <1>7, <3>2 DEF t
      <3>. QED  BY <2>1, <2>4, <2>6, <3>1, <3>2
    <2>. QED  BY <1>7, <2>1, <2>3, <2>5, <2>6
  <1>10. IF n.parent = 0 THEN n.rows = rows
         ELSE Inner(db, from, n.parent) /\ n.rows = RowsUnder(db, n.parent, n.rule, under)
    BY DEF Spread
  <1>11. /\ IF t.parent = 0 THEN below[N] = rows
            ELSE /\ Inner(db', from, t.parent) /\ t.rule \in 1..Len(db'.rule)
                 /\ below[N] = RowsUnder(db', t.parent, db'.rule[t.rule], below)
         /\ t.leaf # 0 => \A i \in below[N] : <<i, N>> \in job'.placed
         /\ t.leaf = 0 => \A i \in below[N] :
              \E k \in job'.pending : k.parent = N /\ i \in k.rows
    BY <1>5, <1>6, <1>7, <1>8, <1>10
  <1>12. ASSUME NEW m \in job'.pending
         PROVE  IF m.parent = 0 THEN m.rows = rows
                ELSE Inner(db', from, m.parent) /\ m.rows = RowsUnder(db', m.parent, m.rule, below)
    <2>1. CASE m \in job.pending
      <3>1. IF m.parent = 0 THEN m.rows = rows
            ELSE Inner(db, from, m.parent) /\ m.rows = RowsUnder(db, m.parent, m.rule, under)
        BY <2>1 DEF Spread
      <3>. QED  BY <1>8, <3>1
    <2>2. CASE m \notin job.pending
      <3>1. t.leaf = 0 /\ m.parent = N
            /\ m.rows = {i \in n.rows : Matches(m.rule, db.instance[i].x)}
        BY <1>7, <2>2
      <3>2. Inner(db', from, N)
        BY <1>2, <1>3, <3>1 DEF Inner, t
      <3>3. RowsUnder(db', N, m.rule, below) = {i \in n.rows : Matches(m.rule, db.instance[i].x)}
        BY <1>2, <1>5 DEF RowsUnder
      <3>. QED  BY <1>3, <3>1, <3>2, <3>3
    <2>. QED  BY <2>1, <2>2
  <1>13. \A m \in 1..N : m > from =>
            /\ IF db'.treenode[m].parent = 0 THEN below[m] = rows
               ELSE /\ Inner(db', from, db'.treenode[m].parent)
                    /\ db'.treenode[m].rule \in 1..Len(db'.rule)
                    /\ below[m] = RowsUnder(db', db'.treenode[m].parent,
                                            db'.rule[db'.treenode[m].rule], below)
            /\ db'.treenode[m].leaf # 0 => \A i \in below[m] : <<i, m>> \in job'.placed
            /\ db'.treenode[m].leaf = 0 => \A i \in below[m] :
                 \/ \E k \in 1..N : db'.treenode[k].parent = m /\ i \in below[k]
                 \/ \E k \in job'.pending : k.parent = m /\ i \in k.rows
    <2>. SUFFICES ASSUME NEW m \in 1..N, m > from
         PROVE  /\ IF db'.treenode[m].parent = 0 THEN below[m] = rows
                   ELSE /\ Inner(db', from, db'.treenode[m].parent)
                        /\ db'.treenode[m].rule \in 1..Len(db'.rule)
                        /\ below[m] = RowsUnder(db', db'.treenode[m].parent,
                                                db'.rule[db'.treenode[m].rule], below)
                /\ db'.treenode[m].leaf # 0 => \A i \in below[m] : <<i, m>> \in job'.placed
                /\ db'.treenode[m].leaf = 0 => \A i \in below[m] :
                     \/ \E k \in 1..N : db'.treenode[k].parent = m /\ i \in below[k]
                     \/ \E k \in job'.pending : k.parent = m /\ i \in k.rows
      OBVIOUS
    <2>1. CASE m = N
      BY <1>11, <2>1, Zenon DEF t
    <2>2. CASE m # N
      BY <1>3, <1>9, <2>2, Zenon
    <2>. QED  BY <2>1, <2>2
  <1>14. Spread(db', from, rows, below, job'.pending, job'.placed)
    BY <1>2, <1>12, <1>13 DEF Spread
  <1>. QED  BY <1>2, <1>5, <1>14

\* So does the first tree.
LEMMA FirstGrown ==
    ASSUME VerdictInv, LeafPart, pc = "grow", Building, job' \in Job, pc' \in {"grow", "route"},
           db' \in Database, TreeGrown(db, db'), RowsSame(db, db'), job'.building,
           Len(db'.generation) = Len(db.generation), pc' = "route" => job'.pending = {},
           NEW n \in job.pending, InPlace(n), BecameLeaf(n) \/ HandedOn(n)
    PROVE  Building'
  <1>. DEFINE N == Len(db.treenode) + 1
              L == Len(db.leaf_info) + 1
  <1>1. /\ db \in Database /\ Len(db.treenode) \in Nat /\ Len(db.leaf_info) \in Nat
    BY Typed, Lengths DEF VerdictInv, CacheInv, Inductive
  <1>2. /\ Rows(db', {"new"}) = Rows(db, {"new"}) /\ Len(db'.treenode) = N
        /\ \A m \in 1..Len(db.treenode) : db'.treenode[m] = db.treenode[m]
    BY SameRows DEF TreeGrown, InPlace
  <1>3. /\ N \in 1..N /\ \A m \in 1..Len(db.treenode) : m \in 1..N
        /\ 1..L = (1..Len(db.leaf_info)) \cup {L}
    BY <1>1
  <1>4. PICK under \in [1..Len(db.treenode) -> SUBSET (1..Len(db.instance))] : FirstTree(under)
    BY DEF Building
  <1>5. PICK below \in [1..Len(db'.treenode) -> SUBSET (1..Len(db'.instance))] :
           Spread(db', 0, Rows(db, {"new"}), below, job'.pending, job'.placed)
    BY <1>1, <1>4, SpreadGrown DEF FirstTree
  <1>6. /\ db'.treenode[N].parent = n.parent
        /\ db'.generation[1] = IF n.parent = 0 THEN N ELSE db.generation[1]
        /\ job'.cur = 0
    BY DEF InPlace, Building
  <1>. HIDE DEF N, L
  <1>13. FirstTree(below)'
    BY <1>2, <1>5, <1>6 DEF FirstTree
  <1>14. LeafIds(db') = 1..Len(db'.leaf_info)
    <2>1. \A l \in 1..Len(db.leaf_info) : db'.leaf_info[l] = db.leaf_info[l]
                                          /\ db.leaf_info[l].type = "leaf"
      BY DEF TreeGrown, Building, LeafIds
    <2>2. CASE BecameLeaf(n)
      <3>1. Len(db'.leaf_info) = L /\ db'.leaf_info[L] = Leaf(db, n.rows)
        BY <2>2 DEF BecameLeaf, L
      <3>2. db'.leaf_info[L].type = "leaf"
        BY <3>1 DEF Leaf
      <3>. QED  BY <1>3, <2>1, <3>1, <3>2 DEF LeafIds
    <2>3. CASE HandedOn(n)
      BY <2>1, <2>3 DEF LeafIds, HandedOn
    <2>. QED  BY <2>2, <2>3
  <1>15. db'.generation[1] # 0 => /\ db'.generation[1] \in 1..N
                                  /\ db'.treenode[db'.generation[1]].parent = 0
    <2>1. CASE n.parent = 0
      BY <1>3, <1>6, <2>1
    <2>2. CASE n.parent # 0
      BY <1>2, <1>3, <1>6, <2>2 DEF Building
    <2>. QED  BY <2>1, <2>2
  <1>16. Len(db'.generation) = 1
    BY DEF Building
  <1>. QED  BY <1>2, <1>6, <1>13, <1>14, <1>15, <1>16 DEF Building

LEMMA GrowLeaves ==
    ASSUME VerdictInv, CounterInv, LeafPart, job' \in Job, GrowLeaf \/ GrowSplit
    PROVE  LeafPart'
  <1>1. /\ pc = "grow" /\ pc' = Grown /\ UNCHANGED disk /\ db' \in Database
        /\ TreeGrown(db, db') /\ RowsSame(db, db') /\ Len(db'.generation) = Len(db.generation)
        /\ job'.rows = job.rows /\ job'.building = job.building /\ job'.routed = {}
    BY NodeGrown DEF VerdictInv, CounterInv
  <1>2. PICK n \in job.pending : InPlace(n) /\ (BecameLeaf(n) \/ HandedOn(n))
    BY NodeAdded
  <1>3. /\ db \in Database /\ db.generation # <<>> /\ TrainedVerdicts
        /\ Len(db.treenode) \in Nat /\ Len(db.leaf_info) \in Nat /\ Len(db.generation) \in Nat
    BY <1>1, Typed, Lengths DEF VerdictInv, VerdictPart, StageVerdicts, CacheInv, Inductive, HasRoot
  <1>4. /\ pc' \in {"grow", "route", "judge"} /\ (pc' = "route" => job'.building)
        /\ (pc' = "route" => job'.pending = {}) /\ (pc' = "judge" => ~job'.building)
    BY <1>1 DEF Grown
  <1>. DEFINE L == Len(db.leaf_info) + 1
  <1>5. /\ \A i \in Updated(db) : LeafId(db', i) = LeafId(db, i)
        /\ \A l : At(db', l) = At(db, l)
        /\ At(db', L) = {}
    BY <1>1, <1>3, AtGrown DEF TrainedVerdicts
  <1>6. /\ \A l \in 1..Len(db.leaf_info) : TrainedAt(l)' = TrainedAt(l)
        /\ \A l : BecameLeaf(n) /\ l = L => TrainedAt(l)' = n.rows
    BY <1>1, <1>2, PlacesGrown
  <1>7. /\ \A l \in 1..Len(db.leaf_info) : db'.leaf_info[l] = db.leaf_info[l]
        /\ \/ LeafIds(db') = LeafIds(db)
           \/ LeafIds(db') = LeafIds(db) \cup {L} /\ BecameLeaf(n)
    <2>1. \A l \in 1..Len(db.leaf_info) : db'.leaf_info[l] = db.leaf_info[l]
      BY <1>1 DEF TreeGrown
    <2>2. CASE BecameLeaf(n)
      <3>1. /\ Len(db'.leaf_info) = L /\ db'.leaf_info[L].type = "leaf"
            /\ 1..L = (1..Len(db.leaf_info)) \cup {L}
        BY <1>3, <2>2 DEF BecameLeaf, Leaf
      <3>. HIDE DEF L
      <3>. QED  BY <2>1, <2>2, <3>1 DEF LeafIds
    <2>3. CASE HandedOn(n)
      BY <2>1, <2>3 DEF LeafIds, HandedOn
    <2>. QED  BY <1>2, <2>1, <2>2, <2>3
  <1>. HIDE DEF L
  <1>8. ASSUME NEW l \in LeafIds(db') PROVE Holds(db', l, At(db', l) \cup TrainedAt(l)')
    <2>1. CASE l \in LeafIds(db)
      <3>1. Holds(db, l, At(db, l) \cup TrainedAt(l))
        BY <1>1, <2>1 DEF LeafPart, Growing, Ahead, Routing
      <3>2. db'.leaf_info[l] = db.leaf_info[l] /\ db'.instance = db.instance
        BY <1>1, <1>7, <2>1 DEF LeafIds, RowsSame
      <3>3. Holds(db', l, At(db, l) \cup TrainedAt(l))
        BY <3>1, <3>2, SameHolds
      <3>4. l \in 1..Len(db.leaf_info)
        BY <2>1 DEF LeafIds
      <3>. QED  BY <1>5, <1>6, <3>3, <3>4
    <2>2. CASE l = L /\ BecameLeaf(n)
      <3>1. db'.leaf_info[l] = Leaf(db, n.rows) /\ db'.instance = db.instance
        BY <1>1, <2>2 DEF BecameLeaf, L, RowsSame
      <3>2. Holds(db', l, n.rows)
        BY <3>1, LeafHolds
      <3>3. At(db', l) \cup TrainedAt(l)' = n.rows
        BY <1>5, <1>6, <2>2
      <3>. QED  BY <3>2, <3>3
    <2>. QED  BY <1>7, <2>1, <2>2
  <1>9. \A l : Ahead(l)' = TrainedAt(l)'
    BY <1>4 DEF Ahead, Routing
  <1>10. OnePlace'
    <2>1. OnePlace /\ Trained' = Trained
      <3>1. Rows(db', {"new"}) = Rows(db, {"new"})
        BY <1>1, SameRows
      <3>. QED  BY <1>1, <3>1 DEF LeafPart, Growing, Trained
    <2>2. \A q \in job.placed : q[2] \in 1..Len(db.treenode)
      BY <1>3 DEF TrainedVerdicts
    <2>3. n.rows \subseteq Trained /\ (\A q \in job.placed : q[1] \notin n.rows)
          /\ \A m \in job.pending : m = n \/ m.rows \cap n.rows = {}
      BY <2>1 DEF OnePlace
    <2>4. CASE BecameLeaf(n)
      <3>. DEFINE N == Len(db.treenode) + 1
      <3>1. job'.pending = job.pending \ {n} /\ job'.placed = job.placed \cup (n.rows \X {N})
        BY <2>4 DEF BecameLeaf
      <3>. HIDE DEF N
      <3>2. \A q \in n.rows \X {N} : q[1] \in n.rows /\ q = <<q[1], N>>
        OBVIOUS
      <3>3. \A p, q \in job'.placed : p[1] = q[1] => p = q
        BY <2>1, <2>3, <3>1, <3>2 DEF OnePlace
      <3>4. /\ \A q \in job'.placed : q[1] \in Trained
            /\ \A m \in job'.pending : \A q \in job'.placed : q[1] \notin m.rows
        BY <2>1, <2>3, <3>1, <3>2 DEF OnePlace
      <3>. QED  BY <2>1, <3>1, <3>3, <3>4 DEF OnePlace
    <2>5. CASE HandedOn(n)
      <3>1. PICK new : /\ job'.pending = (job.pending \ {n}) \cup new
                       /\ \A m \in new : m.rows \subseteq n.rows
                       /\ \A m, k \in new : m = k \/ m.rows \cap k.rows = {}
        <4>. DEFINE N == Len(db.treenode) + 1
        <4>1. \E new : /\ job'.pending = (job.pending \ {n}) \cup new
                       /\ \A m \in new :
                            /\ m.parent = N /\ m.rows \subseteq n.rows
                            /\ m.rows = {i \in n.rows : Matches(m.rule, db.instance[i].x)}
                       /\ \A i \in n.rows : \E m \in new : i \in m.rows
                       /\ \A m, k \in new : m = k \/ m.rows \cap k.rows = {}
          BY <2>5 DEF HandedOn
        <4>. HIDE DEF N
        <4>. QED  BY <4>1
      <3>2. job'.placed = job.placed
        BY <2>5 DEF HandedOn
      <3>3. \A m, k \in job'.pending : m = k \/ m.rows \cap k.rows = {}
        <4>. SUFFICES ASSUME NEW m \in job'.pending, NEW k \in job'.pending
             PROVE m = k \/ m.rows \cap k.rows = {}
          OBVIOUS
        <4>1. CASE m \in job.pending \ {n} /\ k \in job.pending \ {n}
          BY <2>1, <4>1 DEF OnePlace
        <4>2. CASE m \in job.pending \ {n} /\ k \in new
          BY <2>3, <3>1, <4>2
        <4>3. CASE m \in new /\ k \in job.pending \ {n}
          BY <2>3, <3>1, <4>3
        <4>4. CASE m \in new /\ k \in new
          BY <3>1, <4>4
        <4>. QED  BY <3>1, <4>1, <4>2, <4>3, <4>4
      <3>. QED  BY <2>1, <2>3, <3>1, <3>2, <3>3 DEF OnePlace
    <2>. QED  BY <1>2, <2>4, <2>5
  <1>11. job'.building => Building'
    <2>. SUFFICES ASSUME job'.building PROVE Building'
      OBVIOUS
    <2>1. Building
      BY <1>1 DEF LeafPart, Growing
    <2>. QED  BY <1>1, <1>2, <1>4, <2>1, FirstGrown
  <1>12. Growing' => \A i \in job'.rows : db'.leaf_info[LeafId(db', i)].type # "leaf"
    <2>1. \A i \in job.rows : /\ db.leaf_info[LeafId(db, i)].type # "leaf"
                              /\ i \in Updated(db) /\ LeafId(db, i) \in 1..Len(db.leaf_info)
      BY <1>1, <1>3 DEF LeafPart, Growing, TrainedVerdicts, Referred
    <2>. QED  BY <1>1, <1>5, <1>7, <2>1
  <1>13. Sound(db')
    <2>1. db'.generation # <<>>
      BY <1>1, <1>3, Lengths
    <2>2. Sound(db)
      BY <1>1 DEF LeafPart
    <2>3. \A l \in LeafIds(db') : db'.leaf_info[l].go_to = 0
      <3>1. ASSUME NEW l \in LeafIds(db) PROVE db'.leaf_info[l].go_to = 0
        BY <1>7, <2>2 DEF Sound, LeafIds
      <3>2. BecameLeaf(n) => db'.leaf_info[L].go_to = 0
        BY DEF BecameLeaf, Leaf, L
      <3>. QED  BY <1>7, <3>1, <3>2
    <2>. QED  BY <2>1, <2>3 DEF Sound
  <1>14. Sound(disk) /\ LeavesHold(disk)
    BY DEF LeafPart
  <1>. QED  BY <1>1, <1>4, <1>8, <1>9, <1>10, <1>11, <1>12, <1>13, <1>14
            DEF LeafPart, Quiet4, Growing, Routing

-----------------------------------------------------------------------------
(* The walk to a leaf.                                                       *)

\* In the first tree every row that was trained on finds its way, and to its place.
LEMMA FirstWalk ==
    ASSUME VerdictInv, LeafPart, Visit, pc = "route", Building,
           NEW under, FirstTree(under)
    PROVE  /\ Seen(Here) # {} => Matched # {}
           /\ \A k \in Matched :
                /\ k.id \in 1..Len(db.treenode) /\ Least(job.todo) \in under[k.id]
                /\ k.leaf_id = db.treenode[k.id].leaf
                /\ k.leaf_id # 0 => /\ <<Least(job.todo), k.id>> \in job.placed
                                    /\ k.leaf.type = "leaf"
  <1>. DEFINE i == Least(job.todo)
  <1>1. /\ CacheInv /\ ~failed /\ db \in Database /\ RoutedVerdicts /\ RefsFit(db)
        /\ job.todo # {} /\ first' = FirstRoot /\ Len(db.generation) = 1
        /\ RootsFit(db)
    BY Typed DEF VerdictInv, VerdictPart, StageVerdicts, Reopened, CacheInv, TreeInv, Visit,
       Walking, Building
  <1>2. /\ Here \in 1..Len(db.treenode) /\ Seen(Here) = Childs(db, Here)
        /\ FirstRoot = db.generation[1]
    BY <1>1, WalkSees
  <1>3. i \in job.todo /\ i \in Rows(db, {"new"}) /\ i \in 1..Len(db.instance)
    BY <1>1, TodoLeast DEF CacheInv, RoutedVerdicts
  <1>4. Subject = db.instance[i].x
    BY DEF Subject
  <1>5. job.pending = {}
    BY DEF Building
  <1>. HIDE DEF i
  <1>6. Spread(db, 0, Rows(db, {"new"}), under, job.pending, job.placed)
    BY DEF FirstTree
  <1>7. \A m \in 1..Len(db.treenode) : db.treenode[m].parent = 0 => under[m] = Rows(db, {"new"})
    BY <1>6 DEF Spread
  <1>8. ASSUME NEW m \in 1..Len(db.treenode), db.treenode[m].parent # 0
        PROVE  /\ Inner(db, 0, db.treenode[m].parent) /\ db.treenode[m].rule \in 1..Len(db.rule)
               /\ under[m] = RowsUnder(db, db.treenode[m].parent, db.rule[db.treenode[m].rule], under)
    BY <1>6, <1>8 DEF Spread
  <1>9. i \in under[Here]
    <2>1. CASE job.cur # 0
      BY <1>1, <2>1 DEF FirstTree, Here, i
    <2>2. CASE job.cur = 0
      <3>1. Here = db.generation[1]
        BY <1>2, <2>2 DEF Here
      <3>2. db.treenode[Here].parent = 0
        <4>1. db.generation[1] # 0
          BY <1>2, <3>1
        <4>. QED  BY <3>1, <4>1 DEF Building
      <3>. QED  BY <1>2, <1>3, <1>7, <3>2
    <2>. QED  BY <2>1, <2>2
  <1>10. Here # 0
    BY <1>2
  <1>11. \A m \in 1..Len(db.treenode) :
            /\ ChildRow(db, m).id = m /\ ChildRow(db, m).leaf_id = db.treenode[m].leaf
            /\ db.treenode[m].rule \in 1..Len(db.rule) =>
                 ChildRow(db, m).rule = db.rule[db.treenode[m].rule]
            /\ db.treenode[m].leaf \in 1..Len(db.leaf_info) =>
                 ChildRow(db, m).leaf = db.leaf_info[db.treenode[m].leaf]
    BY DEF ChildRow
  <1>12. ASSUME Seen(Here) # {} PROVE Matched # {}
    <2>1. PICK c \in 1..Len(db.treenode) : db.treenode[c].parent = Here
      BY <1>2, <1>12 DEF Childs
    <2>2. Inner(db, 0, Here)
      BY <1>8, <1>10, <2>1
    <2>3. \E m \in 1..Len(db.treenode) : db.treenode[m].parent = Here /\ i \in under[m]
      <3>1. db.treenode[Here].leaf = 0
        BY <2>2 DEF Inner
      <3>. QED  BY <1>2, <1>5, <1>6, <1>9, <3>1 DEF Spread
    <2>4. PICK m \in 1..Len(db.treenode) : db.treenode[m].parent = Here /\ i \in under[m]
      BY <2>3
    <2>5. db.treenode[m].rule \in 1..Len(db.rule)
          /\ Matches(db.rule[db.treenode[m].rule], db.instance[i].x)
      BY <1>8, <1>10, <2>4 DEF RowsUnder
    <2>6. ChildRow(db, m) \in Seen(Here)
      BY <1>2, <2>4 DEF Childs
    <2>7. Matches(ChildRow(db, m).rule, Subject)
      BY <1>4, <1>11, <2>5
    <2>. QED  BY <2>6, <2>7 DEF Matched
  <1>13. ASSUME NEW k \in Matched
         PROVE  /\ k.id \in 1..Len(db.treenode) /\ i \in under[k.id]
                /\ k.leaf_id = db.treenode[k.id].leaf
                /\ k.leaf_id # 0 => /\ <<i, k.id>> \in job.placed
                                    /\ k.leaf.type = "leaf"
    <2>1. k \in Childs(db, Here) /\ Matches(k.rule, db.instance[i].x)
      BY <1>2, <1>4 DEF Matched
    <2>2. PICK m \in 1..Len(db.treenode) : k = ChildRow(db, m) /\ db.treenode[m].parent = Here
      BY <2>1 DEF Childs
    <2>3. k.id = m /\ k.leaf_id = db.treenode[m].leaf
      BY <1>11, <2>2
    <2>4. i \in under[m]
      <3>1. Matches(db.rule[db.treenode[m].rule], db.instance[i].x)
        BY <1>8, <1>10, <1>11, <2>1, <2>2
      <3>. QED  BY <1>8, <1>9, <1>10, <2>2, <3>1 DEF RowsUnder
    <2>5. k.leaf_id # 0 => <<i, m>> \in job.placed
      BY <1>6, <2>3, <2>4 DEF Spread
    <2>6. k.leaf_id # 0 => k.leaf.type = "leaf"
      <3>1. db.treenode[m].leaf \in 0..Len(db.leaf_info) /\ Len(db.leaf_info) \in Nat
        BY <1>1, Lengths DEF RefsFit
      <3>2. \A l \in 1..Len(db.leaf_info) : db.leaf_info[l].type = "leaf"
        BY DEF Building, LeafIds
      <3>3. k.leaf_id # 0 => db.treenode[m].leaf \in 1..Len(db.leaf_info)
        BY <2>3, <3>1
      <3>. QED  BY <1>11, <2>2, <3>2, <3>3
    <2>. QED  BY <2>3, <2>4, <2>5, <2>6
  <1>. QED  BY <1>12, <1>13 DEF i

\* The walk goes on with what is counted as it was.
LEMMA RoutingLeaves ==
    ASSUME LeafPart, UNCHANGED <<disk, db>>, pc \in {"route", "rule_add"},
           pc' \in {"route", "rule_add"}, job'.routed = job.routed,
           job'.building = job.building, job'.placed = job.placed, job'.pending = job.pending,
           job.building => Building'
    PROVE  LeafPart'
  <1>1. /\ \A l : TrainedAt(l)' = TrainedAt(l) /\ AddedAt(l)' = AddedAt(l)
        /\ Trained' = Trained \/ ~job.building
    BY DEF TrainedAt, AddedAt, Trained
  <1>2. \A l : Ahead(l)' = Ahead(l)
    BY <1>1 DEF Ahead, Routing
  <1>3. job.building => OnePlace'
    BY <1>1 DEF LeafPart, OnePlace, Growing, Routing
  <1>. QED  BY <1>2, <1>3 DEF LeafPart, Quiet4, Growing, Routing

LEMMA WalkLeaves ==
    ASSUME VerdictInv, LeafPart, NoMatch \/ StepDown \/ JumpToGeneration
    PROVE  LeafPart'
  <1>1. /\ UNCHANGED <<disk, db>> /\ pc \in {"predict", "route"} /\ Visit
        /\ \/ pc' = "throw"
           \/ pc = "predict" /\ pc' \in Quiet4
           \/ pc = "route" /\ pc' \in {"route", "rule_add"}
                           /\ \E n : job' = [job EXCEPT !.cur = n]
    BY DEF NoMatch, StepDown, JumpToGeneration, Visit, Walking, Quiet4
  <1>2. CASE pc' = "throw" \/ pc = "predict"
    BY <1>1, <1>2, QuietLeaves DEF Quiet4
  <1>3. CASE pc = "route" /\ pc' # "throw"
    <2>1. PICK n : job' = [job EXCEPT !.cur = n]
      BY <1>1, <1>3
    <2>2. /\ job'.routed = job.routed /\ job'.building = job.building /\ job'.cur = n
          /\ job'.placed = job.placed /\ job'.pending = job.pending /\ job'.todo = job.todo
      BY <2>1, Typed DEF VerdictInv, Job
    <2>3. ASSUME job.building PROVE Building'
      <3>1. Building
        BY <1>3, <2>3 DEF LeafPart, Routing
      <3>2. PICK under \in [1..Len(db.treenode) -> SUBSET (1..Len(db.instance))] :
               FirstTree(under)
        BY <3>1 DEF Building
      <3>3. /\ Seen(Here) # {} => Matched # {}
            /\ \A k \in Matched :
                 /\ k.id \in 1..Len(db.treenode) /\ Least(job.todo) \in under[k.id]
                 /\ k.leaf_id = db.treenode[k.id].leaf
                 /\ k.leaf_id # 0 => k.leaf.type = "leaf"
        BY <1>1, <1>3, <3>1, <3>2, FirstWalk
      <3>4. Matched # {} => Choice \in Matched
        <4>1. CacheInv /\ ~failed
          BY <1>3 DEF VerdictInv, Reopened
        <4>2. \A k \in Matched : k.id \in Nat
          BY <3>3, <4>1, Typed
        <4>. QED  BY <4>2, FirstExists DEF Choice
      <3>5. StepDown
        BY <1>1, <1>3, <3>3, <3>4 DEF NoMatch, JumpToGeneration
      <3>6. /\ Choice.leaf_id = 0 /\ Choice \in Matched /\ pc' = "route"
            /\ job' = [job EXCEPT !.cur = Choice.id]
        BY <1>3, <3>4, <3>5 DEF StepDown
      <3>7. job'.cur = Choice.id
        BY <3>6, Typed DEF VerdictInv, Job
      <3>8. Inner(db, 0, job'.cur) /\ Least(job.todo) \in under[job'.cur]
        BY <3>3, <3>6, <3>7 DEF Inner
      <3>9. FirstTree(under)'
        BY <1>1, <2>2, <3>2, <3>8 DEF FirstTree
      <3>. QED  BY <1>1, <1>3, <2>2, <3>1, <3>6, <3>9 DEF Building
    <2>. QED  BY <1>1, <1>3, <2>2, <2>3, RoutingLeaves
  <1>. QED  BY <1>1, <1>2, <1>3

-----------------------------------------------------------------------------
(* A row is judged.                                                          *)

\* It keeps its features and its label, and so do all the others.
LEMMA JudgedKeeps ==
    ASSUME NEW d \in Database, NEW i \in 1..Len(d.instance), NEW k, NEW e, e = Judged(d, i, k)
    PROVE  \A j \in 1..Len(d.instance) : /\ e.instance[j].x = d.instance[j].x
                                         /\ e.instance[j].y = d.instance[j].y
  <1>. DEFINE verdict == d.instance[i].y = k.leaf.label
              row == [d.instance[i] EXCEPT !.ref = k.id, !.correct = verdict]
  <1>1. e.instance = [d.instance EXCEPT ![i] = row]
    BY DEF Judged, Database
  <1>2. d.instance \in Seq(Instance) /\ d.instance[i] \in Instance
    BY RowTypes DEF Database
  <1>. HIDE DEF verdict
  <1>3. row.x = d.instance[i].x /\ row.y = d.instance[i].y
    BY <1>2 DEF Instance
  <1>. HIDE DEF row
  <1>4. \A j \in 1..Len(d.instance) : e.instance[j] = IF j = i THEN row ELSE d.instance[j]
    BY <1>1, <1>2
  <1>. QED  BY <1>3, <1>4

\* What the leaves count does not change when row i gets leaf n of d: the leaves that
\* were there keep their counters and their instances.
LEMMA JudgedStays ==
    ASSUME VerdictInv, CounterInv, LeafPart, pc \in {"route", "rule_add"},
           NEW i \in job.todo, db' \in Database,
           NEW d \in Database, RowsSame(db, d), TreeLasts(db, d),
           NEW n \in 1..Len(d.treenode), d.treenode[n].leaf \in 1..Len(d.leaf_info),
           TreeSame(d, db'), RowJudged(d, db', i, ChildRow(d, n))
    PROVE  /\ \A states : Rows(db', states) = Rows(db, states)
           /\ \A l : At(db', l) = At(db, l)
           /\ \A l : l \notin 1..Len(db.leaf_info) => At(db', l) = {}
           /\ LeafId(db', i) = d.treenode[n].leaf /\ db'.instance[i].ref = n
           /\ \A r \in job.routed : /\ r.instance # i
                                    /\ db'.instance[r.instance] = db.instance[r.instance]
                                    /\ LeafId(db', r.instance) = LeafId(db, r.instance)
                                    /\ r.leaf \in 1..Len(db.leaf_info)
  <1>1. /\ db \in Database /\ RoutedVerdicts /\ RoutedMatch
        /\ db'.chunk = db.chunk /\ Len(db'.instance) = Len(db.instance)
        /\ \A j \in 1..Len(db.instance) : /\ j # i => db'.instance[j] = db.instance[j]
                                          /\ db'.instance[j].chunk = db.instance[j].chunk
        /\ i \in Rows(db, {"new"}) /\ i \in 1..Len(db.instance)
        /\ TreeLasts(db, db')
    <2>1. db \in Database /\ RoutedVerdicts /\ RoutedMatch
      BY Typed DEF VerdictInv, VerdictPart, StageVerdicts, CounterInv
    <2>2. /\ db'.chunk = db.chunk /\ Len(db'.instance) = Len(db.instance)
          /\ \A j \in 1..Len(db.instance) : /\ j # i => db'.instance[j] = db.instance[j]
                                            /\ db'.instance[j].chunk = db.instance[j].chunk
      BY DEF RowJudged, RowsSame
    <2>3. i \in Rows(db, {"new"}) /\ i \in 1..Len(db.instance)
      BY <2>1 DEF RoutedVerdicts, Rows
    <2>4. TreeLasts(db, db')
      BY DEF TreeLasts, TreeSame
    <2>. QED  BY <2>1, <2>2, <2>3, <2>4
  <1>2. \A states : Rows(db', states) = Rows(db, states)
    BY <1>1 DEF Rows
  <1>3. i \notin Updated(db)
    BY <1>1 DEF Updated, Rows
  <1>4. \A j \in Updated(db) : LeafId(db', j) = LeafId(db, j) /\ LeafId(db, j) \in 1..Len(db.leaf_info)
    <2>. SUFFICES ASSUME NEW j \in Updated(db)
         PROVE  LeafId(db', j) = LeafId(db, j) /\ LeafId(db, j) \in 1..Len(db.leaf_info)
      OBVIOUS
    <2>1. Referred(db, j) /\ db'.instance[j] = db.instance[j]
      BY <1>1, <1>3 DEF RoutedVerdicts, Updated, Rows
    <2>2. LeafId(db', j) = LeafId(db, j)
      BY <1>1, <2>1, VerdictLasts
    <2>. QED  BY <2>1, <2>2 DEF Referred
  <1>5. \A l : At(db', l) = At(db, l)
    BY <1>2, <1>4, SameAt DEF Updated
  <1>6. \A l : l \notin 1..Len(db.leaf_info) => At(db, l) = {}
    BY <1>4 DEF At
  <1>7. LeafId(db', i) = d.treenode[n].leaf /\ db'.instance[i].ref = n
    <2>1. db'.instance[i].ref = n
      BY DEF RowJudged, ChildRow
    <2>. QED  BY <2>1 DEF LeafId, TreeSame
  <1>8. ASSUME NEW r \in job.routed
        PROVE  /\ r.instance # i /\ db'.instance[r.instance] = db.instance[r.instance]
               /\ LeafId(db', r.instance) = LeafId(db, r.instance)
               /\ r.leaf \in 1..Len(db.leaf_info)
    <2>1. r.instance \in Rows(db, {"new"}) \ job.todo
      BY <1>1 DEF RoutedMatch
    <2>2. Referred(db, r.instance) /\ r.instance \in 1..Len(db.instance) /\ r.instance # i
      BY <1>1, <2>1 DEF RoutedVerdicts, Rows
    <2>3. db'.instance[r.instance] = db.instance[r.instance]
      BY <1>1, <2>2
    <2>4. LeafId(db', r.instance) = LeafId(db, r.instance)
      BY <1>1, <2>2, <2>3, VerdictLasts
    <2>5. r.leaf = LeafId(db, r.instance)
      BY DEF LeafPart, Routing
    <2>. QED  BY <2>2, <2>3, <2>4, <2>5 DEF Referred
  <1>. QED  BY <1>2, <1>5, <1>6, <1>7, <1>8

\* The record of what was judged.
LEMMA JudgedRecord ==
    ASSUME job \in Job, NEW i, NEW k, NEW added, job' = Counted(i, k, added)
    PROVE  LET rec == Record(i, k, added)
           IN  /\ job'.routed = job.routed \cup {rec} /\ rec.instance = i
               /\ rec.leaf = k.leaf_id /\ rec.added = added
               /\ job'.todo = job.todo \ {i} /\ job'.cur = 0 /\ job'.building = job.building
               /\ job'.placed = job.placed /\ job'.pending = job.pending /\ job'.rows = job.rows
  <1>1. /\ job'.placed = job.placed /\ job'.pending = job.pending /\ job'.cur = 0
    BY DEF Counted, Job
  <1>2. job'.routed = job.routed \cup {Record(i, k, added)}
    BY CountedRecord
  <1>3. job'.todo = job.todo \ {i} /\ job'.rows = job.rows /\ job'.building = job.building
    BY CountedTodo
  <1>. QED  BY <1>1, <1>2, <1>3 DEF Record

\* Arriving changes neither what the leaves count nor where rows were placed.
LEMMA ArriveLeaves ==
    ASSUME VerdictInv, CounterInv, LeafPart, Arrive
    PROVE  LeafPart'
  <1>. DEFINE i == Least(job.todo)
              n == Choice.id
  <1>1. /\ Visit /\ Matched # {} /\ Choice.leaf_id # 0 /\ UNCHANGED disk
        /\ \/ pc = "predict" /\ pc' = "idle" /\ UNCHANGED db
           \/ pc = "route" /\ pc' = "route" /\ db' = Judged(db, i, Choice)
                           /\ job' = Counted(i, Choice, FALSE)
    BY DEF Arrive, Visit, Walking
  <1>2. CASE pc = "predict" /\ pc' = "idle" /\ UNCHANGED db
    BY <1>1, <1>2, QuietLeaves DEF Quiet4
  <1>3. CASE pc = "route" /\ pc' = "route" /\ db' = Judged(db, i, Choice)
                         /\ job' = Counted(i, Choice, FALSE)
    <2>1. /\ CacheInv /\ ~failed /\ db \in Database /\ job \in Job /\ RefsFit(db)
          /\ db.generation # <<>>
      BY <1>3, Typed DEF VerdictInv, Reopened, CacheInv, TreeInv
    <2>2. Choice \in Childs(db, Here) /\ n \in 1..Len(db.treenode)
      BY <1>1, <2>1, ChoiceFound
    <2>3. Choice = ChildRow(db, n)
      BY <2>2 DEF Childs, ChildRow
    <2>4. i \in job.todo /\ i \in 1..Len(db.instance)
      BY <1>1, <1>3, <2>1, TodoLeast DEF Visit, Walking, CacheInv
    <2>5. db' \in Database
      BY ArriveStep DEF VerdictInv, CacheInv, Inductive, TypeOK
    <2>6. db.treenode[n].leaf = Choice.leaf_id /\ db.treenode[n].leaf \in 1..Len(db.leaf_info)
      <3>1. db.treenode[n].leaf = Choice.leaf_id
        BY <2>3 DEF ChildRow
      <3>2. db.treenode[n].leaf \in 0..Len(db.leaf_info) /\ Len(db.leaf_info) \in Nat
        BY <2>1, <2>2, Lengths DEF RefsFit
      <3>. HIDE DEF n
      <3>. QED  BY <1>1, <3>1, <3>2
    <2>7. TreeSame(db, db') /\ RowJudged(db, db', i, Choice)
      BY <1>3, <2>1, <2>4, JudgedTree, JudgedRows
    <2>8. RowsSame(db, db) /\ TreeLasts(db, db)
      BY <2>1, Lengths DEF RowsSame, TreeLasts
    <2>. DEFINE rec == Record(i, Choice, FALSE)
    <2>9. /\ job'.routed = job.routed \cup {rec} /\ rec.instance = i
          /\ rec.leaf = Choice.leaf_id /\ rec.added = FALSE
          /\ job'.todo = job.todo \ {i} /\ job'.cur = 0 /\ job'.building = job.building
          /\ job'.placed = job.placed /\ job'.pending = job.pending /\ job'.rows = job.rows
      BY <1>3, <2>1, JudgedRecord
    <2>10. \A j \in 1..Len(db.instance) : /\ db'.instance[j].x = db.instance[j].x
                                          /\ db'.instance[j].y = db.instance[j].y
      BY <1>3, <2>1, <2>4, JudgedKeeps
    <2>. HIDE DEF i, rec
    <2>11. RowJudged(db, db', i, ChildRow(db, n))
      BY <2>3, <2>7
    <2>12. /\ \A states : Rows(db', states) = Rows(db, states)
           /\ \A l : At(db', l) = At(db, l)
           /\ LeafId(db', i) = db.treenode[n].leaf /\ db'.instance[i].ref = n
           /\ \A r \in job.routed : /\ r.instance # i
                                    /\ db'.instance[r.instance] = db.instance[r.instance]
                                    /\ LeafId(db', r.instance) = LeafId(db, r.instance)
      BY <1>3, <2>1, <2>2, <2>4, <2>5, <2>6, <2>7, <2>8, <2>11, JudgedStays
    <2>13. /\ db'.treenode = db.treenode /\ db'.leaf_info = db.leaf_info /\ db'.rule = db.rule
           /\ db'.generation = db.generation /\ Len(db'.instance) = Len(db.instance)
      BY <2>7 DEF TreeSame, RowJudged
    <2>14. \A l : TrainedAt(l)' = TrainedAt(l)
      BY <2>9, <2>13 DEF TrainedAt
    <2>15. \A l : AddedAt(l)' = AddedAt(l)
      <3>1. \A l : {q \in job'.routed : q.leaf = l /\ q.added} = {q \in job.routed : q.leaf = l /\ q.added}
        BY <2>9
      <3>. QED  BY <3>1 DEF AddedAt
    <2>16. \A l : Ahead(l)' = Ahead(l)
      BY <1>3, <2>9, <2>14, <2>15 DEF Ahead, Routing
    <2>17. ASSUME NEW l \in LeafIds(db') PROVE Holds(db', l, At(db', l) \cup Ahead(l)')
      <3>1. l \in LeafIds(db)
        BY <2>13 DEF LeafIds
      <3>2. Holds(db, l, At(db, l) \cup Ahead(l))
        BY <1>3, <3>1 DEF LeafPart, Routing
      <3>3. \A j \in At(db, l) \cup Ahead(l) : db'.instance[j].y = db.instance[j].y
        <4>1. At(db, l) \subseteq 1..Len(db.instance)
          BY DEF At, Updated, Rows
        <4>2. TrainedAt(l) \subseteq 1..Len(db.instance)
          BY DEF TrainedAt
        <4>3. \A j \in AddedAt(l) : db'.instance[j].y = db.instance[j].y
          BY <2>12 DEF AddedAt
        <4>. QED  BY <2>10, <4>1, <4>2, <4>3 DEF Ahead
      <3>4. Holds(db', l, At(db, l) \cup Ahead(l))
        BY <2>13, <3>2, <3>3, SameHolds
      <3>. QED  BY <2>12, <2>16, <3>4
    <2>18. ASSUME job.building
           PROVE  OnePlace' /\ Building' /\ <<i, n>> \in job.placed
      <3>1. OnePlace /\ Building
        BY <1>3, <2>18 DEF LeafPart, Routing
      <3>2. OnePlace'
        BY <2>9, <2>12, <2>18, <3>1 DEF OnePlace, Trained
      <3>3. PICK under \in [1..Len(db.treenode) -> SUBSET (1..Len(db.instance))] :
               FirstTree(under)
        BY <3>1 DEF Building
      <3>4. \A p \in 1..Len(db.treenode) : \A rule :
                RowsUnder(db', p, rule, under) = RowsUnder(db, p, rule, under)
        BY <2>10, <3>3 DEF RowsUnder
      <3>5. Spread(db', 0, Rows(db', {"new"}), under, job'.pending, job'.placed)
        <4>1. \A p : Inner(db', 0, p) <=> Inner(db, 0, p)
          BY <2>13 DEF Inner
        <4>2. \A p : Inner(db, 0, p) => p \in 1..Len(db.treenode)
          BY DEF Inner
        <4>3. Spread(db, 0, Rows(db, {"new"}), under, job.pending, job.placed)
          BY <3>3 DEF FirstTree
        <4>4. job.pending = {} /\ job'.pending = {}
          BY <1>3, <2>9, <3>1 DEF Building
        <4>. QED  BY <2>9, <2>12, <2>13, <3>4, <4>1, <4>2, <4>3, <4>4 DEF Spread
      <3>6. FirstTree(under)'
        BY <2>9, <3>5 DEF FirstTree
      <3>7. LeafIds(db') = LeafIds(db)
        BY <2>13 DEF LeafIds
      <3>8. Building'
        BY <1>3, <2>9, <2>13, <3>1, <3>3, <3>6, <3>7 DEF Building
      <3>9. Choice \in Matched
        <4>1. \A k \in Matched : k.id \in Nat
          <5>1. \A k \in Matched : k.id \in 1..Len(db.treenode)
            BY <1>1, <1>3, <3>1, <3>3, FirstWalk
          <5>. QED  BY <5>1
        <4>. QED  BY <1>1, <4>1, FirstExists DEF Choice
      <3>10. <<Least(job.todo), Choice.id>> \in job.placed
        BY <1>1, <1>3, <3>1, <3>3, <3>9, FirstWalk
      <3>. QED  BY <3>2, <3>8, <3>10 DEF i
    <2>19. \A r \in job'.routed :
             /\ r.leaf = LeafId(db', r.instance)
             /\ job'.building => <<r.instance, db'.instance[r.instance].ref>> \in job'.placed
      <3>1. \A r \in job.routed :
             /\ r.leaf = LeafId(db, r.instance)
             /\ job.building => <<r.instance, db.instance[r.instance].ref>> \in job.placed
        BY <1>3 DEF LeafPart, Routing
      <3>2. \A r \in job.routed :
             /\ r.leaf = LeafId(db', r.instance)
             /\ job'.building => <<r.instance, db'.instance[r.instance].ref>> \in job'.placed
        BY <2>9, <2>12, <3>1
      <3>3. /\ rec.leaf = LeafId(db', rec.instance)
            /\ job'.building => <<rec.instance, db'.instance[rec.instance].ref>> \in job'.placed
        BY <2>6, <2>9, <2>12, <2>18
      <3>. QED  BY <2>9, <3>2, <3>3
    <2>20. Sound(disk) /\ LeavesHold(disk) /\ Sound(db')
      <3>1. Sound(disk) /\ LeavesHold(disk) /\ Sound(db)
        BY <1>3 DEF LeafPart
      <3>2. Sound(db')
        BY <2>13, <3>1 DEF Sound, LeafIds
      <3>. QED  BY <3>1, <3>2
    <2>. QED  BY <1>1, <1>3, <2>9, <2>17, <2>18, <2>19, <2>20
              DEF LeafPart, Quiet4, Growing, Routing
  <1>. QED  BY <1>1, <1>2, <1>3

\* The leaf of an added rule counts the instance that brought it.
LEMMA WithRuleCounts ==
    ASSUME NEW d \in Database, NEW child, NEW i, NEW e, e = WithRule(d, child, i)
    PROVE  LET l == Len(d.leaf_info) + 1
           IN  /\ Len(e.leaf_info) = l /\ Len(e.treenode) = Len(d.treenode) + 1
               /\ e.treenode[Len(d.treenode) + 1].leaf = l
               /\ e.leaf_info[l] = [label |-> d.instance[i].y, type |-> "leaf", go_to |-> 0,
                                    correct |-> 1, total |-> 1]
  <1>. DEFINE leaf == [label |-> d.instance[i].y, type |-> "leaf", go_to |-> 0,
                       correct |-> 1, total |-> 1]
              node == [generation |-> d.treenode[child.id].generation, parent |-> job.cur,
                       rule |-> Len(d.rule) + 1, leaf |-> Len(d.leaf_info) + 1]
  <1>1. e.leaf_info = Append(d.leaf_info, leaf) /\ e.treenode = Append(d.treenode, node)
    BY DEF WithRule, Database
  <1>2. node.leaf = Len(d.leaf_info) + 1
    OBVIOUS
  <1>. HIDE DEF leaf, node
  <1>3. d.leaf_info \in Seq(LeafInfo) /\ d.treenode \in Seq(Treenode)
    BY DEF Database
  <1>4. /\ Len(e.leaf_info) = Len(d.leaf_info) + 1 /\ Len(e.treenode) = Len(d.treenode) + 1
        /\ e.treenode[Len(d.treenode) + 1] = node /\ e.leaf_info[Len(d.leaf_info) + 1] = leaf
    BY <1>1, <1>3
  <1>. QED  BY <1>2, <1>4 DEF leaf

LEMMA OneHolds ==
    ASSUME NEW d, NEW l, NEW i, d.leaf_info[l].total = 1, d.leaf_info[l].correct = 1,
           d.leaf_info[l].label = d.instance[i].y
    PROVE  Holds(d, l, {i})
  <1>1. RightAt(d, l, {i}) = {i}
    BY DEF RightAt
  <1>2. Cardinality({i}) = 1
    BY FS_Singleton
  <1>. QED  BY <1>1, <1>2 DEF Holds

LEMMA RuleAddLeaves ==
    ASSUME VerdictInv, CounterInv, LeafPart, RuleAdd
    PROVE  LeafPart'
  <1>. DEFINE i == Least(job.todo)
  <1>1. /\ pc = "rule_add" /\ UNCHANGED disk /\ i \in job.todo /\ i \in 1..Len(db.instance)
        /\ CacheInv /\ db \in Database /\ job \in Job /\ db.generation # <<>>
    BY RuleAdded, Typed DEF VerdictInv, CacheInv, TreeInv
  <1>2. CASE pc' = "throw"
    BY <1>1, <1>2 DEF LeafPart, Quiet4, Growing, Routing
  <1>3. CASE pc' # "throw"
    <2>0. PICK child : \E d \in Database :
                    /\ d = WithRule(db, child, i) /\ pc' = "route"
                    /\ db' = Judged(d, i, ChildRow(d, Len(d.treenode)))
                    /\ job' = Counted(i, ChildRow(d, Len(d.treenode)), TRUE)
      BY <1>1, <1>3, RuleAdded
    <2>1. PICK d \in Database :
                    /\ d = WithRule(db, child, i) /\ pc' = "route"
                    /\ db' = Judged(d, i, ChildRow(d, Len(d.treenode)))
                    /\ job' = Counted(i, ChildRow(d, Len(d.treenode)), TRUE)
      BY <2>0
    <2>. HIDE DEF i
    <2>2. RowsSame(db, d) /\ TreeGrown(db, d) /\ d.generation = db.generation
      BY <1>1, <2>1, WithRuleRows, WithRuleTree
    <2>3. TreeLasts(db, d)
      BY <1>1, <2>2, GrownLasts
    <2>. DEFINE n == Len(d.treenode)
                L == Len(db.leaf_info) + 1
    <2>4. /\ Len(d.leaf_info) = L /\ d.treenode[n].leaf = L
          /\ d.leaf_info[L] = [label |-> db.instance[i].y, type |-> "leaf", go_to |-> 0,
                               correct |-> 1, total |-> 1]
      BY <1>1, <2>1, WithRuleCounts
    <2>5. /\ n \in 1..Len(d.treenode) /\ L \in 1..Len(d.leaf_info) /\ L \notin 1..Len(db.leaf_info)
          /\ 1..L = (1..Len(db.leaf_info)) \cup {L}
      <3>1. Len(db.treenode) \in Nat /\ Len(db.leaf_info) \in Nat /\ n = Len(db.treenode) + 1
        BY <1>1, <2>2, Lengths DEF TreeGrown
      <3>. QED  BY <2>4, <3>1
    <2>6. db' \in Database
      BY RuleAddStep DEF VerdictInv, CacheInv, Inductive, TypeOK
    <2>7. i \in 1..Len(d.instance) /\ d.instance = db.instance
      BY <1>1, <2>2 DEF RowsSame
    <2>8. TreeSame(d, db') /\ RowJudged(d, db', i, ChildRow(d, n))
      BY <2>1, <2>7, JudgedTree, JudgedRows
    <2>. DEFINE rec == Record(i, ChildRow(d, n), TRUE)
    <2>9. /\ job'.routed = job.routed \cup {rec} /\ rec.instance = i
          /\ rec.leaf = L /\ rec.added = TRUE
          /\ job'.building = job.building
      <3>1. ChildRow(d, n).leaf_id = d.treenode[n].leaf
        BY DEF ChildRow
      <3>2. /\ job'.routed = job.routed \cup {rec} /\ rec.instance = i
            /\ rec.leaf = ChildRow(d, n).leaf_id /\ rec.added = TRUE
            /\ job'.building = job.building
        <4>. DEFINE k == ChildRow(d, n)
        <4>1. job' = Counted(i, k, TRUE)
          BY <2>1
        <4>. HIDE DEF k
        <4>2. job \in Job
          BY <1>1
        <4>3. job'.routed = job.routed \cup {Record(i, k, TRUE)}
          BY <4>1, <4>2, CountedRecord
        <4>4. job'.building = job.building
          BY <4>1, <4>2, CountedTodo
        <4>5. /\ Record(i, k, TRUE).instance = i /\ Record(i, k, TRUE).leaf = k.leaf_id
              /\ Record(i, k, TRUE).added = TRUE
          BY DEF Record
        <4>. QED  BY <4>3, <4>4, <4>5 DEF k
      <3>. QED  BY <2>4, <3>1, <3>2
    <2>10. \A j \in 1..Len(db.instance) : db'.instance[j].y = db.instance[j].y
      BY <2>1, <2>7, JudgedKeeps
    <2>11. pc' = "route" /\ ~job.building
      BY <1>1, <2>1 DEF LeafPart, Building, Routing
    <2>. HIDE DEF n, L, rec
    <2>12. /\ \A l : At(db', l) = At(db, l)
           /\ \A l : l \notin 1..Len(db.leaf_info) => At(db', l) = {}
           /\ LeafId(db', i) = L
           /\ \A r \in job.routed : /\ r.instance # i
                                    /\ db'.instance[r.instance] = db.instance[r.instance]
                                    /\ LeafId(db', r.instance) = LeafId(db, r.instance)
                                    /\ r.leaf \in 1..Len(db.leaf_info)
      <3>1. d.treenode[n].leaf \in 1..Len(d.leaf_info)
        BY <2>4, <2>5
      <3>. QED  BY <1>1, <2>2, <2>3, <2>4, <2>5, <2>6, <2>8, <3>1, JudgedStays
    <2>13. /\ db'.leaf_info = d.leaf_info /\ db'.generation = db.generation
           /\ \A l \in 1..Len(db.leaf_info) : db'.leaf_info[l] = db.leaf_info[l]
           /\ LeafIds(db') = LeafIds(db) \cup {L}
      <3>1. db'.leaf_info = d.leaf_info /\ db'.generation = db.generation
        BY <2>2, <2>8 DEF TreeSame
      <3>2. \A l \in 1..Len(db.leaf_info) : d.leaf_info[l] = db.leaf_info[l]
        BY <2>2 DEF TreeGrown
      <3>3. d.leaf_info[L].type = "leaf"
        BY <2>4
      <3>. QED  BY <2>4, <2>5, <3>1, <3>2, <3>3 DEF LeafIds
    <2>14. /\ \A l \in 1..Len(db.leaf_info) : AddedAt(l)' = AddedAt(l)
           /\ \A l : l = L => AddedAt(l)' = {i}
      <3>1. ASSUME NEW l \in 1..Len(db.leaf_info) PROVE AddedAt(l)' = AddedAt(l)
        <4>1. {q \in job'.routed : q.leaf = l /\ q.added} = {q \in job.routed : q.leaf = l /\ q.added}
          BY <2>5, <2>9
        <4>. QED  BY <4>1 DEF AddedAt
      <3>2. ASSUME NEW l, l = L PROVE AddedAt(l)' = {i}
        <4>1. {q \in job'.routed : q.leaf = l /\ q.added} = {rec}
          BY <2>5, <2>9, <2>12, <3>2
        <4>. QED  BY <2>9, <4>1 DEF AddedAt
      <3>. QED  BY <3>1, <3>2
    <2>15. \A l : Ahead(l) = AddedAt(l) /\ Ahead(l)' = AddedAt(l)'
      BY <1>1, <2>9, <2>11 DEF Ahead, Routing
    <2>16. ASSUME NEW l \in LeafIds(db') PROVE Holds(db', l, At(db', l) \cup Ahead(l)')
      <3>1. CASE l \in LeafIds(db)
        <4>1. Holds(db, l, At(db, l) \cup AddedAt(l)) /\ l \in 1..Len(db.leaf_info)
          BY <1>1, <2>15, <3>1 DEF LeafPart, Routing, LeafIds
        <4>2. \A j \in At(db, l) \cup AddedAt(l) : db'.instance[j].y = db.instance[j].y
          <5>1. At(db, l) \subseteq 1..Len(db.instance)
            BY DEF At, Updated, Rows
          <5>2. \A j \in AddedAt(l) : db'.instance[j].y = db.instance[j].y
            BY <2>12 DEF AddedAt
          <5>. QED  BY <2>10, <5>1, <5>2
        <4>3. Holds(db', l, At(db, l) \cup AddedAt(l))
          BY <2>13, <4>1, <4>2, SameHolds
        <4>. QED  BY <2>12, <2>14, <2>15, <4>1, <4>3
      <3>2. CASE l = L
        <4>1. /\ db'.leaf_info[l].total = 1 /\ db'.leaf_info[l].correct = 1
              /\ db'.leaf_info[l].label = db.instance[i].y
          BY <2>4, <2>13, <3>2
        <4>2. db'.instance[i].y = db.instance[i].y
          BY <1>1, <2>10
        <4>3. Holds(db', l, {i})
          BY <4>1, <4>2, OneHolds
        <4>4. At(db', l) \cup Ahead(l)' = {i}
          BY <2>5, <2>12, <2>14, <2>15, <3>2
        <4>. QED  BY <4>3, <4>4
      <3>. QED  BY <2>13, <3>1, <3>2
    <2>17. \A r \in job'.routed : r.leaf = LeafId(db', r.instance)
      <3>1. \A r \in job.routed : r.leaf = LeafId(db, r.instance)
        BY <1>1 DEF LeafPart, Routing
      <3>. QED  BY <2>9, <2>12, <3>1
    <2>18. Sound(disk) /\ LeavesHold(disk) /\ Sound(db')
      <3>1. Sound(disk) /\ LeavesHold(disk) /\ Sound(db)
        BY <1>1 DEF LeafPart
      <3>2. db'.leaf_info[L].go_to = 0
        BY <2>4, <2>13
      <3>3. \A l \in LeafIds(db) : db'.leaf_info[l].go_to = 0
        BY <2>13, <3>1 DEF Sound, LeafIds
      <3>. QED  BY <1>1, <2>13, <3>1, <3>2, <3>3 DEF Sound
    <2>. QED  BY <1>1, <2>9, <2>11, <2>16, <2>17, <2>18
              DEF LeafPart, Quiet4, Growing, Routing
  <1>. QED  BY <1>2, <1>3

-----------------------------------------------------------------------------
(* The end of update and of rebuild.                                         *)

\* More instances come to a leaf, and it counts them.
LEMMA HoldsMore ==
    ASSUME NEW d, NEW e, NEW l, NEW S, NEW T, Holds(d, l, S), IsFiniteSet(S \cup T),
           S \cap T = {}, e.leaf_info[l].label = d.leaf_info[l].label,
           \A i \in S \cup T : e.instance[i].y = d.instance[i].y,
           e.leaf_info[l].total = d.leaf_info[l].total + Cardinality(T),
           e.leaf_info[l].correct = d.leaf_info[l].correct + Cardinality(RightAt(d, l, T))
    PROVE  Holds(e, l, S \cup T)
  <1>. DEFINE U == S \cup T
  <1>1. Cardinality(U) = Cardinality(S) + Cardinality(T)
    <2>1. IsFiniteSet(U) /\ U = S \cup T
      OBVIOUS
    <2>. HIDE DEF U
    <2>. QED  BY <2>1, Parted
  <1>2. /\ RightAt(e, l, S \cup T) = RightAt(d, l, S) \cup RightAt(d, l, T)
        /\ RightAt(d, l, S) \cap RightAt(d, l, T) = {}
        /\ RightAt(e, l, S \cup T) \subseteq S \cup T
    BY DEF RightAt
  <1>3. IsFiniteSet(RightAt(e, l, S \cup T))
    BY <1>2, FS_Subset
  <1>4. Cardinality(RightAt(e, l, S \cup T))
          = Cardinality(RightAt(d, l, S)) + Cardinality(RightAt(d, l, T))
    <2>. DEFINE A == RightAt(e, l, S \cup T)
                B == RightAt(d, l, S)
                C == RightAt(d, l, T)
    <2>1. IsFiniteSet(A) /\ A = B \cup C /\ B \cap C = {}
      BY <1>2, <1>3
    <2>. HIDE DEF A, B, C
    <2>2. Cardinality(A) = Cardinality(B) + Cardinality(C)
      BY <2>1, Parted
    <2>. QED  BY <2>2 DEF A, B, C
  <1>. QED  BY <1>1, <1>4 DEF Holds

\* The instances that a leaf counts at the end of update.
Arrived(l) == {r.instance : r \in Hits(l)}

LEMMA GainedCounts ==
    ASSUME VerdictInv, CounterInv, LeafPart, pc = "route", job.todo = {},
           NEW l \in 1..Len(db.leaf_info)
    PROVE  /\ Gained(db.leaf_info[l], l).total = db.leaf_info[l].total + Cardinality(Arrived(l))
           /\ Gained(db.leaf_info[l], l).correct
                = db.leaf_info[l].correct + Cardinality(RightAt(db, l, Arrived(l)))
           /\ Gained(db.leaf_info[l], l).label = db.leaf_info[l].label
           /\ Gained(db.leaf_info[l], l).type = db.leaf_info[l].type
           /\ Gained(db.leaf_info[l], l).go_to = db.leaf_info[l].go_to
  <1>. DEFINE R == Hits(l)
              Q == {r \in R : r.actual = r.predicted}
  <1>1. /\ db \in Database /\ IsFiniteSet(job.routed) /\ RoutedMatch
        /\ db.leaf_info[l] \in LeafInfo
    BY Typed, RowTypes DEF VerdictInv, CacheInv, Inductive, JobFits, CounterInv
  <1>2. R \subseteq job.routed /\ Q \subseteq job.routed /\ IsFiniteSet(R) /\ IsFiniteSet(Q)
    BY <1>1, FS_Subset DEF Hits
  <1>3. \A r, q \in job.routed : r.instance = q.instance => r = q
    BY <1>1 DEF RoutedMatch
  <1>4. Cardinality(Arrived(l)) = Cardinality(R)
    <2>1. Arrived(l) = {r.instance : r \in R}
      BY DEF Arrived
    <2>. HIDE DEF R
    <2>. QED  BY <1>2, <1>3, <2>1, OneRecordEach
  <1>5. RightAt(db, l, Arrived(l)) = {r.instance : r \in Q}
    <2>1. \A r \in R : /\ r.actual = db.instance[r.instance].y
                       /\ r.predicted = db.leaf_info[l].label
      <3>1. \A r \in R : r \in job.routed /\ r.leaf = l
        BY DEF Hits
      <3>2. \A r \in job.routed : /\ r.actual = db.instance[r.instance].y
                                  /\ r.predicted = LabelOf(db, r.instance)
                                  /\ r.leaf = LeafId(db, r.instance)
        BY <1>1 DEF RoutedMatch, LeafPart, Routing
      <3>. HIDE DEF R
      <3>. QED  BY <3>1, <3>2 DEF LabelOf
    <2>2. Arrived(l) = {r.instance : r \in R}
      BY DEF Arrived
    <2>. HIDE DEF R
    <2>. QED  BY <2>1, <2>2 DEF RightAt
  <1>6. Cardinality(RightAt(db, l, Arrived(l))) = Cardinality(Q)
    <2>. HIDE DEF Q
    <2>. QED  BY <1>2, <1>3, <1>5, OneRecordEach
  <1>7. Gained(db.leaf_info[l], l)
          = [db.leaf_info[l] EXCEPT !.correct = @ + Cardinality(Q), !.total = @ + Cardinality(R)]
    BY DEF Gained
  <1>. HIDE DEF Q, R
  <1>8. /\ Gained(db.leaf_info[l], l).total = db.leaf_info[l].total + Cardinality(R)
        /\ Gained(db.leaf_info[l], l).correct = db.leaf_info[l].correct + Cardinality(Q)
        /\ Gained(db.leaf_info[l], l).label = db.leaf_info[l].label
        /\ Gained(db.leaf_info[l], l).type = db.leaf_info[l].type
        /\ Gained(db.leaf_info[l], l).go_to = db.leaf_info[l].go_to
    BY <1>1, <1>7 DEF LeafInfo
  <1>. QED  BY <1>4, <1>6, <1>8

\* Of the rows that were routed to a leaf, some it has counted before and the others
\* it counts now.
LEMMA RoutedTo ==
    ASSUME VerdictInv, CounterInv, LeafPart, pc = "route", job.todo = {}, NEW l
    PROVE  LET here == {i \in Rows(db, {"new"}) : LeafId(db, i) = l}
           IN  here = Ahead(l) \cup Arrived(l) /\ Ahead(l) \cap Arrived(l) = {}
  <1>. DEFINE new == Rows(db, {"new"})
              here == {i \in new : LeafId(db, i) = l}
  <1>1. /\ {r.instance : r \in job.routed} = new
        /\ \A r, q \in job.routed : r.instance = q.instance => r = q
        /\ \A r \in job.routed :
             /\ r.leaf = LeafId(db, r.instance)
             /\ job.building => <<r.instance, db.instance[r.instance].ref>> \in job.placed
    BY DEF CounterInv, RoutedMatch, LeafPart, Routing
  <1>. HIDE DEF new
  <1>2. CASE ~job.building
    <2>1. Ahead(l) = {r.instance : r \in {q \in job.routed : q.leaf = l /\ q.added}}
      BY <1>2 DEF Ahead, Routing, AddedAt
    <2>2. Arrived(l) = {r.instance : r \in {q \in job.routed : q.leaf = l /\ ~q.added}}
      BY <1>2 DEF Arrived, Hits
    <2>3. ASSUME NEW i \in here PROVE i \in Ahead(l) \cup Arrived(l)
      <3>1. PICK r \in job.routed : r.instance = i
        BY <1>1
      <3>2. r.leaf = l
        BY <1>1, <3>1
      <3>. QED  BY <2>1, <2>2, <3>1, <3>2
    <2>4. ASSUME NEW i \in Ahead(l) \cup Arrived(l) PROVE i \in here
      <3>1. PICK r \in job.routed : r.instance = i /\ r.leaf = l
        BY <2>1, <2>2
      <3>. QED  BY <1>1, <3>1
    <2>5. ASSUME NEW i \in Ahead(l), i \in Arrived(l) PROVE FALSE
      BY <1>1, <2>1, <2>2, <2>5
    <2>6. here = Ahead(l) \cup Arrived(l) /\ Ahead(l) \cap Arrived(l) = {}
      BY <2>3, <2>4, <2>5
    <2>. QED  BY <2>6 DEF new
  <1>3. CASE job.building
    <2>1. Arrived(l) = {}
      BY <1>3 DEF Arrived, Hits
    <2>2. Ahead(l) = TrainedAt(l)
      BY <1>3 DEF Ahead
    <2>3. /\ \A q \in job.placed : q[1] \in new
          /\ \A p, q \in job.placed : p[1] = q[1] => p = q
      BY <1>3 DEF LeafPart, OnePlace, Trained, Routing, new
    <2>4. \A i \in new : /\ <<i, db.instance[i].ref>> \in job.placed
                         /\ i \in 1..Len(db.instance)
                         /\ db.instance[i].ref \in 1..Len(db.treenode)
      <3>1. \A i \in new : <<i, db.instance[i].ref>> \in job.placed
        BY <1>1, <1>3
      <3>2. RoutedVerdicts
        BY DEF VerdictInv, VerdictPart, StageVerdicts
      <3>3. \A i \in new : i \in 1..Len(db.instance) /\ Referred(db, i)
        BY <3>2 DEF RoutedVerdicts, Rows, new
      <3>. QED  BY <3>1, <3>3 DEF Referred
    <2>5. ASSUME NEW i \in here PROVE i \in TrainedAt(l)
      BY <2>4 DEF TrainedAt, LeafId
    <2>6. ASSUME NEW i \in TrainedAt(l) PROVE i \in here
      <3>1. PICK t \in 1..Len(db.treenode) : <<i, t>> \in job.placed /\ db.treenode[t].leaf = l
        BY DEF TrainedAt
      <3>2. i \in new
        BY <2>3, <3>1
      <3>3. <<i, t>> = <<i, db.instance[i].ref>>
        BY <2>3, <2>4, <3>1, <3>2
      <3>4. LeafId(db, i) = l
        BY <3>1, <3>3 DEF LeafId
      <3>. QED  BY <3>2, <3>4
    <2>. QED  BY <2>1, <2>2, <2>5, <2>6 DEF new
  <1>. QED  BY <1>2, <1>3

LEMMA UpdateFinishLeaves ==
    ASSUME VerdictInv, CounterInv, LeafPart, UpdateFinish
    PROVE  LeafPart'
  <1>. DEFINE new == Rows(db, {"new"})
              here(l) == {i \in new : LeafId(db, i) = l}
  <1>1. /\ pc = "route" /\ job.todo = {} /\ pc' = "commit" /\ UNCHANGED disk
        /\ db \in Database /\ ChunksFit(db)
    BY Typed DEF UpdateFinish, VerdictInv, VerdictPart
  <1>2. db' \in Database
    BY UpdateFinishStep DEF VerdictInv, CacheInv, Inductive, TypeOK
  <1>3. /\ db'.instance = db.instance /\ Len(db'.chunk) = Len(db.chunk)
        /\ \A c \in 1..Len(db.chunk) :
              /\ db.chunk[c].state # "new" => db'.chunk[c] = db.chunk[c]
              /\ db.chunk[c].state = "new" => db'.chunk[c].state = "updated"
    <2>. DEFINE total(c) == Cardinality({r \in job.routed : db.instance[r.instance].chunk = c})
    <2>1. /\ db'.instance = db.instance /\ Len(db'.chunk) = Len(db.chunk)
          /\ \A c \in 1..Len(db.chunk) :
                db'.chunk[c] = IF db.chunk[c].state # "new" THEN db.chunk[c]
                               ELSE [state |-> "updated", total |-> total(c)]
      BY <1>1, FinishRows
    <2>2. \A c : [state |-> "updated", total |-> total(c)].state = "updated"
      OBVIOUS
    <2>. HIDE DEF total
    <2>. QED  BY <2>1, <2>2
  <1>4. /\ db'.generation = db.generation /\ db'.treenode = db.treenode
        /\ Len(db'.leaf_info) = Len(db.leaf_info)
        /\ \A l \in 1..Len(db.leaf_info) : db'.leaf_info[l] = Gained(db.leaf_info[l], l)
    BY <1>1, FinishTree
  <1>5. Updated(db') = Updated(db) \cup new /\ Updated(db) \cap new = {}
    <2>1. \A i \in 1..Len(db.instance) : db.instance[i].chunk \in 1..Len(db.chunk)
      BY <1>1 DEF ChunksFit
    <2>2. Updated(db') = Updated(db) \cup new
      BY <1>3, <2>1 DEF Updated, Rows
    <2>. QED  BY <2>2 DEF Updated, Rows
  <1>. HIDE DEF new
  <1>6. \A l : At(db', l) = At(db, l) \cup here(l) /\ At(db, l) \cap here(l) = {}
    <2>1. \A i : LeafId(db', i) = LeafId(db, i)
      BY <1>3, <1>4 DEF LeafId
    <2>. QED  BY <1>5, <2>1 DEF At
  <1>7. \A l : here(l) = Ahead(l) \cup Arrived(l) /\ Ahead(l) \cap Arrived(l) = {}
    BY <1>1, RoutedTo DEF new
  <1>. HIDE DEF here
  <1>8. \A l \in 1..Len(db.leaf_info) :
           /\ db'.leaf_info[l].total = db.leaf_info[l].total + Cardinality(Arrived(l))
           /\ db'.leaf_info[l].correct
                = db.leaf_info[l].correct + Cardinality(RightAt(db, l, Arrived(l)))
           /\ db'.leaf_info[l].label = db.leaf_info[l].label
           /\ db'.leaf_info[l].type = db.leaf_info[l].type
           /\ db'.leaf_info[l].go_to = db.leaf_info[l].go_to
    BY <1>1, <1>4, GainedCounts
  <1>9. LeafIds(db') = LeafIds(db)
    BY <1>4, <1>8 DEF LeafIds
  <1>10. ASSUME NEW l \in LeafIds(db') PROVE Holds(db', l, At(db', l))
    <2>. DEFINE S == At(db, l) \cup Ahead(l)
                T == Arrived(l)
    <2>1. Holds(db, l, S) /\ l \in 1..Len(db.leaf_info)
      BY <1>1, <1>9 DEF LeafPart, Routing, LeafIds
    <2>2. At(db', l) = S \cup T /\ S \cap T = {}
      BY <1>6, <1>7
    <2>3. IsFiniteSet(S \cup T)
      BY <1>2, <2>2, AtFinite
    <2>. HIDE DEF S, T
    <2>4. \A i \in S \cup T : db'.instance[i].y = db.instance[i].y
      BY <1>3
    <2>5. /\ db'.leaf_info[l].total = db.leaf_info[l].total + Cardinality(T)
          /\ db'.leaf_info[l].correct = db.leaf_info[l].correct + Cardinality(RightAt(db, l, T))
          /\ db'.leaf_info[l].label = db.leaf_info[l].label
      BY <1>8, <2>1 DEF T
    <2>6. Holds(db', l, S \cup T)
      BY <2>1, <2>2, <2>3, <2>4, <2>5, HoldsMore
    <2>. QED  BY <2>2, <2>6
  <1>11. Sound(disk) /\ LeavesHold(disk) /\ Sound(db')
    <2>1. Sound(disk) /\ LeavesHold(disk) /\ Sound(db)
      BY <1>1 DEF LeafPart
    <2>2. \A l \in LeafIds(db') : db'.leaf_info[l].go_to = 0
      BY <1>8, <1>9, <2>1 DEF Sound, LeafIds
    <2>. QED  BY <1>4, <2>1, <2>2 DEF Sound
  <1>. QED  BY <1>1, <1>10, <1>11 DEF LeafPart, LeavesHold, Quiet4, Growing, Routing

\* The rebuilt rows come to the leaves that were trained on them, and are counted there.
LEMMA RebuildInstallLeaves ==
    ASSUME VerdictInv, CounterInv, LeafPart, RebuildInstall
    PROVE  LeafPart'
  <1>1. /\ pc = "judge" /\ pc' = "commit" /\ UNCHANGED disk /\ CacheInv
        /\ db \in Database /\ TrainedVerdicts
        /\ job.rows \subseteq Updated(db) /\ job.rows \subseteq 1..Len(db.instance)
    BY Typed DEF RebuildInstall, VerdictInv, VerdictPart, StageVerdicts, CacheInv, Inductive,
       JobFits, TrainedVerdicts
  <1>2. ~job.building
    BY <1>1 DEF LeafPart, Growing, Building
  <1>3. /\ Len(db'.instance) = Len(db.instance) /\ db'.chunk = db.chunk
        /\ \A i \in 1..Len(db.instance) : i \notin job.rows => db'.instance[i] = db.instance[i]
        /\ \A i \in job.rows :
              /\ db'.instance[i].ref = NewRef(i) /\ db'.instance[i].y = db.instance[i].y
              /\ db'.instance[i].chunk = db.instance[i].chunk
    BY <1>1, InstalledRows
  <1>4. /\ db'.treenode = db.treenode /\ db'.leaf_info = db.leaf_info
        /\ db'.generation = db.generation
    BY <1>1, InstalledTree DEF TreeSame
  <1>5. Updated(db') = Updated(db)
    BY <1>1, <1>3 DEF Updated, Rows
  <1>6. /\ \A i \in Updated(db) : i \notin job.rows => LeafId(db', i) = LeafId(db, i)
        /\ \A i \in job.rows : LeafId(db', i) = db.treenode[NewRef(i)].leaf
    BY <1>3, <1>4 DEF LeafId, Updated, Rows
  <1>7. /\ \A q \in job.placed : q[1] \in job.rows
        /\ \A p, q \in job.placed : p[1] = q[1] => p = q
        /\ \A i \in job.rows : db.leaf_info[LeafId(db, i)].type # "leaf"
    BY <1>1, <1>2 DEF LeafPart, OnePlace, Growing, Trained
  <1>8. ASSUME NEW l PROVE {i \in job.rows : LeafId(db', i) = l} = TrainedAt(l)
    <2>1. ASSUME NEW i \in job.rows, LeafId(db', i) = l PROVE i \in TrainedAt(l)
      <3>1. NewRef(i) \in 1..Len(db.treenode) /\ <<i, NewRef(i)>> \in job.placed
        BY <1>1, RowPlaced
      <3>. QED  BY <1>1, <1>6, <2>1, <3>1 DEF TrainedAt
    <2>2. ASSUME NEW i \in TrainedAt(l) PROVE i \in job.rows /\ LeafId(db', i) = l
      <3>1. PICK t \in 1..Len(db.treenode) : <<i, t>> \in job.placed /\ db.treenode[t].leaf = l
        BY DEF TrainedAt
      <3>2. i \in job.rows
        BY <1>7, <3>1
      <3>3. <<i, NewRef(i)>> \in job.placed
        BY <1>1, <3>2, RowPlaced
      <3>4. NewRef(i) = t
        <4>1. <<i, NewRef(i)>> = <<i, t>>
          BY <1>7, <3>1, <3>3
        <4>. QED  BY <4>1
      <3>. QED  BY <1>6, <3>1, <3>2, <3>4
    <2>. QED  BY <2>1, <2>2
  <1>9. ASSUME NEW l \in LeafIds(db) PROVE At(db', l) = At(db, l) \cup TrainedAt(l)
    <2>1. \A i \in At(db, l) : i \notin job.rows
      BY <1>7 DEF At, LeafIds
    <2>. QED  BY <1>1, <1>5, <1>6, <1>8, <2>1 DEF At
  <1>10. LeafIds(db') = LeafIds(db)
    BY <1>4 DEF LeafIds
  <1>11. ASSUME NEW l \in LeafIds(db') PROVE Holds(db', l, At(db', l))
    <2>1. Holds(db, l, At(db, l) \cup TrainedAt(l))
      BY <1>1, <1>10 DEF LeafPart, Growing, Ahead, Routing
    <2>2. \A i \in At(db, l) \cup TrainedAt(l) : db'.instance[i].y = db.instance[i].y
      <3>1. \A i \in 1..Len(db.instance) : db'.instance[i].y = db.instance[i].y
        BY <1>3
      <3>. QED  BY <3>1 DEF At, TrainedAt, Updated, Rows
    <2>3. Holds(db', l, At(db, l) \cup TrainedAt(l))
      BY <1>4, <2>1, <2>2, SameHolds
    <2>. QED  BY <1>9, <1>10, <2>3
  <1>12. Sound(disk) /\ LeavesHold(disk) /\ Sound(db')
    <2>1. Sound(disk) /\ LeavesHold(disk) /\ Sound(db)
      BY <1>1 DEF LeafPart
    <2>. QED  BY <1>4, <2>1 DEF Sound, LeafIds
  <1>. QED  BY <1>1, <1>11, <1>12 DEF LeafPart, LeavesHold, Quiet4, Growing, Routing

-----------------------------------------------------------------------------
(* The counters of the leaves in every state.                                *)

LEMMA InitLeaves == Init => LeafPart
  <1>. SUFFICES ASSUME Init PROVE LeafPart
    OBVIOUS
  <1>1. /\ disk = EmptyDatabase /\ db = EmptyDatabase /\ pc = "idle"
        /\ Len(EmptyDatabase.treenode) = 0 /\ Len(EmptyDatabase.leaf_info) = 0
    BY DEF Init, EmptyDatabase
  <1>2. LeafIds(EmptyDatabase) = {}
    BY <1>1 DEF LeafIds
  <1>3. Sound(EmptyDatabase) /\ LeavesHold(EmptyDatabase)
    BY <1>1, <1>2 DEF Sound, LeavesHold
  <1>. QED  BY <1>1, <1>3 DEF LeafPart, Growing, Routing

LEMMA NextLeaves ==
    ASSUME VerdictInv, CounterInv, VerdictInv', LeafPart, [Next]_vars
    PROVE  LeafPart'
  <1>1. CASE UNCHANGED vars
    <2>1. UNCHANGED <<disk, db, pc, job>>
      BY <1>1 DEF vars
    <2>2. /\ \A l : Ahead(l)' = Ahead(l)
          /\ (OnePlace' <=> OnePlace) /\ (Building' <=> Building)
          /\ (Growing' <=> Growing) /\ (Routing' <=> Routing)
      BY <2>1 DEF Ahead, OnePlace, Building, Growing, Routing, TrainedAt, AddedAt, Trained, FirstTree
    <2>. QED  BY <2>1, <2>2 DEF LeafPart
  <1>2. CASE Begin
    BY <1>2, InsertLeaves, UpdateBeginLeaves, RebuildBeginLeaves, EasyLeaves DEF Begin
  <1>3. CASE Step
    <2>1. job' \in Job
      BY DEF VerdictInv, CacheInv, Inductive, TypeOK
    <2>. QED  BY <1>3, <2>1, RemoveOldestLeaves, GrowLeaves, WalkLeaves, ArriveLeaves,
                 RuleAddLeaves, UpdateFinishLeaves, RebuildInstallLeaves, EasyLeaves DEF Step
  <1>4. CASE Fault \/ Restart
    BY <1>4, EasyLeaves
  <1>. QED  BY <1>1, <1>2, <1>3, <1>4 DEF Next

\* verify_global: the counters that a leaf keeps by increments, through training,
\* update, rebuild and remove_chunk, are in every committed database the numbers of its
\* updated instances and of those among them whose label it has, for a caller that
\* opens a new object after an exception.
THEOREM LeafCountsStayMatched == ASSUME ReopenAfterFailure PROVE Spec => []LeafCountsMatch
  <1>. DEFINE Inv == VerdictInv /\ CounterInv /\ LeafPart
  <1>1. Init => Inv
    BY InitVerdicts, InitCounters, InitLeaves
  <1>2. Inv /\ [Next]_vars => Inv'
    BY NextVerdicts, NextCounters, NextLeaves
  <1>3. ASSUME VerdictInv, LeafPart PROVE LeafCountsMatch
    BY <1>3 DEF LeafPart, LeavesHold, Holds, At, RightAt, LeafIds, LeafCountsMatch
  <1>. QED  BY <1>1, <1>2, <1>3, PTL DEF Spec

-----------------------------------------------------------------------------
(* The invariant of the routes.                                              *)

RuleOf(d, m) == d.rule[d.treenode[m].rule]
LeafOf(d, m) == d.leaf_info[d.treenode[m].leaf]

\* The childs of treenode n with a rule that x matches.
Open(d, x, n) == {m \in 1..Len(d.treenode) : /\ d.treenode[m].parent = n
                                             /\ Matches(RuleOf(d, m), x)}

\* A treenode whose leaf sends on to a generation.
Sends(d, m) == d.treenode[m].leaf # 0 /\ LeafOf(d, m).type # "leaf"

\* predict_main goes from n to t: to the first child that x matches, or to the root of
\* the generation that its leaf sends on to.
Leads(d, x, n, t) ==
    \E m \in Open(d, x, n) :
        /\ \A k \in Open(d, x, n) : m <= k
        /\ t = IF Sends(d, m) THEN d.generation[LeafOf(d, m).go_to] ELSE m

\* The treenodes V are a way of x from the first root to r.
Route(d, x, V, r) ==
    /\ r \in 1..Len(d.treenode) /\ d.generation # <<>>
    /\ d.generation[1] \in V \cup {r}
    /\ \A n \in V : \E t \in V \cup {r} : n < t /\ Leads(d, x, n, t)
Reaches(d, x, r) == \E V \in SUBSET (1..Len(d.treenode)) : Route(d, x, V, r)

\* Childs come after their parents, and only treenodes without a leaf have any.
TreeShaped(d) ==
    \A n \in 1..Len(d.treenode) :
        LET p == d.treenode[n].parent
        IN  p # 0 => /\ p \in 1..Len(d.treenode) /\ p < n /\ d.treenode[p].leaf = 0
                     /\ d.treenode[n].rule \in 1..Len(d.rule)

\* Rules on nominal features compare for equality, and no others do.
KindFits(rule) == rule.type = "equ" <=> rule.feature \in Nominal
RulesFit(d) == \A r \in 1..Len(d.rule) : KindFits(d.rule[r])

\* A leaf that is no longer in force sends on to a root that came after it.
JumpsAhead(d) ==
    \A n \in 1..Len(d.treenode) :
        LET g == LeafOf(d, n).go_to
        IN  Sends(d, n) => /\ g \in 1..Len(d.generation)
                           /\ d.generation[g] \in 1..Len(d.treenode)
                           /\ n < d.generation[g] /\ d.treenode[d.generation[g]].leaf = 0

Shaped(d) == TreeShaped(d) /\ RulesFit(d) /\ JumpsAhead(d)

\* The rows S reach the treenodes they refer to, which are not the first root.
HaveRoutes(d, S) ==
    SiblingsAlike(d) =>
        \A i \in S : /\ Reaches(d, d.instance[i].x, d.instance[i].ref)
                     /\ d.instance[i].ref # d.generation[1]

\* While a tree is inserted for a rebuild: what was there stays, but for the leaves that
\* were sent on, and the rows spread over what is new.
Regrowing ==
    LET from == Len(disk.treenode)
        g == Len(db.generation)
    IN  /\ \A n \in 1..from : db.treenode[n] = disk.treenode[n]
        /\ Len(disk.rule) <= Len(db.rule)
        /\ \A r \in 1..Len(disk.rule) : db.rule[r] = disk.rule[r]
        /\ Len(disk.leaf_info) <= Len(db.leaf_info)
        /\ \A l \in 1..Len(disk.leaf_info) : db.leaf_info[l] = SentOn(disk.leaf_info[l], g)
        /\ db.generation[g] # 0 => /\ db.generation[g] \in 1..Len(db.treenode)
                                   /\ db.generation[g] > from
                                   /\ db.treenode[db.generation[g]].parent = 0
        /\ \A n \in 1..Len(db.treenode) : n > from => ~Sends(db, n)
        /\ \E under \in [1..Len(db.treenode) -> SUBSET (1..Len(db.instance))] :
              Spread(db, from, job.rows, under, job.pending, job.placed)

Walked == db.instance[Least(job.todo)].x
RoutePart ==
    /\ Shaped(disk) /\ HaveRoutes(disk, Updated(disk))
    /\ pc \in Quiet4 => Shaped(db) /\ HaveRoutes(db, Updated(db))
    /\ Routing => /\ Shaped(db)
                  /\ HaveRoutes(db, Updated(db) \cup (Rows(db, {"new"}) \ job.todo))
                  /\ job.todo # {} /\ job.cur # 0 => Reaches(db, Walked, job.cur)
    /\ pc = "rule_add" => Open(db, Walked, job.cur) = {}
    /\ Growing => /\ TreeShaped(db) /\ RulesFit(db)
                  /\ \A n \in job.pending : n.parent # 0 => KindFits(n.rule)
    /\ Growing /\ ~job.building => Regrowing

-----------------------------------------------------------------------------
(* What an invariant of routes says of predict.                              *)

\* The moves from n do not depend on the order in which they are found.
LEMMA LeadsOnce ==
    ASSUME NEW d \in Database, NEW x, NEW n, NEW s, NEW t, Leads(d, x, n, s), Leads(d, x, n, t)
    PROVE  s = t
  <1>1. PICK m \in Open(d, x, n) :
           /\ \A k \in Open(d, x, n) : m <= k
           /\ s = IF Sends(d, m) THEN d.generation[LeafOf(d, m).go_to] ELSE m
    BY DEF Leads
  <1>2. PICK l \in Open(d, x, n) :
           /\ \A k \in Open(d, x, n) : l <= k
           /\ t = IF Sends(d, l) THEN d.generation[LeafOf(d, l).go_to] ELSE l
    BY DEF Leads
  <1>3. m = l
    <2>1. m \in Nat /\ l \in Nat
      BY Lengths DEF Open
    <2>2. m <= l /\ l <= m
      BY <1>1, <1>2
    <2>. QED  BY <2>1, <2>2
  <1>. QED  BY <1>1, <1>2, <1>3

\* A treenode that x matches a child of leads somewhere.
LEMMA OpenLeads ==
    ASSUME NEW d \in Database, NEW x, NEW n, Open(d, x, n) # {}
    PROVE  /\ Least(Open(d, x, n)) \in Open(d, x, n)
           /\ \A k \in Open(d, x, n) : Least(Open(d, x, n)) <= k
  <1>1. Open(d, x, n) \in SUBSET Nat
    BY Lengths DEF Open
  <1>. QED  BY <1>1, LeastExists

\* The childs by their ids, as the walk has them.
LEMMA ChildsById ==
    ASSUME NEW d \in Database, RefsFit(d), TreeShaped(d), NEW x, NEW n \in 1..Len(d.treenode)
    PROVE  LET S == {k \in Childs(d, n) : Matches(k.rule, x)}
           IN  /\ S = {ChildRow(d, m) : m \in Open(d, x, n)}
               /\ \A m \in Open(d, x, n) :
                    /\ ChildRow(d, m).id = m /\ ChildRow(d, m).leaf_id = d.treenode[m].leaf
                    /\ d.treenode[m].leaf # 0 => ChildRow(d, m).leaf = LeafOf(d, m)
  <1>. DEFINE below == {m \in 1..Len(d.treenode) : d.treenode[m].parent = n}
              S == {k \in Childs(d, n) : Matches(k.rule, x)}
  <1>1. \A m \in below : d.treenode[m].rule \in 1..Len(d.rule)
    <2>1. n # 0
      OBVIOUS
    <2>. QED  BY <2>1 DEF TreeShaped
  <1>2. \A m \in below : d.treenode[m].leaf \in 0..Len(d.leaf_info) /\ Len(d.leaf_info) \in Nat
    BY Lengths DEF RefsFit
  <1>3. \A m \in below : d.treenode[m].leaf # 0 => d.treenode[m].leaf \in 1..Len(d.leaf_info)
    BY <1>2
  <1>4. \A m \in below : /\ ChildRow(d, m).rule = RuleOf(d, m)
                         /\ ChildRow(d, m).id = m /\ ChildRow(d, m).leaf_id = d.treenode[m].leaf
                         /\ d.treenode[m].leaf # 0 => ChildRow(d, m).leaf = LeafOf(d, m)
    BY <1>1, <1>3 DEF ChildRow, RuleOf, LeafOf
  <1>5. Open(d, x, n) = {m \in below : Matches(RuleOf(d, m), x)}
    BY DEF Open
  <1>6. Childs(d, n) = {ChildRow(d, m) : m \in below}
    BY DEF Childs
  <1>. HIDE DEF below
  <1>7. S = {ChildRow(d, m) : m \in Open(d, x, n)}
    BY <1>4, <1>5, <1>6
  <1>. QED  BY <1>4, <1>5, <1>7

\* The first of them is the one with the least id.
LEMMA FirstById ==
    ASSUME NEW d \in Database, RefsFit(d), TreeShaped(d), NEW x, NEW n \in 1..Len(d.treenode),
           NEW S, S = {k \in Childs(d, n) : Matches(k.rule, x)}, S # {}
    PROVE  /\ Open(d, x, n) # {}
           /\ FirstOf(S) = ChildRow(d, Least(Open(d, x, n)))
           /\ FirstOf(S).id = Least(Open(d, x, n))
  <1>. DEFINE O == Open(d, x, n)
              c == FirstOf(S)
  <1>1. /\ S = {ChildRow(d, m) : m \in O}
        /\ \A m \in O : ChildRow(d, m).id = m
    BY ChildsById
  <1>2. O # {} /\ O \in SUBSET Nat
    <2>1. O # {}
      BY <1>1
    <2>2. Len(d.treenode) \in Nat
      BY Lengths
    <2>. QED  BY <2>1, <2>2 DEF Open
  <1>3. Least(O) \in O /\ \A k \in O : Least(O) <= k
    BY <1>2, OpenLeads
  <1>4. \E k \in S : \A j \in S : k.id <= j.id
    <2>1. ChildRow(d, Least(O)) \in S
      BY <1>1, <1>3
    <2>2. \A j \in S : ChildRow(d, Least(O)).id <= j.id
      BY <1>1, <1>3
    <2>. QED  BY <2>1, <2>2
  <1>5. c \in S /\ \A j \in S : c.id <= j.id
    BY <1>4 DEF FirstOf
  <1>. HIDE DEF O, c
  <1>6. PICK m \in O : c = ChildRow(d, m)
    BY <1>1, <1>5
  <1>7. m <= Least(O) /\ Least(O) <= m
    BY <1>1, <1>3, <1>5, <1>6
  <1>8. m = Least(O)
    <2>1. m \in Nat /\ Least(O) \in Nat
      BY <1>2, <1>3
    <2>. QED  BY <1>7, <2>1
  <1>. QED  BY <1>1, <1>2, <1>6, <1>8 DEF c, O

\* One round of the walk of predict, with w for where it ends.
Walks(d, x, w, n) ==
    IF {k \in Childs(d, n) : Matches(k.rule, x)} = {} THEN 0
    ELSE LET k == FirstOf({j \in Childs(d, n) : Matches(j.rule, x)})
         IN  IF k.leaf_id = 0 THEN w[k.id]
             ELSE IF k.leaf.type = "leaf" THEN k.id
             ELSE w[d.generation[k.leaf.go_to]]

\* What it comes to, by the ids.
LEMMA WalksById ==
    ASSUME NEW d \in Database, RefsFit(d), Shaped(d), NEW x, NEW n \in 1..Len(d.treenode), NEW w
    PROVE  /\ Open(d, x, n) = {} => Walks(d, x, w, n) = 0
           /\ \A t : Leads(d, x, n, t) =>
                /\ t \in 1..Len(d.treenode)
                /\ Walks(d, x, w, n) = IF d.treenode[t].leaf # 0 THEN t ELSE w[t]
           /\ Open(d, x, n) # {} => \E t : Leads(d, x, n, t)
  <1>. DEFINE O == Open(d, x, n)
              S == {k \in Childs(d, n) : Matches(k.rule, x)}
              c == FirstOf(S)
              m == Least(O)
  <1>0. TreeShaped(d) /\ JumpsAhead(d)
    BY DEF Shaped
  <1>1. /\ S = {} <=> O = {}
        /\ \A k \in O : /\ ChildRow(d, k).leaf_id = d.treenode[k].leaf
                        /\ d.treenode[k].leaf # 0 => ChildRow(d, k).leaf = LeafOf(d, k)
    BY <1>0, ChildsById
  <1>2. Walks(d, x, w, n) = IF S = {} THEN 0
                            ELSE IF c.leaf_id = 0 THEN w[c.id]
                            ELSE IF c.leaf.type = "leaf" THEN c.id
                            ELSE w[d.generation[c.leaf.go_to]]
    BY DEF Walks
  <1>3. ASSUME O # {} PROVE c = ChildRow(d, m) /\ c.id = m
    BY <1>0, <1>1, <1>3, FirstById
  <1>4. ASSUME O # {} PROVE m \in O /\ \A k \in O : m <= k
    BY <1>4, OpenLeads
  <1>. HIDE DEF O, S, c, m
  <1>5. ASSUME O # {}
        PROVE  \E t : /\ Leads(d, x, n, t) /\ t \in 1..Len(d.treenode)
                      /\ Walks(d, x, w, n) = IF d.treenode[t].leaf # 0 THEN t ELSE w[t]
    <2>1. m \in 1..Len(d.treenode)
      BY <1>4, <1>5 DEF O, Open
    <2>2. /\ c = ChildRow(d, m) /\ c.id = m /\ c.leaf_id = d.treenode[m].leaf
          /\ d.treenode[m].leaf # 0 => c.leaf = LeafOf(d, m)
      BY <1>1, <1>3, <1>4, <1>5
    <2>3. CASE Sends(d, m)
      <3>. DEFINE t == d.generation[LeafOf(d, m).go_to]
      <3>1. Leads(d, x, n, t)
        BY <1>4, <1>5, <2>3 DEF Leads, O
      <3>2. t \in 1..Len(d.treenode) /\ d.treenode[t].leaf = 0
        BY <1>0, <2>1, <2>3 DEF JumpsAhead
      <3>3. Walks(d, x, w, n) = w[t]
        BY <1>1, <1>2, <1>5, <2>2, <2>3 DEF Sends
      <3>. HIDE DEF t
      <3>. QED  BY <3>1, <3>2, <3>3
    <2>4. CASE ~Sends(d, m)
      <3>1. Leads(d, x, n, m)
        BY <1>4, <1>5, <2>4 DEF Leads, O
      <3>2. Walks(d, x, w, n) = IF d.treenode[m].leaf # 0 THEN m ELSE w[m]
        BY <1>1, <1>2, <1>5, <2>2, <2>4 DEF Sends
      <3>. QED  BY <2>1, <3>1, <3>2
    <2>. QED  BY <2>3, <2>4
  <1>6. \A t : Leads(d, x, n, t) => O # {}
    BY DEF Leads, O
  <1>7. \A t : Leads(d, x, n, t) =>
           /\ t \in 1..Len(d.treenode)
           /\ Walks(d, x, w, n) = IF d.treenode[t].leaf # 0 THEN t ELSE w[t]
    BY <1>5, <1>6, LeadsOnce
  <1>8. O = {} => Walks(d, x, w, n) = 0
    BY <1>1, <1>2
  <1>. QED  BY <1>5, <1>7, <1>8 DEF O

LEMMA WalkGoes ==
    ASSUME NEW d \in Database, RefsFit(d), Shaped(d), NEW x, NEW n \in 1..Len(d.treenode), NEW w,
           NEW t, Leads(d, x, n, t)
    PROVE  /\ t \in 1..Len(d.treenode)
           /\ Walks(d, x, w, n) = IF d.treenode[t].leaf # 0 THEN t ELSE w[t]
  BY WalksById

\* The walk from n may end with v: the treenodes V are closed under its moves, and where
\* it stops there it says v.
Stops(d, x, n, v) ==
    \/ Open(d, x, n) = {} /\ v = 0
    \/ Leads(d, x, n, v) /\ d.treenode[v].leaf # 0
Ends(d, x, n, v) ==
    \E V \in SUBSET (1..Len(d.treenode)) :
        /\ n \in V
        /\ \A k \in V : \/ Stops(d, x, k, v)
                        \/ \E t \in V : Leads(d, x, k, t) /\ d.treenode[t].leaf = 0

\* The equations of the walk have a solution, so that the walk is one.
LEMMA WalkExists ==
    ASSUME NEW d \in Database, RefsFit(d), Shaped(d), NEW x
    PROVE  \E f : f = [n \in 1..Len(d.treenode) |-> Walks(d, x, f, n)]
  <1>. DEFINE N == 1..Len(d.treenode)
              Q(n) == {v \in 0..Len(d.treenode) : Ends(d, x, n, v)}
              f == [n \in N |-> CHOOSE v : v \in Q(n)]
  <1>1. \A n \in N : f[n] = CHOOSE v : v \in Q(n)
    OBVIOUS
  <1>2. ASSUME NEW n \in N PROVE Walks(d, x, f, n) = f[n]
    <2>0. /\ Open(d, x, n) = {} => Walks(d, x, f, n) = 0
          /\ \A t : Leads(d, x, n, t) =>
               /\ t \in N
               /\ Walks(d, x, f, n) = IF d.treenode[t].leaf # 0 THEN t ELSE f[t]
          /\ Open(d, x, n) # {} => \E t : Leads(d, x, n, t)
      <3>. DEFINE w == f
      <3>. HIDE DEF f
      <3>1. /\ Open(d, x, n) = {} => Walks(d, x, w, n) = 0
            /\ \A t : Leads(d, x, n, t) =>
                 /\ t \in 1..Len(d.treenode)
                 /\ Walks(d, x, w, n) = IF d.treenode[t].leaf # 0 THEN t ELSE w[t]
            /\ Open(d, x, n) # {} => \E t : Leads(d, x, n, t)
        BY WalksById
      <3>. QED  BY <3>1
    <2>1. ASSUME NEW v \in 0..Len(d.treenode), Stops(d, x, n, v) PROVE Q(n) = {v}
      <3>1. Ends(d, x, n, v)
        <4>1. {n} \in SUBSET (1..Len(d.treenode))
          OBVIOUS
        <4>. QED  BY <2>1, <4>1 DEF Ends
      <3>2. ASSUME NEW u, Ends(d, x, n, u) PROVE u = v
        <4>1. \/ Stops(d, x, n, u)
              \/ \E t : Leads(d, x, n, t) /\ d.treenode[t].leaf = 0
          BY <3>2 DEF Ends
        <4>2. ~(Open(d, x, n) = {} /\ \E t : Leads(d, x, n, t))
          BY DEF Leads
        <4>3. \A s, t : Leads(d, x, n, s) /\ Leads(d, x, n, t) => s = t
          BY LeadsOnce
        <4>. QED  BY <2>1, <4>1, <4>2, <4>3 DEF Stops
      <3>. QED  BY <3>1, <3>2
    <2>2. ASSUME NEW t \in N, Leads(d, x, n, t), d.treenode[t].leaf = 0 PROVE Q(n) = Q(t)
      <3>1. ASSUME NEW v, Ends(d, x, n, v) PROVE Ends(d, x, t, v)
        <4>1. PICK V \in SUBSET (1..Len(d.treenode)) :
                 /\ n \in V
                 /\ \A k \in V : \/ Stops(d, x, k, v)
                                 \/ \E s \in V : Leads(d, x, k, s) /\ d.treenode[s].leaf = 0
          BY <3>1 DEF Ends
        <4>2. ~Stops(d, x, n, v)
          BY <2>2, LeadsOnce DEF Stops, Leads
        <4>3. PICK s \in V : Leads(d, x, n, s)
          BY <4>1, <4>2
        <4>4. s = t
          BY <2>2, <4>3, LeadsOnce
        <4>. QED  BY <4>1, <4>3, <4>4 DEF Ends
      <3>2. ASSUME NEW v, Ends(d, x, t, v) PROVE Ends(d, x, n, v)
        <4>1. PICK V \in SUBSET (1..Len(d.treenode)) :
                 /\ t \in V
                 /\ \A k \in V : \/ Stops(d, x, k, v)
                                 \/ \E s \in V : Leads(d, x, k, s) /\ d.treenode[s].leaf = 0
          BY <3>2 DEF Ends
        <4>. DEFINE W == V \cup {n}
        <4>2. W \in SUBSET (1..Len(d.treenode)) /\ n \in W
          OBVIOUS
        <4>3. \A k \in W : \/ Stops(d, x, k, v)
                           \/ \E s \in W : Leads(d, x, k, s) /\ d.treenode[s].leaf = 0
          BY <2>2, <4>1
        <4>. HIDE DEF W
        <4>. QED  BY <4>2, <4>3 DEF Ends
      <3>. QED  BY <3>1, <3>2
    <2>. HIDE DEF f, Q
    <2>3. CASE Open(d, x, n) = {}
      <3>1. Stops(d, x, n, 0) /\ 0 \in 0..Len(d.treenode)
        BY <2>3, Lengths DEF Stops
      <3>2. Q(n) = {0}
        BY <2>1, <3>1
      <3>. QED  BY <1>1, <2>0, <2>3, <3>2
    <2>4. CASE Open(d, x, n) # {}
      <3>1. PICK t : Leads(d, x, n, t)
        BY <2>0, <2>4
      <3>2. t \in N /\ Walks(d, x, f, n) = IF d.treenode[t].leaf # 0 THEN t ELSE f[t]
        BY <2>0, <3>1
      <3>3. CASE d.treenode[t].leaf # 0
        <4>1. Stops(d, x, n, t) /\ t \in 0..Len(d.treenode)
          BY <3>1, <3>2, <3>3, Lengths DEF Stops
        <4>2. Q(n) = {t}
          BY <2>1, <4>1
        <4>. QED  BY <1>1, <3>2, <3>3, <4>2
      <3>4. CASE d.treenode[t].leaf = 0
        <4>1. Q(n) = Q(t)
          BY <2>2, <3>1, <3>2, <3>4
        <4>. QED  BY <1>1, <3>2, <3>4, <4>1
      <3>. QED  BY <3>3, <3>4
    <2>. QED  BY <2>3, <2>4
  <1>. HIDE DEF Q
  <1>3. f = [n \in N |-> f[n]]
    OBVIOUS
  <1>4. [n \in N |-> f[n]] = [n \in N |-> Walks(d, x, f, n)]
    <2>. HIDE DEF f
    <2>. QED  BY <1>2
  <1>5. f = [n \in 1..Len(d.treenode) |-> Walks(d, x, f, n)]
    BY <1>3, <1>4
  <1>. HIDE DEF f
  <1>. QED  BY <1>5

LEMMA WalkSolves ==
    ASSUME NEW d \in Database, RefsFit(d), Shaped(d), NEW x
    PROVE  \E w : /\ w = [n \in 1..Len(d.treenode) |-> Walks(d, x, w, n)]
                  /\ LandsOn(d, x) = w[d.generation[1]]
  <1>. DEFINE w == CHOOSE w : w = [n \in 1..Len(d.treenode) |-> Walks(d, x, w, n)]
  <1>1. w = [n \in 1..Len(d.treenode) |-> Walks(d, x, w, n)]
    BY WalkExists
  <1>2. LandsOn(d, x) = w[d.generation[1]]
    BY DEF LandsOn, Walks
  <1>. QED  BY <1>1, <1>2

\* A treenode with a leaf leads nowhere.
LEMMA LeafLeadsNowhere ==
    ASSUME NEW d \in Database, TreeShaped(d), NEW x, NEW n, NEW t, Leads(d, x, n, t), n # 0
    PROVE  d.treenode[n].leaf = 0
  BY DEF Leads, Open, TreeShaped

\* A row lands where it has a way to.
LEMMA RouteLands ==
    ASSUME NEW d \in Database, RefsFit(d), Shaped(d), NEW x, NEW r,
           Reaches(d, x, r), r # d.generation[1], d.treenode[r].leaf # 0
    PROVE  LandsOn(d, x) = r
  <1>1. PICK V \in SUBSET (1..Len(d.treenode)) : Route(d, x, V, r)
    BY DEF Reaches
  <1>2. PICK w : /\ w = [n \in 1..Len(d.treenode) |-> Walks(d, x, w, n)]
                 /\ LandsOn(d, x) = w[d.generation[1]]
    BY WalkSolves
  <1>. DEFINE bad == {n \in V : w[n] # r}
              up == {Len(d.treenode) - n : n \in bad}
  <1>3. Len(d.treenode) \in Nat /\ V \subseteq Nat
    BY Lengths
  <1>4. ASSUME NEW n \in bad PROVE \E t \in bad : n < t
    <2>1. n \in V /\ w[n] # r /\ n \in 1..Len(d.treenode)
      OBVIOUS
    <2>2. PICK t \in V \cup {r} : n < t /\ Leads(d, x, n, t)
      BY <1>1, <2>1 DEF Route
    <2>3. w[n] = Walks(d, x, w, n)
      BY <1>2, <2>1
    <2>. HIDE DEF bad
    <2>4. t \in 1..Len(d.treenode) /\ w[n] = IF d.treenode[t].leaf # 0 THEN t ELSE w[t]
      BY <2>1, <2>2, <2>3, WalkGoes
    <2>. USE DEF bad
    <2>5. CASE d.treenode[t].leaf # 0
      <3>1. t \in V
        BY <2>1, <2>2, <2>4, <2>5
      <3>2. PICK s : Leads(d, x, t, s)
        BY <1>1, <3>1 DEF Route
      <3>. QED  BY <1>3, <2>4, <2>5, <3>1, <3>2, LeafLeadsNowhere DEF Shaped
    <2>6. CASE d.treenode[t].leaf = 0
      BY <2>1, <2>2, <2>4, <2>6
    <2>. QED  BY <2>5, <2>6
  <1>5. bad = {}
    <2>1. up \in SUBSET Nat
      BY <1>3
    <2>2. ASSUME bad # {} PROVE FALSE
      <3>1. up # {}
        BY <2>2
      <3>2. Least(up) \in up /\ \A m \in up : Least(up) <= m
        BY <2>1, <3>1, LeastExists
      <3>3. PICK n \in bad : Least(up) = Len(d.treenode) - n
        BY <3>2
      <3>4. PICK t \in bad : n < t
        BY <1>4
      <3>5. Len(d.treenode) - t \in up /\ t \in Nat /\ n \in Nat
        BY <1>3
      <3>6. Len(d.treenode) - n <= Len(d.treenode) - t
        BY <3>2, <3>3, <3>5
      <3>. QED  BY <1>3, <3>4, <3>5, <3>6
    <2>. QED  BY <2>2
  <1>6. d.generation[1] \in V
    BY <1>1 DEF Route
  <1>. QED  BY <1>2, <1>5, <1>6

-----------------------------------------------------------------------------
(* Routes in a tree that has grown.                                          *)

\* What is added comes after what was there, which stays, but for leaves in force.
Extends(d, e) ==
    /\ Len(d.treenode) <= Len(e.treenode)
    /\ \A n \in 1..Len(d.treenode) : e.treenode[n] = d.treenode[n]
    /\ Len(d.rule) <= Len(e.rule)
    /\ \A r \in 1..Len(d.rule) : e.rule[r] = d.rule[r]
    /\ Len(d.generation) <= Len(e.generation)
    /\ \A g \in 1..Len(d.generation) : e.generation[g] = d.generation[g]
    /\ \A l \in 1..Len(d.leaf_info) : d.leaf_info[l].type # "leaf" =>
          e.leaf_info[l].type = d.leaf_info[l].type /\ e.leaf_info[l].go_to = d.leaf_info[l].go_to

LEMMA SendingLeaf ==
    ASSUME NEW d \in Database, RefsFit(d), NEW n \in 1..Len(d.treenode), Sends(d, n)
    PROVE  d.treenode[n].leaf \in 1..Len(d.leaf_info) /\ LeafOf(d, n).type # "leaf"
  <1>1. d.treenode[n].leaf \in 0..Len(d.leaf_info) /\ Len(d.leaf_info) \in Nat
    BY Lengths DEF RefsFit
  <1>. QED  BY <1>1 DEF Sends

\* The same childs are open, and those that are new come after them.
LEMMA OpenGrows ==
    ASSUME NEW d \in Database, NEW e \in Database, TreeShaped(d), Extends(d, e), NEW x,
           NEW n \in 1..Len(d.treenode)
    PROVE  /\ Open(d, x, n) \subseteq Open(e, x, n)
           /\ \A m \in Open(e, x, n) : m \in Open(d, x, n) \/ m > Len(d.treenode)
  <1>1. Len(d.treenode) \in Nat /\ Len(e.treenode) \in Nat /\ n # 0
        /\ Len(d.treenode) <= Len(e.treenode)
    BY Lengths DEF Extends
  <1>2. ASSUME NEW m \in 1..Len(d.treenode), d.treenode[m].parent = n
        PROVE  e.treenode[m] = d.treenode[m] /\ RuleOf(e, m) = RuleOf(d, m)
    <2>1. d.treenode[m].rule \in 1..Len(d.rule)
      BY <1>1, <1>2 DEF TreeShaped
    <2>. QED  BY <2>1 DEF Extends, RuleOf
  <1>3. \A m \in 1..Len(d.treenode) : e.treenode[m].parent = d.treenode[m].parent
    BY DEF Extends
  <1>4. \A m \in 1..Len(e.treenode) : m \in 1..Len(d.treenode) \/ m > Len(d.treenode)
    BY <1>1
  <1>5. 1..Len(d.treenode) \subseteq 1..Len(e.treenode)
    BY <1>1
  <1>. QED  BY <1>2, <1>3, <1>4, <1>5 DEF Open

\* Where n led it leads now, or on from there to the root that a leaf sends on to.
LEMMA LeadsGrows ==
    ASSUME NEW d \in Database, NEW e \in Database, RefsFit(d), TreeShaped(d), JumpsAhead(d),
           Extends(d, e), NEW x, NEW n \in 1..Len(d.treenode), NEW t, Leads(d, x, n, t)
    PROVE  \/ Leads(e, x, n, t)
           \/ /\ Sends(e, t) /\ d.treenode[t].leaf # 0
              /\ Leads(e, x, n, e.generation[LeafOf(e, t).go_to])
  <1>1. PICK m \in Open(d, x, n) :
           /\ \A k \in Open(d, x, n) : m <= k
           /\ t = IF Sends(d, m) THEN d.generation[LeafOf(d, m).go_to] ELSE m
    BY DEF Leads
  <1>2. m \in Open(e, x, n) /\ m \in 1..Len(d.treenode) /\ Len(d.treenode) \in Nat
    BY OpenGrows, Lengths DEF Open
  <1>3. \A k \in Open(e, x, n) : m <= k
    <2>1. \A k \in Open(e, x, n) : k \in Nat /\ (k \in Open(d, x, n) \/ k > Len(d.treenode))
      BY OpenGrows, Lengths DEF Open
    <2>. QED  BY <1>1, <1>2, <2>1
  <1>4. Leads(e, x, n, IF Sends(e, m) THEN e.generation[LeafOf(e, m).go_to] ELSE m)
    BY <1>2, <1>3 DEF Leads
  <1>5. e.treenode[m] = d.treenode[m]
    BY <1>2 DEF Extends
  <1>6. CASE Sends(d, m)
    <2>1. d.treenode[m].leaf \in 1..Len(d.leaf_info) /\ LeafOf(d, m).type # "leaf"
      BY <1>2, <1>6, SendingLeaf
    <2>2. LeafOf(e, m).type = LeafOf(d, m).type /\ LeafOf(e, m).go_to = LeafOf(d, m).go_to
      BY <1>5, <2>1 DEF LeafOf, Extends
    <2>3. Sends(e, m)
      BY <1>5, <1>6, <2>2 DEF Sends
    <2>4. e.generation[LeafOf(d, m).go_to] = d.generation[LeafOf(d, m).go_to]
      BY <1>2, <1>6 DEF JumpsAhead, Extends
    <2>. QED  BY <1>1, <1>4, <1>6, <2>2, <2>3, <2>4
  <1>7. CASE ~Sends(d, m)
    <2>1. t = m
      BY <1>1, <1>7
    <2>2. Sends(e, m) => d.treenode[m].leaf # 0
      BY <1>5 DEF Sends
    <2>. QED  BY <1>4, <2>1, <2>2
  <1>. QED  BY <1>6, <1>7

\* A way to a leaf that does not send on leads there in the grown tree too.
LEMMA ReachesGrows ==
    ASSUME NEW d \in Database, NEW e \in Database, RefsFit(d), TreeShaped(d), JumpsAhead(d),
           Extends(d, e), NEW x, NEW r, Reaches(d, x, r), ~Sends(e, r)
    PROVE  Reaches(e, x, r)
  <1>1. PICK V \in SUBSET (1..Len(d.treenode)) : Route(d, x, V, r)
    BY DEF Reaches
  <1>2. /\ Len(d.treenode) \in Nat /\ Len(e.treenode) \in Nat
        /\ Len(d.treenode) <= Len(e.treenode)
    BY Lengths DEF Extends
  <1>3. V \in SUBSET (1..Len(e.treenode)) /\ r \in 1..Len(e.treenode)
    BY <1>1, <1>2 DEF Route
  <1>4. e.generation # <<>> /\ e.generation[1] = d.generation[1]
    <2>1. d.generation \in Seq(Nat) /\ e.generation \in Seq(Nat) /\ d.generation # <<>>
      BY <1>1 DEF Database, Route
    <2>2. 1 \in 1..Len(d.generation) /\ Len(d.generation) <= Len(e.generation)
      BY <2>1 DEF Extends
    <2>3. Len(e.generation) # 0
      BY <2>1, <2>2
    <2>. QED  BY <2>1, <2>2, <2>3 DEF Extends
  <1>5. ASSUME NEW n \in V PROVE \E t \in V \cup {r} : n < t /\ Leads(e, x, n, t)
    <2>1. PICK t \in V \cup {r} : n < t /\ Leads(d, x, n, t)
      BY <1>1 DEF Route
    <2>2. CASE Leads(e, x, n, t)
      BY <2>1, <2>2
    <2>3. CASE Sends(e, t) /\ d.treenode[t].leaf # 0
      <3>1. t \in V /\ t # 0
        BY <1>2, <2>3
      <3>2. \E s : Leads(d, x, t, s)
        BY <1>1, <3>1 DEF Route
      <3>. QED  BY <2>3, <3>1, <3>2, LeafLeadsNowhere
    <2>. QED  BY <2>1, <2>2, <2>3, LeadsGrows
  <1>6. Route(e, x, V, r)
    BY <1>1, <1>3, <1>4, <1>5 DEF Route
  <1>. QED  BY <1>3, <1>6 DEF Reaches

\* With the siblings of the grown tree alike, those that were there are.
LEMMA AlikeBefore ==
    ASSUME NEW d \in Database, NEW e \in Database, TreeShaped(d), Extends(d, e), SiblingsAlike(e)
    PROVE  SiblingsAlike(d)
  <1>1. 1..Len(d.treenode) \subseteq 1..Len(e.treenode)
    BY Lengths, Positions DEF Extends
  <1>2. \A m \in 1..Len(d.treenode) :
          /\ e.treenode[m] = d.treenode[m]
          /\ d.treenode[m].parent # 0 =>
               e.rule[d.treenode[m].rule] = d.rule[d.treenode[m].rule]
    BY DEF Extends, TreeShaped
  <1>3. SUFFICES ASSUME NEW m \in 1..Len(d.treenode), NEW n \in 1..Len(d.treenode),
                        d.treenode[m].parent = d.treenode[n].parent, d.treenode[m].parent # 0
                 PROVE  d.rule[d.treenode[m].rule].feature = d.rule[d.treenode[n].rule].feature
    BY DEF SiblingsAlike
  <1>4. e.rule[e.treenode[m].rule].feature = e.rule[e.treenode[n].rule].feature
    BY <1>1, <1>2, <1>3 DEF SiblingsAlike
  <1>. QED  BY <1>2, <1>3, <1>4

\* The rows that do not change and whose leaf stays in force keep their way.
LEMMA RoutesGrow ==
    ASSUME NEW d \in Database, NEW e \in Database, RefsFit(d), Shaped(d), Extends(d, e),
           NEW S, HaveRoutes(d, S), NEW T, T \subseteq S,
           \A i \in T : /\ e.instance[i].x = d.instance[i].x
                        /\ e.instance[i].ref = d.instance[i].ref
                        /\ ~Sends(e, e.instance[i].ref)
    PROVE  HaveRoutes(e, T)
  <1>1. SUFFICES ASSUME SiblingsAlike(e), NEW i \in T
                 PROVE  /\ Reaches(e, e.instance[i].x, e.instance[i].ref)
                        /\ e.instance[i].ref # e.generation[1]
    BY DEF HaveRoutes
  <1>2. SiblingsAlike(d)
    BY <1>1, AlikeBefore DEF Shaped
  <1>3. /\ Reaches(d, d.instance[i].x, d.instance[i].ref)
        /\ d.instance[i].ref # d.generation[1]
    BY <1>1, <1>2 DEF HaveRoutes
  <1>4. Reaches(e, e.instance[i].x, e.instance[i].ref)
    BY <1>1, <1>3, ReachesGrows DEF Shaped
  <1>5. e.generation[1] = d.generation[1]
    <2>1. d.generation \in Seq(Nat) /\ d.generation # <<>>
      BY <1>3 DEF Database, Reaches, Route
    <2>2. 1 \in 1..Len(d.generation)
      BY <2>1
    <2>. QED  BY <2>2 DEF Extends
  <1>. QED  BY <1>1, <1>3, <1>4, <1>5

\* A leaf in force does not send on.
LEMMA StaysThere ==
    ASSUME NEW d, NEW i, Referred(d, i), InForce(d, i)
    PROVE  /\ ~Sends(d, d.instance[i].ref) /\ d.treenode[d.instance[i].ref].leaf # 0
           /\ d.instance[i].ref \in 1..Len(d.treenode)
  <1>1. d.instance[i].ref \in 1..Len(d.treenode) /\ LeafId(d, i) \in 1..Len(d.leaf_info)
    BY DEF Referred
  <1>2. d.treenode[d.instance[i].ref].leaf # 0
    BY <1>1 DEF LeafId
  <1>3. d.leaf_info[LeafId(d, i)].type = "leaf"
    BY DEF InForce
  <1>. QED  BY <1>1, <1>2, <1>3 DEF Sends, LeafOf, LeafId

-----------------------------------------------------------------------------
(* Ways that go on.                                                          *)

LEMMA LeadsUp ==
    ASSUME NEW d \in Database, RefsFit(d), Shaped(d), NEW x, NEW n \in 1..Len(d.treenode), NEW t,
           Leads(d, x, n, t)
    PROVE  t \in 1..Len(d.treenode) /\ n < t /\ d.treenode[n].leaf = 0
  <1>1. PICK m \in Open(d, x, n) :
           t = IF Sends(d, m) THEN d.generation[LeafOf(d, m).go_to] ELSE m
    BY DEF Leads
  <1>2. Len(d.treenode) \in Nat /\ TreeShaped(d) /\ JumpsAhead(d)
    BY Lengths DEF Shaped
  <1>3. m \in 1..Len(d.treenode) /\ n < m /\ d.treenode[n].leaf = 0
    BY <1>2 DEF Open, TreeShaped
  <1>4. CASE Sends(d, m)
    <2>1. t \in 1..Len(d.treenode) /\ m < t
      BY <1>1, <1>2, <1>3, <1>4 DEF JumpsAhead
    <2>. QED  BY <1>2, <1>3, <2>1
  <1>5. CASE ~Sends(d, m)
    BY <1>1, <1>3, <1>5
  <1>. QED  BY <1>4, <1>5

LEMMA FirstReached ==
    ASSUME NEW d \in Database, d.generation # <<>>, RootsFit(d), NEW x
    PROVE  Reaches(d, x, d.generation[1])
  <1>1. d.generation[1] \in 1..Len(d.treenode)
    <2>1. d.generation \in Seq(Nat)
      BY DEF Database
    <2>. QED  BY <2>1 DEF RootsFit
  <1>2. Route(d, x, {}, d.generation[1])
    BY <1>1 DEF Route
  <1>. QED  BY <1>2 DEF Reaches

LEMMA GoesOn ==
    ASSUME NEW d \in Database, RefsFit(d), Shaped(d), NEW x, NEW n, Reaches(d, x, n), NEW t,
           Leads(d, x, n, t)
    PROVE  /\ Reaches(d, x, t)
           /\ d.treenode[t].leaf # 0 => t # d.generation[1]
  <1>1. PICK V \in SUBSET (1..Len(d.treenode)) : Route(d, x, V, n)
    BY DEF Reaches
  <1>2. n \in 1..Len(d.treenode) /\ d.generation[1] \in V \cup {n} /\ d.generation # <<>>
    BY <1>1 DEF Route
  <1>3. t \in 1..Len(d.treenode) /\ n < t
    BY <1>2, LeadsUp
  <1>. DEFINE W == V \cup {n}
  <1>4. W \in SUBSET (1..Len(d.treenode))
    BY <1>2
  <1>5. ASSUME NEW k \in W PROVE \E s \in W \cup {t} : k < s /\ Leads(d, x, k, s)
    <2>1. CASE k = n
      BY <1>3, <2>1
    <2>2. CASE k \in V
      BY <1>1, <2>2 DEF Route
    <2>. QED  BY <2>1, <2>2
  <1>6. Route(d, x, W, t)
    BY <1>2, <1>3, <1>5 DEF Route
  <1>7. d.treenode[d.generation[1]].leaf = 0
    <2>1. d.generation[1] \in W
      BY <1>2
    <2>2. PICK s : Leads(d, x, d.generation[1], s)
      BY <1>5, <2>1
    <2>3. d.generation[1] \in 1..Len(d.treenode)
      BY <1>4, <2>1
    <2>. HIDE DEF W
    <2>. QED  BY <2>2, <2>3, LeadsUp
  <1>. HIDE DEF W
  <1>. QED  BY <1>4, <1>6, <1>7 DEF Reaches

-----------------------------------------------------------------------------
(* Steps that leave the tree its shape.                                      *)

\* Only the counters of the leaves may differ.
ShapeSame(d, e) ==
    /\ e.treenode = d.treenode /\ e.rule = d.rule /\ e.generation = d.generation
    /\ Len(e.leaf_info) = Len(d.leaf_info)
    /\ \A l \in 1..Len(d.leaf_info) : /\ e.leaf_info[l].type = d.leaf_info[l].type
                                      /\ e.leaf_info[l].go_to = d.leaf_info[l].go_to

LEMMA ShapeKept ==
    ASSUME NEW d \in Database, NEW e \in Database, RefsFit(d), ShapeSame(d, e)
    PROVE  /\ Extends(d, e)
           /\ Shaped(d) => Shaped(e)
           /\ \A n \in 1..Len(d.treenode) : Sends(e, n) <=> Sends(d, n)
  <1>1. Extends(d, e)
    BY Lengths DEF ShapeSame, Extends
  <1>2. ASSUME NEW n \in 1..Len(d.treenode), d.treenode[n].leaf # 0
        PROVE  LeafOf(e, n).type = LeafOf(d, n).type /\ LeafOf(e, n).go_to = LeafOf(d, n).go_to
    <2>1. d.treenode[n].leaf \in 0..Len(d.leaf_info) /\ Len(d.leaf_info) \in Nat
      BY Lengths DEF RefsFit
    <2>2. d.treenode[n].leaf \in 1..Len(d.leaf_info)
      BY <1>2, <2>1
    <2>. QED  BY <2>2 DEF ShapeSame, LeafOf
  <1>3. \A n \in 1..Len(d.treenode) : Sends(e, n) <=> Sends(d, n)
    BY <1>2 DEF Sends, ShapeSame
  <1>4. ASSUME Shaped(d) PROVE Shaped(e)
    <2>1. TreeShaped(e) /\ RulesFit(e)
      BY <1>4 DEF Shaped, TreeShaped, RulesFit, ShapeSame
    <2>2. JumpsAhead(e)
      <3>1. \A n \in 1..Len(d.treenode) : Sends(d, n) => d.treenode[n].leaf # 0
        BY DEF Sends
      <3>2. \A n \in 1..Len(d.treenode) : Sends(d, n) =>
               /\ LeafOf(d, n).go_to \in 1..Len(d.generation)
               /\ d.generation[LeafOf(d, n).go_to] \in 1..Len(d.treenode)
               /\ n < d.generation[LeafOf(d, n).go_to]
               /\ d.treenode[d.generation[LeafOf(d, n).go_to]].leaf = 0
        BY <1>4 DEF Shaped, JumpsAhead
      <3>3. ASSUME NEW n \in 1..Len(d.treenode), Sends(e, n)
            PROVE  /\ LeafOf(e, n).go_to \in 1..Len(d.generation)
                   /\ d.generation[LeafOf(e, n).go_to] \in 1..Len(d.treenode)
                   /\ n < d.generation[LeafOf(e, n).go_to]
                   /\ d.treenode[d.generation[LeafOf(e, n).go_to]].leaf = 0
        <4>1. Sends(d, n) /\ d.treenode[n].leaf # 0
          BY <1>3, <3>1, <3>3
        <4>2. LeafOf(e, n).go_to = LeafOf(d, n).go_to
          BY <1>2, <4>1
        <4>. QED  BY <3>2, <4>1, <4>2
      <3>4. e.treenode = d.treenode /\ e.generation = d.generation
        BY DEF ShapeSame
      <3>. QED  BY <3>3, <3>4 DEF JumpsAhead
    <2>. QED  BY <2>1, <2>2 DEF Shaped
  <1>. QED  BY <1>1, <1>3, <1>4

LEMMA SameShape ==
    ASSUME NEW d \in Database, NEW e, TreeSame(d, e)
    PROVE  ShapeSame(d, e)
  BY DEF TreeSame, ShapeSame

\* So the rows keep their ways.
LEMMA RoutesKept ==
    ASSUME NEW d \in Database, NEW e \in Database, RefsFit(d), ShapeSame(d, e), Shaped(d),
           NEW S, HaveRoutes(d, S), NEW T, T \subseteq S,
           \A i \in T : /\ e.instance[i].x = d.instance[i].x
                        /\ e.instance[i].ref = d.instance[i].ref
                        /\ Referred(d, i) /\ InForce(d, i)
    PROVE  Shaped(e) /\ HaveRoutes(e, T)
  <1>1. Extends(d, e) /\ Shaped(e)
        /\ \A n \in 1..Len(d.treenode) : Sends(e, n) <=> Sends(d, n)
    BY ShapeKept
  <1>2. \A i \in T : ~Sends(e, e.instance[i].ref)
    BY <1>1, StaysThere
  <1>. QED  BY <1>1, <1>2, RoutesGrow

LEMMA WithoutChunkShape ==
    ASSUME NEW d \in Database, ChunksFit(d), NEW c \in 1..Len(d.chunk)
    PROVE  LET e == WithoutChunk(d, c)
           IN  /\ ShapeSame(d, e) /\ e.instance = d.instance
               /\ Updated(e) \subseteq Updated(d)
  <1>. DEFINE e == WithoutChunk(d, c)
              right == {i \in Met(d, c) : d.instance[i].y = LabelOf(d, i)}
              m(l) == d.leaf_info[l].correct - Cardinality({i \in right : LeafId(d, i) = l})
              n(l) == d.leaf_info[l].total - Cardinality({i \in Met(d, c) : LeafId(d, i) = l})
              leaf(l) == [d.leaf_info[l] EXCEPT !.correct = m(l), !.total = n(l)]
  <1>1. e.leaf_info = [l \in 1..Len(d.leaf_info) |-> leaf(l)]
    BY DEF WithoutChunk, Database
  <1>2. \A l \in 1..Len(d.leaf_info) : d.leaf_info[l] \in LeafInfo
    BY RowTypes
  <1>3. /\ e.generation = d.generation /\ e.treenode = d.treenode
        /\ e.rule = d.rule /\ Len(e.leaf_info) = Len(d.leaf_info)
    BY WithoutChunkTree
  <1>4. RowsDropped(d, e, c)
    BY WithoutChunkRows
  <1>. HIDE DEF m, n, e
  <1>5. \A l \in 1..Len(d.leaf_info) : leaf(l).type = d.leaf_info[l].type
                                       /\ leaf(l).go_to = d.leaf_info[l].go_to
    BY <1>2 DEF LeafInfo
  <1>. HIDE DEF leaf
  <1>6. \A l \in 1..Len(d.leaf_info) : e.leaf_info[l] = leaf(l)
    BY <1>1
  <1>7. ShapeSame(d, e)
    BY <1>3, <1>5, <1>6 DEF ShapeSame
  <1>8. Updated(e) \subseteq Updated(d)
    <2>1. ASSUME NEW i \in Updated(e) PROVE i \in Updated(d)
      <3>1. i \in 1..Len(d.instance) /\ e.chunk[d.instance[i].chunk].state = "updated"
        BY <1>4 DEF Updated, Rows, RowsDropped
      <3>2. d.instance[i].chunk # c
        BY <1>4, <3>1 DEF RowsDropped
      <3>3. d.instance[i].chunk \in 1..Len(d.chunk)
        BY <3>1 DEF ChunksFit
      <3>. QED  BY <1>4, <3>1, <3>2, <3>3 DEF RowsDropped, Updated, Rows
    <2>. QED  BY <2>1
  <1>. QED  BY <1>4, <1>7, <1>8 DEF RowsDropped, e

\* A leaf that gains keeps its type.
LEMMA GainedShape ==
    ASSUME NEW leaf \in LeafInfo, NEW l
    PROVE  Gained(leaf, l).type = leaf.type /\ Gained(leaf, l).go_to = leaf.go_to
  <1>. DEFINE m == leaf.correct + Cardinality({r \in Hits(l) : r.actual = r.predicted})
              n == leaf.total + Cardinality(Hits(l))
  <1>1. Gained(leaf, l) = [leaf EXCEPT !.correct = m, !.total = n]
    BY DEF Gained
  <1>. HIDE DEF m, n
  <1>. QED  BY <1>1 DEF LeafInfo

LEMMA FinishShape ==
    ASSUME db \in Database, UpdateFinish
    PROVE  ShapeSame(db, db')
  <1>1. \A l \in 1..Len(db.leaf_info) : db.leaf_info[l] \in LeafInfo
    BY RowTypes
  <1>. QED  BY <1>1, FinishTree, GainedShape DEF ShapeSame

\* The chunk that is added has no updated rows.
LEMMA AddedUpdated ==
    ASSUME NEW d \in Database, NEW e, NEW b, RowsAdded(d, e, b), ChunksFit(d)
    PROVE  /\ Updated(e) = Updated(d)
           /\ \A i \in Updated(d) : e.instance[i] = d.instance[i]
  <1>. DEFINE len == Len(d.instance)
              c == Len(d.chunk) + 1
  <1>1. /\ \A i \in 1..len : /\ e.instance[i] = d.instance[i]
                             /\ d.instance[i].chunk \in 1..Len(d.chunk)
        /\ \A i \in 1..Len(e.instance) : i \notin 1..len => e.instance[i].chunk = c
        /\ \A k \in 1..Len(d.chunk) : e.chunk[k] = d.chunk[k]
        /\ e.chunk[c].state = "new" /\ 1..len \subseteq 1..Len(e.instance)
    <2>1. len \in Nat /\ Len(b) \in Nat /\ Len(e.instance) = len + Len(b)
      BY Lengths DEF RowsAdded
    <2>. QED  BY <2>1 DEF RowsAdded, ChunksFit
  <1>. HIDE DEF len, c
  <1>2. Updated(e) = Updated(d)
    BY <1>1 DEF Updated, Rows, len
  <1>3. \A i \in Updated(d) : e.instance[i] = d.instance[i]
    BY <1>1 DEF Updated, Rows, len
  <1>. QED  BY <1>2, <1>3

-----------------------------------------------------------------------------
(* Every step preserves the invariant: the steps that leave the tree alone.  *)

LEMMA QuietRoutes ==
    ASSUME RoutePart, UNCHANGED <<disk, db>>,
           \/ pc' = "throw"
           \/ pc \in Quiet4 /\ pc' \in Quiet4
    PROVE  RoutePart'
  BY DEF RoutePart, Quiet4, Growing, Routing

LEMMA BackRoutes ==
    ASSUME RoutePart, db' = disk, disk' = disk, pc' = "idle"
    PROVE  RoutePart'
  BY DEF RoutePart, Growing, Routing

LEMMA EasyRoutes ==
    ASSUME RoutePart,
           \/ LimitDone \/ Fault \/ Commit \/ Unwind \/ Restart \/ RebuildGiveUp
           \/ NoChilds \/ \E x : PredictBegin(x)
    PROVE  RoutePart'
  <1>1. CASE LimitDone \/ Fault \/ \E x : PredictBegin(x)
    BY <1>1, QuietRoutes DEF LimitDone, Fault, PredictBegin, CanBegin, Quiet4
  <1>2. CASE Unwind \/ Restart \/ RebuildGiveUp
    BY <1>2, BackRoutes DEF Unwind, Restart, RebuildGiveUp
  <1>3. CASE NoChilds
    BY <1>3, QuietRoutes DEF NoChilds, Visit
  <1>4. CASE Commit
    BY <1>4 DEF RoutePart, Commit, Quiet4, Growing, Routing
  <1>. QED  BY <1>1, <1>2, <1>3, <1>4

LEMMA InsertRoutes ==
    ASSUME VerdictInv, RoutePart, NEW b \in Batches, Insert(b)
    PROVE  RoutePart'
  <1>1. /\ db' = WithChunk(db, b) /\ pc = "idle" /\ pc' \in {"limit", "commit"}
        /\ UNCHANGED disk /\ db \in Database /\ ChunksFit(db) /\ Verdicts(db) /\ RefsFit(db)
    BY Typed DEF Insert, CanBegin, VerdictInv, VerdictPart, StageVerdicts, CacheInv, TreeInv
  <1>2. db' \in Database
    BY InsertStep DEF VerdictInv, CacheInv, Inductive, TypeOK
  <1>3. RowsAdded(db, db', b) /\ ShapeSame(db, db')
    BY <1>1, WithChunkRows, WithChunkTree, SameShape
  <1>4. Updated(db') = Updated(db) /\ \A i \in Updated(db) : db'.instance[i] = db.instance[i]
    BY <1>1, <1>3, AddedUpdated
  <1>5. /\ Shaped(db) /\ HaveRoutes(db, Updated(db)) /\ Shaped(disk)
        /\ HaveRoutes(disk, Updated(disk))
    BY <1>1 DEF RoutePart, Quiet4
  <1>6. Shaped(db') /\ HaveRoutes(db', Updated(db'))
    BY <1>1, <1>2, <1>3, <1>4, <1>5, RoutesKept DEF Verdicts
  <1>. QED  BY <1>1, <1>5, <1>6 DEF RoutePart, Growing, Routing

LEMMA RemoveOldestRoutes ==
    ASSUME VerdictInv, RoutePart, RemoveOldest
    PROVE  RoutePart'
  <1>1. CASE pc' = "throw" /\ UNCHANGED <<disk, db>>
    BY <1>1, QuietRoutes
  <1>2. CASE db' = WithoutChunk(db, Oldest) /\ UNCHANGED <<pc, disk>>
    <2>1. /\ pc = "limit" /\ db \in Database /\ Verdicts(db) /\ RefsFit(db) /\ ChunksFit(db)
          /\ Shaped(db) /\ HaveRoutes(db, Updated(db)) /\ Shaped(disk)
          /\ HaveRoutes(disk, Updated(disk))
      BY <1>2, Typed DEF RemoveOldest, VerdictInv, VerdictPart, StageVerdicts, RoutePart, Quiet4,
         CacheInv, TreeInv
    <2>2. Oldest \in 1..Len(db.chunk)
      BY <2>1, OldestChunk DEF RemoveOldest, Chunks
    <2>3. db' \in Database
      BY RemoveOldestStep DEF VerdictInv, CacheInv, Inductive, TypeOK
    <2>4. ShapeSame(db, db') /\ db'.instance = db.instance /\ Updated(db') \subseteq Updated(db)
      <3>. DEFINE c == Oldest
      <3>. HIDE DEF c
      <3>1. c \in 1..Len(db.chunk) /\ db' = WithoutChunk(db, c)
        BY <1>2, <2>2 DEF c
      <3>. QED  BY <2>1, <3>1, WithoutChunkShape
    <2>5. Shaped(db') /\ HaveRoutes(db', Updated(db'))
      <3>1. \A i \in Updated(db') : Referred(db, i) /\ InForce(db, i)
        BY <2>1, <2>4 DEF Verdicts
      <3>. QED  BY <2>1, <2>3, <2>4, <3>1, RoutesKept
    <2>. QED  BY <1>2, <2>1, <2>5 DEF RoutePart, Growing, Routing
  <1>. QED  BY <1>1, <1>2 DEF RemoveOldest

LEMMA UpdateFinishRoutes ==
    ASSUME VerdictInv, RoutePart, UpdateFinish
    PROVE  RoutePart'
  <1>1. /\ pc = "route" /\ job.todo = {} /\ pc' = "commit" /\ UNCHANGED disk
        /\ db \in Database /\ ChunksFit(db) /\ RoutedVerdicts /\ RefsFit(db)
    BY Typed DEF UpdateFinish, VerdictInv, VerdictPart, StageVerdicts, CacheInv, TreeInv
  <1>2. db' \in Database
    BY UpdateFinishStep DEF VerdictInv, CacheInv, Inductive, TypeOK
  <1>3. ShapeSame(db, db') /\ db'.instance = db.instance
    BY <1>1, FinishShape, FinishRows
  <1>4. \A i \in Updated(db') : i \in Updated(db) \/ i \in Rows(db, {"new"})
    <2>1. \A c \in 1..Len(db.chunk) :
             db.chunk[c].state # "new" => db'.chunk[c] = db.chunk[c]
      BY <1>1, FinishRows
    <2>. QED  BY <1>1, <1>3, <2>1 DEF Updated, Rows, ChunksFit
  <1>5. /\ Shaped(db) /\ HaveRoutes(db, Updated(db) \cup (Rows(db, {"new"}) \ job.todo))
        /\ Shaped(disk) /\ HaveRoutes(disk, Updated(disk))
    BY <1>1 DEF RoutePart, Routing
  <1>6. \A i \in Updated(db') : Referred(db, i) /\ InForce(db, i)
    BY <1>1, <1>4 DEF RoutedVerdicts
  <1>7. Updated(db') \subseteq Updated(db) \cup (Rows(db, {"new"}) \ job.todo)
    BY <1>1, <1>4
  <1>8. Shaped(db') /\ HaveRoutes(db', Updated(db'))
    BY <1>1, <1>2, <1>3, <1>5, <1>6, <1>7, RoutesKept
  <1>. QED  BY <1>1, <1>5, <1>8 DEF RoutePart, Growing, Routing

-----------------------------------------------------------------------------
(* The walk.                                                                 *)

\* A walk of update stands where its row has a way to, and sees the childs there.
LEMMA WalkStands ==
    ASSUME VerdictInv, RoutePart, Visit, pc = "route"
    PROVE  /\ CacheInv /\ ~failed /\ db \in Database /\ RefsFit(db) /\ Shaped(db)
           /\ job.todo # {} /\ db.generation # <<>>
           /\ Here \in 1..Len(db.treenode) /\ Reaches(db, Walked, Here)
           /\ Matched = {k \in Childs(db, Here) : Matches(k.rule, Walked)}
  <1>1. /\ CacheInv /\ ~failed /\ db \in Database /\ RefsFit(db) /\ RootsFit(db) /\ Shaped(db)
        /\ job.todo # {}
    BY Typed DEF VerdictInv, Reopened, CacheInv, TreeInv, RoutePart, Routing, Visit, Walking
  <1>2. /\ Here \in 1..Len(db.treenode) /\ Seen(Here) = Childs(db, Here)
        /\ db.generation # <<>> /\ FirstRoot = db.generation[1]
    BY <1>1, WalkSees DEF Visit
  <1>3. Reaches(db, Walked, Here)
    <2>1. CASE job.cur # 0
      BY <1>1, <2>1 DEF RoutePart, Routing, Here
    <2>2. CASE job.cur = 0
      BY <1>1, <1>2, <2>2, FirstReached DEF Here
    <2>. QED  BY <2>1, <2>2
  <1>4. Subject = Walked
    BY DEF Subject, Walked
  <1>. QED  BY <1>1, <1>2, <1>3, <1>4 DEF Matched

\* Where the chosen child leads the walk.
Onward == IF Choice.leaf_id # 0 /\ Choice.leaf.type # "leaf"
          THEN db.generation[Choice.leaf.go_to] ELSE Choice.id

LEMMA WalkLeads ==
    ASSUME VerdictInv, RoutePart, Visit, pc = "route", Matched # {}
    PROVE  /\ Choice.id \in 1..Len(db.treenode) /\ Choice.leaf_id = db.treenode[Choice.id].leaf
           /\ Reaches(db, Walked, Onward)
           /\ db.treenode[Onward].leaf # 0 => Onward # db.generation[1]
  <1>. DEFINE n == Here
              x == Walked
              S == {k \in Childs(db, n) : Matches(k.rule, x)}
              m == Least(Open(db, x, n))
  <1>1. /\ db \in Database /\ RefsFit(db) /\ Shaped(db) /\ TreeShaped(db)
        /\ n \in 1..Len(db.treenode) /\ Reaches(db, x, n) /\ Matched = S
    BY WalkStands DEF Shaped
  <1>2. Choice = FirstOf(S) /\ S # {}
    BY <1>1 DEF Choice
  <1>. HIDE DEF n, x
  <1>3. Open(db, x, n) # {} /\ FirstOf(S) = ChildRow(db, m) /\ FirstOf(S).id = m
    BY <1>1, <1>2, FirstById
  <1>4. m \in Open(db, x, n) /\ \A k \in Open(db, x, n) : m <= k
    BY <1>1, <1>3, OpenLeads
  <1>5. /\ ChildRow(db, m).leaf_id = db.treenode[m].leaf
        /\ db.treenode[m].leaf # 0 => ChildRow(db, m).leaf = LeafOf(db, m)
    BY <1>1, <1>4, ChildsById
  <1>. HIDE DEF S, m
  <1>6. Choice.id = m /\ Choice = ChildRow(db, m)
    BY <1>2, <1>3
  <1>7. Onward = IF Sends(db, m) THEN db.generation[LeafOf(db, m).go_to] ELSE m
    BY <1>5, <1>6 DEF Onward, Sends
  <1>8. Leads(db, x, n, Onward)
    BY <1>4, <1>7 DEF Leads
  <1>9. Reaches(db, x, Onward) /\ (db.treenode[Onward].leaf # 0 => Onward # db.generation[1])
    BY <1>1, <1>8, GoesOn
  <1>. QED  BY <1>4, <1>5, <1>6, <1>9 DEF x, Open

LEMMA WalkRoutes ==
    ASSUME VerdictInv, RoutePart, NoMatch \/ StepDown \/ JumpToGeneration
    PROVE  RoutePart'
  <1>1. /\ UNCHANGED <<disk, db>> /\ pc \in {"predict", "route"} /\ Visit
        /\ \/ pc' = "throw"
           \/ pc = "predict" /\ pc' \in Quiet4
           \/ pc = "route" /\ pc' \in {"route", "rule_add"}
    BY DEF NoMatch, StepDown, JumpToGeneration, Visit, Walking, Quiet4
  <1>2. CASE pc' = "throw" \/ pc = "predict"
    BY <1>1, <1>2, QuietRoutes DEF Quiet4
  <1>3. CASE pc = "route" /\ pc' # "throw"
    <2>1. /\ Shaped(disk) /\ HaveRoutes(disk, Updated(disk)) /\ Shaped(db)
          /\ HaveRoutes(db, Updated(db) \cup (Rows(db, {"new"}) \ job.todo))
      BY <1>3 DEF RoutePart, Routing
    <2>2. \E n : job' = [job EXCEPT !.cur = n] /\ Reaches(db, Walked, n)
                 /\ (pc' = "rule_add" => Open(db, Walked, n) = {})
      <3>1. CASE NoMatch
        <4>1. job' = [job EXCEPT !.cur = Here] /\ Matched = {}
          BY <1>3, <3>1 DEF NoMatch
        <4>. DEFINE n == Here
                    x == Walked
                    S == {k \in Childs(db, n) : Matches(k.rule, x)}
        <4>2. /\ db \in Database /\ RefsFit(db) /\ TreeShaped(db) /\ n \in 1..Len(db.treenode)
              /\ Reaches(db, x, n) /\ S = {}
          BY <1>1, <1>3, <4>1, WalkStands DEF Shaped
        <4>. HIDE DEF n, x
        <4>3. S = {ChildRow(db, m) : m \in Open(db, x, n)}
          BY <4>2, ChildsById
        <4>4. Open(db, x, n) = {}
          BY <4>2, <4>3
        <4>. QED  BY <4>1, <4>2, <4>4 DEF n, x
      <3>2. CASE StepDown
        <4>1. /\ job' = [job EXCEPT !.cur = Choice.id] /\ Onward = Choice.id /\ Matched # {}
              /\ pc' = "route"
          BY <1>3, <3>2 DEF StepDown, Onward
        <4>. QED  BY <1>1, <1>3, <4>1, WalkLeads
      <3>3. CASE JumpToGeneration
        <4>1. /\ Matched # {} /\ Onward = db.generation[Choice.leaf.go_to] /\ pc' = "route"
              /\ \E r \in RootsOf(Choice.leaf.go_to) : job' = [job EXCEPT !.cur = r[2]]
          BY <1>1, <1>3, <3>3 DEF JumpToGeneration, Onward
        <4>2. PICK r \in RootsOf(Choice.leaf.go_to) : job' = [job EXCEPT !.cur = r[2]]
          BY <4>1
        <4>3. r[2] = db.generation[Choice.leaf.go_to]
          <5>1. \A q \in roots : q[2] = db.generation[q[1]]
            BY <1>1, <1>3, WalkStands DEF CacheInv, CacheFits, Coherent
          <5>2. \/ r \in roots /\ r[1] = Choice.leaf.go_to
                \/ r = <<Choice.leaf.go_to, db.generation[Choice.leaf.go_to]>>
            BY <4>2 DEF RootsOf
          <5>. QED  BY <5>1, <5>2
        <4>. QED  BY <1>1, <1>3, <4>1, <4>2, <4>3, WalkLeads
      <3>. QED  BY <1>1, <3>1, <3>2, <3>3
    <2>3. PICK n : job' = [job EXCEPT !.cur = n] /\ Reaches(db, Walked, n)
                   /\ (pc' = "rule_add" => Open(db, Walked, n) = {})
      BY <2>2
    <2>4. job'.todo = job.todo /\ job'.cur = n
      BY <2>3, Typed DEF VerdictInv, Job
    <2>5. Walked' = Walked
      BY <1>1, <2>4 DEF Walked
    <2>. QED  BY <1>1, <1>3, <2>1, <2>3, <2>4, <2>5 DEF RoutePart, Routing, Growing, Quiet4
  <1>. QED  BY <1>1, <1>2, <1>3

-----------------------------------------------------------------------------
(* A row is judged.                                                          *)

\* Row i gets treenode n of d, which is db or db with a rule added.
LEMMA JudgedRoutes ==
    ASSUME VerdictInv, RoutePart, pc \in {"route", "rule_add"}, pc' = "route", UNCHANGED disk,
           NEW i \in job.todo, i \in 1..Len(db.instance), job'.todo = job.todo \ {i}, job'.cur = 0,
           NEW d \in Database, RefsFit(d), RowsSame(db, d), TreeLasts(db, d), LeavesLast(db, d),
           Extends(db, d), Shaped(d),
           NEW n \in 1..Len(d.treenode), NEW k, k.id = n,
           SiblingsAlike(d) => Reaches(d, db.instance[i].x, n) /\ n # d.generation[1],
           ~Sends(d, n), db' = Judged(d, i, k), db' \in Database
    PROVE  RoutePart'
  <1>1. /\ db \in Database /\ RefsFit(db) /\ Shaped(db) /\ RoutedVerdicts
        /\ HaveRoutes(db, Updated(db) \cup (Rows(db, {"new"}) \ job.todo))
        /\ Shaped(disk) /\ HaveRoutes(disk, Updated(disk))
    BY Typed DEF VerdictInv, VerdictPart, StageVerdicts, CacheInv, TreeInv, RoutePart, Routing
  <1>2. /\ d.instance = db.instance /\ d.chunk = db.chunk
    BY DEF RowsSame
  <1>3. /\ RowJudged(d, db', i, k) /\ TreeSame(d, db')
        /\ \A j \in 1..Len(db.instance) : db'.instance[j].x = db.instance[j].x
    BY <1>2, JudgedRows, JudgedTree, JudgedKeeps
  <1>4. ShapeSame(d, db') /\ Shaped(db') /\ Extends(d, db')
        /\ \A m \in 1..Len(d.treenode) : Sends(db', m) <=> Sends(d, m)
    BY <1>3, SameShape, ShapeKept
  <1>5. /\ Updated(db') = Updated(db) /\ Rows(db', {"new"}) = Rows(db, {"new"})
        /\ \A j \in 1..Len(db.instance) : j # i => db'.instance[j] = db.instance[j]
        /\ db'.instance[i].ref = n
    <2>1. /\ db'.chunk = db.chunk /\ Len(db'.instance) = Len(db.instance)
          /\ \A j \in 1..Len(db.instance) : /\ j # i => db'.instance[j] = db.instance[j]
                                            /\ db'.instance[j].chunk = db.instance[j].chunk
          /\ db'.instance[i].ref = n
      BY <1>2, <1>3 DEF RowJudged
    <2>2. \A states : Rows(db', states) = Rows(db, states)
      BY <2>1 DEF Rows
    <2>. QED  BY <2>1, <2>2 DEF Updated
  <1>. DEFINE S == Updated(db) \cup (Rows(db, {"new"}) \ job.todo)
              T == Updated(db') \cup (Rows(db', {"new"}) \ job'.todo)
  <1>6. /\ T \subseteq S \cup {i} /\ S \subseteq 1..Len(db.instance) /\ i \notin S
    BY <1>1, <1>5 DEF Updated, Rows, RoutedVerdicts
  <1>7. HaveRoutes(db, S)
    BY <1>1
  <1>8. \A j \in S : Referred(db, j) /\ InForce(db, j)
    BY <1>1 DEF RoutedVerdicts
  <1>. HIDE DEF S, T
  <1>9. HaveRoutes(d, S)
    <2>1. ASSUME NEW j \in S PROVE ~Sends(d, d.instance[j].ref)
      <3>1. Referred(d, j) /\ InForce(d, j)
        BY <1>1, <1>2, <1>8, <2>1, VerdictLasts
      <3>. QED  BY <3>1, StaysThere
    <2>. QED  BY <1>1, <1>2, <1>7, <2>1, RoutesGrow
  <1>10. SiblingsAlike(db') => SiblingsAlike(d)
    <2>1. TreeShaped(d)
      BY DEF Shaped
    <2>. QED  BY <1>4, <2>1, AlikeBefore
  <1>11. ASSUME NEW j \in T, SiblingsAlike(db')
         PROVE  /\ Reaches(db', db'.instance[j].x, db'.instance[j].ref)
                /\ db'.instance[j].ref # db'.generation[1]
    <2>1. \/ j \in S /\ db'.instance[j] = d.instance[j]
          \/ j = i
      BY <1>2, <1>5, <1>6
    <2>2. CASE j \in S /\ db'.instance[j] = d.instance[j]
      <3>1. Reaches(d, d.instance[j].x, d.instance[j].ref) /\ d.instance[j].ref # d.generation[1]
        BY <1>9, <1>10, <1>11, <2>2 DEF HaveRoutes
      <3>2. ~Sends(db', d.instance[j].ref)
        <4>1. Referred(d, j) /\ InForce(d, j)
          BY <1>1, <1>2, <1>8, <2>2, VerdictLasts
        <4>. QED  BY <1>4, <4>1, StaysThere
      <3>. QED  BY <1>3, <1>4, <2>2, <3>1, <3>2, ReachesGrows DEF Shaped, TreeSame
    <2>3. CASE j = i
      <3>1. Reaches(d, db.instance[i].x, n) /\ n # d.generation[1]
        BY <1>10, <1>11
      <3>2. ~Sends(db', n)
        BY <1>4
      <3>3. Reaches(db', db.instance[i].x, n)
        BY <1>4, <3>1, <3>2, ReachesGrows DEF Shaped
      <3>. QED  BY <1>3, <1>5, <2>3, <3>1, <3>3 DEF TreeSame
    <2>. QED  BY <2>1, <2>2, <2>3
  <1>12. HaveRoutes(db', T)
    BY <1>11 DEF HaveRoutes
  <1>. QED  BY <1>1, <1>4, <1>12 DEF RoutePart, Routing, Growing, Quiet4, T

LEMMA CountedCur ==
    ASSUME job \in Job, NEW i, NEW k, NEW added, job' = Counted(i, k, added)
    PROVE  job'.cur = 0
  BY DEF Counted, Job

LEMMA ArriveRoutes ==
    ASSUME VerdictInv, RoutePart, Arrive
    PROVE  RoutePart'
  <1>. DEFINE i == Least(job.todo)
              n == Choice.id
  <1>1. /\ Visit /\ Matched # {} /\ Choice.leaf_id # 0 /\ Choice.leaf.type = "leaf"
        /\ UNCHANGED disk
        /\ \/ pc = "predict" /\ pc' = "idle" /\ UNCHANGED db
           \/ pc = "route" /\ pc' = "route" /\ db' = Judged(db, i, Choice)
                           /\ job' = Counted(i, Choice, FALSE)
    BY DEF Arrive, Visit, Walking
  <1>2. CASE pc = "predict" /\ pc' = "idle" /\ UNCHANGED db
    BY <1>1, <1>2, QuietRoutes DEF Quiet4
  <1>3. CASE pc = "route" /\ pc' = "route" /\ db' = Judged(db, i, Choice)
                         /\ job' = Counted(i, Choice, FALSE)
    <2>1. /\ CacheInv /\ ~failed /\ db \in Database /\ job \in Job /\ RefsFit(db) /\ Shaped(db)
          /\ job.todo # {}
      BY <1>1, <1>3, WalkStands, Typed
    <2>2. i \in job.todo /\ i \in 1..Len(db.instance)
      BY <2>1, TodoLeast DEF CacheInv
    <2>3. /\ n \in 1..Len(db.treenode) /\ Choice.leaf_id = db.treenode[n].leaf
          /\ Reaches(db, Walked, Onward)
          /\ db.treenode[Onward].leaf # 0 => Onward # db.generation[1]
      BY <1>1, <1>3, WalkLeads
    <2>4. Onward = n
      BY <1>1 DEF Onward
    <2>5. Reaches(db, db.instance[i].x, n) /\ n # db.generation[1]
      BY <1>1, <2>3, <2>4 DEF Walked
    <2>6. ~Sends(db, n)
      <3>1. Choice \in Childs(db, Here)
        BY <1>1, <2>1, ChoiceFound
      <3>2. Choice = ChildRow(db, n)
        BY <3>1 DEF Childs, ChildRow
      <3>3. db.treenode[n].leaf \in 1..Len(db.leaf_info)
        <4>1. db.treenode[n].leaf \in 0..Len(db.leaf_info) /\ db.treenode[n].leaf # 0
              /\ Len(db.leaf_info) \in Nat
          BY <1>1, <2>1, <2>3, Lengths DEF RefsFit
        <4>. QED  BY <4>1
      <3>4. ChildRow(db, n).leaf = db.leaf_info[db.treenode[n].leaf]
        BY <3>3 DEF ChildRow
      <3>. QED  BY <1>1, <3>2, <3>4 DEF Sends, LeafOf
    <2>7. db' \in Database
      BY ArriveStep DEF VerdictInv, CacheInv, Inductive, TypeOK
    <2>8. /\ RowsSame(db, db) /\ TreeLasts(db, db) /\ LeavesLast(db, db) /\ Extends(db, db)
      BY <2>1, Lengths DEF RowsSame, TreeLasts, LeavesLast, Extends
    <2>9. job'.todo = job.todo \ {i} /\ job'.cur = 0
      BY <1>3, <2>1, CountedTodo, CountedCur
    <2>. DEFINE k == Choice
    <2>10. k.id = n /\ db' = Judged(db, i, k)
      BY <1>3
    <2>. HIDE DEF n, i, k
    <2>. QED  BY <1>1, <1>3, <2>1, <2>2, <2>3, <2>5, <2>6, <2>7, <2>8, <2>9, <2>10, JudgedRoutes
  <1>. QED  BY <1>1, <1>2, <1>3

-----------------------------------------------------------------------------
(* Training begins.                                                          *)

LEMMA UpdateBeginRoutes ==
    ASSUME VerdictInv, RoutePart, UpdateBegin
    PROVE  RoutePart'
  <1>1. /\ pc = "idle" /\ UNCHANGED disk /\ db \in Database /\ job'.cur = 0
        /\ job'.todo = Rows(db, {"new"})
        /\ Shaped(db) /\ HaveRoutes(db, Updated(db)) /\ Shaped(disk) /\ HaveRoutes(disk, Updated(disk))
    BY Typed DEF UpdateBegin, CanBegin, VerdictInv, RoutePart, Quiet4, NoJob
  <1>2. CASE db.generation # <<>>
    <2>1. db' = db /\ pc' = "route"
      BY <1>2 DEF UpdateBegin
    <2>2. Updated(db') \cup (Rows(db', {"new"}) \ job'.todo) = Updated(db)
      BY <1>1, <2>1
    <2>. QED  BY <1>1, <2>1, <2>2 DEF RoutePart, Quiet4, Growing, Routing
  <1>3. CASE db.generation = <<>>
    <2>1. /\ pc' = "grow" /\ job'.building /\ job'.pending = Root(Rows(db, {"new"}))
      BY <1>3 DEF UpdateBegin, NoJob
    <2>2. db'.treenode = db.treenode /\ db'.rule = db.rule
      BY <1>1, <1>3 DEF UpdateBegin, Database
    <2>3. TreeShaped(db') /\ RulesFit(db')
      BY <1>1, <2>2 DEF Shaped, TreeShaped, RulesFit
    <2>4. \A n \in job'.pending : n.parent = 0
      BY <2>1 DEF Root
    <2>. QED  BY <1>1, <2>1, <2>3, <2>4 DEF RoutePart, Quiet4, Growing, Routing
  <1>. QED  BY <1>2, <1>3

LEMMA RebuildBeginRoutes ==
    ASSUME VerdictInv, RoutePart, RebuildBegin
    PROVE  RoutePart'
  <1>. DEFINE g == Len(db.generation) + 1
              from == Len(disk.treenode)
  <1>1. /\ pc = "idle" /\ UNCHANGED disk /\ db \in Database /\ pc' \in {"throw", "grow"} /\ db = disk
        /\ Shaped(db) /\ Shaped(disk) /\ HaveRoutes(disk, Updated(disk))
    BY Typed DEF RebuildBegin, CanBegin, VerdictInv, RoutePart, Quiet4, CacheInv, TreeInv, Grows
  <1>2. /\ db'.instance = db.instance /\ job'.placed = {} /\ ~job'.building
    BY <1>1, AnnouncedRows DEF RowsSame
  <1>3. /\ db'.treenode = db.treenode /\ db'.rule = db.rule /\ Len(db'.generation) = g
        /\ Len(db'.leaf_info) = Len(db.leaf_info)
        /\ \A l \in 1..Len(db.leaf_info) : db'.leaf_info[l] = SentOn(db.leaf_info[l], g)
    BY <1>1, AnnouncedTree
  <1>4. job'.pending = Root(job'.rows)
    BY DEF RebuildBegin, NoJob
  <1>5. db'.generation[g] = 0
    <2>1. db.generation \in Seq(Nat) /\ db'.generation = Append(db.generation, 0)
      BY <1>1 DEF RebuildBegin, Database
    <2>. QED  BY <2>1
  <1>6. from \in Nat /\ Len(db.rule) \in Nat /\ Len(db.leaf_info) \in Nat
    BY <1>1, Lengths
  <1>7. \A n \in job'.pending : n.parent = 0 /\ n.rows = job'.rows
    BY <1>4 DEF Root
  <1>8. TreeShaped(db') /\ RulesFit(db')
    BY <1>1, <1>3 DEF Shaped, TreeShaped, RulesFit
  <1>. DEFINE under == [n \in 1..from |-> {}]
  <1>9. under \in [1..Len(db'.treenode) -> SUBSET (1..Len(db'.instance))]
    BY <1>1, <1>3
  <1>10. \A n \in 1..Len(db'.treenode) : ~(n > from)
    BY <1>1, <1>3, <1>6
  <1>. HIDE DEF g, from, under
  <1>11. Spread(db', from, job'.rows, under, job'.pending, job'.placed)
    BY <1>7, <1>10 DEF Spread
  <1>12. Regrowing'
    BY <1>1, <1>3, <1>5, <1>6, <1>9, <1>10, <1>11 DEF Regrowing, from
  <1>. QED  BY <1>1, <1>2, <1>7, <1>8, <1>12 DEF RoutePart, Quiet4, Growing, Routing

-----------------------------------------------------------------------------
(* A tree grows.                                                             *)

LEMMA SplitKinds ==
    ASSUME NEW d, NEW S, NEW sp \in Splits(d, S), NEW b \in sp
    PROVE  KindFits(b.rule)
  <1>1. CASE \E f \in Nominal : sp = NominalSplit(d, S, f)
    <2>1. PICK f \in Nominal : sp = NominalSplit(d, S, f)
      BY <1>1
    <2>. QED  BY <2>1 DEF NominalSplit, Branch, KindFits
  <1>2. CASE \E f \in Numeric, i \in S : sp = NumericSplit(d, S, f, d.instance[i].x[f])
    <2>1. PICK f \in Numeric, i \in S : sp = NumericSplit(d, S, f, d.instance[i].x[f])
      BY <1>2
    <2>2. f \notin Nominal
      BY LimitAssumption
    <2>3. b.rule.feature = f /\ b.rule.type # "equ"
      <3>. DEFINE v == d.instance[i].x[f]
      <3>1. \/ b = Branch(d, S, [feature |-> f, type |-> "lte", value |-> v], 0)
            \/ b = Branch(d, S, [feature |-> f, type |-> "gt", value |-> v], 1)
        BY <2>1 DEF NumericSplit
      <3>. HIDE DEF v
      <3>2. ASSUME NEW rule, NEW rank PROVE Branch(d, S, rule, rank).rule = rule
        BY DEF Branch
      <3>3. \/ b.rule = [feature |-> f, type |-> "lte", value |-> v]
            \/ b.rule = [feature |-> f, type |-> "gt", value |-> v]
        BY <3>1, <3>2
      <3>. QED  BY <3>3
    <2>. QED  BY <2>2, <2>3 DEF KindFits
  <1>. QED  BY <1>1, <1>2 DEF Splits, FeatureSplits, Features

\* A new rule is the one of a pending node, and a new pending node has one that fits.
LEMMA RulesGrown ==
    ASSUME db \in Database, job \in Job, GrowLeaf \/ GrowSplit
    PROVE  /\ \A r \in 1..Len(db'.rule) :
                 \/ r \in 1..Len(db.rule) /\ db'.rule[r] = db.rule[r]
                 \/ \E n \in job.pending : n.parent # 0 /\ db'.rule[r] = n.rule
           /\ \A m \in job'.pending : m \in job.pending \/ KindFits(m.rule)
  <1>1. \E n \in job.pending : \E leaves : db' = WithTreenode(db, n, leaves)
    <2>1. CASE GrowLeaf
      BY <2>1 DEF GrowLeaf
    <2>2. CASE GrowSplit
      BY <2>2 DEF GrowSplit
    <2>. QED  BY <2>1, <2>2
  <1>2. PICK n \in job.pending : \E leaves : db' = WithTreenode(db, n, leaves)
    BY <1>1
  <1>3. /\ n.parent = 0 => db'.rule = db.rule
        /\ n.parent # 0 => db'.rule = db.rule \o <<n.rule>>
    <2>1. PICK leaves : db' = WithTreenode(db, n, leaves)
      BY <1>2
    <2>2. db.rule \o <<>> = db.rule
      BY DEF Database
    <2>3. db'.rule = db.rule \o (IF n.parent = 0 THEN <<>> ELSE <<n.rule>>)
      BY <2>1 DEF WithTreenode, Database
    <2>. QED  BY <2>2, <2>3
  <1>4. db.rule \in Seq(Rule) /\ Len(db.rule) \in Nat
    BY DEF Database
  <1>5. \A r \in 1..Len(db'.rule) :
           \/ r \in 1..Len(db.rule) /\ db'.rule[r] = db.rule[r]
           \/ n.parent # 0 /\ db'.rule[r] = n.rule
    <2>1. CASE n.parent = 0
      BY <1>3, <2>1
    <2>2. CASE n.parent # 0
      <3>. DEFINE rule == n.rule
      <3>1. db'.rule = db.rule \o <<rule>>
        BY <1>3, <2>2
      <3>. HIDE DEF rule
      <3>2. \A r \in 1..Len(db'.rule) :
               (r \in 1..Len(db.rule) /\ db'.rule[r] = db.rule[r]) \/ db'.rule[r] = rule
        BY <1>4, <3>1
      <3>. QED  BY <2>2, <3>2 DEF rule
    <2>. QED  BY <2>1, <2>2
  <1>6. \A m \in job'.pending : m \in job.pending \/ KindFits(m.rule)
    <2>1. CASE GrowLeaf
      <3>1. PICK k \in job.pending :
               job' = [job EXCEPT !.pending = @ \ {k},
                                  !.placed = @ \cup (k.rows \X {Len(db.treenode) + 1})]
        BY <2>1 DEF GrowLeaf
      <3>. QED  BY <3>1 DEF Job
    <2>2. CASE GrowSplit
      <3>1. PICK k \in job.pending : \E sp \in Splits(db, k.rows) :
               job' = [job EXCEPT !.pending = (@ \ {k}) \cup
                  {[parent |-> Len(db.treenode) + 1, rule |-> b.rule,
                    rank |-> b.rank, rows |-> b.rows] : b \in sp}]
        BY <2>2 DEF GrowSplit
      <3>2. PICK sp \in Splits(db, k.rows) :
               job' = [job EXCEPT !.pending = (@ \ {k}) \cup
                  {[parent |-> Len(db.treenode) + 1, rule |-> b.rule,
                    rank |-> b.rank, rows |-> b.rows] : b \in sp}]
        BY <3>1
      <3>. DEFINE below(b) == [parent |-> Len(db.treenode) + 1, rule |-> b.rule,
                               rank |-> b.rank, rows |-> b.rows]
                  new == {below(b) : b \in sp}
      <3>3. \A b \in sp : KindFits(below(b).rule)
        BY SplitKinds
      <3>4. job'.pending = (job.pending \ {k}) \cup new
        BY <3>2 DEF Job
      <3>. HIDE DEF below
      <3>. QED  BY <3>3, <3>4
    <2>. QED  BY <2>1, <2>2
  <1>. QED  BY <1>2, <1>5, <1>6

\* A pending node waits below a treenode without a leaf.
LEMMA PendingBelow ==
    ASSUME LeafPart, RoutePart, pc = "grow", NEW n \in job.pending, n.parent # 0
    PROVE  n.parent \in 1..Len(db.treenode) /\ db.treenode[n.parent].leaf = 0
  <1>1. CASE job.building
    <2>1. PICK under \in [1..Len(db.treenode) -> SUBSET (1..Len(db.instance))] : FirstTree(under)
      BY <1>1 DEF LeafPart, Growing, Building
    <2>. QED  BY <2>1 DEF FirstTree, Spread, Inner
  <1>2. CASE ~job.building
    <2>1. PICK under \in [1..Len(db.treenode) -> SUBSET (1..Len(db.instance))] :
             Spread(db, Len(disk.treenode), job.rows, under, job.pending, job.placed)
      BY <1>2 DEF RoutePart, Growing, Regrowing
    <2>. QED  BY <2>1 DEF Spread, Inner
  <1>. QED  BY <1>1, <1>2

LEMMA RegrownShape ==
    ASSUME VerdictInv, LeafPart, RoutePart, pc = "grow", db' \in Database, TreeGrown(db, db'),
           NEW n \in job.pending, InPlace(n)
    PROVE  TreeShaped(db')
  <1>. DEFINE N == Len(db.treenode) + 1
  <1>1. /\ TreeShaped(db) /\ Len(db.treenode) \in Nat /\ Len(db'.treenode) = N
        /\ Len(db.rule) \in Nat /\ Len(db'.rule) \in Nat
    BY Typed, Lengths DEF VerdictInv, RoutePart, Growing, InPlace
  <1>2. /\ \A m \in 1..Len(db.treenode) : db'.treenode[m] = db.treenode[m]
        /\ Len(db.rule) <= Len(db'.rule)
        /\ db'.treenode[N].parent = n.parent
        /\ n.parent # 0 => db'.treenode[N].rule \in 1..Len(db'.rule)
    BY DEF TreeGrown, InPlace
  <1>3. n.parent # 0 => n.parent \in 1..Len(db.treenode) /\ db.treenode[n.parent].leaf = 0
    BY PendingBelow
  <1>4. /\ 1..N = (1..Len(db.treenode)) \cup {N} /\ 1..Len(db.rule) \subseteq 1..Len(db'.rule)
        /\ \A p \in 1..Len(db.treenode) : p \in 1..N /\ p < N
    BY <1>1, <1>2
  <1>. HIDE DEF N
  <1>5. ASSUME NEW m \in 1..N, db'.treenode[m].parent # 0
        PROVE  LET p == db'.treenode[m].parent
               IN  /\ p \in 1..N /\ p < m /\ db'.treenode[p].leaf = 0
                   /\ db'.treenode[m].rule \in 1..Len(db'.rule)
    <2>1. CASE m \in 1..Len(db.treenode)
      <3>1. db'.treenode[m] = db.treenode[m]
        BY <1>2, <2>1
      <3>2. LET p == db.treenode[m].parent
            IN  /\ p \in 1..Len(db.treenode) /\ p < m /\ db.treenode[p].leaf = 0
                /\ db.treenode[m].rule \in 1..Len(db.rule)
        BY <1>1, <1>5, <2>1, <3>1 DEF TreeShaped
      <3>. QED  BY <1>2, <1>4, <3>1, <3>2
    <2>2. CASE m = N
      BY <1>2, <1>3, <1>4, <1>5, <2>2
    <2>. QED  BY <1>4, <2>1, <2>2
  <1>. QED  BY <1>1, <1>5 DEF TreeShaped

\* The old tree stays below the one that grows for a rebuild.
LEMMA RegrowingOn ==
    ASSUME VerdictInv, RoutePart, pc = "grow", ~job.building, UNCHANGED disk, db' \in Database,
           TreeGrown(db, db'), RowsSame(db, db'), Len(db'.generation) = Len(db.generation),
           job'.rows = job.rows, NEW n \in job.pending, InPlace(n), BecameLeaf(n) \/ HandedOn(n)
    PROVE  Regrowing'
  <1>. DEFINE N == Len(db.treenode) + 1
              L == Len(db.leaf_info) + 1
              from == Len(disk.treenode)
              g == Len(db.generation)
  <1>1. /\ db \in Database /\ RefsFit(db) /\ from <= Len(db.treenode) /\ from \in Nat
        /\ Len(db.treenode) \in Nat /\ Len(db.rule) \in Nat /\ Len(db'.rule) \in Nat
        /\ Len(db.leaf_info) \in Nat /\ Len(db'.leaf_info) \in Nat
        /\ Len(disk.rule) \in Nat /\ Len(disk.leaf_info) \in Nat
    BY Typed, Lengths DEF VerdictInv, CacheInv, TreeInv, Grows
  <1>2. /\ Len(db'.treenode) = N /\ \A m \in 1..Len(db.treenode) : db'.treenode[m] = db.treenode[m]
        /\ Len(db.rule) <= Len(db'.rule) /\ \A r \in 1..Len(db.rule) : db'.rule[r] = db.rule[r]
        /\ Len(db.leaf_info) <= Len(db'.leaf_info)
        /\ \A l \in 1..Len(db.leaf_info) : db'.leaf_info[l] = db.leaf_info[l]
    BY DEF TreeGrown, InPlace
  <1>3. Regrowing
    BY DEF RoutePart, Growing
  <1>4. /\ \A m \in 1..from : db.treenode[m] = disk.treenode[m]
        /\ Len(disk.rule) <= Len(db.rule)
        /\ \A r \in 1..Len(disk.rule) : db.rule[r] = disk.rule[r]
        /\ Len(disk.leaf_info) <= Len(db.leaf_info)
        /\ \A l \in 1..Len(disk.leaf_info) : db.leaf_info[l] = SentOn(disk.leaf_info[l], g)
        /\ db.generation[g] # 0 => /\ db.generation[g] \in 1..Len(db.treenode)
                                   /\ db.generation[g] > from
                                   /\ db.treenode[db.generation[g]].parent = 0
        /\ \A m \in 1..Len(db.treenode) : m > from => ~Sends(db, m)
    BY <1>3 DEF Regrowing
  <1>5. PICK under \in [1..Len(db.treenode) -> SUBSET (1..Len(db.instance))] :
           Spread(db, from, job.rows, under, job.pending, job.placed)
    BY <1>3 DEF Regrowing
  <1>6. \E below \in [1..Len(db'.treenode) -> SUBSET (1..Len(db'.instance))] :
           Spread(db', from, job.rows, below, job'.pending, job'.placed)
    <2>. HIDE DEF from
    <2>. QED  BY <1>1, <1>5, SpreadGrown
  <1>7. /\ 1..N = (1..Len(db.treenode)) \cup {N} /\ N > from /\ N \in 1..N
        /\ 1..from \subseteq 1..Len(db.treenode)
        /\ 1..Len(disk.rule) \subseteq 1..Len(db.rule)
        /\ 1..Len(disk.leaf_info) \subseteq 1..Len(db.leaf_info)
        /\ Len(disk.rule) <= Len(db'.rule) /\ Len(disk.leaf_info) <= Len(db'.leaf_info)
    <2>1. /\ Len(disk.rule) <= Len(db.rule) /\ Len(db.rule) <= Len(db'.rule)
          /\ Len(disk.leaf_info) <= Len(db.leaf_info) /\ Len(db.leaf_info) <= Len(db'.leaf_info)
      BY <1>2, <1>4
    <2>2. 1..N = (1..Len(db.treenode)) \cup {N} /\ N > from /\ N \in 1..N
      BY <1>1
    <2>3. Len(disk.rule) <= Len(db'.rule) /\ Len(disk.leaf_info) <= Len(db'.leaf_info)
      BY <1>1, <2>1
    <2>4. /\ 1..from \subseteq 1..Len(db.treenode)
          /\ 1..Len(disk.rule) \subseteq 1..Len(db.rule)
          /\ 1..Len(disk.leaf_info) \subseteq 1..Len(db.leaf_info)
      BY <1>1, <2>1
    <2>. QED  BY <2>2, <2>3, <2>4
  <1>8. db'.generation[g] = (IF n.parent = 0 THEN N ELSE db.generation[g])
        /\ db'.treenode[N].parent = n.parent
    BY DEF InPlace
  <1>9. ~Sends(db', N)
    <2>1. CASE BecameLeaf(n)
      <3>1. db'.treenode[N].leaf = L /\ db'.leaf_info[L] = Leaf(db, n.rows)
        BY <2>1 DEF BecameLeaf
      <3>2. db'.leaf_info[L].type = "leaf"
        BY <3>1 DEF Leaf
      <3>. QED  BY <3>1, <3>2 DEF Sends, LeafOf
    <2>2. CASE HandedOn(n)
      BY <2>2 DEF HandedOn, Sends
    <2>. QED  BY <2>1, <2>2
  <1>10. ASSUME NEW m \in 1..Len(db.treenode), m > from PROVE ~Sends(db', m)
    <2>1. db'.treenode[m] = db.treenode[m] /\ db.treenode[m].leaf \in 0..Len(db.leaf_info)
          /\ ~Sends(db, m)
      BY <1>1, <1>2, <1>4, <1>10 DEF RefsFit
    <2>2. db.treenode[m].leaf # 0 => db.treenode[m].leaf \in 1..Len(db.leaf_info)
      BY <1>1, <2>1
    <2>. QED  BY <1>2, <2>1, <2>2 DEF Sends, LeafOf
  <1>. HIDE DEF N, from, g
  <1>11. db'.generation[g] # 0 => /\ db'.generation[g] \in 1..Len(db'.treenode)
                                  /\ db'.generation[g] > from
                                  /\ db'.treenode[db'.generation[g]].parent = 0
    <2>1. CASE n.parent = 0
      BY <1>2, <1>7, <1>8, <2>1
    <2>2. CASE n.parent # 0
      BY <1>2, <1>4, <1>7, <1>8, <2>2
    <2>. QED  BY <2>1, <2>2
  <1>12. \A m \in 1..Len(db'.treenode) : m > from => ~Sends(db', m)
    BY <1>2, <1>7, <1>9, <1>10
  <1>13. /\ \A m \in 1..from : db'.treenode[m] = disk.treenode[m]
         /\ \A r \in 1..Len(disk.rule) : db'.rule[r] = disk.rule[r]
         /\ \A l \in 1..Len(disk.leaf_info) : db'.leaf_info[l] = SentOn(disk.leaf_info[l], g)
    BY <1>2, <1>4, <1>7
  <1>. QED  BY <1>6, <1>7, <1>11, <1>12, <1>13 DEF Regrowing, from, g

LEMMA GrowRoutes ==
    ASSUME VerdictInv, CounterInv, LeafPart, RoutePart, VerdictInv', LeafPart',
           GrowLeaf \/ GrowSplit
    PROVE  RoutePart'
  <1>1. /\ pc = "grow" /\ pc' = Grown /\ UNCHANGED disk /\ db' \in Database
        /\ TreeGrown(db, db') /\ RowsSame(db, db') /\ Len(db'.generation) = Len(db.generation)
        /\ job'.todo = job.todo /\ job'.rows = job.rows /\ job'.building = job.building
    BY NodeGrown DEF VerdictInv
  <1>2. PICK n \in job.pending : InPlace(n) /\ (BecameLeaf(n) \/ HandedOn(n))
    BY NodeAdded
  <1>3. /\ db \in Database /\ job \in Job /\ TrainedVerdicts
        /\ Shaped(disk) /\ HaveRoutes(disk, Updated(disk)) /\ RulesFit(db)
        /\ \A m \in job.pending : m.parent # 0 => KindFits(m.rule)
    BY <1>1, Typed DEF VerdictInv, VerdictPart, StageVerdicts, RoutePart, Growing
  <1>4. /\ pc' \in {"grow", "route", "judge"} /\ (pc' = "route" => job'.building)
    BY <1>1 DEF Grown
  <1>5. TreeShaped(db')
    BY <1>1, <1>2, RegrownShape
  <1>6. RulesFit(db') /\ \A m \in job'.pending : m.parent # 0 => KindFits(m.rule)
    <2>1. /\ \A r \in 1..Len(db'.rule) :
                \/ r \in 1..Len(db.rule) /\ db'.rule[r] = db.rule[r]
                \/ \E m \in job.pending : m.parent # 0 /\ db'.rule[r] = m.rule
          /\ \A m \in job'.pending : m \in job.pending \/ KindFits(m.rule)
      BY <1>3, RulesGrown
    <2>. QED  BY <1>3, <2>1 DEF RulesFit
  <1>7. ~job'.building => Regrowing'
    BY <1>1, <1>2, RegrowingOn
  <1>8. CASE pc' # "route"
    BY <1>1, <1>3, <1>4, <1>5, <1>6, <1>7, <1>8 DEF RoutePart, Growing, Routing, Quiet4
  <1>9. CASE pc' = "route"
    <2>1. /\ Building /\ Building' /\ job.building
      BY <1>1, <1>4, <1>9 DEF LeafPart, Growing, Routing
    <2>2. JumpsAhead(db')
      <3>1. RefsFit(db') /\ LeafIds(db') = 1..Len(db'.leaf_info) /\ Len(db'.leaf_info) \in Nat
        BY <1>1, <2>1, Lengths DEF VerdictInv, CacheInv, TreeInv, Building
      <3>2. ASSUME NEW m \in 1..Len(db'.treenode) PROVE ~Sends(db', m)
        <4>1. db'.treenode[m].leaf \in 0..Len(db'.leaf_info)
          BY <3>1 DEF RefsFit
        <4>2. db'.treenode[m].leaf = 0 \/ db'.treenode[m].leaf \in LeafIds(db')
          BY <3>1, <4>1
        <4>. QED  BY <4>2 DEF Sends, LeafOf, LeafIds
      <3>. QED  BY <3>2 DEF JumpsAhead
    <2>3. Updated(db') = {} /\ Rows(db', {"new"}) = job'.todo
      <3>1. Updated(db') = Updated(disk) /\ Rows(db', {"new"}) = Rows(db, {"new"})
        BY <1>1, <1>3, SameRows DEF RowsSame, TrainedVerdicts
      <3>2. Rows(db, {"new"}) = job'.todo
        BY <1>1, <1>3, <2>1 DEF TrainedVerdicts
      <3>3. disk.generation = <<>>
        <4>1. Len(db.generation) = 1 /\ Len(db.generation) = Len(disk.generation) + 1
          BY <1>1, <2>1 DEF Building, VerdictInv, CacheInv, TreeInv, TreeInserted
        <4>2. disk.generation \in Seq(Nat)
          BY Typed DEF VerdictInv, Database
        <4>. DEFINE k == Len(disk.generation)
        <4>3. k \in Nat
          BY <4>2
        <4>4. 1 = k + 1
          BY <4>1
        <4>5. k = 0
          <5>. HIDE DEF k
          <5>. QED  BY <4>3, <4>4
        <4>. QED  BY <4>2, <4>5
      <3>4. Len(disk.treenode) = 0
        BY <3>3 DEF LeafPart, Sound
      <3>5. \A i \in Updated(disk) : disk.instance[i].ref \in 1..Len(disk.treenode)
        BY DEF VerdictInv, VerdictPart, Verdicts, Referred
      <3>. QED  BY <3>1, <3>2, <3>4, <3>5
    <2>4. HaveRoutes(db', Updated(db') \cup (Rows(db', {"new"}) \ job'.todo))
      BY <2>3 DEF HaveRoutes
    <2>5. job'.cur = 0
      BY <1>1, <1>2, <2>1 DEF Building, InPlace
    <2>. QED  BY <1>1, <1>3, <1>5, <1>6, <1>9, <2>2, <2>4, <2>5
              DEF RoutePart, Growing, Routing, Quiet4, Shaped
  <1>. QED  BY <1>8, <1>9

-----------------------------------------------------------------------------
(* A rule is added.                                                          *)

\* The rule of the new leaf is the copy, with the value of the row where it compares
\* for equality.
LEMMA WithRuleRule ==
    ASSUME NEW d \in Database, NEW child, child.id \in 1..Len(d.rule), NEW i,
           NEW e, e = WithRule(d, child, i), NEW N, N = Len(d.treenode) + 1
    PROVE  /\ Len(e.treenode) = N /\ e.treenode[N].rule \in 1..Len(e.rule)
           /\ Len(e.rule) = Len(d.rule) + 1 /\ e.treenode[N].rule = Len(e.rule)
           /\ RuleOf(e, N).type = d.rule[child.id].type
           /\ RuleOf(e, N).feature = d.rule[child.id].feature
           /\ d.rule[child.id].type = "equ" =>
                RuleOf(e, N).value = d.instance[i].x[child.rule.feature]
  <1>. DEFINE copy == d.rule[child.id]
              value == d.instance[i].x[child.rule.feature]
              rule == IF copy.type = "equ" THEN [copy EXCEPT !.value = value] ELSE copy
              node == [generation |-> d.treenode[child.id].generation, parent |-> job.cur,
                       rule |-> Len(d.rule) + 1, leaf |-> Len(d.leaf_info) + 1]
  <1>1. e.rule = Append(d.rule, rule) /\ e.treenode = Append(d.treenode, node)
    BY DEF WithRule, CopiedRule, Database
  <1>2. node.rule = Len(d.rule) + 1
    OBVIOUS
  <1>3. copy \in Rule
    BY RowTypes
  <1>. HIDE DEF copy, value
  <1>4. rule.type = copy.type /\ rule.feature = copy.feature
        /\ (copy.type = "equ" => rule.value = value)
    BY <1>3 DEF Rule
  <1>. HIDE DEF rule, node
  <1>5. d.rule \in Seq(Rule) /\ d.treenode \in Seq(Treenode)
    BY DEF Database
  <1>6. /\ Len(e.rule) = Len(d.rule) + 1 /\ e.rule[Len(d.rule) + 1] = rule
        /\ Len(e.rule) \in 1..Len(e.rule)
        /\ Len(e.treenode) = Len(d.treenode) + 1 /\ e.treenode[Len(d.treenode) + 1] = node
    BY <1>1, <1>5
  <1>. QED  BY <1>2, <1>4, <1>6 DEF RuleOf, copy, value

\* One more treenode below one without a leaf keeps the shape.
LEMMA OneMore ==
    ASSUME NEW d \in Database, NEW e \in Database, RefsFit(d), Shaped(d), TreeGrown(d, e),
           e.generation = d.generation, NEW N, N = Len(d.treenode) + 1,
           e.treenode[N].parent \in 1..Len(d.treenode),
           d.treenode[e.treenode[N].parent].leaf = 0,
           e.treenode[N].rule \in 1..Len(e.rule), RulesFit(e), ~Sends(e, N)
    PROVE  Shaped(e) /\ Extends(d, e)
  <1>1. /\ Len(d.treenode) \in Nat /\ Len(e.treenode) = N /\ Len(d.rule) \in Nat
        /\ Len(e.rule) \in Nat /\ Len(d.rule) <= Len(e.rule)
        /\ Len(d.leaf_info) \in Nat /\ Len(d.generation) \in Nat
        /\ \A m \in 1..Len(d.treenode) : e.treenode[m] = d.treenode[m]
        /\ \A r \in 1..Len(d.rule) : e.rule[r] = d.rule[r]
        /\ \A l \in 1..Len(d.leaf_info) : e.leaf_info[l] = d.leaf_info[l]
    BY Lengths DEF TreeGrown
  <1>2. Extends(d, e)
    BY <1>1 DEF Extends
  <1>3. /\ 1..N = (1..Len(d.treenode)) \cup {N} /\ 1..Len(d.rule) \subseteq 1..Len(e.rule)
        /\ \A p \in 1..Len(d.treenode) : p \in 1..N /\ p < N
    <2>1. 1..N = (1..Len(d.treenode)) \cup {N}
      BY <1>1
    <2>2. 1..Len(d.rule) \subseteq 1..Len(e.rule)
      <3>1. Len(d.rule) \in Nat /\ Len(e.rule) \in Nat /\ Len(d.rule) <= Len(e.rule)
        BY <1>1
      <3>. QED  BY ONLY <3>1
    <2>3. \A p \in 1..Len(d.treenode) : p \in 1..N /\ p < N
      <3>1. Len(d.treenode) \in Nat /\ N = Len(d.treenode) + 1
        BY <1>1
      <3>. QED  BY ONLY <3>1
    <2>. QED  BY <2>1, <2>2, <2>3
  <1>4. TreeShaped(e)
    <2>1. ASSUME NEW m \in 1..Len(d.treenode), e.treenode[m].parent # 0
          PROVE  LET p == e.treenode[m].parent
                 IN  /\ p \in 1..N /\ p < m /\ e.treenode[p].leaf = 0
                     /\ e.treenode[m].rule \in 1..Len(e.rule)
      <3>1. e.treenode[m] = d.treenode[m]
        BY <1>1
      <3>2. LET p == d.treenode[m].parent
            IN  /\ p \in 1..Len(d.treenode) /\ p < m /\ d.treenode[p].leaf = 0
                /\ d.treenode[m].rule \in 1..Len(d.rule)
        BY <2>1, <3>1 DEF Shaped, TreeShaped
      <3>3. e.treenode[d.treenode[m].parent] = d.treenode[d.treenode[m].parent]
        BY <1>1, <3>2
      <3>. QED  BY ONLY <1>3, <3>1, <3>2, <3>3
    <2>2. LET p == e.treenode[N].parent
          IN  /\ p \in 1..N /\ p < N /\ e.treenode[p].leaf = 0
              /\ e.treenode[N].rule \in 1..Len(e.rule)
      BY <1>1, <1>3
    <2>3. Len(e.treenode) = N /\ \A m \in 1..N : m \in 1..Len(d.treenode) \/ m = N
      BY <1>1, <1>3
    <2>. QED  BY ONLY <2>1, <2>2, <2>3 DEF TreeShaped
  <1>5. JumpsAhead(e)
    <2>1. ASSUME NEW m \in 1..Len(e.treenode), Sends(e, m)
          PROVE  LET g == LeafOf(e, m).go_to
                 IN  /\ g \in 1..Len(e.generation) /\ e.generation[g] \in 1..Len(e.treenode)
                     /\ m < e.generation[g] /\ e.treenode[e.generation[g]].leaf = 0
      <3>1. m \in 1..Len(d.treenode) /\ e.treenode[m] = d.treenode[m]
        BY <1>1, <1>3, <2>1
      <3>2. d.treenode[m].leaf \in 1..Len(d.leaf_info)
        <4>1. d.treenode[m].leaf \in 0..Len(d.leaf_info) /\ d.treenode[m].leaf # 0
          BY <2>1, <3>1 DEF RefsFit, Sends
        <4>. QED  BY <1>1, <4>1
      <3>3. LeafOf(e, m) = LeafOf(d, m) /\ Sends(d, m)
        BY <1>1, <2>1, <3>1, <3>2 DEF LeafOf, Sends
      <3>4. LET g == LeafOf(d, m).go_to
            IN  /\ g \in 1..Len(d.generation) /\ d.generation[g] \in 1..Len(d.treenode)
                /\ m < d.generation[g] /\ d.treenode[d.generation[g]].leaf = 0
        BY <3>1, <3>3 DEF Shaped, JumpsAhead
      <3>. DEFINE t == d.generation[LeafOf(d, m).go_to]
      <3>5. t \in 1..Len(d.treenode) /\ t \in 1..N /\ e.treenode[t] = d.treenode[t]
        BY <1>1, <1>3, <3>4
      <3>. QED  BY <1>1, <3>3, <3>4, <3>5
    <2>. QED  BY <2>1 DEF JumpsAhead
  <1>. QED  BY <1>2, <1>4, <1>5 DEF Shaped

\* The treenode that the row could not go on from sees its childs, and the first of
\* them has a rule on a nominal feature.
LEMMA RuleCopied ==
    ASSUME VerdictInv, RoutePart, pc = "rule_add",
           NEW child, child = FirstOf(Seen(job.cur)), CanAddRule(child)
    PROVE  /\ child.id \in 1..Len(db.treenode) /\ child.id \in 1..Len(db.rule)
           /\ db.treenode[child.id].parent = job.cur
           /\ job.cur \in 1..Len(db.treenode) /\ db.treenode[job.cur].leaf = 0
           /\ db.treenode[child.id].rule \in 1..Len(db.rule)
           /\ child.rule = RuleOf(db, child.id) /\ child.rule.feature \in Nominal
  <1>1. /\ CacheInv /\ CacheFits /\ Shaped(db) /\ job.cur # 0 /\ db \in Database
    BY Typed DEF VerdictInv, Reopened, CacheInv, CacheFits, RoutePart, Routing
  <1>2. Seen(job.cur) = Childs(db, job.cur)
    <2>. DEFINE here == job.cur
    <2>. HIDE DEF here
    <2>1. \A p, k : k \in Childs(db, p) => k.parent = p
      BY DEF Childs, ChildRow
    <2>2. kids = UNION {Childs(db, p) : p \in known}
      BY <1>1 DEF CacheFits, Coherent
    <2>3. here \in known => {k \in kids : k.parent = here} = Childs(db, here)
      BY <2>1, <2>2
    <2>4. Seen(here) = Childs(db, here)
      BY <2>3 DEF Seen
    <2>. QED  BY <2>4 DEF here
  <1>3. child \in Childs(db, job.cur)
    <2>. DEFINE childs == Seen(job.cur)
    <2>1. childs # {}
      BY <1>1 DEF CacheInv, Inductive, CanCopy
    <2>2. \A k \in childs : k.id \in Nat
      BY SeenTyped DEF ChildRowType, VerdictInv, CacheInv, Inductive
    <2>3. child = FirstOf(childs)
      OBVIOUS
    <2>. HIDE DEF childs
    <2>4. child \in childs
      BY <2>1, <2>2, <2>3, FirstExists
    <2>. QED  BY <1>2, <2>4 DEF childs
  <1>4. PICK q \in 1..Len(db.treenode) : child = ChildRow(db, q) /\ db.treenode[q].parent = job.cur
    BY <1>3 DEF Childs
  <1>5. child.id = q
    BY <1>4 DEF ChildRow
  <1>6. /\ db.treenode[q].rule \in 1..Len(db.rule) /\ job.cur \in 1..Len(db.treenode)
        /\ db.treenode[job.cur].leaf = 0
    BY <1>1, <1>4 DEF Shaped, TreeShaped
  <1>7. child.rule = RuleOf(db, q)
    BY <1>4, <1>6 DEF ChildRow, RuleOf
  <1>8. child.rule.type = "equ" /\ child.id \in 1..Len(db.rule)
    BY DEF CanAddRule, CopiedRule
  <1>9. child.rule.feature \in Nominal
    BY <1>1, <1>6, <1>7, <1>8 DEF Shaped, RulesFit, KindFits, RuleOf
  <1>. QED  BY <1>4, <1>5, <1>6, <1>7, <1>8, <1>9

\* The row reaches the new leaf, as long as the rule was copied from a sibling.
LEMMA NewLeafReached ==
    ASSUME NEW d \in Database, NEW e \in Database, RefsFit(d), RefsFit(e), Shaped(d), Shaped(e),
           Extends(d, e), NEW N, N = Len(d.treenode) + 1, Len(e.treenode) = N,
           NEW p \in 1..Len(d.treenode), d.treenode[p].leaf = 0, e.treenode[N].parent = p,
           e.treenode[N].leaf # 0, ~Sends(e, N),
           NEW x, Reaches(d, x, p), Open(d, x, p) = {}, Matches(RuleOf(e, N), x)
    PROVE  Reaches(e, x, N) /\ N # e.generation[1]
  <1>1. Len(d.treenode) \in Nat /\ N \in 1..N /\ e.treenode[p] = d.treenode[p]
    BY Lengths DEF Extends
  <1>2. Open(e, x, p) = {N}
    <2>1. N \in Open(e, x, p)
      BY <1>1 DEF Open
    <2>2. \A m \in Open(e, x, p) : m > Len(d.treenode)
      BY OpenGrows DEF Shaped
    <2>3. \A m \in Open(e, x, p) : m \in 1..N
      BY DEF Open
    <2>4. \A m \in Open(e, x, p) : m = N
      BY <1>1, <2>2, <2>3
    <2>. QED  BY <2>1, <2>4
  <1>3. Leads(e, x, p, N)
    BY <1>1, <1>2 DEF Leads
  <1>4. ~Sends(e, p)
    BY <1>1 DEF Sends
  <1>5. Reaches(e, x, p)
    BY <1>4, ReachesGrows DEF Shaped
  <1>. QED  BY <1>3, <1>5, GoesOn

LEMMA RuleAddRoutes ==
    ASSUME VerdictInv, RoutePart, RuleAdd
    PROVE  RoutePart'
  <1>. DEFINE i == Least(job.todo)
  <1>1. /\ pc = "rule_add" /\ UNCHANGED disk /\ i \in job.todo /\ i \in 1..Len(db.instance)
        /\ CacheInv /\ db \in Database /\ job \in Job
    BY RuleAdded, Typed DEF VerdictInv
  <1>2. CASE pc' = "throw"
    BY <1>1, <1>2 DEF RoutePart, Quiet4, Growing, Routing
  <1>3. CASE pc' # "throw"
    <2>0. PICK child : \E d \in Database :
                    /\ child = FirstOf(Seen(job.cur)) /\ CanAddRule(child)
                    /\ d = WithRule(db, child, i) /\ pc' = "route"
                    /\ db' = Judged(d, i, ChildRow(d, Len(d.treenode)))
                    /\ job' = Counted(i, ChildRow(d, Len(d.treenode)), TRUE)
      BY <1>1, <1>3, RuleAdded
    <2>1. PICK d \in Database :
                    /\ child = FirstOf(Seen(job.cur)) /\ CanAddRule(child)
                    /\ d = WithRule(db, child, i) /\ pc' = "route"
                    /\ db' = Judged(d, i, ChildRow(d, Len(d.treenode)))
                    /\ job' = Counted(i, ChildRow(d, Len(d.treenode)), TRUE)
      BY <2>0
    <2>. DEFINE x == db.instance[i].x
                cur == job.cur
                N == Len(db.treenode) + 1
                q == child.id
                k == ChildRow(d, Len(d.treenode))
    <2>2. /\ Reaches(db, x, cur) /\ Open(db, x, cur) = {} /\ Shaped(db)
      <3>1. job.todo # {} /\ job.cur # 0 /\ Walked = x
        BY <1>1 DEF VerdictInv, Reopened, CacheInv, CacheFits, Walked
      <3>. QED  BY <1>1, <3>1 DEF RoutePart, Routing
    <2>. HIDE DEF i
    <2>3. /\ RowsSame(db, d) /\ TreeGrown(db, d) /\ d.generation = db.generation
          /\ d.treenode[Len(d.treenode)].parent = cur
      BY <1>1, <2>1, WithRuleRows, WithRuleTree
    <2>4. TreeLasts(db, d) /\ LeavesLast(db, d) /\ RefsFit(db) /\ RefsFit(d)
      BY <1>1, <2>3, GrownLasts, GrownRefs DEF CacheInv, TreeInv
    <2>5. /\ q \in 1..Len(db.treenode) /\ q \in 1..Len(db.rule) /\ db.treenode[q].parent = cur
          /\ cur \in 1..Len(db.treenode) /\ db.treenode[cur].leaf = 0
          /\ db.treenode[q].rule \in 1..Len(db.rule)
          /\ child.rule = RuleOf(db, q) /\ child.rule.feature \in Nominal
      BY <1>1, <2>1, RuleCopied
    <2>6. /\ Len(d.treenode) = N /\ d.treenode[N].rule \in 1..Len(d.rule)
          /\ Len(d.rule) = Len(db.rule) + 1 /\ d.treenode[N].rule = Len(d.rule)
          /\ RuleOf(d, N).type = db.rule[q].type /\ RuleOf(d, N).feature = db.rule[q].feature
          /\ db.rule[q].type = "equ" => RuleOf(d, N).value = x[child.rule.feature]
      <3>1. N = Len(db.treenode) + 1 /\ d = WithRule(db, child, i)
        BY <2>1
      <3>. HIDE DEF N
      <3>2. child.id \in 1..Len(db.rule)
        BY <2>5
      <3>. QED  BY <1>1, <3>1, <3>2, WithRuleRule
    <2>7. d.treenode[N].leaf # 0 /\ ~Sends(d, N)
      <3>. DEFINE L == Len(db.leaf_info) + 1
      <3>1. /\ d.treenode[N].leaf = L
            /\ d.leaf_info[L] = [label |-> db.instance[i].y, type |-> "leaf", go_to |-> 0,
                                 correct |-> 1, total |-> 1]
        BY <1>1, <2>1, WithRuleCounts
      <3>2. L # 0
        BY <1>1, Lengths
      <3>. QED  BY <3>1, <3>2 DEF Sends, LeafOf
    <2>. HIDE DEF N
    <2>8. RulesFit(d)
      <3>1. ASSUME NEW r \in 1..Len(d.rule) PROVE KindFits(d.rule[r])
        <4>1. CASE r = Len(d.rule)
          <5>1. d.rule[r] = RuleOf(d, N)
            BY <2>6, <4>1 DEF RuleOf
          <5>2. KindFits(db.rule[q])
            BY <2>2, <2>5 DEF Shaped, RulesFit
          <5>. QED  BY <2>6, <5>1, <5>2 DEF KindFits
        <4>2. CASE r # Len(d.rule)
          <5>1. r \in 1..Len(db.rule)
            BY <1>1, <2>6, <4>2, Lengths
          <5>. QED  BY <2>2, <2>3, <5>1 DEF Shaped, RulesFit, TreeGrown
        <4>. QED  BY <4>1, <4>2
      <3>. QED  BY <3>1 DEF RulesFit
    <2>9. Shaped(d) /\ Extends(db, d)
      BY <1>1, <2>2, <2>3, <2>4, <2>5, <2>6, <2>7, <2>8, OneMore DEF N
    <2>10. ASSUME SiblingsAlike(d) PROVE Reaches(d, x, N) /\ N # d.generation[1]
      <3>1. db.rule[q].feature = child.rule.feature
        <4>1. /\ q \in 1..N /\ N \in 1..N
              /\ d.treenode[q] = db.treenode[q] /\ d.treenode[N].parent = cur /\ cur # 0
              /\ RuleOf(d, q) = RuleOf(db, q)
          <5>1. Len(db.treenode) \in Nat
            BY <1>1, Lengths
          <5>2. d.treenode[q] = db.treenode[q]
            BY <2>3, <2>5 DEF TreeGrown
          <5>3. d.rule[db.treenode[q].rule] = db.rule[db.treenode[q].rule]
            BY <2>3, <2>5 DEF TreeGrown
          <5>4. q \in 1..N /\ N \in 1..N /\ cur # 0
            BY <2>5, <5>1 DEF N
          <5>5. d.treenode[N].parent = cur
            BY <2>3, <2>6
          <5>. QED  BY <5>2, <5>3, <5>4, <5>5 DEF RuleOf
        <4>2. d.rule[d.treenode[q].rule].feature = d.rule[d.treenode[N].rule].feature
          <5>1. d.treenode[q].parent = cur /\ Len(d.treenode) = N
            BY <2>5, <2>6, <4>1
          <5>. QED  BY <2>10, <4>1, <5>1 DEF SiblingsAlike
        <4>. QED  BY <2>5, <2>6, <4>1, <4>2 DEF RuleOf
      <3>2. db.rule[q].type = "equ"
        BY <2>2, <2>5, <3>1 DEF Shaped, RulesFit, KindFits
      <3>3. Matches(RuleOf(d, N), x)
        BY <2>6, <3>1, <3>2 DEF Matches
      <3>4. Reaches(db, x, cur) /\ Open(db, x, cur) = {} /\ d.treenode[N].parent = cur
            /\ N = Len(db.treenode) + 1 /\ Len(d.treenode) = N
        BY <2>2, <2>3, <2>6 DEF N
      <3>5. db \in Database /\ d \in Database /\ RefsFit(db) /\ RefsFit(d) /\ Shaped(db)
        BY <1>1, <2>2, <2>4
      <3>6. cur \in 1..Len(db.treenode) /\ db.treenode[cur].leaf = 0
        BY <2>5
      <3>. HIDE DEF x, cur
      <3>. QED  BY <2>7, <2>9, <3>3, <3>4, <3>5, <3>6, NewLeafReached
    <2>11. db' \in Database
      BY RuleAddStep DEF VerdictInv, CacheInv, Inductive, TypeOK
    <2>12. job'.todo = job.todo \ {i} /\ job'.cur = 0
      BY <1>1, <2>1, CountedTodo, CountedCur
    <2>13. k.id = N /\ db' = Judged(d, i, k) /\ N \in 1..Len(d.treenode)
      <3>1. N \in 1..N
        BY <1>1, Lengths DEF N
      <3>. QED  BY <2>1, <2>6, <3>1 DEF ChildRow
    <2>. HIDE DEF k
    <2>14. /\ pc \in {"route", "rule_add"} /\ pc' = "route" /\ UNCHANGED disk
           /\ i \in job.todo /\ i \in 1..Len(db.instance)
      BY <1>1, <2>1
    <2>15. d \in Database /\ RefsFit(d) /\ RowsSame(db, d) /\ TreeLasts(db, d) /\ LeavesLast(db, d)
      BY <2>1, <2>3, <2>4
    <2>16. SiblingsAlike(d) => Reaches(d, db.instance[i].x, N) /\ N # d.generation[1]
      BY <2>10
    <2>. HIDE DEF i
    <2>. QED  BY <2>7, <2>9, <2>11, <2>12, <2>13, <2>14, <2>15, <2>16, JudgedRoutes
  <1>. QED  BY <1>2, <1>3

-----------------------------------------------------------------------------
(* A rebuild is kept.                                                        *)

\* A way to a leaf that now sends on goes on to the root of its generation.
LEMMA Rerouted ==
    ASSUME NEW d \in Database, NEW e \in Database, RefsFit(d), TreeShaped(d), JumpsAhead(d),
           JumpsAhead(e), Extends(d, e), NEW x, NEW t, Reaches(d, x, t), t # d.generation[1],
           d.treenode[t].leaf # 0, Sends(e, t),
           NEW root, root = e.generation[LeafOf(e, t).go_to], root > Len(d.treenode)
    PROVE  Reaches(e, x, root)
  <1>1. PICK V \in SUBSET (1..Len(d.treenode)) : Route(d, x, V, t)
    BY DEF Reaches
  <1>2. /\ Len(d.treenode) \in Nat /\ Len(e.treenode) \in Nat
        /\ Len(d.treenode) <= Len(e.treenode)
    BY Lengths DEF Extends
  <1>3. /\ t \in 1..Len(d.treenode) /\ d.generation # <<>> /\ d.generation[1] \in V
    BY <1>1 DEF Route
  <1>4. V \in SUBSET (1..Len(e.treenode)) /\ t \in 1..Len(e.treenode)
    BY <1>2, <1>3
  <1>5. root \in 1..Len(e.treenode)
    BY <1>4 DEF JumpsAhead
  <1>6. e.generation # <<>> /\ e.generation[1] = d.generation[1]
    <2>1. d.generation \in Seq(Nat) /\ e.generation \in Seq(Nat)
      BY DEF Database
    <2>2. 1 \in 1..Len(d.generation) /\ Len(d.generation) <= Len(e.generation)
      BY <1>3, <2>1 DEF Extends
    <2>3. Len(e.generation) # 0
      BY <2>1, <2>2
    <2>. QED  BY <2>1, <2>2, <2>3 DEF Extends
  <1>7. ASSUME NEW n \in 1..Len(d.treenode), NEW m \in Open(e, x, n),
               t = IF Sends(e, m) THEN e.generation[LeafOf(e, m).go_to] ELSE m
        PROVE  FALSE
    <2>1. CASE Sends(e, m)
      <3>1. e.treenode[t].leaf = 0
        BY <1>7, <2>1 DEF JumpsAhead, Open
      <3>. QED  BY <3>1 DEF Sends
    <2>2. CASE ~Sends(e, m)
      BY <1>7, <2>2
    <2>. QED  BY <2>1, <2>2
  <1>8. ASSUME NEW n \in V PROVE \E s \in V \cup {root} : n < s /\ Leads(e, x, n, s)
    <2>1. PICK s \in V \cup {t} : n < s /\ Leads(d, x, n, s)
      BY <1>1 DEF Route
    <2>2. \/ Leads(e, x, n, s)
          \/ /\ Sends(e, s) /\ d.treenode[s].leaf # 0
             /\ Leads(e, x, n, e.generation[LeafOf(e, s).go_to])
      BY <2>1, LeadsGrows
    <2>3. CASE s = t
      <3>1. ~Leads(e, x, n, t)
        BY <1>7 DEF Leads
      <3>2. Leads(e, x, n, root)
        BY <2>2, <2>3, <3>1
      <3>3. n < root
        BY <1>2, <1>5
      <3>. QED  BY <3>2, <3>3
    <2>4. CASE s # t
      <3>1. s \in V
        BY <2>1, <2>4
      <3>2. \E q : Leads(d, x, s, q)
        BY <1>1, <3>1 DEF Route
      <3>3. s # 0
        BY <1>2, <3>1
      <3>4. d.treenode[s].leaf = 0
        BY <3>2, <3>3, LeafLeadsNowhere
      <3>. QED  BY <2>1, <2>2, <3>1, <3>4
    <2>. QED  BY <2>3, <2>4
  <1>9. Route(e, x, V, root)
    BY <1>3, <1>5, <1>6, <1>8 DEF Route
  <1>. QED  BY <1>4, <1>9 DEF Reaches

\* A way to q and one from there to a leaf are a way to the leaf.
LEMMA RouteOn ==
    ASSUME NEW e \in Database, RefsFit(e), Shaped(e), NEW x, NEW q, Reaches(e, x, q),
           NEW W, W \subseteq 1..Len(e.treenode), q \in W, NEW r \in 1..Len(e.treenode),
           e.treenode[r].leaf # 0, \A n \in W : \E s \in W \cup {r} : n < s /\ Leads(e, x, n, s)
    PROVE  Reaches(e, x, r) /\ r # e.generation[1]
  <1>1. PICK V \in SUBSET (1..Len(e.treenode)) : Route(e, x, V, q)
    BY DEF Reaches
  <1>. DEFINE U == V \cup W
  <1>2. U \in SUBSET (1..Len(e.treenode)) /\ e.generation # <<>> /\ e.generation[1] \in U
    BY <1>1 DEF Route
  <1>3. ASSUME NEW n \in U PROVE \E s \in U \cup {r} : n < s /\ Leads(e, x, n, s)
    BY <1>1 DEF Route
  <1>. HIDE DEF U
  <1>4. Route(e, x, U, r)
    BY <1>2, <1>3 DEF Route
  <1>5. e.treenode[e.generation[1]].leaf = 0
    <2>1. PICK s : Leads(e, x, e.generation[1], s)
      BY <1>2, <1>3
    <2>. QED  BY <1>2, <2>1, LeadsUp
  <1>. QED  BY <1>2, <1>4, <1>5 DEF Reaches

NoneSends(d, from) == \A n \in 1..Len(d.treenode) : n > from => ~Sends(d, n)

\* Row i goes on from n to a child that it is under.
GoesDown(d, n, i, under, placed) ==
    \E m \in 1..Len(d.treenode) : /\ n < m /\ i \in under[m]
                                  /\ Leads(d, d.instance[i].x, n, m)
                                  /\ d.treenode[m].leaf # 0 => <<i, m>> \in placed

\* In a tree that has grown, a row under a treenode is under the child it goes on to.
LEMMA SpreadLeads ==
    ASSUME NEW d \in Database, TreeShaped(d), NEW from \in Nat, NEW rows, NEW placed,
           NEW under \in [1..Len(d.treenode) -> SUBSET (1..Len(d.instance))],
           Spread(d, from, rows, under, {}, placed), NoneSends(d, from),
           NEW n \in 1..Len(d.treenode), n > from, d.treenode[n].leaf = 0, NEW i \in under[n]
    PROVE  GoesDown(d, n, i, under, placed)
  <1>. DEFINE x == d.instance[i].x
              m == Least(Open(d, x, n))
  <1>1. n # 0 /\ n \in Nat /\ Len(d.treenode) \in Nat
    BY Lengths
  <1>2. ASSUME NEW k \in 1..Len(d.treenode), d.treenode[k].parent = n
        PROVE  k > from /\ n < k /\ under[k] = RowsUnder(d, n, RuleOf(d, k), under)
    <2>1. n < k
      BY <1>1, <1>2 DEF TreeShaped
    <2>2. k > from
      BY <1>1, <2>1
    <2>. QED  BY <1>1, <1>2, <2>1, <2>2 DEF Spread, RuleOf
  <1>3. \E k \in 1..Len(d.treenode) : d.treenode[k].parent = n /\ i \in under[k]
    BY DEF Spread
  <1>4. PICK k \in 1..Len(d.treenode) : d.treenode[k].parent = n /\ i \in under[k]
    BY <1>3
  <1>5. k \in Open(d, x, n)
    BY <1>2, <1>4 DEF RowsUnder, Open
  <1>6. m \in Open(d, x, n) /\ \A l \in Open(d, x, n) : m <= l
    BY <1>5, OpenLeads
  <1>. HIDE DEF m
  <1>7. m \in 1..Len(d.treenode) /\ d.treenode[m].parent = n /\ Matches(RuleOf(d, m), x)
    BY <1>6 DEF Open
  <1>8. m > from /\ n < m /\ i \in under[m]
    BY <1>2, <1>7 DEF RowsUnder
  <1>9. Leads(d, x, n, m)
    BY <1>6, <1>7, <1>8 DEF Leads, NoneSends
  <1>10. d.treenode[m].leaf # 0 => <<i, m>> \in placed
    BY <1>7, <1>8 DEF Spread
  <1>. QED  BY <1>7, <1>8, <1>9, <1>10 DEF GoesDown, x

LEMMA SentOnLeaf ==
    ASSUME NEW leaf \in LeafInfo, NEW g
    PROVE  /\ leaf.type # "leaf" => SentOn(leaf, g) = leaf
           /\ leaf.type = "leaf" /\ SentOn(leaf, g).type # "leaf" => SentOn(leaf, g).go_to = g
  BY DEF SentOn, IsWeak, LeafInfo

\* Before a rebuild is kept its tree has the shape, above what was committed.
LEMMA JudgeShape ==
    ASSUME VerdictInv, CounterInv, LeafPart, RoutePart, pc = "judge", Improves
    PROVE  /\ Extends(disk, db) /\ Shaped(db)
           /\ \E root \in 1..Len(db.treenode) :
                 /\ root > Len(disk.treenode)
                 /\ db.treenode[root].parent = 0 /\ db.treenode[root].leaf = 0
                 /\ \A n \in 1..Len(disk.treenode) :
                       Sends(db, n) /\ ~Sends(disk, n) => db.generation[LeafOf(db, n).go_to] = root
  <1>. DEFINE g == Len(db.generation)
              root == db.generation[g]
              from == Len(disk.treenode)
  <1>1. /\ db \in Database /\ disk \in Database /\ RefsFit(disk) /\ RefsFit(db) /\ Grows
        /\ RootsFit(db) /\ g = Len(disk.generation) + 1
        /\ from \in Nat /\ Len(db.treenode) \in Nat /\ Len(disk.generation) \in Nat
        /\ Len(disk.leaf_info) \in Nat
    BY Typed, Lengths DEF VerdictInv, CacheInv, TreeInv, CounterInv
  <1>2. Regrowing
    BY DEF LeafPart, Growing, Building, RoutePart
  <1>3. /\ \A m \in 1..from : db.treenode[m] = disk.treenode[m]
        /\ Len(disk.rule) <= Len(db.rule)
        /\ \A r \in 1..Len(disk.rule) : db.rule[r] = disk.rule[r]
        /\ \A l \in 1..Len(disk.leaf_info) : db.leaf_info[l] = SentOn(disk.leaf_info[l], g)
        /\ db.generation[g] # 0 => /\ db.generation[g] > from
                                   /\ db.treenode[db.generation[g]].parent = 0
        /\ \A m \in 1..Len(db.treenode) : m > from => ~Sends(db, m)
    BY <1>2 DEF Regrowing
  <1>4. /\ g \in 1..Len(db.generation) /\ root \in 1..Len(db.treenode) /\ root # 0
    <2>1. g \in 1..g
      BY <1>1
    <2>. QED  BY <1>1, <2>1 DEF RootsFit
  <1>5. root > from /\ db.treenode[root].parent = 0 /\ db.treenode[root].leaf = 0
    BY <1>3, <1>4 DEF Improves
  <1>. HIDE DEF g, root, from
  <1>6. \A l \in 1..Len(disk.leaf_info) :
           /\ disk.leaf_info[l].type # "leaf" => db.leaf_info[l] = disk.leaf_info[l]
           /\ disk.leaf_info[l].type = "leaf" /\ db.leaf_info[l].type # "leaf" =>
                db.leaf_info[l].go_to = g
    BY <1>1, <1>3, RowTypes, SentOnLeaf
  <1>7. Extends(disk, db)
    BY <1>1, <1>3, <1>6 DEF Extends, Grows, from
  <1>8. \A n \in 1..from : disk.treenode[n].leaf # 0 =>
           disk.treenode[n].leaf \in 1..Len(disk.leaf_info)
    <2>1. \A n \in 1..from : disk.treenode[n].leaf \in 0..Len(disk.leaf_info)
      BY <1>1 DEF RefsFit, from
    <2>. QED  BY <1>1, <2>1
  <1>9. ASSUME NEW n \in 1..from, Sends(db, n)
        PROVE  /\ ~Sends(disk, n) => LeafOf(db, n).go_to = g
               /\ Sends(disk, n) => LeafOf(db, n).go_to = LeafOf(disk, n).go_to
    BY <1>3, <1>6, <1>8, <1>9 DEF Sends, LeafOf
  <1>10. JumpsAhead(db)
    <2>1. ASSUME NEW n \in 1..Len(db.treenode), Sends(db, n)
          PROVE  LET h == LeafOf(db, n).go_to
                 IN  /\ h \in 1..Len(db.generation) /\ db.generation[h] \in 1..Len(db.treenode)
                     /\ n < db.generation[h] /\ db.treenode[db.generation[h]].leaf = 0
      <3>. DEFINE h == LeafOf(db, n).go_to
      <3>1. n \in 1..from
        BY <1>1, <1>3, <2>1
      <3>2. CASE Sends(disk, n)
        <4>1. h = LeafOf(disk, n).go_to
          BY <1>9, <2>1, <3>1, <3>2
        <4>2. LET k == LeafOf(disk, n).go_to
              IN  /\ k \in 1..Len(disk.generation) /\ disk.generation[k] \in 1..from
                  /\ n < disk.generation[k] /\ disk.treenode[disk.generation[k]].leaf = 0
          BY <3>1, <3>2 DEF RoutePart, Shaped, JumpsAhead, from
        <4>. HIDE DEF h
        <4>3. h \in 1..Len(disk.generation) /\ disk.generation[h] \in 1..from
              /\ n < disk.generation[h] /\ disk.treenode[disk.generation[h]].leaf = 0
          BY <4>1, <4>2
        <4>4. db.generation[h] = disk.generation[h] /\ h \in 1..Len(db.generation)
          BY <1>1, <4>3, Lengths, Positions DEF Grows
        <4>5. disk.generation[h] \in 1..Len(db.treenode)
          BY <1>1, <4>3 DEF Grows, from
        <4>. QED  BY <1>3, <4>3, <4>4, <4>5 DEF h
      <3>3. CASE ~Sends(disk, n)
        <4>1. h = g
          BY <1>9, <2>1, <3>1, <3>3
        <4>2. n < root
          BY <1>1, <1>4, <1>5, <3>1
        <4>. QED  BY <1>4, <1>5, <4>1, <4>2 DEF root
      <3>. QED  BY <3>2, <3>3
    <2>. QED  BY <2>1 DEF JumpsAhead
  <1>11. Shaped(db)
    BY <1>10 DEF Shaped, RoutePart, Growing
  <1>12. \A n \in 1..from : Sends(db, n) /\ ~Sends(disk, n) =>
            db.generation[LeafOf(db, n).go_to] = root
    BY <1>9 DEF root
  <1>. QED  BY <1>4, <1>5, <1>7, <1>11, <1>12 DEF from

\* A row that has a new leaf has a way to it: the way to its old leaf, and on from there.
LEMMA RebuiltReached ==
    ASSUME VerdictInv, CounterInv, LeafPart, RoutePart, pc = "judge", Improves,
           SiblingsAlike(disk), NEW i \in job.rows
    PROVE  /\ Reaches(db, db.instance[i].x, NewRef(i)) /\ NewRef(i) # db.generation[1]
           /\ ~Sends(db, NewRef(i))
  <1>. DEFINE x == db.instance[i].x
              t == db.instance[i].ref
              r == NewRef(i)
              from == Len(disk.treenode)
  <1>1. /\ db \in Database /\ disk \in Database /\ RefsFit(disk) /\ RefsFit(db) /\ TrainedVerdicts
        /\ CacheInv /\ Verdicts(disk) /\ Shaped(disk) /\ HaveRoutes(disk, Updated(disk))
        /\ from \in Nat /\ ~job.building /\ job.pending = {}
    BY Typed, Lengths DEF VerdictInv, VerdictPart, StageVerdicts, CacheInv, TreeInv, Inductive,
       NoRowLost, RoutePart, LeafPart, Growing, Building
  <1>2. Extends(disk, db) /\ Shaped(db)
    BY JudgeShape
  <1>3. PICK root \in 1..Len(db.treenode) :
                 /\ root > Len(disk.treenode)
                 /\ db.treenode[root].parent = 0 /\ db.treenode[root].leaf = 0
                 /\ \A n \in 1..Len(disk.treenode) :
                       Sends(db, n) /\ ~Sends(disk, n) => db.generation[LeafOf(db, n).go_to] = root
    BY JudgeShape
  <1>4. db.instance = disk.instance /\ db.chunk = disk.chunk /\ i \in Updated(disk)
    <2>1. Updated(disk) = Updated(db)
      BY <1>1 DEF TrainedVerdicts, Updated, Rows
    <2>. QED  BY <1>1, <2>1 DEF TrainedVerdicts
  <1>5. Reaches(disk, x, t) /\ t # disk.generation[1]
    BY <1>1, <1>4 DEF HaveRoutes
  <1>6. /\ t \in 1..from /\ ~Sends(disk, t) /\ disk.treenode[t].leaf # 0
    BY <1>1, <1>4, StaysThere DEF Verdicts
  <1>7. Sends(db, t)
    <2>1. db.treenode[t] = disk.treenode[t]
      BY <1>2, <1>6 DEF Extends
    <2>2. db.leaf_info[LeafId(db, i)].type # "leaf"
      BY DEF LeafPart, Growing
    <2>. QED  BY <1>6, <2>1, <2>2 DEF Sends, LeafOf, LeafId
  <1>8. Reaches(db, x, root)
    <2>1. root = db.generation[LeafOf(db, t).go_to]
      BY <1>3, <1>6, <1>7
    <2>. HIDE DEF x, t
    <2>. QED  BY <1>1, <1>2, <1>3, <1>5, <1>6, <1>7, <2>1, Rerouted DEF Shaped
  <1>9. PICK under \in [1..Len(db.treenode) -> SUBSET (1..Len(db.instance))] :
           Spread(db, from, job.rows, under, {}, job.placed)
    BY <1>1 DEF RoutePart, Growing, Regrowing
  <1>10. \A n \in 1..Len(db.treenode) : n > from => ~Sends(db, n)
    BY <1>1 DEF RoutePart, Growing, Regrowing
  <1>11. \A n : <<i, n>> \in job.placed => n = r
    <2>1. <<i, r>> \in job.placed
      BY <1>1, RowPlaced
    <2>2. \A p, q \in job.placed : p[1] = q[1] => p = q
      BY DEF LeafPart, Growing, OnePlace
    <2>. HIDE DEF r
    <2>3. ASSUME NEW n, <<i, n>> \in job.placed PROVE n = r
      <3>1. <<i, n>> = <<i, r>>
        BY <2>1, <2>2, <2>3
      <3>. QED  BY <3>1
    <2>. QED  BY <2>3
  <1>12. /\ r \in 1..Len(db.treenode) /\ db.treenode[r].leaf # 0 /\ ~Sends(db, r)
    <2>1. <<i, r>> \in job.placed /\ r \in 1..Len(db.treenode)
      BY <1>1, RowPlaced
    <2>. HIDE DEF r
    <2>2. db.treenode[r].leaf \in 1..Len(db.leaf_info)
          /\ db.leaf_info[db.treenode[r].leaf].type = "leaf"
      BY <1>1, <2>1 DEF TrainedVerdicts
    <2>. QED  BY <2>1, <2>2 DEF Sends, LeafOf
  <1>. DEFINE W == {n \in 1..Len(db.treenode) : n > from /\ db.treenode[n].leaf = 0 /\ i \in under[n]}
  <1>13. root \in W
    <2>1. under[root] = job.rows
      BY <1>3, <1>9 DEF Spread
    <2>. QED  BY <1>3, <2>1
  <1>14. ASSUME NEW n \in W PROVE \E s \in W \cup {r} : n < s /\ Leads(db, x, n, s)
    <2>1. n \in 1..Len(db.treenode) /\ n > from /\ db.treenode[n].leaf = 0 /\ i \in under[n]
      OBVIOUS
    <2>. HIDE DEF W, r, from
    <2>0. TreeShaped(db)
      BY <1>2 DEF Shaped
    <2>. DEFINE rows == job.rows
                placed == job.placed
    <2>5. Spread(db, from, rows, under, {}, placed) /\ from \in Nat
      BY <1>1, <1>9 DEF from
    <2>6. NoneSends(db, from)
      BY <1>10 DEF NoneSends
    <2>. HIDE DEF rows, placed, from
    <2>8. db \in Database
      BY <1>1
    <2>7. GoesDown(db, n, i, under, placed)
      BY ONLY <2>0, <2>1, <2>5, <2>6, <2>8, <1>9, SpreadLeads
    <2>2. PICK m \in 1..Len(db.treenode) : /\ n < m /\ i \in under[m]
                                           /\ Leads(db, x, n, m)
                                           /\ db.treenode[m].leaf # 0 => <<i, m>> \in job.placed
      BY <2>7 DEF GoesDown, placed
    <2>3. CASE db.treenode[m].leaf = 0
      <3>1. m > from
        BY <1>1, <2>1, <2>2
      <3>. QED  BY <2>2, <2>3, <3>1 DEF W
    <2>4. CASE db.treenode[m].leaf # 0
      BY <1>11, <2>2, <2>4
    <2>. QED  BY <2>3, <2>4
  <1>15. W \subseteq 1..Len(db.treenode)
    OBVIOUS
  <1>. HIDE DEF W, r, x
  <1>16. Reaches(db, x, r) /\ r # db.generation[1]
    BY <1>1, <1>2, <1>8, <1>12, <1>13, <1>14, <1>15, RouteOn
  <1>. QED  BY <1>12, <1>16 DEF r, x

\* The rows of a rebuild have their ways in the new generation, the others keep theirs.
LEMMA RebuildInstallRoutes ==
    ASSUME VerdictInv, CounterInv, LeafPart, RoutePart, RebuildInstall
    PROVE  RoutePart'
  <1>1. /\ pc = "judge" /\ Improves /\ pc' = "commit" /\ UNCHANGED disk
        /\ db \in Database /\ disk \in Database /\ TrainedVerdicts /\ RefsFit(db) /\ RefsFit(disk)
        /\ Verdicts(disk) /\ Shaped(disk) /\ HaveRoutes(disk, Updated(disk))
        /\ job.rows \subseteq 1..Len(db.instance)
    BY Typed DEF RebuildInstall, VerdictInv, VerdictPart, StageVerdicts, CacheInv, TreeInv,
       Inductive, JobFits, RoutePart
  <1>2. db' \in Database
    BY RebuildInstallStep DEF VerdictInv, CacheInv, Inductive, TypeOK
  <1>3. /\ Len(db'.instance) = Len(db.instance) /\ db'.chunk = db.chunk
        /\ \A i \in 1..Len(db.instance) : i \notin job.rows => db'.instance[i] = db.instance[i]
        /\ \A i \in job.rows :
              /\ db'.instance[i].ref = NewRef(i) /\ db'.instance[i].x = db.instance[i].x
              /\ db'.instance[i].chunk = db.instance[i].chunk
    BY <1>1, InstalledRows
  <1>4. Extends(disk, db) /\ Shaped(db)
    BY <1>1, JudgeShape
  <1>5. ShapeSame(db, db')
    BY <1>1, InstalledTree, SameShape
  <1>6. /\ Extends(db, db') /\ Shaped(db')
        /\ \A n \in 1..Len(db.treenode) : Sends(db', n) <=> Sends(db, n)
    BY <1>1, <1>2, <1>4, <1>5, ShapeKept
  <1>7. db'.treenode = db.treenode /\ db'.rule = db.rule /\ db'.generation = db.generation
    BY <1>5 DEF ShapeSame
  <1>8. Extends(disk, db')
    BY <1>1, InstalledTree, <1>4 DEF Extends, TreeSame
  <1>9. Updated(db') = Updated(disk) /\ Updated(db) = Updated(disk)
        /\ db.instance = disk.instance
    <2>1. \A i \in 1..Len(db.instance) : db'.instance[i].chunk = db.instance[i].chunk
      BY <1>3
    <2>2. Updated(db') = Updated(db)
      BY <1>3, <2>1 DEF Updated, Rows
    <2>3. db.instance = disk.instance /\ db.chunk = disk.chunk
      BY <1>1 DEF TrainedVerdicts
    <2>. QED  BY <2>2, <2>3 DEF Updated, Rows
  <1>. DEFINE kept == Updated(disk) \ job.rows
  <1>10. HaveRoutes(db', kept)
    <2>1. ASSUME NEW i \in kept
          PROVE  /\ db'.instance[i].x = disk.instance[i].x
                 /\ db'.instance[i].ref = disk.instance[i].ref
                 /\ ~Sends(db', db'.instance[i].ref)
      <3>1. i \in 1..Len(db.instance) /\ i \notin job.rows /\ i \in Updated(db)
        BY <1>9 DEF Updated, Rows
      <3>2. db'.instance[i] = db.instance[i]
        BY <1>3, <3>1
      <3>3. Referred(db, i) /\ InForce(db, i)
        BY <1>1, <3>1 DEF TrainedVerdicts
      <3>4. ~Sends(db, db.instance[i].ref) /\ db.instance[i].ref \in 1..Len(db.treenode)
        BY <3>3, StaysThere
      <3>. QED  BY <1>6, <1>9, <3>2, <3>4
    <2>2. kept \subseteq Updated(disk)
      OBVIOUS
    <2>. HIDE DEF kept
    <2>. QED  BY <1>1, <1>2, <1>8, <2>1, <2>2, RoutesGrow
  <1>. HIDE DEF kept
  <1>11. ASSUME SiblingsAlike(db'), NEW i \in job.rows
         PROVE  Reaches(db', db'.instance[i].x, db'.instance[i].ref)
                /\ db'.instance[i].ref # db'.generation[1]
    <2>1. SiblingsAlike(disk)
      BY <1>1, <1>2, <1>8, <1>11, AlikeBefore DEF Shaped
    <2>. DEFINE x == db.instance[i].x
                r == NewRef(i)
    <2>2. Reaches(db, x, r) /\ r # db.generation[1] /\ ~Sends(db, r)
      BY <1>1, <2>1, RebuiltReached
    <2>3. db'.instance[i].x = x /\ db'.instance[i].ref = r
      BY <1>3
    <2>. HIDE DEF x, r
    <2>4. r \in 1..Len(db.treenode)
      BY <2>2 DEF Reaches, Route
    <2>5. Reaches(db', x, r)
      BY <1>1, <1>2, <1>4, <1>6, <2>2, <2>4, ReachesGrows DEF Shaped
    <2>. QED  BY <1>7, <2>2, <2>3, <2>5
  <1>12. HaveRoutes(db', Updated(db'))
    <2>1. \A i \in Updated(db') : i \in kept \/ i \in job.rows
      BY <1>9 DEF kept
    <2>. QED  BY <1>10, <1>11, <2>1 DEF HaveRoutes
  <1>. QED  BY <1>1, <1>6, <1>12 DEF RoutePart, Quiet4, Growing, Routing

-----------------------------------------------------------------------------
(* The routes in every state.                                                *)

LEMMA InitRoutes == Init => RoutePart
  <1>. SUFFICES ASSUME Init PROVE RoutePart
    OBVIOUS
  <1>1. /\ disk = EmptyDatabase /\ db = EmptyDatabase /\ pc = "idle"
        /\ Len(EmptyDatabase.treenode) = 0 /\ Len(EmptyDatabase.rule) = 0
        /\ Len(EmptyDatabase.instance) = 0
    BY DEF Init, EmptyDatabase
  <1>2. Updated(EmptyDatabase) = {}
    BY <1>1 DEF Updated, Rows
  <1>3. Shaped(EmptyDatabase) /\ HaveRoutes(EmptyDatabase, Updated(EmptyDatabase))
    BY <1>1, <1>2 DEF Shaped, TreeShaped, RulesFit, JumpsAhead, HaveRoutes
  <1>. QED  BY <1>1, <1>3 DEF RoutePart, Growing, Routing

LEMMA NextRoutes ==
    ASSUME VerdictInv, CounterInv, LeafPart, RoutePart, VerdictInv', LeafPart', [Next]_vars
    PROVE  RoutePart'
  <1>1. CASE UNCHANGED vars
    <2>1. UNCHANGED <<disk, db, pc, job>>
      BY <1>1 DEF vars
    <2>2. /\ Walked' = Walked /\ (Regrowing' <=> Regrowing)
          /\ (Growing' <=> Growing) /\ (Routing' <=> Routing)
      BY <2>1 DEF Walked, Regrowing, Growing, Routing
    <2>. QED  BY <2>1, <2>2 DEF RoutePart
  <1>2. CASE Begin
    BY <1>2, InsertRoutes, UpdateBeginRoutes, RebuildBeginRoutes, EasyRoutes DEF Begin
  <1>3. CASE Step
    BY <1>3, RemoveOldestRoutes, GrowRoutes, WalkRoutes, ArriveRoutes, RuleAddRoutes,
       UpdateFinishRoutes, RebuildInstallRoutes, EasyRoutes DEF Step
  <1>4. CASE Fault \/ Restart
    BY <1>4, EasyRoutes
  <1>. QED  BY <1>1, <1>2, <1>3, <1>4 DEF Next

\* model::predict: in every committed database predict finds for an updated instance
\* the very treenode that the instance refers to, through all the generations, rules and
\* rebuilds that came after it was routed; as long as siblings have rules on one feature,
\* and for a caller that opens a new object after an exception.
THEOREM RoutesStayRight == ASSUME ReopenAfterFailure PROVE Spec => []RoutesAgree
  <1>. DEFINE Inv == VerdictInv /\ CounterInv /\ LeafPart /\ RoutePart
  <1>1. Init => Inv
    BY InitVerdicts, InitCounters, InitLeaves, InitRoutes
  <1>2. Inv /\ [Next]_vars => Inv'
    <2>. SUFFICES ASSUME Inv, [Next]_vars PROVE Inv'
      OBVIOUS
    <2>1. VerdictInv'
      BY NextVerdicts
    <2>2. LeafPart'
      BY <2>1, NextLeaves
    <2>. QED  BY <2>1, <2>2, NextCounters, NextRoutes
  <1>3. ASSUME VerdictInv, RoutePart PROVE RoutesAgree
    <2>1. disk \in Database /\ RefsFit(disk) /\ Shaped(disk) /\ Verdicts(disk)
          /\ HaveRoutes(disk, Updated(disk))
      BY <1>3, Typed DEF VerdictInv, VerdictPart, CacheInv, TreeInv, RoutePart
    <2>2. SUFFICES ASSUME SiblingsAlike(disk), NEW i \in Updated(disk)
                   PROVE  LandsOn(disk, disk.instance[i].x) = disk.instance[i].ref
      BY DEF RoutesAgree
    <2>3. disk.treenode[disk.instance[i].ref].leaf # 0
      BY <2>1, StaysThere DEF Verdicts
    <2>4. /\ Reaches(disk, disk.instance[i].x, disk.instance[i].ref)
          /\ disk.instance[i].ref # disk.generation[1]
      BY <2>1, <2>2 DEF HaveRoutes
    <2>. QED  BY <2>1, <2>3, <2>4, RouteLands
  <1>. QED  BY <1>1, <1>2, <1>3, PTL DEF Spec

=============================================================================
