-------------------------- MODULE SupulModelProofs --------------------------
(***************************************************************************)
(* Theorems about SupulModel for every set of features, labels, batches    *)
(* and every setting of the bounds.                                        *)
(***************************************************************************)
EXTENDS SupulModel, TLAPS, FiniteSetTheorems, SequenceTheorems, WellFoundedInduction

-----------------------------------------------------------------------------
(* Sequences and finite sets.                                                *)

\* A function on 1..n with values in S is a sequence over S.
LEMMA FunctionIsSeq ==
    ASSUME NEW S, NEW n \in Nat, NEW f \in [1..n -> S]
    PROVE  f \in Seq(S) /\ Len(f) = n
  OBVIOUS

\* Replacing the values of a sequence gives a sequence.
LEMMA MappedSeq ==
    ASSUME NEW S, NEW T, NEW s \in Seq(S), NEW f,
           f = [k \in 1..Len(s) |-> f[k]], \A k \in 1..Len(s) : f[k] \in T
    PROVE  f \in Seq(T) /\ Len(f) = Len(s)
  <1>1. Len(s) \in Nat
    OBVIOUS
  <1>2. f \in [1..Len(s) -> T]
    OBVIOUS
  <1>. QED  BY <1>1, <1>2, FunctionIsSeq

\* Two sequences, one after the other.
LEMMA Concatenated ==
    ASSUME NEW S, NEW s \in Seq(S), NEW t \in Seq(S), NEW u, u = s \o t
    PROVE  /\ u \in Seq(S) /\ Len(u) = Len(s) + Len(t)
           /\ \A k \in 1..Len(s) : u[k] = s[k]
           /\ \A k \in 1..Len(u) : k \notin 1..Len(s) =>
                 k - Len(s) \in 1..Len(t) /\ u[k] = t[k - Len(s)]
  OBVIOUS

\* A set of positions of a sequence is finite.
LEMMA PositionsFinite ==
    ASSUME NEW n \in Nat, NEW P \in SUBSET (1..n)
    PROVE  IsFiniteSet(P) /\ Cardinality(P) \in Nat
  <1>1. IsFiniteSet(1..n)
    BY FS_Interval
  <1>. QED  BY <1>1, FS_Subset, FS_CardinalityType

\* A set of natural numbers that is not empty has a least element.
LEMMA NotBelow ==
    ASSUME NEW n \in Nat, NEW m \in Nat, <<m, n>> \notin OpToRel(<, Nat)
    PROVE  n <= m
  BY SMT DEF OpToRel

LEMMA LeastExists ==
    ASSUME NEW S \in SUBSET Nat, S # {}
    PROVE  Least(S) \in S /\ \A m \in S : Least(S) <= m
  <1>1. \E n \in S : \A m \in S : ~(<<m, n>> \in OpToRel(<, Nat))
    BY NatLessThanWellFounded, WFMin
  <1>2. \E n \in S : \A m \in S : n <= m
    BY <1>1, NotBelow, Zenon
  <1>. QED  BY <1>2 DEF Least

\* Of records with an id one comes first.
LEMMA FirstExists ==
    ASSUME NEW S, S # {}, \A k \in S : k.id \in Nat
    PROVE  FirstOf(S) \in S
  <1>. DEFINE ids == {k.id : k \in S}
  <1>1. ids \in SUBSET Nat /\ ids # {}
    OBVIOUS
  <1>2. Least(ids) \in ids /\ \A m \in ids : Least(ids) <= m
    BY <1>1, LeastExists
  <1>3. PICK k \in S : k.id = Least(ids)
    BY <1>2
  <1>4. \A j \in S : k.id <= j.id
    BY <1>2, <1>3
  <1>. QED  BY <1>3, <1>4 DEF FirstOf

-----------------------------------------------------------------------------
(* What the operators that build rows return.                                *)

\* get_label_index returns a label of the data.
LEMMA MajorityType ==
    ASSUME NEW d, NEW S, IsFiniteSet(S)
    PROVE  Majority(d, S) \in Labels
  <1>. DEFINE count(l) == Cardinality(Having(d, S, l))
              rest == {Cardinality(S) - count(l) : l \in Labels}
  <1>1. \A l \in Labels : count(l) \in Nat /\ count(l) <= Cardinality(S)
    BY FS_Subset, FS_CardinalityType DEF Having
  <1>. HIDE DEF count
  <1>2. Cardinality(S) \in Nat
    BY FS_CardinalityType
  <1>3. rest \in SUBSET Nat /\ rest # {}
    <2>1. \A l \in Labels : Cardinality(S) - count(l) \in Nat
      BY <1>1, <1>2
    <2>2. PICK l \in Labels : TRUE
      BY BatchAssumption
    <2>. QED  BY <2>1, <2>2
  <1>4. PICK l \in Labels : \A m \in Labels : count(m) <= count(l)
    <2>1. Least(rest) \in rest /\ \A r \in rest : Least(rest) <= r
      BY <1>3, LeastExists
    <2>2. PICK l \in Labels : Least(rest) = Cardinality(S) - count(l)
      BY <2>1
    <2>3. \A m \in Labels : Cardinality(S) - count(l) <= Cardinality(S) - count(m)
      BY <2>1, <2>2
    <2>. QED  BY <1>1, <1>2, <2>3
  <1>. DEFINE best == {m \in Labels : count(m) = count(l)}
  <1>5. best \in SUBSET Nat /\ best # {}
    BY BatchAssumption
  <1>6. Least(best) \in best /\ \A m \in best : Least(best) <= m
    BY <1>5, LeastExists
  <1>. DEFINE win == Least(best)
  <1>7. /\ win \in Labels
        /\ \A m \in Labels : count(win) > count(m) \/ (count(win) = count(m) /\ win <= m)
    BY <1>1, <1>4, <1>6
  <1>. HIDE DEF win
  <1>. QED  BY <1>7 DEF Majority, count

\* A leaf of trained rows is a row of leaf_info.
LEMMA LeafType ==
    ASSUME NEW d, NEW S, IsFiniteSet(S)
    PROVE  Leaf(d, S) \in LeafInfo
  <1>1. Majority(d, S) \in Labels
    BY MajorityType
  <1>2. Cardinality(S) \in Int /\ Cardinality(Having(d, S, Majority(d, S))) \in Int
    BY FS_Subset, FS_CardinalityType DEF Having
  <1>. QED  BY <1>1, <1>2 DEF Leaf, LeafInfo

\* A treenode as the caches and get_treenode hold it.
LEMMA ChildRowTyped ==
    ASSUME NEW d \in Database, NEW n \in 1..Len(d.treenode)
    PROVE  ChildRow(d, n) \in ChildRowType /\ ChildRow(d, n).parent = d.treenode[n].parent
  <1>1. d.treenode[n] \in Treenode
    BY DEF Database
  <1>2. \A r \in 1..Len(d.rule) : d.rule[r] \in Rule
    BY DEF Database
  <1>3. \A l \in 1..Len(d.leaf_info) : d.leaf_info[l] \in LeafInfo
    BY DEF Database
  <1>4. n \in Nat
    BY DEF Database
  <1>5. NoLeaf \in NoLeafType
    BY DEF NoLeaf, NoLeafType
  <1>. QED  BY <1>1, <1>2, <1>3, <1>4, <1>5 DEF ChildRow, ChildRowType, Treenode

LEMMA ChildsType ==
    ASSUME NEW d \in Database, NEW p
    PROVE  Childs(d, p) \subseteq ChildRowType /\ \A k \in Childs(d, p) : k.parent = p
  BY ChildRowTyped DEF Childs

-----------------------------------------------------------------------------
(* Every operation keeps the tables typed, and the generations that rebuilt  *)
(* an instance among the generations there are.                              *)

LEMMA EmptyTyped == EmptyDatabase \in Database /\ WeakFits(EmptyDatabase)
  BY DEF EmptyDatabase, Database, Global, WeakFits

LEMMA RowsType ==
    ASSUME NEW d \in Database, NEW states
    PROVE  Rows(d, states) \subseteq 1..Len(d.instance) /\ Cardinality(Rows(d, states)) \in Nat
  <1>1. Len(d.instance) \in Nat
    BY DEF Database
  <1>2. Rows(d, states) \in SUBSET (1..Len(d.instance))
    BY DEF Rows
  <1>. QED  BY <1>1, <1>2, PositionsFinite

\* A CSV file is a sequence of rows.
LEMMA BatchType ==
    ASSUME NEW b \in Batches
    PROVE  /\ b \in Seq([x : [Features -> Nat], y : Labels]) /\ Len(b) \in Nat
           /\ \A k \in 1..Len(b) : b[k].x \in [Features -> Nat] /\ b[k].y \in Labels
  <1>. DEFINE R == [x : [Features -> Nat], y : Labels]
  <1>1. \A r \in R : r.x \in [Features -> Nat] /\ r.y \in Labels
    OBVIOUS
  <1>2. Batches \subseteq Seq(R)
    BY BatchAssumption
  <1>. HIDE DEF R
  <1>3. b \in Seq(R)
    BY <1>2
  <1>4. Len(b) \in Nat /\ \A k \in 1..Len(b) : b[k] \in R
    BY <1>3
  <1>. QED  BY <1>1, <1>3, <1>4 DEF R

\* insert_chunk_csv
LEMMA WithChunkTyped ==
    ASSUME NEW d \in Database, WeakFits(d), NEW b \in Batches
    PROVE  LET e == WithChunk(d, b)
           IN  /\ e \in Database /\ WeakFits(e)
               /\ Len(e.instance) >= Len(d.instance)
               /\ e.generation = d.generation /\ e.treenode = d.treenode
  <1>. DEFINE e == WithChunk(d, b)
              c == Len(d.chunk) + 1
              news == [k \in 1..Len(b) |-> [x |-> b[k].x, y |-> b[k].y, chunk |-> c,
                                            ref |-> 0, correct |-> FALSE, weak |-> {}]]
              chunks == Append(d.chunk, [total |-> Len(b), state |-> "new"])
              instances == d.instance \o news
              count == d.global.instance_count + Len(b)
  <1>1. e = [d EXCEPT !.chunk = chunks, !.instance = instances,
                      !.global.instance_count = count]
    BY DEF WithChunk
  <1>2. /\ d.chunk \in Seq(Chunk) /\ d.instance \in Seq(Instance)
        /\ d.global.instance_count \in Int /\ Len(d.instance) \in Nat
    BY DEF Database, Global
  <1>3. news \in Seq(Instance) /\ Len(news) = Len(b) /\ Len(b) \in Nat
    <2>1. \A k \in 1..Len(b) : b[k].x \in [Features -> Nat] /\ b[k].y \in Labels
      BY BatchType
    <2>2. c \in Nat
      BY <1>2
    <2>3. \A k \in 1..Len(b) : news[k] \in Instance
      BY <2>1, <2>2 DEF Instance
    <2>4. news \in [1..Len(b) -> Instance]
      BY <2>3
    <2>5. Len(b) \in Nat
      BY BatchType
    <2>. HIDE DEF news
    <2>. QED  BY <2>4, <2>5, FunctionIsSeq
  <1>4. \A k \in 1..Len(b) : news[k].weak = {}
    OBVIOUS
  <1>5. chunks \in Seq(Chunk) /\ count \in Int
    BY <1>2, BatchType DEF Chunk
  <1>. HIDE DEF news, e, chunks, count
  <1>6. /\ instances \in Seq(Instance) /\ Len(instances) = Len(d.instance) + Len(b)
        /\ \A i \in 1..Len(d.instance) : instances[i] = d.instance[i]
        /\ \A i \in 1..Len(instances) : i \notin 1..Len(d.instance) =>
              i - Len(d.instance) \in 1..Len(b) /\ instances[i] = news[i - Len(d.instance)]
    <2>1. instances = d.instance \o news
      OBVIOUS
    <2>. HIDE DEF instances
    <2>2. d.instance \in Seq(Instance) /\ news \in Seq(Instance)
      BY <1>2, <1>3
    <2>3. /\ instances \in Seq(Instance) /\ Len(instances) = Len(d.instance) + Len(news)
          /\ \A k \in 1..Len(d.instance) : instances[k] = d.instance[k]
          /\ \A k \in 1..Len(instances) : k \notin 1..Len(d.instance) =>
                k - Len(d.instance) \in 1..Len(news)
                /\ instances[k] = news[k - Len(d.instance)]
      BY <2>1, <2>2, Concatenated
    <2>. QED  BY <2>3, <1>3
  <1>. HIDE DEF instances
  <1>7. e \in Database
    BY <1>1, <1>5, <1>6 DEF Database, Global
  <1>8. e.instance = instances /\ e.generation = d.generation /\ e.treenode = d.treenode
    BY <1>1 DEF Database
  <1>9. \A i \in 1..Len(instances) : instances[i].weak \subseteq 1..Len(d.generation)
    <2>. TAKE i \in 1..Len(instances)
    <2>1. CASE i \in 1..Len(d.instance)
      BY <2>1, <1>6 DEF WeakFits
    <2>2. CASE i \notin 1..Len(d.instance)
      BY <2>2, <1>4, <1>6
    <2>. QED  BY <2>1, <2>2
  <1>10. WeakFits(e)
    BY <1>8, <1>9 DEF WeakFits
  <1>11. Len(instances) >= Len(d.instance)
    BY <1>2, <1>3, <1>6
  <1>. QED  BY <1>7, <1>8, <1>10, <1>11 DEF e

\* What the other operations keep: no table of ids gets shorter.
Kept(d, e) == /\ e \in Database /\ WeakFits(e)
              /\ Len(e.instance) = Len(d.instance)
              /\ Len(e.generation) >= Len(d.generation)
              /\ Len(e.treenode) >= Len(d.treenode)

LEMMA Lengths ==
    ASSUME NEW d \in Database
    PROVE  /\ Len(d.chunk) \in Nat /\ Len(d.instance) \in Nat /\ Len(d.generation) \in Nat
           /\ Len(d.treenode) \in Nat /\ Len(d.rule) \in Nat /\ Len(d.leaf_info) \in Nat
  BY DEF Database

LEMMA RowTypes ==
    ASSUME NEW d \in Database
    PROVE  /\ \A c \in 1..Len(d.chunk) : d.chunk[c] \in Chunk /\ d.chunk[c].total \in Nat
           /\ \A i \in 1..Len(d.instance) : d.instance[i] \in Instance
           /\ \A g \in 1..Len(d.generation) : d.generation[g] \in Nat
           /\ \A n \in 1..Len(d.treenode) : d.treenode[n] \in Treenode
           /\ \A r \in 1..Len(d.rule) : d.rule[r] \in Rule
           /\ \A l \in 1..Len(d.leaf_info) : d.leaf_info[l] \in LeafInfo
           /\ d.global \in Global
           /\ d.confusion \in [Labels \X Labels -> Int]
  <1>1. \A c \in Chunk : c.total \in Nat
    BY DEF Chunk
  <1>. QED  BY <1>1 DEF Database

\* A leaf that has other counters.
LEMMA Recounted ==
    ASSUME NEW leaf \in LeafInfo, NEW m \in Int, NEW n \in Int
    PROVE  [leaf EXCEPT !.correct = m, !.total = n] \in LeafInfo
  BY DEF LeafInfo

LEMMA LeafCounters ==
    ASSUME NEW leaf \in LeafInfo
    PROVE  leaf.correct \in Int /\ leaf.total \in Int
  BY DEF LeafInfo

\* The instances that have a leaf are finitely many.
LEMMA MetFinite ==
    ASSUME NEW d \in Database, NEW c, NEW P \in SUBSET Met(d, c)
    PROVE  /\ P \subseteq 1..Len(d.instance)
           /\ IsFiniteSet(P) /\ Cardinality(P) \in Nat
  <1>1. P \in SUBSET (1..Len(d.instance))
    BY DEF Met, Stored, Rows
  <1>. QED  BY <1>1, Lengths, PositionsFinite

\* weak_count adds up to a number.
LEMMA WeakPairs ==
    ASSUME NEW d \in Database, WeakFits(d), NEW P \in SUBSET (1..Len(d.instance))
    PROVE  Cardinality(UNION {{i} \X d.instance[i].weak : i \in P}) \in Nat
  <1>. DEFINE pairs == UNION {{i} \X d.instance[i].weak : i \in P}
              n == Len(d.instance)
              g == Len(d.generation)
  <1>1. IsFiniteSet((1..n) \X (1..g))
    <2>1. n \in Nat /\ g \in Nat
      BY Lengths
    <2>. HIDE DEF n, g
    <2>2. IsFiniteSet(1..n) /\ IsFiniteSet(1..g)
      BY <2>1, FS_Interval
    <2>. QED  BY <2>2, FS_Product
  <1>2. pairs \subseteq (1..n) \X (1..g)
    BY DEF WeakFits
  <1>. QED  BY <1>1, <1>2, FS_Subset, FS_CardinalityType

\* remove_chunk
LEMMA WithoutChunkTyped ==
    ASSUME NEW d \in Database, WeakFits(d), NEW c \in 1..Len(d.chunk)
    PROVE  Kept(d, WithoutChunk(d, c))
  <1>. DEFINE e == WithoutChunk(d, c)
              met == Met(d, c)
              right == {i \in met : d.instance[i].y = LabelOf(d, i)}
              confusion == [ap \in Labels \X Labels |->
                  d.confusion[ap]
                    - Cardinality({i \in met : <<d.instance[i].y, LabelOf(d, i)>> = ap})]
              fewer(l) == Cardinality({i \in right : LeafId(d, i) = l})
              less(l) == Cardinality({i \in met : LeafId(d, i) = l})
              leaves == [l \in 1..Len(d.leaf_info) |->
                 [d.leaf_info[l] EXCEPT !.correct = @ - fewer(l), !.total = @ - less(l)]]
              weak == Cardinality(UNION {{i} \X d.instance[i].weak : i \in met})
              hits == Cardinality(right)
              gone == IF d.chunk[c].state = "updated" THEN d.chunk[c].total ELSE 0
              g1 == d.global.instance_count - d.chunk[c].total
              g2 == d.global.updated_instance_count - gone
              g3 == d.global.instance_correct_count - hits
              g4 == d.global.acc_weak_instance_count - weak
              global == [instance_count |-> g1, updated_instance_count |-> g2,
                         instance_correct_count |-> g3, acc_weak_instance_count |-> g4]
  <1>1. e = [d EXCEPT !.chunk[c].state = "removed", !.confusion = confusion,
                      !.leaf_info = leaves, !.global = global]
    BY DEF WithoutChunk
  <1>2. \A l : fewer(l) \in Nat /\ less(l) \in Nat
    BY MetFinite
  <1>. HIDE DEF fewer, less
  <1>3. leaves \in Seq(LeafInfo)
    <2>2. \A l \in 1..Len(d.leaf_info) : leaves[l] \in LeafInfo
      <3>. TAKE l \in 1..Len(d.leaf_info)
      <3>. DEFINE m == d.leaf_info[l].correct - fewer(l)
                  n == d.leaf_info[l].total - less(l)
      <3>1. leaves[l] = [d.leaf_info[l] EXCEPT !.correct = m, !.total = n]
        OBVIOUS
      <3>2. d.leaf_info[l] \in LeafInfo
        BY RowTypes
      <3>3. m \in Int /\ n \in Int
        BY <1>2, <3>2, LeafCounters
      <3>. HIDE DEF m, n, leaves
      <3>. QED  BY <3>1, <3>2, <3>3, Recounted
    <2>3. leaves \in [1..Len(d.leaf_info) -> LeafInfo]
      BY <2>2
    <2>. HIDE DEF leaves
    <2>. QED  BY <2>3, Lengths, FunctionIsSeq
  <1>4. confusion \in [Labels \X Labels -> Int]
    <2>1. \A ap \in Labels \X Labels :
             /\ d.confusion[ap] \in Int
             /\ Cardinality({i \in met : <<d.instance[i].y, LabelOf(d, i)>> = ap}) \in Nat
      BY MetFinite DEF Database
    <2>. QED  BY <2>1
  <1>5. global \in Global
    <2>1. hits \in Nat
      BY MetFinite
    <2>2. weak \in Nat
      BY MetFinite, WeakPairs
    <2>3. d.chunk[c].total \in Nat
      BY RowTypes
    <2>4. /\ d.global.instance_count \in Int /\ d.global.updated_instance_count \in Int
          /\ d.global.instance_correct_count \in Int
          /\ d.global.acc_weak_instance_count \in Int
      BY DEF Database, Global
    <2>5. gone \in Nat
      BY <2>3
    <2>6. g1 \in Int /\ g2 \in Int /\ g3 \in Int /\ g4 \in Int
      <3>. HIDE DEF hits, weak, gone
      <3>1. g1 \in Int
        BY <2>3, <2>4
      <3>2. g2 \in Int
        BY <2>5, <2>4
      <3>3. g3 \in Int
        BY <2>1, <2>4
      <3>4. g4 \in Int
        BY <2>2, <2>4
      <3>. QED  BY <3>1, <3>2, <3>3, <3>4
    <2>. HIDE DEF g1, g2, g3, g4
    <2>. QED  BY <2>6 DEF Global
  <1>. HIDE DEF confusion, leaves, global, e
  <1>. DEFINE chunks == [d.chunk EXCEPT ![c].state = "removed"]
  <1>6. chunks \in Seq(Chunk)
    <2>1. d.chunk \in Seq(Chunk) /\ Len(d.chunk) \in Nat
      BY DEF Database
    <2>2. d.chunk \in [1..Len(d.chunk) -> Chunk]
      BY <2>1
    <2>3. [d.chunk[c] EXCEPT !.state = "removed"] \in Chunk
      BY RowTypes DEF Chunk
    <2>4. chunks = [d.chunk EXCEPT ![c] = [d.chunk[c] EXCEPT !.state = "removed"]]
      OBVIOUS
    <2>5. chunks \in [1..Len(d.chunk) -> Chunk]
      BY <2>2, <2>3, <2>4
    <2>. HIDE DEF chunks
    <2>. QED  BY <2>1, <2>5, FunctionIsSeq
  <1>7. e = [d EXCEPT !.chunk = chunks, !.confusion = confusion,
                      !.leaf_info = leaves, !.global = global]
    BY <1>1 DEF Database
  <1>. HIDE DEF chunks
  <1>8. e \in Database
    BY <1>3, <1>4, <1>5, <1>6, <1>7 DEF Database
  <1>9. /\ e.instance = d.instance /\ e.generation = d.generation
        /\ e.treenode = d.treenode
    BY <1>7 DEF Database
  <1>. QED  BY <1>8, <1>9, Lengths DEF Kept, WeakFits, e

\* One row of a table changes.
LEMMA RowChanged ==
    ASSUME NEW S, NEW s \in Seq(S), NEW i, NEW v \in S
    PROVE  /\ [s EXCEPT ![i] = v] \in Seq(S)
           /\ Len([s EXCEPT ![i] = v]) = Len(s)
           /\ \A k \in 1..Len(s) : [s EXCEPT ![i] = v][k] = IF k = i THEN v ELSE s[k]
  <1>. DEFINE t == [s EXCEPT ![i] = v]
  <1>1. Len(s) \in Nat /\ s \in [1..Len(s) -> S]
    OBVIOUS
  <1>2. t \in [1..Len(s) -> S]
    BY <1>1
  <1>3. \A k \in 1..Len(s) : t[k] = IF k = i THEN v ELSE s[k]
    BY <1>1
  <1>. HIDE DEF t
  <1>4. t \in Seq(S) /\ Len(t) = Len(s)
    BY <1>1, <1>2, FunctionIsSeq
  <1>. QED  BY <1>3, <1>4 DEF t

\* update_instance_info
LEMMA JudgedTyped ==
    ASSUME NEW d \in Database, WeakFits(d), NEW i \in 1..Len(d.instance), NEW k, k.id \in Nat
    PROVE  Kept(d, Judged(d, i, k))
  <1>. DEFINE e == Judged(d, i, k)
              right == d.instance[i].y = k.leaf.label
              row == [d.instance[i] EXCEPT !.ref = k.id, !.correct = right]
              rows == [d.instance EXCEPT ![i] = row]
  <1>1. row \in Instance /\ row.weak = d.instance[i].weak
    BY RowTypes DEF Instance
  <1>2. d.instance \in Seq(Instance)
    BY DEF Database
  <1>3. e = [d EXCEPT !.instance = rows]
    BY <1>2 DEF Judged, Database
  <1>. HIDE DEF row
  <1>4. /\ rows \in Seq(Instance) /\ Len(rows) = Len(d.instance)
        /\ \A m \in 1..Len(d.instance) : rows[m] = IF m = i THEN row ELSE d.instance[m]
    BY <1>1, <1>2, RowChanged
  <1>5. \A m \in 1..Len(d.instance) : rows[m].weak = d.instance[m].weak
    BY <1>1, <1>4
  <1>. HIDE DEF rows, e
  <1>6. e \in Database
    BY <1>3, <1>4 DEF Database
  <1>7. /\ e.instance = rows /\ e.generation = d.generation /\ e.treenode = d.treenode
    BY <1>3 DEF Database
  <1>8. WeakFits(e)
    BY <1>4, <1>5, <1>7 DEF WeakFits
  <1>. QED  BY <1>4, <1>6, <1>7, <1>8, Lengths DEF Kept, e

\* insert_tree, one treenode
LEMMA WithTreenodeTyped ==
    ASSUME NEW d \in Database, WeakFits(d), NEW n, n.parent \in Nat,
           n.parent # 0 => n.rule \in Rule, NEW leaves \in Seq(LeafInfo)
    PROVE  /\ Kept(d, WithTreenode(d, n, leaves))
           /\ Len(WithTreenode(d, n, leaves).treenode) = Len(d.treenode) + 1
  <1>. DEFINE e == WithTreenode(d, n, leaves)
              id == Len(d.treenode) + 1
              g == Len(d.generation)
              rules == IF n.parent = 0 THEN <<>> ELSE <<n.rule>>
              node == [generation |-> g, parent |-> n.parent,
                       rule |-> IF rules = <<>> THEN 0 ELSE Len(d.rule) + 1,
                       leaf |-> IF leaves = <<>> THEN 0 ELSE Len(d.leaf_info) + 1]
              rule == d.rule \o rules
              leaf == d.leaf_info \o leaves
              nodes == Append(d.treenode, node)
              root == IF n.parent = 0 THEN id ELSE d.generation[g]
              roots_ == [d.generation EXCEPT ![g] = root]
  <1>1. e = [d EXCEPT !.rule = rule, !.leaf_info = leaf, !.treenode = nodes,
                      !.generation[g] = root]
    BY DEF WithTreenode
  <1>2. /\ d.rule \in Seq(Rule) /\ d.leaf_info \in Seq(LeafInfo)
        /\ d.treenode \in Seq(Treenode) /\ d.generation \in Seq(Nat)
        /\ id \in Nat /\ g \in Nat /\ Len(d.rule) + 1 \in Nat /\ Len(d.leaf_info) + 1 \in Nat
    BY DEF Database
  <1>3. rules \in Seq(Rule)
    OBVIOUS
  <1>4. node \in Treenode
    <2>. HIDE DEF rules, g
    <2>. QED  BY <1>2 DEF Treenode
  <1>. HIDE DEF rules, node
  <1>5. rule \in Seq(Rule) /\ leaf \in Seq(LeafInfo)
    BY <1>2, <1>3
  <1>6. nodes \in Seq(Treenode) /\ Len(nodes) = Len(d.treenode) + 1
    BY <1>2, <1>4
  <1>7. CASE g = 0
    <2>1. roots_ = d.generation
      BY <1>2, <1>7
    <2>2. e = [d EXCEPT !.rule = rule, !.leaf_info = leaf, !.treenode = nodes]
      BY <1>1, <1>2, <2>1 DEF Database
    <2>. HIDE DEF rule, leaf, nodes, root, e
    <2>3. e \in Database
      BY <1>5, <1>6, <2>2 DEF Database
    <2>4. e.instance = d.instance /\ e.generation = d.generation /\ e.treenode = nodes
      BY <2>2 DEF Database
    <2>. QED  BY <1>6, <2>3, <2>4, Lengths DEF Kept, WeakFits, e
  <1>8. CASE g # 0
    <2>1. root \in Nat
      BY <1>2, <1>8
    <2>. HIDE DEF rule, leaf, nodes, root, e
    <2>2. roots_ \in Seq(Nat) /\ Len(roots_) = g
      <3>1. d.generation \in [1..g -> Nat]
        BY <1>2
      <3>2. roots_ \in [1..g -> Nat]
        BY <2>1, <3>1
      <3>. HIDE DEF roots_, g
      <3>. QED  BY <1>2, <3>2, FunctionIsSeq
    <2>3. e = [d EXCEPT !.rule = rule, !.leaf_info = leaf, !.treenode = nodes,
                        !.generation = roots_]
      BY <1>1 DEF Database
    <2>. HIDE DEF roots_
    <2>4. e \in Database
      BY <1>5, <1>6, <2>2, <2>3 DEF Database
    <2>5. e.instance = d.instance /\ e.generation = roots_ /\ e.treenode = nodes
      BY <2>3 DEF Database
    <2>. QED  BY <1>6, <2>2, <2>4, <2>5, Lengths DEF Kept, WeakFits, e
  <1>. QED  BY <1>7, <1>8

\* get_leaf_treenode_with_rule_add: the copied rule, its leaf and its treenode.
LEMMA WithRuleTyped ==
    ASSUME NEW d \in Database, WeakFits(d), NEW child \in ChildRowType,
           child.rule.type = "equ", child.id \in 1..Len(d.rule),
           child.id \in 1..Len(d.treenode), job.cur \in Nat,
           NEW i \in 1..Len(d.instance)
    PROVE  /\ Kept(d, WithRule(d, child, i))
           /\ Len(WithRule(d, child, i).treenode) = Len(d.treenode) + 1
           /\ ChildRow(WithRule(d, child, i), Len(d.treenode) + 1).leaf \in LeafInfo
  <1>. DEFINE e == WithRule(d, child, i)
              copy == d.rule[child.id]
              value == d.instance[i].x[child.rule.feature]
              rule == IF copy.type = "equ" THEN [copy EXCEPT !.value = value] ELSE copy
              leaf == [label |-> d.instance[i].y, type |-> "leaf", go_to |-> 0,
                       correct |-> 1, total |-> 1]
              node == [generation |-> d.treenode[child.id].generation, parent |-> job.cur,
                       rule |-> Len(d.rule) + 1, leaf |-> Len(d.leaf_info) + 1]
              rules == Append(d.rule, rule)
              leaves == Append(d.leaf_info, leaf)
              nodes == Append(d.treenode, node)
  <1>1. e = [d EXCEPT !.rule = rules, !.leaf_info = leaves, !.treenode = nodes]
    BY DEF WithRule, CopiedRule
  <1>2. /\ d.rule \in Seq(Rule) /\ d.leaf_info \in Seq(LeafInfo)
        /\ d.treenode \in Seq(Treenode)
        /\ Len(d.rule) + 1 \in Nat /\ Len(d.leaf_info) + 1 \in Nat
    BY DEF Database
  <1>3. rule \in Rule
    <2>1. child.rule \in Rule
      BY DEF ChildRowType, NoRule
    <2>2. child.rule.feature \in Features
      BY <2>1 DEF Rule
    <2>3. d.instance[i].x \in [Features -> Nat]
      BY RowTypes DEF Instance
    <2>4. value \in Nat
      BY <2>2, <2>3
    <2>5. copy \in Rule
      BY RowTypes
    <2>. HIDE DEF value, copy
    <2>. QED  BY <2>4, <2>5 DEF Rule
  <1>4. leaf \in LeafInfo
    <2>1. d.instance[i].y \in Labels
      BY RowTypes DEF Instance
    <2>. QED  BY <2>1 DEF LeafInfo
  <1>5. node \in Treenode
    <2>1. d.treenode[child.id].generation \in Nat
      BY RowTypes DEF Treenode
    <2>. QED  BY <1>2, <2>1 DEF Treenode
  <1>. HIDE DEF rule, leaf, node
  <1>6. /\ rules \in Seq(Rule) /\ leaves \in Seq(LeafInfo)
        /\ nodes \in Seq(Treenode) /\ Len(nodes) = Len(d.treenode) + 1
        /\ nodes[Len(d.treenode) + 1] = node /\ Len(leaves) = Len(d.leaf_info) + 1
    BY <1>2, <1>3, <1>4, <1>5
  <1>9. node.leaf = Len(d.leaf_info) + 1
    BY DEF node
  <1>. HIDE DEF rules, leaves, nodes, e
  <1>7. e \in Database
    BY <1>1, <1>6 DEF Database
  <1>8. /\ e.instance = d.instance /\ e.generation = d.generation /\ e.treenode = nodes
        /\ e.leaf_info = leaves
    BY <1>1 DEF Database
  <1>10. ChildRow(e, Len(d.treenode) + 1).leaf \in LeafInfo
    <2>1. Len(d.leaf_info) + 1 \in 1..Len(e.leaf_info)
      BY <1>6, <1>8, Lengths
    <2>2. e.leaf_info[Len(d.leaf_info) + 1] \in LeafInfo
      BY <1>7, <2>1, RowTypes
    <2>. QED  BY <1>6, <1>8, <1>9, <2>1, <2>2 DEF ChildRow
  <1>. QED  BY <1>6, <1>7, <1>8, <1>10, Lengths DEF Kept, WeakFits, e

\* The counters a leaf gains.
LEMMA GainedType ==
    ASSUME NEW leaf \in LeafInfo \cup NoLeafType, NEW l, IsFiniteSet(job.routed)
    PROVE  /\ Gained(leaf, l) \in LeafInfo \cup NoLeafType
           /\ leaf \in LeafInfo => Gained(leaf, l) \in LeafInfo
  <1>. DEFINE hits == Hits(l)
              h == Cardinality({r \in hits : r.actual = r.predicted})
              m == leaf.correct + h
              k == Cardinality(hits)
              n == leaf.total + k
  <1>1. Gained(leaf, l) = [leaf EXCEPT !.correct = m, !.total = n]
    BY DEF Gained
  <1>2. h \in Nat /\ k \in Nat
    BY FS_Subset, FS_CardinalityType DEF Hits
  <1>. HIDE DEF h, k
  <1>3. m \in Int /\ n \in Int
    BY <1>2, LeafCounters DEF NoLeafType
  <1>. HIDE DEF m, n
  <1>4. CASE leaf \in LeafInfo
    BY <1>1, <1>3, <1>4, Recounted
  <1>5. CASE leaf \in NoLeafType
    <2>1. Gained(leaf, l) \in NoLeafType
      BY <1>1, <1>3, <1>5 DEF NoLeafType
    <2>. QED  BY <1>5, <2>1 DEF NoLeafType, LeafInfo
  <1>. QED  BY <1>4, <1>5

\* The end of update.
LEMMA FinishTyped ==
    ASSUME db \in Database, WeakFits(db), IsFiniteSet(job.routed), UpdateFinish
    PROVE  Kept(db, db')
  <1>. DEFINE in(c) == {r \in job.routed : db.instance[r.instance].chunk = c}
              cell(ap) == {r \in job.routed : <<r.actual, r.predicted>> = ap}
              right == {r \in job.routed : r.actual = r.predicted}
              count(c) == Cardinality(in(c))
              chunks == [c \in 1..Len(db.chunk) |->
                  IF db.chunk[c].state # "new" THEN db.chunk[c]
                  ELSE [state |-> "updated", total |-> count(c)]]
              leaves == [l \in 1..Len(db.leaf_info) |-> Gained(db.leaf_info[l], l)]
              more == IF job.building THEN 0 ELSE Cardinality(job.routed)
              updated == db.global.updated_instance_count + more
              hits == Cardinality(right)
              correct == db.global.instance_correct_count + hits
              amount(ap) == Cardinality(cell(ap))
              confusion == [ap \in Labels \X Labels |-> db.confusion[ap] + amount(ap)]
  <1>1. db' = [db EXCEPT !.chunk = chunks, !.leaf_info = leaves,
                         !.global.updated_instance_count = updated,
                         !.global.instance_correct_count = correct,
                         !.confusion = confusion]
    BY DEF UpdateFinish
  <1>2. more \in Nat /\ hits \in Nat
    BY FS_Subset, FS_CardinalityType
  <1>3. (\A c : count(c) \in Nat) /\ (\A ap : amount(ap) \in Nat)
    BY FS_Subset, FS_CardinalityType
  <1>4. updated \in Int /\ correct \in Int
    <2>1. /\ db.global.updated_instance_count \in Int
          /\ db.global.instance_correct_count \in Int
      BY DEF Database, Global
    <2>. HIDE DEF more, hits
    <2>. QED  BY <1>2, <2>1
  <1>. HIDE DEF count, amount, more, hits
  <1>5. confusion \in [Labels \X Labels -> Int]
    <2>1. \A ap \in Labels \X Labels : db.confusion[ap] \in Int
      BY RowTypes
    <2>. QED  BY <1>3, <2>1
  <1>6. chunks \in Seq(Chunk)
    <2>1. \A c \in 1..Len(db.chunk) : chunks[c] \in Chunk
      BY <1>3, RowTypes DEF Chunk
    <2>2. chunks \in [1..Len(db.chunk) -> Chunk]
      BY <2>1
    <2>. HIDE DEF chunks
    <2>. QED  BY <2>2, Lengths, FunctionIsSeq
  <1>7. leaves \in Seq(LeafInfo)
    <2>1. leaves \in [1..Len(db.leaf_info) -> LeafInfo]
      BY RowTypes, GainedType
    <2>. HIDE DEF leaves
    <2>. QED  BY <2>1, Lengths, FunctionIsSeq
  <1>. HIDE DEF chunks, leaves, confusion, updated, correct
  <1>8. db' \in Database
    BY <1>1, <1>4, <1>5, <1>6, <1>7 DEF Database, Global
  <1>9. /\ db'.instance = db.instance /\ db'.generation = db.generation
        /\ db'.treenode = db.treenode
    BY <1>1 DEF Database
  <1>. QED  BY <1>8, <1>9, Lengths DEF Kept, WeakFits

\* The start of an update: the first generation is announced.
LEMMA FirstTyped ==
    ASSUME db \in Database, WeakFits(db), UpdateBegin
    PROVE  Kept(db, db') /\ db'.generation # <<>>
  <1>1. CASE db.generation # <<>>
    BY <1>1, Lengths DEF UpdateBegin, Kept
  <1>2. CASE db.generation = <<>>
    <2>. DEFINE n == Cardinality(Rows(db, {"new"}))
                gens == <<0>>
    <2>1. db' = [db EXCEPT !.generation = gens, !.global.updated_instance_count = n]
      BY <1>2 DEF UpdateBegin
    <2>2. n \in Int /\ gens \in Seq(Nat) /\ Len(gens) = 1 /\ gens # <<>>
      BY RowsType
    <2>. HIDE DEF n, gens
    <2>3. db' \in Database
      BY <2>1, <2>2 DEF Database, Global
    <2>4. db'.instance = db.instance /\ db'.generation = gens /\ db'.treenode = db.treenode
      BY <2>1 DEF Database
    <2>5. WeakFits(db')
      <3>. SUFFICES ASSUME NEW i \in 1..Len(db'.instance)
                    PROVE  db'.instance[i].weak \subseteq 1..Len(db'.generation)
        BY DEF WeakFits
      <3>1. db.instance[i].weak \subseteq 1..0
        BY <1>2, <2>4 DEF WeakFits
      <3>. QED  BY <2>4, <3>1
    <2>. QED  BY <1>2, <2>2, <2>3, <2>4, <2>5, Lengths DEF Kept
  <1>. QED  BY <1>1, <1>2

\* The start of a rebuild: a new generation, which the weak leaves send on to.
LEMMA SentOnType ==
    ASSUME NEW leaf \in LeafInfo \cup NoLeafType, NEW g \in Nat
    PROVE  /\ SentOn(leaf, g) \in LeafInfo \cup NoLeafType
           /\ leaf \in LeafInfo => SentOn(leaf, g) \in LeafInfo
  <1>1. CASE leaf \in LeafInfo
    BY <1>1 DEF SentOn, LeafInfo
  <1>2. CASE leaf \in NoLeafType
    BY <1>2 DEF SentOn, IsWeak, NoLeafType
  <1>. QED  BY <1>1, <1>2

LEMMA AnnouncedTyped ==
    ASSUME db \in Database, WeakFits(db), RebuildBegin
    PROVE  Kept(db, db') /\ Len(db'.generation) = Len(db.generation) + 1
  <1>. DEFINE g == Len(db.generation) + 1
              gens == Append(db.generation, 0)
              leaves == [l \in 1..Len(db.leaf_info) |-> SentOn(db.leaf_info[l], g)]
  <1>1. db' = [db EXCEPT !.generation = gens, !.leaf_info = leaves]
    BY DEF RebuildBegin
  <1>2. gens \in Seq(Nat) /\ Len(gens) = g /\ g \in Nat
    BY DEF Database
  <1>. HIDE DEF gens, g
  <1>3. leaves \in Seq(LeafInfo)
    <2>1. leaves \in [1..Len(db.leaf_info) -> LeafInfo]
      BY <1>2, RowTypes, SentOnType
    <2>. HIDE DEF leaves
    <2>. QED  BY <2>1, Lengths, FunctionIsSeq
  <1>. HIDE DEF leaves
  <1>4. db' \in Database
    BY <1>1, <1>2, <1>3 DEF Database
  <1>5. db'.instance = db.instance /\ db'.generation = gens /\ db'.treenode = db.treenode
    BY <1>1 DEF Database
  <1>6. Len(gens) = Len(db.generation) + 1
    BY <1>2 DEF g
  <1>7. WeakFits(db')
    BY <1>5, <1>6, Lengths DEF WeakFits
  <1>. QED  BY <1>4, <1>5, <1>6, <1>7, Lengths DEF Kept

\* The end of a rebuild.  Every rebuilt row has its leaf (NoRowLost), and its
\* weak_count counts the newest generation.
LEMMA RebuiltType ==
    ASSUME db \in Database, WeakFits(db), db.generation # <<>>,
           job.rows \subseteq 1..Len(db.instance), job.pending = {}, NoRowLost,
           NEW i \in job.rows
    PROVE  Rebuilt(i) \in Instance /\ Rebuilt(i).weak \subseteq 1..Len(db.generation)
  <1>. DEFINE g == Len(db.generation)
              n == NewRef(i)
              right == i \in CorrectAfter
  <1>1. n \in Nat
    <2>1. \E t \in 1..Len(db.treenode) : <<i, t>> \in job.placed
      BY DEF NoRowLost
    <2>2. n \in 1..Len(db.treenode)
      BY <2>1 DEF NewRef
    <2>. QED  BY <2>2, Lengths
  <1>2. g \in 1..g
    <2>1. db.generation \in Seq(Nat)
      BY DEF Database
    <2>. QED  BY <2>1
  <1>3. db.instance[i] \in Instance /\ db.instance[i].weak \cup {g} \subseteq 1..g
    BY <1>2, RowTypes DEF WeakFits
  <1>4. Rebuilt(i) = [db.instance[i] EXCEPT !.ref = n, !.correct = right, !.weak = @ \cup {g}]
    BY DEF Rebuilt
  <1>5. right \in BOOLEAN /\ g \in Nat
    BY Lengths
  <1>. HIDE DEF n, right, g
  <1>6. db.instance[i].weak \cup {g} \in SUBSET Nat
    BY <1>3, <1>5 DEF Instance
  <1>7. Rebuilt(i) \in Instance /\ Rebuilt(i).weak = db.instance[i].weak \cup {g}
    BY <1>1, <1>3, <1>4, <1>5, <1>6 DEF Instance
  <1>. QED  BY <1>3, <1>7 DEF g

LEMMA InstalledTyped ==
    ASSUME db \in Database, WeakFits(db), db.generation # <<>>,
           job.rows \subseteq 1..Len(db.instance), job.pending = {}, NoRowLost, RebuildInstall
    PROVE  Kept(db, db')
  <1>. DEFINE rows == [i \in 1..Len(db.instance) |->
                  IF i \in job.rows THEN Rebuilt(i) ELSE db.instance[i]]
              before == Cardinality(CorrectBefore)
              after == Cardinality(CorrectAfter)
              all == Cardinality(job.rows)
              correct == db.global.instance_correct_count + after - before
              weak == db.global.acc_weak_instance_count + all
              diff(ap) == Diff(ap)
              confusion == [ap \in Labels \X Labels |-> db.confusion[ap] + diff(ap)]
  <1>1. db' = [db EXCEPT !.instance = rows, !.global.instance_correct_count = correct,
                         !.global.acc_weak_instance_count = weak, !.confusion = confusion]
    BY DEF RebuildInstall
  <1>2. \A P \in SUBSET job.rows : Cardinality(P) \in Nat
    BY Lengths, PositionsFinite
  <1>3. before \in Nat /\ after \in Nat /\ all \in Nat
    BY <1>2 DEF CorrectBefore, CorrectAfter
  <1>4. \A ap : diff(ap) \in Int
    <2>. TAKE ap
    <2>1. Before(ap) \in Nat /\ After(ap) \in Nat
      BY <1>2 DEF Before, After
    <2>. QED  BY <2>1 DEF Diff
  <1>5. correct \in Int /\ weak \in Int
    <2>1. /\ db.global.instance_correct_count \in Int
          /\ db.global.acc_weak_instance_count \in Int
      BY DEF Database, Global
    <2>. HIDE DEF before, after, all
    <2>. QED  BY <1>3, <2>1
  <1>. HIDE DEF diff, before, after, all
  <1>6. /\ \A i \in 1..Len(db.instance) : rows[i] \in Instance
        /\ \A i \in 1..Len(db.instance) : rows[i].weak \subseteq 1..Len(db.generation)
    BY RebuiltType, RowTypes DEF WeakFits
  <1>7. rows \in Seq(Instance) /\ Len(rows) = Len(db.instance)
    <2>1. rows \in [1..Len(db.instance) -> Instance]
      BY <1>6
    <2>. HIDE DEF rows
    <2>. QED  BY <2>1, Lengths, FunctionIsSeq
  <1>8. confusion \in [Labels \X Labels -> Int]
    <2>1. \A ap \in Labels \X Labels : db.confusion[ap] \in Int
      BY RowTypes
    <2>. QED  BY <1>4, <2>1
  <1>. HIDE DEF rows, correct, weak, confusion
  <1>9. db' \in Database
    BY <1>1, <1>5, <1>7, <1>8 DEF Database, Global
  <1>10. /\ db'.instance = rows /\ db'.generation = db.generation
         /\ db'.treenode = db.treenode
    BY <1>1 DEF Database
  <1>. QED  BY <1>6, <1>7, <1>9, <1>10, Lengths DEF Kept, WeakFits

-----------------------------------------------------------------------------
(* The inductive invariant, one lemma for each action.                       *)

LEMMA NoJobTyped == NoJob \in Job /\ IsFiniteSet(NoJob.routed)
  <1>1. IsFiniteSet({})
    BY FS_EmptySet
  <1>. QED  BY <1>1 DEF NoJob, Job

\* With no operation under way nothing is asked of the locals.
LEMMA Quiet ==
    ASSUME job' = NoJob, pc' = "idle"
    PROVE  NoRowLost' /\ JobFits' /\ HasRoot' /\ CanCopy'
  <1>1. /\ NoJob.rows = {} /\ NoJob.todo = {} /\ NoJob.pending = {} /\ NoJob.routed = {}
    BY DEF NoJob
  <1>. QED  BY <1>1, NoJobTyped DEF NoRowLost, JobFits, HasRoot, CanCopy

\* The locals fit a database that has grown.
LEMMA JobStays ==
    ASSUME JobFits, NoRowLost, db \in Database, db' \in Database, job' = job,
           Len(db'.instance) >= Len(db.instance), Len(db'.treenode) >= Len(db.treenode),
           pc' # "judge"
    PROVE  JobFits' /\ NoRowLost'
  <1>1. 1..Len(db.instance) \subseteq 1..Len(db'.instance)
    BY Lengths
  <1>2. 1..Len(db.treenode) \subseteq 1..Len(db'.treenode)
    BY Lengths
  <1>3. JobFits'
    <2>. DEFINE old == 1..Len(db.instance)
                new == 1..Len(db'.instance)
    <2>1. old \subseteq new
      BY <1>1
    <2>2. /\ job.todo \subseteq old /\ job.rows \subseteq old /\ IsFiniteSet(job.routed)
          /\ \A n \in job.pending :
                n.rows \subseteq old /\ (n.parent # 0 => n.rule \in Rule)
      BY Zenon DEF JobFits
    <2>. HIDE DEF old, new
    <2>3. /\ job.todo \subseteq new /\ job.rows \subseteq new /\ IsFiniteSet(job.routed)
          /\ \A n \in job.pending :
                n.rows \subseteq new /\ (n.parent # 0 => n.rule \in Rule)
      BY <2>1, <2>2
    <2>. QED  BY <2>3 DEF JobFits, new
  <1>4. NoRowLost'
    BY <1>2 DEF NoRowLost
  <1>. QED  BY <1>3, <1>4

LEMMA InitInductive == Init => Inductive
  <1>. SUFFICES ASSUME Init PROVE Inductive
    OBVIOUS
  <1>1. TypeOK
    BY EmptyTyped, NoJobTyped DEF Init, TypeOK, Stages
  <1>2. NoRowLost /\ JobFits
    BY NoJobTyped DEF Init, NoRowLost, JobFits, NoJob
  <1>. QED  BY <1>1, <1>2, EmptyTyped DEF Init, Inductive, HasRoot, CanCopy

LEMMA InsertStep ==
    ASSUME Inductive, NEW b \in Batches, Insert(b)
    PROVE  Inductive'
  <1>. USE DEF Inductive
  <1>1. /\ db' \in Database /\ WeakFits(db') /\ Len(db'.instance) >= Len(db.instance)
        /\ db'.treenode = db.treenode
    BY WithChunkTyped DEF TypeOK, Insert
  <1>2. TypeOK'
    BY <1>1 DEF TypeOK, Insert, cache, Stages
  <1>3. JobFits' /\ NoRowLost'
    BY <1>1, JobStays, Lengths DEF TypeOK, Insert
  <1>. QED  BY <1>1, <1>2, <1>3 DEF Insert, HasRoot, CanCopy

LEMMA RemoveOldestStep ==
    ASSUME Inductive, RemoveOldest
    PROVE  Inductive'
  <1>. USE DEF Inductive
  <1>1. Oldest \in 1..Len(db.chunk)
    <2>1. Chunks(db, {"new", "updated"}) \in SUBSET Nat
      BY Lengths DEF Chunks, TypeOK
    <2>2. Chunks(db, {"new", "updated"}) # {}
      BY DEF RemoveOldest, MayRemove
    <2>3. Oldest \in Chunks(db, {"new", "updated"})
      BY <2>1, <2>2, LeastExists DEF Oldest
    <2>. QED  BY <2>3 DEF Chunks
  <1>2. Kept(db, db')
    BY <1>1, WithoutChunkTyped, Lengths DEF RemoveOldest, TypeOK, Kept
  <1>3. TypeOK'
    BY <1>2 DEF Kept, TypeOK, RemoveOldest, ClearAllCache, cache, Stages
  <1>4. JobFits' /\ NoRowLost'
    BY <1>2, JobStays, Lengths DEF Kept, TypeOK, RemoveOldest
  <1>. QED  BY <1>2, <1>3, <1>4 DEF Kept, RemoveOldest, HasRoot, CanCopy

LEMMA LimitDoneStep ==
    ASSUME Inductive, LimitDone
    PROVE  Inductive'
  <1>. USE DEF Inductive
  <1>1. TypeOK'
    BY DEF TypeOK, LimitDone, cache, Stages
  <1>2. JobFits' /\ NoRowLost'
    BY JobStays, Lengths DEF TypeOK, LimitDone
  <1>. QED  BY <1>1, <1>2 DEF LimitDone, HasRoot, CanCopy

\* An operation that only ends: what follows the body of an operation.
LEMMA CommitStep ==
    ASSUME Inductive, Commit
    PROVE  Inductive'
  <1>. USE DEF Inductive
  <1>1. TypeOK' /\ WeakFits(disk') /\ WeakFits(db')
    BY NoJobTyped DEF TypeOK, Commit, cache, Stages
  <1>. QED  BY <1>1, Quiet DEF Commit

LEMMA FaultStep ==
    ASSUME Inductive, Fault
    PROVE  Inductive'
  <1>. USE DEF Inductive
  <1>1. TypeOK'
    BY DEF TypeOK, Fault, cache, Stages
  <1>2. JobFits' /\ NoRowLost'
    BY JobStays, Lengths DEF TypeOK, Fault
  <1>. QED  BY <1>1, <1>2 DEF Fault, HasRoot, CanCopy

LEMMA UnwindStep ==
    ASSUME Inductive, Unwind
    PROVE  Inductive'
  <1>. USE DEF Inductive
  <1>1. TypeOK' /\ WeakFits(disk') /\ WeakFits(db')
    BY NoJobTyped DEF TypeOK, Unwind, cache, Stages
  <1>. QED  BY <1>1, Quiet DEF Unwind

LEMMA RestartStep ==
    ASSUME Inductive, Restart
    PROVE  Inductive'
  <1>. USE DEF Inductive
  <1>1. TypeOK' /\ WeakFits(disk') /\ WeakFits(db')
    BY NoJobTyped DEF TypeOK, Restart, Stages
  <1>. QED  BY <1>1, Quiet DEF Restart

LEMMA GiveUpStep ==
    ASSUME Inductive, RebuildGiveUp
    PROVE  Inductive'
  <1>. USE DEF Inductive
  <1>1. TypeOK' /\ WeakFits(disk') /\ WeakFits(db')
    BY NoJobTyped DEF TypeOK, RebuildGiveUp, ClearAllCache, Stages
  <1>. QED  BY <1>1, Quiet DEF RebuildGiveUp

LEMMA PredictBeginStep ==
    ASSUME Inductive, NEW b \in Batches, NEW k \in 1..Len(b), PredictBegin(b[k].x)
    PROVE  Inductive'
  <1>. USE DEF Inductive
  <1>1. job' \in Job /\ job'.todo = {} /\ job'.rows = {} /\ job'.pending = {}
        /\ job'.routed = {}
    <2>1. b[k].x \in [Features -> Nat]
      BY BatchType
    <2>. QED  BY <2>1, NoJobTyped DEF PredictBegin, Job, NoJob
  <1>2. TypeOK'
    BY <1>1 DEF TypeOK, PredictBegin, cache, Stages
  <1>3. JobFits' /\ NoRowLost'
    BY <1>1, FS_EmptySet DEF JobFits, NoRowLost
  <1>. QED  BY <1>2, <1>3 DEF PredictBegin, cache, HasRoot, CanCopy

\* Training begins with a node for the root.
LEMMA RootTyped ==
    ASSUME NEW rows \in SUBSET Nat
    PROVE  /\ Root(rows) \subseteq Pending
           /\ \A n \in Root(rows) : n.parent = 0 /\ n.rows = rows
           /\ \E n \in Root(rows) : TRUE
  BY DEF Root, Pending

LEMMA UpdateBeginStep ==
    ASSUME Inductive, UpdateBegin
    PROVE  Inductive'
  <1>. USE DEF Inductive
  <1>. DEFINE rows == Rows(db, {"new"})
  <1>1. Kept(db, db') /\ db'.generation # <<>>
    BY FirstTyped DEF TypeOK
  <1>2. rows \subseteq 1..Len(db.instance)
    BY RowsType DEF TypeOK
  <1>3. /\ job'.todo = rows /\ job'.rows = {} /\ job'.routed = {}
        /\ job'.pending = {} \/ job'.pending = Root(rows)
    BY DEF UpdateBegin, NoJob
  <1>4. \A n \in Root(rows) : n \in Pending /\ n.parent = 0 /\ n.rows = rows
    <2>1. rows \in SUBSET Nat
      BY <1>2, Lengths DEF TypeOK
    <2>. QED  BY <2>1, RootTyped
  <1>5. job' \in Job
    <2>1. Root(rows) \subseteq Pending /\ rows \subseteq Nat
      BY <1>2, <1>4, Lengths DEF TypeOK
    <2>. HIDE DEF rows
    <2>. QED  BY <2>1, NoJobTyped DEF UpdateBegin, NoJob, Job, rows
  <1>6. TypeOK'
    BY <1>1, <1>5 DEF Kept, TypeOK, UpdateBegin, cache, Stages
  <1>7. JobFits'
    BY <1>1, <1>2, <1>3, <1>4, FS_EmptySet DEF Kept, JobFits
  <1>8. NoRowLost'
    BY <1>3 DEF NoRowLost, UpdateBegin
  <1>. QED  BY <1>1, <1>6, <1>7, <1>8 DEF Kept, UpdateBegin, cache, HasRoot, CanCopy

LEMMA RebuildBeginStep ==
    ASSUME Inductive, RebuildBegin
    PROVE  Inductive'
  <1>. USE DEF Inductive
  <1>1. Kept(db, db') /\ Len(db'.generation) = Len(db.generation) + 1
    BY AnnouncedTyped DEF TypeOK
  <1>. DEFINE g == Len(db.generation) + 1
              rows == {i \in UNION {Met(db', c) : c \in Chunks(db', {"new", "updated"})} :
                         db'.leaf_info[LeafId(db', i)].go_to = g}
  <1>2. /\ job' = [NoJob EXCEPT !.rows = rows, !.pending = Root(rows)]
        /\ pc' \in {"throw", "grow"}
    BY DEF RebuildBegin
  <1>3. rows \subseteq 1..Len(db'.instance)
    <2>1. \A c : Met(db', c) \subseteq 1..Len(db'.instance)
      BY <1>1, MetFinite DEF Kept
    <2>. QED  BY <2>1
  <1>. HIDE DEF rows
  <1>4. \A n \in Root(rows) : n \in Pending /\ n.parent = 0 /\ n.rows = rows
    <2>1. rows \in SUBSET Nat
      BY <1>1, <1>3, Lengths DEF Kept
    <2>. QED  BY <2>1, RootTyped
  <1>5. job' \in Job
    <2>1. Root(rows) \subseteq Pending /\ rows \subseteq Nat
      BY <1>1, <1>3, <1>4, Lengths DEF Kept
    <2>. QED  BY <1>2, <2>1, NoJobTyped DEF NoJob, Job
  <1>6. /\ job'.todo = {} /\ job'.rows = rows /\ job'.routed = {}
        /\ job'.pending = Root(rows) /\ Root(rows) # {}
    BY <1>2 DEF NoJob, Root
  <1>7. kids' \subseteq ChildRowType
    <2>1. g \in Nat
      BY Lengths DEF TypeOK
    <2>. HIDE DEF g
    <2>2. \A leaf \in LeafInfo \cup NoLeafType : SentOn(leaf, g) \in LeafInfo \cup NoLeafType
      BY <2>1, SentOnType
    <2>3. \A k \in ChildRowType : [k EXCEPT !.leaf = SentOn(@, g)] \in ChildRowType
      BY <2>2 DEF ChildRowType
    <2>4. kids' = {[k EXCEPT !.leaf = SentOn(@, g)] : k \in kids}
      BY DEF RebuildBegin, g
    <2>. QED  BY <2>3, <2>4 DEF TypeOK
  <1>8. TypeOK'
    BY <1>1, <1>2, <1>5, <1>7 DEF Kept, TypeOK, RebuildBegin, Stages
  <1>9. JobFits'
    BY <1>3, <1>4, <1>6, FS_EmptySet DEF JobFits
  <1>10. NoRowLost'
    BY <1>2, <1>4, <1>6 DEF NoRowLost
  <1>11. HasRoot'
    BY <1>1, <1>2, Lengths DEF HasRoot, Kept, TypeOK
  <1>. QED  BY <1>1, <1>2, <1>8, <1>9, <1>10, <1>11 DEF Kept, RebuildBegin, CanCopy

LEMMA RebuildInstallStep ==
    ASSUME Inductive, RebuildInstall
    PROVE  Inductive'
  <1>. USE DEF Inductive
  <1>1. pc = "judge" /\ pc' = "commit" /\ job' = job /\ UNCHANGED <<disk, cache, failed>>
    BY DEF RebuildInstall
  <1>2. Kept(db, db')
    BY <1>1, InstalledTyped DEF TypeOK, JobFits, NoRowLost, HasRoot
  <1>3. TypeOK'
    BY <1>1, <1>2 DEF Kept, TypeOK, cache, Stages
  <1>4. JobFits' /\ NoRowLost'
    BY <1>1, <1>2, JobStays, Lengths DEF Kept, TypeOK
  <1>. QED  BY <1>1, <1>2, <1>3, <1>4 DEF Kept, HasRoot, CanCopy

LEMMA UpdateFinishStep ==
    ASSUME Inductive, UpdateFinish
    PROVE  Inductive'
  <1>. USE DEF Inductive
  <1>1. Kept(db, db')
    BY FinishTyped DEF TypeOK, JobFits
  <1>2. kids' \subseteq ChildRowType
    <2>2. \A k \in kids : Gained(k.leaf, k.leaf_id) \in LeafInfo \cup NoLeafType
      BY GainedType DEF JobFits, TypeOK, ChildRowType
    <2>3. \A k \in kids : [k EXCEPT !.leaf = Gained(@, k.leaf_id)] \in ChildRowType
      BY <2>2 DEF TypeOK, ChildRowType
    <2>. QED  BY <2>3 DEF UpdateFinish
  <1>3. TypeOK'
    BY <1>1, <1>2 DEF Kept, TypeOK, UpdateFinish, Stages
  <1>4. JobFits' /\ NoRowLost'
    BY <1>1, JobStays, Lengths DEF Kept, TypeOK, UpdateFinish
  <1>. QED  BY <1>1, <1>3, <1>4 DEF Kept, UpdateFinish, HasRoot, CanCopy

\* A branch has a rule, and rows of the node it comes from.
LEMMA BranchTyped ==
    ASSUME NEW d, NEW S, NEW rule \in Rule, NEW rank \in Nat
    PROVE  LET b == Branch(d, S, rule, rank)
           IN  b.rule \in Rule /\ b.rank \in Nat /\ b.rows \subseteq S
  BY DEF Branch

\* split_tree divides all rows of a node among its branches.
LEMMA SplitTyped ==
    ASSUME NEW d \in Database, NEW S \in SUBSET (1..Len(d.instance)), NEW sp \in Splits(d, S)
    PROVE  /\ \A b \in sp : b.rule \in Rule /\ b.rank \in Nat /\ b.rows \subseteq S
           /\ \A i \in S : \E b \in sp : i \in b.rows
  <1>1. \A i \in S, f \in Features : d.instance[i].x[f] \in Nat
    BY RowTypes DEF Instance
  <1>2. CASE \E f \in Nominal : sp = NominalSplit(d, S, f)
    <2>1. PICK f \in Nominal : sp = NominalSplit(d, S, f)
      BY <1>2
    <2>. DEFINE rule(v) == [feature |-> f, type |-> "equ", value |-> v]
                branch(v) == Branch(d, S, rule(v), v)
    <2>2. sp = {branch(v) : v \in ValuesOf(d, S, f)}
      BY <2>1 DEF NominalSplit
    <2>3. \A v \in ValuesOf(d, S, f) : v \in Nat /\ rule(v) \in Rule
      BY <1>1 DEF ValuesOf, Rule, Features
    <2>4. \A v \in ValuesOf(d, S, f) :
             branch(v).rule \in Rule /\ branch(v).rank \in Nat /\ branch(v).rows \subseteq S
      BY <2>3, BranchTyped
    <2>5. ASSUME NEW i \in S
          PROVE  \E b \in sp : i \in b.rows
      <3>. DEFINE v == d.instance[i].x[f]
      <3>1. v \in ValuesOf(d, S, f)
        BY DEF ValuesOf
      <3>2. i \in branch(v).rows
        BY DEF Branch
      <3>. HIDE DEF branch
      <3>. QED  BY <2>2, <3>1, <3>2
    <2>. HIDE DEF branch
    <2>. QED  BY <2>2, <2>4, <2>5
  <1>3. CASE \E f \in Numeric, j \in S : sp = NumericSplit(d, S, f, d.instance[j].x[f])
    <2>1. PICK f \in Numeric, j \in S : sp = NumericSplit(d, S, f, d.instance[j].x[f])
      BY <1>3
    <2>. DEFINE v == d.instance[j].x[f]
                lte == [feature |-> f, type |-> "lte", value |-> v]
                gt  == [feature |-> f, type |-> "gt", value |-> v]
                low == Branch(d, S, lte, 0)
                high == Branch(d, S, gt, 1)
    <2>2. sp = {low, high}
      BY <2>1 DEF NumericSplit
    <2>3. v \in Nat /\ lte \in Rule /\ gt \in Rule
      BY <1>1 DEF Rule, Features
    <2>4. /\ low.rule \in Rule /\ low.rank \in Nat /\ low.rows \subseteq S
          /\ high.rule \in Rule /\ high.rank \in Nat /\ high.rows \subseteq S
      BY <2>3, BranchTyped
    <2>5. \A i \in S : i \in low.rows \/ i \in high.rows
      <3>. TAKE i \in S
      <3>1. d.instance[i].x[f] \in Nat
        BY <1>1 DEF Features
      <3>2. low.rows = {k \in S : d.instance[k].x[f] <= v}
        BY DEF Branch
      <3>3. high.rows = {k \in S : d.instance[k].x[f] > v}
        BY DEF Branch
      <3>. HIDE DEF low, high, v
      <3>. QED  BY <2>3, <3>1, <3>2, <3>3
    <2>. HIDE DEF low, high
    <2>. QED  BY <2>2, <2>4, <2>5
  <1>. QED  BY <1>2, <1>3 DEF Splits, FeatureSplits, Features

LEMMA GrowLeafStep ==
    ASSUME Inductive, GrowLeaf
    PROVE  Inductive'
  <1>. USE DEF Inductive
  <1>1. PICK n \in job.pending :
            /\ db' = WithTreenode(db, n, <<Leaf(db, n.rows)>>)
            /\ job' = [job EXCEPT !.pending = @ \ {n},
                                  !.placed = @ \cup (n.rows \X {Len(db.treenode) + 1})]
    BY DEF GrowLeaf
  <1>2. n \in Pending /\ n.rows \subseteq 1..Len(db.instance) /\ (n.parent # 0 => n.rule \in Rule)
    BY DEF TypeOK, Job, JobFits
  <1>3. <<Leaf(db, n.rows)>> \in Seq(LeafInfo)
    <2>1. IsFiniteSet(n.rows)
      BY <1>2, PositionsFinite, Lengths DEF TypeOK
    <2>2. Leaf(db, n.rows) \in LeafInfo
      BY <2>1, LeafType
    <2>. QED  BY <2>2
  <1>. DEFINE leaves == <<Leaf(db, n.rows)>>
              id == Len(db.treenode) + 1
  <1>. HIDE DEF leaves
  <1>4. n.parent \in Nat
    BY <1>2 DEF Pending
  <1>5. Kept(db, db') /\ Len(db'.treenode) = id
    BY <1>1, <1>2, <1>3, <1>4, WithTreenodeTyped DEF TypeOK, leaves
  <1>6. id \in Nat
    BY Lengths DEF TypeOK
  <1>7. /\ job' \in Job /\ job'.todo = job.todo /\ job'.rows = job.rows
        /\ job'.routed = job.routed /\ job'.pending = job.pending \ {n}
        /\ job'.placed = job.placed \cup (n.rows \X {id})
    <2>1. n.rows \X {id} \in SUBSET (Nat \X Nat)
      BY <1>2, <1>6, Lengths DEF TypeOK
    <2>. QED  BY <1>1, <2>1 DEF TypeOK, Job
  <1>. HIDE DEF id
  <1>8. pc = "grow" /\ pc' = Grown
    BY DEF GrowLeaf
  <1>9. TypeOK'
    BY <1>5, <1>7, <1>8 DEF Kept, TypeOK, GrowLeaf, cache, Stages, Grown
  <1>10. JobFits'
    BY <1>5, <1>7 DEF Kept, JobFits
  <1>11. NoRowLost'
    <2>1. 1..Len(db.treenode) \subseteq 1..Len(db'.treenode) /\ id \in 1..Len(db'.treenode)
      BY <1>5, Lengths DEF id, TypeOK
    <2>2. \A i \in n.rows : <<i, id>> \in job'.placed
      BY <1>7
    <2>3. pc' = "judge" => job'.pending = {}
      BY <1>8 DEF Grown
    <2>. QED  BY <1>7, <2>1, <2>2, <2>3 DEF NoRowLost
  <1>12. HasRoot' /\ CanCopy'
    BY <1>5, <1>8, Lengths DEF HasRoot, CanCopy, Kept, Grown, TypeOK
  <1>. QED  BY <1>5, <1>9, <1>10, <1>11, <1>12 DEF Kept, GrowLeaf

LEMMA GrowSplitStep ==
    ASSUME Inductive, GrowSplit
    PROVE  Inductive'
  <1>. USE DEF Inductive
  <1>. DEFINE id == Len(db.treenode) + 1
              node(b) == [parent |-> id, rule |-> b.rule, rank |-> b.rank, rows |-> b.rows]
  <1>0. PICK n \in job.pending : \E sp \in Splits(db, n.rows) :
            /\ db' = WithTreenode(db, n, <<>>)
            /\ job' = [job EXCEPT !.pending = (@ \ {n}) \cup {node(b) : b \in sp}]
    BY DEF GrowSplit
  <1>1. PICK sp \in Splits(db, n.rows) :
            /\ db' = WithTreenode(db, n, <<>>)
            /\ job' = [job EXCEPT !.pending = (@ \ {n}) \cup {node(b) : b \in sp}]
    BY <1>0
  <1>2. n \in Pending /\ n.rows \subseteq 1..Len(db.instance) /\ (n.parent # 0 => n.rule \in Rule)
    BY DEF TypeOK, Job, JobFits
  <1>3. /\ \A b \in sp : b.rule \in Rule /\ b.rank \in Nat /\ b.rows \subseteq n.rows
        /\ \A i \in n.rows : \E b \in sp : i \in b.rows
    BY <1>2, SplitTyped DEF TypeOK
  <1>4. n.parent \in Nat /\ <<>> \in Seq(LeafInfo)
    BY <1>2 DEF Pending
  <1>5. Kept(db, db') /\ Len(db'.treenode) = id
    BY <1>1, <1>2, <1>4, WithTreenodeTyped DEF TypeOK
  <1>6. id \in Nat /\ n.rows \subseteq Nat
    BY <1>2, Lengths DEF TypeOK
  <1>. DEFINE new == {node(b) : b \in sp}
  <1>7. \A b \in sp : node(b) \in Pending
    BY <1>3, <1>6 DEF Pending
  <1>8. new \subseteq Pending
    BY <1>7
  <1>9. \A m \in new : m.rule \in Rule /\ m.rows \subseteq n.rows
    BY <1>3
  <1>10. \A i \in n.rows : \E m \in new : i \in m.rows
    <2>. TAKE i \in n.rows
    <2>1. PICK b \in sp : i \in b.rows
      BY <1>3
    <2>2. node(b) \in new /\ i \in node(b).rows
      BY <2>1
    <2>. QED  BY <2>2
  <1>. HIDE DEF new, id
  <1>11. /\ job' \in Job /\ job'.todo = job.todo /\ job'.rows = job.rows
         /\ job'.routed = job.routed /\ job'.placed = job.placed
         /\ job'.pending = (job.pending \ {n}) \cup new
    BY <1>1, <1>8 DEF TypeOK, Job, new
  <1>12. pc = "grow" /\ pc' = Grown
    BY DEF GrowSplit
  <1>13. TypeOK'
    BY <1>5, <1>11, <1>12 DEF Kept, TypeOK, GrowSplit, cache, Stages, Grown
  <1>14. JobFits'
    BY <1>2, <1>5, <1>9, <1>11 DEF Kept, JobFits
  <1>15. NoRowLost'
    <2>1. 1..Len(db.treenode) \subseteq 1..Len(db'.treenode)
      BY <1>5, Lengths DEF id, TypeOK
    <2>2. pc' = "judge" => job'.pending = {}
      BY <1>12 DEF Grown
    <2>. QED  BY <1>10, <1>11, <2>1, <2>2 DEF NoRowLost
  <1>16. HasRoot' /\ CanCopy'
    BY <1>5, <1>12, Lengths DEF HasRoot, CanCopy, Kept, Grown, TypeOK
  <1>. QED  BY <1>5, <1>13, <1>14, <1>15, <1>16 DEF Kept, GrowSplit

-----------------------------------------------------------------------------
(* The walk.                                                                 *)

\* What get_treenode_from_cache returns.
LEMMA SeenTyped ==
    ASSUME TypeOK, NEW p
    PROVE  Seen(p) \subseteq ChildRowType /\ \A k \in Seen(p) : k.parent = p
  BY ChildsType DEF Seen, TypeOK

\* Where a walk stands, and what its round through get_treenode_from_cache leaves.
LEMMA VisitTyped ==
    ASSUME Inductive, Visit
    PROVE  /\ pc \in {"route", "predict"} /\ (pc = "route" => job.todo # {})
           /\ Here \in Nat
           /\ known' \subseteq Nat /\ kids' \subseteq ChildRowType
           /\ first' \in Nat /\ (first' # 0 \/ db.generation # <<>>)
           /\ UNCHANGED <<disk, failed>>
  <1>. USE DEF Inductive
  <1>1. pc \in {"route", "predict"} /\ (pc = "route" => job.todo # {})
    BY DEF Visit, Walking
  <1>2. FirstRoot \in Nat
    <2>1. CASE first # 0
      BY <2>1 DEF FirstRoot, TypeOK
    <2>2. CASE first = 0
      <3>1. db.generation # <<>> /\ db.generation \in Seq(Nat)
        BY <1>1, <2>2 DEF HasRoot, TypeOK, Database
      <3>. QED  BY <2>2, <3>1 DEF FirstRoot
    <2>. QED  BY <2>1, <2>2
  <1>3. Here \in Nat
    BY <1>2 DEF Here, TypeOK, Job
  <1>4. known' \subseteq Nat /\ kids' \subseteq ChildRowType
    BY <1>3, SeenTyped DEF Visit, Remember, TypeOK
  <1>. QED  BY <1>1, <1>2, <1>3, <1>4 DEF Visit, HasRoot, FirstRoot

\* The child that the walk goes to.
LEMMA ChoiceTyped ==
    ASSUME TypeOK, Matched # {}
    PROVE  Choice \in ChildRowType
  <1>1. Matched \subseteq ChildRowType
    BY SeenTyped DEF Matched
  <1>2. \A k \in Matched : k.id \in Nat
    BY <1>1 DEF ChildRowType
  <1>. QED  BY <1>1, <1>2, FirstExists DEF Choice

LEMMA NoChildsStep ==
    ASSUME Inductive, NoChilds
    PROVE  Inductive'
  <1>. USE DEF Inductive
  <1>1. Visit /\ pc' = "throw" /\ UNCHANGED <<db, roots, job>>
    BY DEF NoChilds
  <1>2. TypeOK'
    BY <1>1, VisitTyped DEF TypeOK, Stages
  <1>3. JobFits' /\ NoRowLost'
    BY <1>1, JobStays, Lengths DEF TypeOK
  <1>. QED  BY <1>1, <1>2, <1>3, VisitTyped DEF HasRoot, CanCopy

LEMMA NoMatchStep ==
    ASSUME Inductive, NoMatch
    PROVE  Inductive'
  <1>. USE DEF Inductive
  <1>1. Visit /\ Seen(Here) # {} /\ UNCHANGED <<db, roots>>
    BY DEF NoMatch
  <1>2. CASE pc = "predict"
    <2>1. pc' = "idle" /\ job' = NoJob
      BY <1>2 DEF NoMatch
    <2>2. TypeOK'
      BY <1>1, <2>1, VisitTyped, NoJobTyped DEF TypeOK, Stages
    <2>. QED  BY <1>1, <2>1, <2>2, Quiet, VisitTyped
  <1>3. CASE pc # "predict"
    <2>1. pc' = "rule_add" /\ job' = [job EXCEPT !.cur = Here]
      BY <1>3 DEF NoMatch
    <2>2. /\ job' \in Job /\ job'.cur = Here /\ job'.todo = job.todo /\ job'.rows = job.rows
          /\ job'.routed = job.routed /\ job'.pending = job.pending /\ job'.placed = job.placed
      BY <1>1, <2>1, VisitTyped DEF TypeOK, Job
    <2>3. TypeOK'
      BY <1>1, <2>1, <2>2, VisitTyped DEF TypeOK, Stages
    <2>4. JobFits' /\ NoRowLost'
      BY <1>1, <2>1, <2>2 DEF JobFits, NoRowLost
    <2>5. CanCopy'
      <3>. DEFINE here == Here
      <3>1. PICK k \in Seen(here) : k.parent = here
        BY <1>1, SeenTyped
      <3>2. here \in known' /\ k \in kids'
        BY <1>1 DEF Visit, Remember
      <3>. HIDE DEF here
      <3>3. k \in Seen(job.cur)'
        BY <2>2, <3>1, <3>2 DEF Seen, here
      <3>4. job.todo # {}
        BY <1>1, <1>3, VisitTyped
      <3>. QED  BY <2>2, <3>3, <3>4 DEF CanCopy
    <2>. QED  BY <1>1, <2>1, <2>3, <2>4, <2>5, VisitTyped DEF HasRoot
  <1>. QED  BY <1>2, <1>3

LEMMA StepDownStep ==
    ASSUME Inductive, StepDown
    PROVE  Inductive'
  <1>. USE DEF Inductive
  <1>1. Visit /\ Matched # {} /\ job' = [job EXCEPT !.cur = Choice.id] /\ UNCHANGED <<db, roots, pc>>
    BY DEF StepDown
  <1>2. Choice.id \in Nat
    BY <1>1, ChoiceTyped DEF ChildRowType
  <1>3. /\ job' \in Job /\ job'.todo = job.todo /\ job'.rows = job.rows
        /\ job'.routed = job.routed /\ job'.pending = job.pending /\ job'.placed = job.placed
    BY <1>1, <1>2 DEF TypeOK, Job
  <1>4. TypeOK'
    BY <1>1, <1>3, VisitTyped DEF TypeOK
  <1>5. JobFits' /\ NoRowLost'
    BY <1>1, <1>3 DEF JobFits, NoRowLost
  <1>. QED  BY <1>1, <1>4, <1>5, VisitTyped DEF HasRoot, CanCopy

LEMMA RootsTyped ==
    ASSUME TypeOK, NEW g \in Nat
    PROVE  RootsOf(g) \subseteq Nat \X Nat
  <1>1. CASE \E r \in roots : r[1] = g
    BY <1>1 DEF RootsOf, TypeOK
  <1>2. CASE ~(\E r \in roots : r[1] = g)
    <2>1. g \in 1..Len(db.generation) => db.generation[g] \in Nat
      BY RowTypes DEF TypeOK
    <2>. QED  BY <1>2, <2>1 DEF RootsOf
  <1>. QED  BY <1>1, <1>2

LEMMA JumpStep ==
    ASSUME Inductive, JumpToGeneration
    PROVE  Inductive'
  <1>. USE DEF Inductive
  <1>. DEFINE found == RootsOf(Choice.leaf.go_to)
  <1>1. /\ Visit /\ Matched # {} /\ Choice.leaf.type = "go_to_generation"
        /\ roots' = roots \cup found /\ UNCHANGED db
        /\ \/ pc' = "throw" /\ UNCHANGED job
           \/ (\E r \in found : job' = [job EXCEPT !.cur = r[2]]) /\ UNCHANGED pc
    BY DEF JumpToGeneration
  <1>2. Choice.leaf.go_to \in Nat
    BY <1>1, ChoiceTyped DEF ChildRowType, LeafInfo, NoLeafType
  <1>3. found \subseteq Nat \X Nat
    BY <1>2, RootsTyped
  <1>. HIDE DEF found
  <1>4. /\ job' \in Job /\ job'.todo = job.todo /\ job'.rows = job.rows
        /\ job'.routed = job.routed /\ job'.pending = job.pending /\ job'.placed = job.placed
    BY <1>1, <1>3 DEF TypeOK, Job
  <1>5. TypeOK'
    BY <1>1, <1>3, <1>4, VisitTyped DEF TypeOK, Stages
  <1>6. JobFits' /\ NoRowLost'
    BY <1>1, <1>4, VisitTyped DEF JobFits, NoRowLost
  <1>. QED  BY <1>1, <1>5, <1>6, VisitTyped DEF HasRoot, CanCopy

\* One instance is counted.
LEMMA CountedTyped ==
    ASSUME Inductive, NEW i \in job.todo, NEW k, k.leaf_id \in Nat, k.leaf \in LeafInfo,
           NEW added \in BOOLEAN
    PROVE  LET j == Counted(i, k, added)
           IN  /\ j \in Job /\ j.todo \subseteq job.todo /\ j.rows = job.rows
               /\ IsFiniteSet(j.routed) /\ j.pending = job.pending /\ j.placed = job.placed
  <1>. USE DEF Inductive
  <1>. DEFINE r == [instance |-> i, leaf |-> k.leaf_id, added |-> added,
                    actual |-> db.instance[i].y, predicted |-> k.leaf.label]
              j == Counted(i, k, added)
  <1>1. i \in 1..Len(db.instance) /\ i \in Nat
    BY Lengths DEF JobFits, TypeOK
  <1>2. db.instance[i].y \in Labels /\ k.leaf.label \in Labels
    BY <1>1, RowTypes DEF TypeOK, Instance, LeafInfo
  <1>3. r \in Routed
    BY <1>1, <1>2 DEF Routed
  <1>4. j = [job EXCEPT !.todo = @ \ {i}, !.cur = 0, !.routed = @ \cup {r}]
    BY DEF Counted
  <1>5. IsFiniteSet(job.routed \cup {r})
    BY FS_AddElement DEF JobFits
  <1>. HIDE DEF r, j
  <1>6. /\ j \in Job /\ j.todo = job.todo \ {i} /\ j.rows = job.rows
        /\ j.routed = job.routed \cup {r} /\ j.pending = job.pending /\ j.placed = job.placed
    BY <1>3, <1>4 DEF TypeOK, Job
  <1>. QED  BY <1>5, <1>6 DEF j

\* The locals after an instance is counted fit the database after it is judged.
LEMMA CountedFits ==
    ASSUME JobFits, NoRowLost, pc' = "route", Kept(db, db'), db \in Database,
           job'.todo \subseteq job.todo, job'.rows = job.rows, IsFiniteSet(job'.routed),
           job'.pending = job.pending, job'.placed = job.placed
    PROVE  JobFits' /\ NoRowLost'
  <1>1. 1..Len(db.treenode) \subseteq 1..Len(db'.treenode)
    BY Lengths DEF Kept
  <1>2. JobFits'
    BY DEF JobFits, Kept
  <1>3. NoRowLost'
    BY <1>1 DEF NoRowLost
  <1>. QED  BY <1>2, <1>3

LEMMA TodoLeast ==
    ASSUME Inductive, job.todo # {}
    PROVE  Least(job.todo) \in job.todo /\ Least(job.todo) \in 1..Len(db.instance)
  <1>1. job.todo \in SUBSET Nat
    BY DEF Inductive, TypeOK, Job
  <1>. QED  BY <1>1, LeastExists DEF Inductive, JobFits

LEMMA ArriveStep ==
    ASSUME Inductive, Arrive
    PROVE  Inductive'
  <1>. USE DEF Inductive
  <1>1. Visit /\ Matched # {} /\ Choice.leaf.type = "leaf" /\ UNCHANGED roots
    BY DEF Arrive
  <1>2. CASE pc = "predict"
    <2>1. pc' = "idle" /\ job' = NoJob /\ UNCHANGED db
      BY <1>2 DEF Arrive
    <2>2. TypeOK'
      BY <1>1, <2>1, VisitTyped, NoJobTyped DEF TypeOK, Stages
    <2>. QED  BY <1>1, <2>1, <2>2, Quiet, VisitTyped
  <1>3. CASE pc # "predict"
    <2>. DEFINE i == Least(job.todo)
    <2>1. pc = "route" /\ pc' = "route" /\ db' = Judged(db, i, Choice)
          /\ job' = Counted(i, Choice, FALSE)
      BY <1>1, <1>3, VisitTyped DEF Arrive
    <2>2. i \in job.todo /\ i \in 1..Len(db.instance)
      BY <1>1, <2>1, VisitTyped, TodoLeast
    <2>3. Choice.id \in Nat /\ Choice.leaf_id \in Nat /\ Choice.leaf \in LeafInfo
      BY <1>1, ChoiceTyped DEF ChildRowType, NoLeafType
    <2>. HIDE DEF i
    <2>4. Kept(db, db')
      BY <2>1, <2>2, <2>3, JudgedTyped DEF TypeOK
    <2>5. /\ job' \in Job /\ job'.todo \subseteq job.todo /\ job'.rows = job.rows
          /\ IsFiniteSet(job'.routed) /\ job'.pending = job.pending /\ job'.placed = job.placed
      BY <2>1, <2>2, <2>3, CountedTyped
    <2>6. TypeOK'
      BY <1>1, <2>1, <2>4, <2>5, VisitTyped DEF TypeOK, Kept, Stages
    <2>7. JobFits' /\ NoRowLost'
      BY <2>1, <2>4, <2>5, CountedFits DEF TypeOK
    <2>8. db.generation # <<>> => db'.generation # <<>>
      BY <2>4, Lengths DEF Kept, TypeOK
    <2>. QED  BY <1>1, <2>1, <2>4, <2>6, <2>7, <2>8, VisitTyped DEF Kept, HasRoot, CanCopy
  <1>. QED  BY <1>2, <1>3

\* Two changes of the database, one after the other.
LEMMA KeptTwice ==
    ASSUME NEW d \in Database, NEW e, NEW f, Kept(d, e), Kept(e, f)
    PROVE  Kept(d, f)
  BY Lengths DEF Kept

LEMMA RuleAddStep ==
    ASSUME Inductive, RuleAdd
    PROVE  Inductive'
  <1>. USE DEF Inductive
  <1>. DEFINE i == Least(job.todo)
              childs == Seen(job.cur)
              child == FirstOf(childs)
              d == WithRule(db, child, i)
              new == ChildRow(d, Len(d.treenode))
  <1>1. pc = "rule_add" /\ UNCHANGED <<disk, roots, first, failed>>
    BY DEF RuleAdd
  <1>2. \/ /\ ~CanAddRule(child)
           /\ pc' = "throw" /\ UNCHANGED <<db, known, kids, job>>
        \/ /\ CanAddRule(child)
           /\ known' = known \cup {job.cur}
           /\ kids' = {k \in kids : k.parent # job.cur} \cup Childs(d, job.cur)
           /\ \/ pc' = "throw" /\ db' = d /\ UNCHANGED job
              \/ pc' = "route" /\ db' = Judged(d, i, new) /\ job' = Counted(i, new, TRUE)
    BY DEF RuleAdd
  <1>3. CASE ~CanAddRule(child)
    <2>1. pc' = "throw" /\ UNCHANGED <<db, known, kids, job>>
      BY <1>2, <1>3
    <2>2. TypeOK'
      BY <1>1, <2>1 DEF TypeOK, Stages
    <2>3. JobFits' /\ NoRowLost'
      BY <2>1, JobStays, Lengths DEF TypeOK
    <2>. QED  BY <1>1, <2>1, <2>2, <2>3 DEF HasRoot, CanCopy
  <1>4. CASE CanAddRule(child)
    <2>1. i \in job.todo /\ i \in 1..Len(db.instance) /\ childs # {}
      BY <1>1, TodoLeast DEF CanCopy
    <2>2. child \in ChildRowType
      <3>1. \A k \in childs : k \in ChildRowType /\ k.id \in Nat
        BY SeenTyped DEF ChildRowType
      <3>. HIDE DEF childs
      <3>. QED  BY <2>1, <3>1, FirstExists
    <2>3. child.rule.type = "equ" /\ child.id \in 1..Len(db.rule) /\ child.id \in 1..Len(db.treenode)
      BY <1>4 DEF CanAddRule, CopiedRule
    <2>4. job.cur \in Nat
      BY DEF TypeOK, Job
    <2>. HIDE DEF child, i
    <2>5. /\ Kept(db, d) /\ Len(d.treenode) = Len(db.treenode) + 1
          /\ ChildRow(d, Len(db.treenode) + 1).leaf \in LeafInfo
      BY <2>1, <2>2, <2>3, <2>4, WithRuleTyped DEF TypeOK
    <2>. HIDE DEF d
    <2>6. d \in Database
      BY <2>5 DEF Kept
    <2>7. new.id \in Nat /\ new.leaf_id \in Nat /\ new.leaf \in LeafInfo
      <3>1. Len(d.treenode) \in 1..Len(d.treenode)
        BY <2>5, Lengths DEF TypeOK
      <3>2. new \in ChildRowType
        BY <2>6, <3>1, ChildRowTyped
      <3>. QED  BY <2>5, <3>2 DEF ChildRowType
    <2>8. known' \subseteq Nat /\ kids' \subseteq ChildRowType
      BY <1>2, <1>4, <2>4, <2>6, ChildsType DEF TypeOK
    <2>. HIDE DEF new
    <2>9. CASE pc' = "throw" /\ db' = d /\ UNCHANGED job
      <3>1. TypeOK'
        BY <1>1, <2>6, <2>8, <2>9 DEF TypeOK, Stages
      <3>2. JobFits' /\ NoRowLost'
        BY <2>5, <2>9, JobStays, Lengths DEF TypeOK, Kept
      <3>. QED  BY <1>1, <2>5, <2>9, <3>1, <3>2 DEF Kept, HasRoot, CanCopy
    <2>10. CASE pc' = "route" /\ db' = Judged(d, i, new) /\ job' = Counted(i, new, TRUE)
      <3>1. Kept(d, db')
        <4>1. i \in 1..Len(d.instance) /\ WeakFits(d)
          BY <2>1, <2>5 DEF Kept
        <4>. QED  BY <2>6, <2>7, <2>10, <4>1, JudgedTyped
      <3>2. Kept(db, db')
        BY <2>5, <3>1, KeptTwice DEF TypeOK
      <3>3. /\ job' \in Job /\ job'.todo \subseteq job.todo /\ job'.rows = job.rows
            /\ IsFiniteSet(job'.routed) /\ job'.pending = job.pending
            /\ job'.placed = job.placed
        BY <2>1, <2>7, <2>10, CountedTyped
      <3>4. TypeOK'
        BY <1>1, <2>8, <2>10, <3>2, <3>3 DEF TypeOK, Kept, Stages
      <3>5. JobFits' /\ NoRowLost'
        BY <2>10, <3>2, <3>3, CountedFits DEF TypeOK
      <3>6. first' # 0 \/ db'.generation # <<>>
        BY <1>1, <3>2, Lengths DEF Kept, TypeOK, HasRoot
      <3>. QED  BY <1>1, <2>10, <3>2, <3>4, <3>5, <3>6 DEF Kept, HasRoot, CanCopy
    <2>. QED  BY <1>2, <1>4, <2>9, <2>10
  <1>. QED  BY <1>3, <1>4

-----------------------------------------------------------------------------
(* The theorems.                                                             *)

LEMMA NextInductive == Inductive /\ [Next]_vars => Inductive'
  <1>. SUFFICES ASSUME Inductive, [Next]_vars PROVE Inductive'
    OBVIOUS
  <1>1. CASE UNCHANGED vars
    <2>1. UNCHANGED <<disk, db, known, kids, roots, first, pc, job, failed>>
      BY <1>1 DEF vars, cache
    <2>2. (Seen(job.cur))' = Seen(job.cur)
      BY <2>1 DEF Seen, Childs, ChildRow
    <2>. QED  BY <2>1, <2>2 DEF Inductive, TypeOK, NoRowLost, WeakFits, JobFits, HasRoot, CanCopy
  <1>2. CASE Begin
    BY <1>2, InsertStep, UpdateBeginStep, RebuildBeginStep, PredictBeginStep DEF Begin
  <1>3. CASE Step
    BY <1>3, RemoveOldestStep, LimitDoneStep, GrowLeafStep, GrowSplitStep, NoChildsStep,
       NoMatchStep, StepDownStep, JumpStep, ArriveStep, RuleAddStep, UpdateFinishStep,
       GiveUpStep, RebuildInstallStep, CommitStep, UnwindStep DEF Step
  <1>4. CASE Fault \/ Restart
    BY <1>4, FaultStep, RestartStep
  <1>. QED  BY <1>1, <1>2, <1>3, <1>4 DEF Next

\* Whatever the features, batches and bounds, and whatever fails, every variable
\* keeps its type: all that an operation reads back from a table or a cache is
\* there, and is what it takes it for.
THEOREM TypeCorrect == Spec => []TypeOK
  <1>1. Spec => []Inductive
    BY InitInductive, NextInductive, PTL DEF Spec
  <1>2. Inductive => TypeOK
    BY DEF Inductive
  <1>. QED  BY <1>1, <1>2, PTL

\* Training loses no row of a rebuild (the lookup in treenode_id_map never throws):
\* the branches of a split divide the rows of their node among them.
THEOREM TrainingKeepsRows == Spec => []NoRowLost
  <1>1. Spec => []Inductive
    BY InitInductive, NextInductive, PTL DEF Spec
  <1>2. Inductive => NoRowLost
    BY DEF Inductive
  <1>. QED  BY <1>1, <1>2, PTL

=============================================================================
