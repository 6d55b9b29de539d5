--------------------------- MODULE DataFrameProofs ---------------------------
(***************************************************************************)
(* The counters of the blocks follow the frames, for any number of frames, *)
(* blocks and rows and whatever is read (BlocksAreShared).  Every operation*)
(* is a few of five moves: a frame drops its block, joins one, is given a  *)
(* new one, looks at its block in another way, or changes its rows.        *)
(*                                                                         *)
(* The rows of the csv reader below fit its header and keep the order of   *)
(* the file (RowsFitHeader, RowsInOrder): a client that holds rows has one *)
(* for each line it has passed.                                            *)
(*                                                                         *)
(* A frame read from a file has the rows that its first pass counted       *)
(* (CountedIsRead).                                                        *)
(*                                                                         *)
(* Every view stays inside its block (TypeOK, ViewsInBounds): a block that *)
(* somebody sees is only ever extended.  So the others show what they      *)
(* showed (OneViewChanges).  And the two blocks of a split have the rows of*)
(* a set of numbers and those of the rest (SplitPartitions).               *)
(***************************************************************************)
EXTENDS DataFrame, FiniteSetTheorems, WellFoundedInduction, TLAPS

UsersOf(fr, b) == {f \in Frames : fr[f].block = b}
\* fn2 is fn but for one argument.
Changed(fn, a, v, fn2) == fn2 = [fn EXCEPT ![a] = v]
HasCount(r) == "count" \in DOMAIN r /\ r.count \in Int
HasBlock(x) == "block" \in DOMAIN x /\ x.block \in Blocks \cup {NoBlock}

\* As much of the types as the counters need.
Typed(h, fr) ==
    /\ DOMAIN h = Blocks /\ \A b \in Blocks : HasCount(h[b])
    /\ DOMAIN fr = Frames /\ \A f \in Frames : HasBlock(fr[f])

Counted(h, fr) ==
    \A b \in Blocks : /\ h[b].count = Cardinality(UsersOf(fr, b)) - 1
                      /\ UsersOf(fr, b) = {} => h[b] = Free
Good(h, fr) == Typed(h, fr) /\ Counted(h, fr)

LoadOK(l) == l = NotLoading \/ ("frame" \in DOMAIN l /\ l.frame \in Frames)
Inv == Good(heap, frames) /\ LoadOK(load)

-----------------------------------------------------------------------------
(* Users                                                                     *)

LEMMA UsersFinite == \A fr, b : IsFiniteSet(UsersOf(fr, b)) /\ Cardinality(UsersOf(fr, b)) \in Nat
<1> TAKE fr, b
<1>1. UsersOf(fr, b) \subseteq Frames
  BY DEF UsersOf
<1>2. IsFiniteSet(UsersOf(fr, b))
  BY <1>1, FrameAssumption, FS_Subset
<1> QED
  BY <1>2, FS_CardinalityType

\* The block of one frame changes: its users are one fewer, the new ones one more.
LEMMA UsersMove ==
    ASSUME NEW fr, DOMAIN fr = Frames, NEW f \in Frames, NEW x,
           NEW fr2, Changed(fr, f, x, fr2), NEW b
    PROVE  /\ x.block = b => UsersOf(fr2, b) = UsersOf(fr, b) \cup {f}
           /\ x.block # b => UsersOf(fr2, b) = UsersOf(fr, b) \ {f}
  BY DEF UsersOf, Changed

LEMMA UsersCount ==
    ASSUME NEW fr, DOMAIN fr = Frames, NEW f \in Frames, NEW x,
           NEW fr2, Changed(fr, f, x, fr2), NEW b
    PROVE  /\ (x.block = b /\ fr[f].block # b) =>
                Cardinality(UsersOf(fr2, b)) = Cardinality(UsersOf(fr, b)) + 1
           /\ (x.block # b /\ fr[f].block = b) =>
                Cardinality(UsersOf(fr2, b)) = Cardinality(UsersOf(fr, b)) - 1
<1> DEFINE U == UsersOf(fr, b)
           V == UsersOf(fr2, b)
<1>1. f \in U <=> fr[f].block = b
  BY DEF UsersOf
<1>2. /\ x.block = b => V = U \cup {f}
      /\ x.block # b => V = U \ {f}
  BY UsersMove
<1>3. IsFiniteSet(U) /\ Cardinality(U) \in Nat
  BY UsersFinite
<1> HIDE DEF U, V
<1>4. f \notin U => Cardinality(U \cup {f}) = Cardinality(U) + 1
  BY <1>3, FS_AddElement
<1>5. f \in U => Cardinality(U \ {f}) = Cardinality(U) - 1
  BY <1>3, FS_RemoveElement
<1>6. /\ (x.block = b /\ fr[f].block # b) => Cardinality(V) = Cardinality(U) + 1
      /\ (x.block # b /\ fr[f].block = b) => Cardinality(V) = Cardinality(U) - 1
  BY <1>1, <1>2, <1>4, <1>5
<1> QED
  BY <1>6 DEF U, V

\* A block with a user has a count, one without is free.
LEMMA UsedCounts ==
    ASSUME NEW h, NEW fr, Good(h, fr), NEW b \in Blocks
    PROVE  /\ UsersOf(fr, b) # {} <=> h[b].count >= 0
           /\ UsersOf(fr, b) = {} <=> h[b] = Free
<1>1. IsFiniteSet(UsersOf(fr, b)) /\ Cardinality(UsersOf(fr, b)) \in Nat
  BY UsersFinite
<1>2. Cardinality(UsersOf(fr, b)) = 0 <=> UsersOf(fr, b) = {}
  BY <1>1, FS_EmptySet
<1>3. h[b].count = Cardinality(UsersOf(fr, b)) - 1
  BY DEF Good, Counted
<1>4. Free.count = -1
  BY DEF Free
<1>5. UsersOf(fr, b) = {} => h[b] = Free
  BY DEF Good, Counted
<1>6. h[b] = Free => Cardinality(UsersOf(fr, b)) = 0
  BY <1>1, <1>3, <1>4
<1> QED
  BY <1>1, <1>2, <1>3, <1>5, <1>6

-----------------------------------------------------------------------------
(* The moves                                                                 *)

\* A frame drops its block (or has none).
LEMMA Drops ==
    ASSUME NEW h, NEW fr, Good(h, fr), NEW f \in Frames,
           NEW x, HasBlock(x), x.block = NoBlock,
           NEW h2, h2 = Dropped(h, fr[f].block), NEW fr2, Changed(fr, f, x, fr2)
    PROVE  Good(h2, fr2)
<1> DEFINE b == fr[f].block
<1>1. DOMAIN fr2 = Frames /\ \A g \in Frames : HasBlock(fr2[g])
  BY DEF Good, Typed, Changed
<1>2. CASE b = NoBlock
  <2>1. h2 = h
    BY <1>2 DEF Dropped
  <2>2. \A c \in Blocks : UsersOf(fr2, c) = UsersOf(fr, c)
    BY <1>2, BlockAssumption DEF Good, Typed, UsersOf, Changed
  <2> QED
    BY <1>1, <2>1, <2>2 DEF Good, Typed, Counted
<1>3. CASE b # NoBlock
  <2>1. b \in Blocks /\ f \in UsersOf(fr, b)
    BY <1>3 DEF Good, Typed, HasBlock, UsersOf
  <2>2. h[b].count \in Int /\ h[b].count >= 0
    BY <2>1, UsedCounts DEF Good, Typed, HasCount
  <2>3. HasCount(Free) /\ Free.count = -1
    BY DEF HasCount, Free
  <2>4. /\ DOMAIN h2 = Blocks
        /\ \A c \in Blocks \ {b} : h2[c] = h[c]
        /\ h[b].count > 0 => h2[b] = [h[b] EXCEPT !.count = @ - 1]
        /\ h[b].count = 0 => h2[b] = Free
    BY <1>3, <2>1, <2>2 DEF Dropped, Good, Typed
  <2>5. HasCount(h2[b]) /\ h2[b].count = h[b].count - 1
    BY <2>1, <2>2, <2>3, <2>4 DEF Good, Typed, HasCount
  <2>6. Typed(h2, fr2)
    BY <1>1, <2>1, <2>4, <2>5 DEF Good, Typed
  <2>7. /\ Cardinality(UsersOf(fr2, b)) = Cardinality(UsersOf(fr, b)) - 1
        /\ UsersOf(fr2, b) = UsersOf(fr, b) \ {f}
        /\ \A c \in Blocks \ {b} : UsersOf(fr2, c) = UsersOf(fr, c)
    <3>1. DOMAIN fr = Frames /\ x.block # b /\ \A c \in Blocks : x.block # c
      BY <1>3, BlockAssumption DEF Good, Typed
    <3>2. \A c \in Blocks : UsersOf(fr2, c) = UsersOf(fr, c) \ {f}
      BY <3>1, UsersMove
    <3>3. \A c \in Blocks \ {b} : f \notin UsersOf(fr, c)
      BY DEF UsersOf
    <3>4. Cardinality(UsersOf(fr2, b)) = Cardinality(UsersOf(fr, b)) - 1
      BY <3>1, UsersCount
    <3> QED
      BY <2>1, <3>2, <3>3, <3>4
  <2>8. UsersOf(fr2, b) = {} => h2[b] = Free
    <3>1. IsFiniteSet(UsersOf(fr2, b)) /\ Cardinality(UsersOf(fr2, b)) \in Nat
      BY UsersFinite
    <3>2. UsersOf(fr2, b) = {} => Cardinality(UsersOf(fr2, b)) = 0
      BY <3>1, FS_EmptySet
    <3>3. h[b].count = Cardinality(UsersOf(fr, b)) - 1
      BY <2>1 DEF Good, Counted
    <3>4. Cardinality(UsersOf(fr, b)) \in Nat
      BY UsersFinite
    <3> QED
      BY <2>4, <2>7, <3>2, <3>3, <3>4
  <2>9. Counted(h2, fr2)
    <3>1. h2[b].count = Cardinality(UsersOf(fr2, b)) - 1
      BY <2>1, <2>5, <2>7 DEF Good, Counted
    <3> QED
      BY <2>4, <2>7, <2>8, <3>1 DEF Good, Counted
  <2> QED
    BY <2>6, <2>9 DEF Good
<1> QED
  BY <1>2, <1>3

\* A frame without a block joins the users of one.
LEMMA Joins ==
    ASSUME NEW h, NEW fr, Good(h, fr), NEW f \in Frames, fr[f].block = NoBlock,
           NEW b \in Blocks, UsersOf(fr, b) # {}, NEW x, HasBlock(x), x.block = b,
           NEW r, "count" \in DOMAIN r, r.count = h[b].count + 1,
           NEW h2, Changed(h, b, r, h2),
           NEW fr2, Changed(fr, f, x, fr2)
    PROVE  Good(h2, fr2)
<1>1. DOMAIN fr2 = Frames /\ \A g \in Frames : HasBlock(fr2[g])
  BY DEF Good, Typed, Changed
<1>2. DOMAIN h2 = Blocks /\ h2[b] = r /\ \A c \in Blocks \ {b} : h2[c] = h[c]
  BY DEF Good, Typed, Changed
<1>3. HasCount(h2[b]) /\ h2[b].count = h[b].count + 1
  BY <1>2 DEF Good, Typed, HasCount
<1>4. Typed(h2, fr2)
  BY <1>1, <1>2, <1>3 DEF Good, Typed
<1>5. DOMAIN fr = Frames /\ fr[f].block # b /\ \A c \in Blocks : fr[f].block # c
  BY BlockAssumption DEF Good, Typed
<1>6. UsersOf(fr2, b) = UsersOf(fr, b) \cup {f}
  BY <1>5, UsersMove
<1>7. Cardinality(UsersOf(fr2, b)) = Cardinality(UsersOf(fr, b)) + 1
  BY <1>5, UsersCount
<1>8. \A c \in Blocks \ {b} : UsersOf(fr2, c) = UsersOf(fr, c)
  <2>1. \A c \in Blocks \ {b} : UsersOf(fr2, c) = UsersOf(fr, c) \ {f}
    BY <1>5, UsersMove
  <2> QED
    BY <1>5, <2>1 DEF UsersOf
<1>9. Cardinality(UsersOf(fr, b)) \in Nat /\ h[b].count = Cardinality(UsersOf(fr, b)) - 1
  BY UsersFinite DEF Good, Counted
<1>10. Counted(h2, fr2)
  <2>1. h2[b].count = Cardinality(UsersOf(fr2, b)) - 1
    BY <1>3, <1>7, <1>9
  <2> QED
    BY <1>2, <1>6, <1>8, <2>1 DEF Good, Counted
<1> QED
  BY <1>4, <1>10 DEF Good

\* A frame without a block is given a new one.
LEMMA Allocates ==
    ASSUME NEW h, NEW fr, Good(h, fr), NEW f \in Frames, fr[f].block = NoBlock,
           NEW b \in Blocks, h[b] = Free, NEW r, HasCount(r), r.count = 0,
           NEW x, HasBlock(x), x.block = b,
           NEW h2, Changed(h, b, r, h2), NEW fr2, Changed(fr, f, x, fr2)
    PROVE  Good(h2, fr2)
<1>1. DOMAIN fr2 = Frames /\ \A g \in Frames : HasBlock(fr2[g])
  BY DEF Good, Typed, Changed
<1>2. DOMAIN h2 = Blocks /\ h2[b] = r /\ \A c \in Blocks \ {b} : h2[c] = h[c]
  BY DEF Good, Typed, Changed
<1>3. Typed(h2, fr2)
  BY <1>1, <1>2 DEF Good, Typed
<1>4. DOMAIN fr = Frames /\ \A c \in Blocks : fr[f].block # c
  BY BlockAssumption DEF Good, Typed
<1>5. UsersOf(fr, b) = {}
  BY UsedCounts
<1>6. UsersOf(fr2, b) = {f}
  <2>1. UsersOf(fr2, b) = UsersOf(fr, b) \cup {f}
    BY <1>4, UsersMove
  <2> QED
    BY <1>5, <2>1
<1>7. Cardinality(UsersOf(fr2, b)) = 1
  BY <1>6, FS_Singleton
<1>8. \A c \in Blocks \ {b} : UsersOf(fr2, c) = UsersOf(fr, c)
  <2>1. \A c \in Blocks \ {b} : UsersOf(fr2, c) = UsersOf(fr, c) \ {f}
    BY <1>4, UsersMove
  <2> QED
    BY <1>4, <2>1 DEF UsersOf
<1>9. Counted(h2, fr2)
  <2>1. h2[b].count = Cardinality(UsersOf(fr2, b)) - 1 /\ UsersOf(fr2, b) # {}
    BY <1>2, <1>6, <1>7
  <2>2. \A c \in Blocks \ {b} : /\ h2[c].count = Cardinality(UsersOf(fr2, c)) - 1
                                /\ UsersOf(fr2, c) = {} => h2[c] = Free
    BY <1>2, <1>8 DEF Good, Counted
  <2> QED
    BY <2>1, <2>2 DEF Counted
<1> QED
  BY <1>3, <1>9 DEF Good

\* A frame looks at its block in another way.
LEMMA Looks ==
    ASSUME NEW h, NEW fr, Good(h, fr), NEW f \in Frames,
           NEW x, HasBlock(x), x.block = fr[f].block,
           NEW fr2, Changed(fr, f, x, fr2)
    PROVE  Good(h, fr2)
<1>1. Typed(h, fr2)
  BY DEF Good, Typed, Changed
<1>2. \A c \in Blocks : UsersOf(fr2, c) = UsersOf(fr, c)
  <2>1. \A g \in Frames : fr2[g].block = fr[g].block
    BY DEF Good, Typed, Changed
  <2> QED
    BY <2>1 DEF UsersOf
<1> QED
  BY <1>1, <1>2 DEF Good, Counted

\* A block in use changes its rows or columns and keeps its counter.  (An address
\* that is no block is not changed by EXCEPT.)
LEMMA Fills ==
    ASSUME NEW h, NEW fr, Good(h, fr), NEW f \in Frames,
           NEW r, fr[f].block \in Blocks =>
                    "count" \in DOMAIN r /\ r.count = h[fr[f].block].count,
           NEW h2, Changed(h, fr[f].block, r, h2)
    PROVE  Good(h2, fr)
<1> DEFINE b == fr[f].block
<1>1. DOMAIN h2 = Blocks /\ \A c \in Blocks : c # b => h2[c] = h[c]
  BY DEF Good, Typed, Changed
<1>2. b \in Blocks => h2[b] = r /\ HasCount(r) /\ UsersOf(fr, b) # {}
  <2>1. b \in Blocks => h2[b] = r /\ f \in UsersOf(fr, b)
    BY DEF Good, Typed, UsersOf, Changed
  <2> QED
    BY <2>1 DEF Good, Typed, HasCount
<1>3. \A c \in Blocks : HasCount(h2[c]) /\ h2[c].count = h[c].count
  BY <1>1, <1>2 DEF Good, Typed
<1>4. Typed(h2, fr)
  BY <1>1, <1>3 DEF Good, Typed
<1>5. \A c \in Blocks : UsersOf(fr, c) = {} => h2[c] = h[c]
  BY <1>1, <1>2
<1>6. Counted(h2, fr)
  BY <1>3, <1>5 DEF Good, Counted
<1> QED
  BY <1>4, <1>6 DEF Good

-----------------------------------------------------------------------------
(* Reading                                                                   *)

LEMMA FreshFrame ==
    ASSUME Inv, NEW f \in Fresh
    PROVE  f \in Frames /\ frames[f].block = NoBlock
  BY DEF Fresh, NoFrame

\* A block without a further user has one frame.
LEMMA SoleUser ==
    ASSUME NEW h, NEW fr, Good(h, fr), NEW f \in Frames, fr[f].block \in Blocks,
           h[fr[f].block].count = 0
    PROVE  UsersOf(fr, fr[f].block) = {f}
<1> DEFINE U == UsersOf(fr, fr[f].block)
<1>1. f \in U /\ IsFiniteSet(U) /\ Cardinality(U) \in Nat
  BY UsersFinite DEF UsersOf
<1>2. Cardinality(U) = 1
  <2>1. h[fr[f].block].count = Cardinality(U) - 1
    BY DEF Good, Counted
  <2> QED
    BY <1>1, <2>1
<1> HIDE DEF U
<1>3. \E x : U = {x}
  BY <1>1, <1>2, FS_Singleton
<1> QED
  BY <1>1, <1>3 DEF U

LEMMA ThrowsStep ==
    ASSUME Inv, NEW f \in Frames, Throws(f), UNCHANGED heap
    PROVE  Inv'
<1> DEFINE x == [frames[f] EXCEPT !.thrown = TRUE]
<1>1. Changed(frames, f, x, frames')
  BY DEF Throws, Changed
<1>2. HasBlock(x) /\ x.block = frames[f].block
  BY DEF Inv, Good, Typed, HasBlock
<1> HIDE DEF x
<1>3. Good(heap, frames')
  BY <1>1, <1>2, Looks DEF Inv
<1> QED
  BY <1>3 DEF Inv, Throws, CloseFile, LoadOK

LEMMA WholeStep ==
    ASSUME Inv, NEW f \in Frames, frames' = Whole(f), UNCHANGED heap
    PROVE  Good(heap', frames')
<1> DEFINE x == [frames[f] EXCEPT !.rows = Len(BlockOf(f).data),
                                  !.picks = [n \in DOMAIN BlockOf(f).columns |-> n]]
<1>1. Changed(frames, f, x, frames')
  BY DEF Whole, Changed, Inv, Good, Typed
<1>2. HasBlock(x) /\ x.block = frames[f].block
  BY DEF Inv, Good, Typed, HasBlock
<1> HIDE DEF x
<1>3. Good(heap, frames')
  BY <1>1, <1>2, Looks DEF Inv
<1> QED
  BY <1>3

LEMMA NewBlockStep ==
    ASSUME Inv, NEW f \in Fresh, NEW b \in Unused, NEW columns, NEW room,
           NewBlock(b, columns, room), NEW x, HasBlock(x), x.block = b,
           Changed(frames, f, x, frames')
    PROVE  Good(heap', frames')
<1> DEFINE r == [data |-> <<>>, room |-> room, columns |-> columns, count |-> 0]
<1>1. Changed(heap, b, r, heap')
  BY DEF NewBlock, Changed
<1>2. HasCount(r) /\ r.count = 0
  BY DEF HasCount
<1>3. b \in Blocks /\ heap[b] = Free
  BY DEF Unused
<1>4. f \in Frames /\ frames[f].block = NoBlock
  BY FreshFrame
<1> HIDE DEF r
<1> QED
  BY <1>1, <1>2, <1>3, <1>4, Allocates DEF Inv

LEMMA BeginReadStep ==
    ASSUME Inv, NEW f \in Frames, NEW b \in Blocks, NEW us, BeginRead(f, b, us)
    PROVE  Inv'
<1> DEFINE x == frames'[f]
<1>1. f \in Fresh /\ b \in Unused /\ NewBlock(b, <<>>, 0)
  BY DEF BeginRead
<1>2. DOMAIN frames = Frames /\ "block" \in DOMAIN frames[f]
  BY DEF Inv, Good, Typed, HasBlock
<1>3. Changed(frames, f, x, frames')
  BY <1>2 DEF BeginRead, Changed
<1>4. HasBlock(x) /\ x.block = b
  BY <1>2 DEF BeginRead, HasBlock
<1>5. LoadOK(load')
  <2> DEFINE l == [frame |-> f, kind |-> "count", usecols |-> us, count |-> 0,
                   rest |-> <<>>]
  <2>1. load' = load \/ load' = l
    BY DEF BeginRead
  <2>2. LoadOK(l)
    BY DEF LoadOK
  <2> HIDE DEF l
  <2> QED
    BY <2>1, <2>2 DEF Inv
<1> HIDE DEF x
<1>6. Good(heap', frames')
  BY <1>1, <1>3, <1>4, NewBlockStep
<1> QED
  BY <1>5, <1>6 DEF Inv

LEMMA BeginQueryStep ==
    ASSUME Inv, NEW f \in Frames, NEW b \in Blocks, NEW t, BeginQuery(f, b, t)
    PROVE  Inv'
<1> DEFINE x == [frames[f] EXCEPT !.block = b]
<1>1. f \in Fresh /\ b \in Unused /\ NewBlock(b, Fields(t), Growth)
  BY DEF BeginQuery
<1>2. Changed(frames, f, x, frames')
  BY DEF BeginQuery, Changed
<1>3. HasBlock(x) /\ x.block = b
  BY DEF Inv, Good, Typed, HasBlock
<1>4. LoadOK(load')
  BY DEF BeginQuery, LoadOK
<1> HIDE DEF x
<1>5. Good(heap', frames')
  BY <1>1, <1>2, <1>3, NewBlockStep
<1> QED
  BY <1>4, <1>5 DEF Inv

LEMMA LoadingFrame ==
    ASSUME Inv, load # NotLoading
    PROVE  load.frame \in Frames /\ \A n : LoadOK([load EXCEPT !.count = n])
  BY DEF Inv, LoadOK

LEMMA CountRowStep ==
    ASSUME Inv, CountRow
    PROVE  Inv'
<1>1. LoadOK(load')
  BY LoadingFrame DEF CountRow, Reading, Inv
<1> QED
  BY <1>1 DEF CountRow, Inv

LEMMA CountEndStep ==
    ASSUME Inv, CountEnd
    PROVE  Inv'
<1> DEFINE f == load.frame
           b == frames[f].block
           columns == ColumnsOf(load.usecols, file[1])
           r == [heap[b] EXCEPT !.columns = columns, !.room = load.count]
<1>1. f \in Frames /\ "frame" \in DOMAIN load
  BY LoadingFrame DEF CountEnd, Reading, Inv, LoadOK
<1>2. CASE columns = <<>>
  BY <1>1, <1>2, ThrowsStep DEF CountEnd
<1>3. CASE columns # <<>>
  <2>1. /\ heap' = [heap EXCEPT ![b].columns = columns, ![b].room = load.count]
        /\ load' = [load EXCEPT !.kind = "frame"] /\ frames' = frames
    BY <1>3 DEF CountEnd
  <2>2. DOMAIN heap = Blocks /\ \A c \in Blocks : HasCount(heap[c])
    BY DEF Inv, Good, Typed
  <2>3. Changed(heap, b, r, heap')
    BY <2>1, <2>2 DEF Changed
  <2>4. b \in Blocks => "count" \in DOMAIN r /\ r.count = heap[b].count
    BY <2>2 DEF HasCount
  <2>5. LoadOK(load')
    BY <1>1, <2>1 DEF LoadOK
  <2> HIDE DEF r
  <2>6. Good(heap', frames)
    BY <1>1, <2>3, <2>4, Fills DEF Inv
  <2> QED
    BY <2>1, <2>5, <2>6 DEF Inv
<1> QED
  BY <1>2, <1>3

LEMMA ReadRowStep ==
    ASSUME Inv, ReadRow
    PROVE  Inv'
<1> DEFINE f == load.frame
           b == frames[f].block
<1>1. f \in Frames
  BY LoadingFrame, Zenon DEF ReadRow, Reading
<1>2. CASE UNCHANGED <<heap, frames, load>>
  BY <1>2 DEF Inv
<1>3. CASE Throws(f) /\ UNCHANGED heap
  BY <1>1, <1>3, ThrowsStep
<1>4. ASSUME NEW v, heap' = [heap EXCEPT ![b].data = Append(@, v)], UNCHANGED <<frames, load>>
      PROVE  Inv'
  <2> DEFINE r == [heap[b] EXCEPT !.data = Append(@, v)]
  <2>1. DOMAIN heap = Blocks /\ \A c \in Blocks : HasCount(heap[c])
    BY DEF Inv, Good, Typed
  <2>2. Changed(heap, b, r, heap')
    BY <1>4 DEF Changed
  <2>3. b \in Blocks => "count" \in DOMAIN r /\ r.count = heap[b].count
    BY <2>1 DEF HasCount
  <2> HIDE DEF r
  <2>4. Good(heap', frames)
    BY <1>1, <2>2, <2>3, Fills, Zenon DEF Inv
  <2> QED
    BY <1>4, <2>4 DEF Inv
<1>5. \/ UNCHANGED <<heap, frames, load>>
      \/ Throws(f) /\ UNCHANGED heap
      \/ \E v : heap' = [heap EXCEPT ![b].data = Append(@, v)] /\ UNCHANGED <<frames, load>>
  BY Zenon DEF ReadRow
<1> QED
  BY <1>2, <1>3, <1>4, <1>5, Zenon

LEMMA EndReadStep ==
    ASSUME Inv, EndRead
    PROVE  Inv'
<1>1. load.frame \in Frames
  BY LoadingFrame DEF EndRead, Reading
<1>2. Good(heap', frames')
  BY <1>1, WholeStep DEF EndRead
<1> QED
  BY <1>2 DEF EndRead, CloseFile, LoadOK, Inv

LEMMA EndQueryStep ==
    ASSUME Inv, EndQuery
    PROVE  Inv'
<1>1. load.frame \in Frames
  BY LoadingFrame DEF EndQuery, Reading
<1>2. Good(heap', frames')
  BY <1>1, WholeStep DEF EndQuery
<1> QED
  BY <1>2 DEF EndQuery, LoadOK, Inv

LEMMA QueryFailsStep ==
    ASSUME Inv, QueryFails
    PROVE  Inv'
<1> DEFINE f == load.frame
           x == [frames[f] EXCEPT !.thrown = TRUE]
<1>1. f \in Frames
  BY LoadingFrame DEF QueryFails, Reading
<1>2. Changed(frames, f, x, frames')
  BY DEF QueryFails, Changed
<1>3. HasBlock(x) /\ x.block = frames[f].block
  BY <1>1 DEF Inv, Good, Typed, HasBlock
<1> HIDE DEF x
<1>4. Good(heap, frames')
  BY <1>1, <1>2, <1>3, Looks DEF Inv
<1> QED
  BY <1>4 DEF QueryFails, LoadOK, Inv

LEMMA QueryRowStep ==
    ASSUME Inv, QueryRow
    PROVE  Inv'
<1> DEFINE f == load.frame
           b == frames[f].block
           room == IF Len(heap[b].data) = load.count THEN Grown(load.count) ELSE load.count
           r == [heap[b] EXCEPT !.data = Append(@, Head(load.rest)), !.room = room]
<1>1. f \in Frames /\ "frame" \in DOMAIN load
  BY LoadingFrame, SMTT(30) DEF QueryRow, Reading, Inv, LoadOK
<1>2. DOMAIN heap = Blocks /\ \A c \in Blocks : HasCount(heap[c])
  BY DEF Inv, Good, Typed
<1>3. /\ heap' = [heap EXCEPT ![b].data = Append(@, Head(load.rest)), ![b].room = room]
      /\ load' = [load EXCEPT !.rest = Tail(@), !.count = room] /\ frames' = frames
  BY DEF QueryRow
<1>4. Changed(heap, b, r, heap')
  BY <1>2, <1>3, Zenon DEF Changed
<1>5. b \in Blocks => "count" \in DOMAIN r /\ r.count = heap[b].count
  BY <1>2 DEF HasCount
<1>6. LoadOK(load')
  BY <1>1, <1>3 DEF LoadOK
<1> HIDE DEF r
<1>7. Good(heap', frames)
  BY <1>1, <1>4, <1>5, Fills DEF Inv
<1> QED
  BY <1>3, <1>6, <1>7, Zenon DEF Inv

-----------------------------------------------------------------------------
(* Sharing                                                                   *)

LEMMA NoFrameHasNoBlock == HasBlock(NoFrame) /\ NoFrame.block = NoBlock
  BY DEF HasBlock, NoFrame

LEMMA ClearStep ==
    ASSUME Inv, NEW f \in Frames, Clear(f)
    PROVE  Inv'
<1>1. Changed(frames, f, NoFrame, frames') /\ heap' = Dropped(heap, frames[f].block)
  BY DEF Clear, Changed
<1>2. Good(heap', frames')
  BY <1>1, NoFrameHasNoBlock, Drops DEF Inv
<1> QED
  BY <1>2 DEF Clear, Inv

LEMMA AssignStep ==
    ASSUME Inv, NEW f \in Frames, NEW g \in Frames, Assign(f, g)
    PROVE  Inv'
<1> DEFINE b == frames[g].block
           x == frames[g]
<1>1. f # g /\ b \in Blocks /\ HasBlock(x) /\ UNCHANGED load
  BY DEF Assign, Usable, Inv, Good, Typed, HasBlock
<1>2. Changed(frames, f, x, frames') /\ heap' = Shared(heap, f, b)
  BY DEF Assign, Changed
<1>3. CASE frames[f].block = b
  <2>1. heap' = heap
    BY <1>2, <1>3 DEF Shared
  <2>2. Good(heap, frames')
    BY <1>1, <1>2, <1>3, Looks DEF Inv
  <2> QED
    BY <1>1, <2>1, <2>2 DEF Inv
<1>4. CASE frames[f].block # b
  <2> DEFINE h1 == Dropped(heap, frames[f].block)
             fr1 == [frames EXCEPT ![f] = NoFrame]
             r == [h1[b] EXCEPT !.count = @ + 1]
  <2>1. Changed(frames, f, NoFrame, fr1)
    BY DEF Changed
  <2>2. /\ DOMAIN frames = Frames
        /\ fr1[f] = NoFrame /\ fr1[g] = frames[g]
        /\ frames' = [fr1 EXCEPT ![f] = x]
    BY <1>1, <1>2 DEF Changed, Inv, Good, Typed
  <2>3. heap' = [h1 EXCEPT ![b].count = @ + 1]
    BY <1>2, <1>4 DEF Shared
  <2> HIDE DEF h1, fr1
  <2>4. Good(h1, fr1)
    BY <2>1, NoFrameHasNoBlock, Drops DEF Inv, h1
  <2>5. DOMAIN h1 = Blocks /\ HasCount(h1[b])
    BY <1>1, <2>4 DEF Good, Typed
  <2>6. Changed(h1, b, r, heap')
    BY <2>3 DEF Changed
  <2>7. "count" \in DOMAIN r /\ r.count = h1[b].count + 1
    BY <2>5 DEF HasCount
  <2>8. UsersOf(fr1, b) # {}
    BY <2>2 DEF UsersOf
  <2>9. Changed(fr1, f, x, frames') /\ fr1[f].block = NoBlock
    BY <2>2, NoFrameHasNoBlock DEF Changed
  <2> HIDE DEF r
  <2>10. Good(heap', frames')
    BY <1>1, <2>4, <2>6, <2>7, <2>8, <2>9, Joins
  <2> QED
    BY <1>1, <2>10 DEF Inv
<1> QED
  BY <1>3, <1>4

LEMMA SelectStep ==
    ASSUME Inv, NEW f \in Frames, NEW s, Select(f, s)
    PROVE  Inv'
<1>1. UNCHANGED <<heap, load>>
  BY DEF Select
<1>2. CASE s = <<>>
  BY <1>1, <1>2, WholeStep DEF Select, Inv
<1>3. CASE s # <<>>
  <2> DEFINE x == [frames[f] EXCEPT !.selected = TRUE, !.picks = s,
                                    !.rows = Len(BlockOf(f).data)]
  <2>1. Changed(frames, f, x, frames')
    BY <1>3 DEF Select, Changed, Inv, Good, Typed
  <2>2. HasBlock(x) /\ x.block = frames[f].block
    BY DEF Inv, Good, Typed, HasBlock
  <2> HIDE DEF x
  <2>3. Good(heap, frames')
    BY <2>1, <2>2, Looks DEF Inv
  <2> QED
    BY <1>1, <2>3 DEF Inv
<1> QED
  BY <1>2, <1>3

\* What deep_copy and split put into a new block starts with one user.
LEMMA CopiesCountZero ==
    \A b, s, t : /\ "count" \in DOMAIN b =>
                      HasCount(Copied(b, s)) /\ Copied(b, s).count = 0
                 /\ HasCount(b) /\ b.count = 0 =>
                      HasCount(Shrunk(b, t)) /\ Shrunk(b, t).count = 0
  BY DEF Copied, Shrunk, HasCount

LEMMA DeepCopyStep ==
    ASSUME Inv, NEW f \in Frames, NEW g \in Frames, NEW b \in Blocks, NEW s,
           DeepCopy(f, g, b, s)
    PROVE  Inv'
<1> DEFINE x == ViewOfCopy(f, b, s)
           r == Copied(BlockOf(f), s)
<1>1. /\ g \in Frames /\ frames[g].block = NoBlock
      /\ heap[b] = Free /\ frames[f].block \in Blocks
      /\ UNCHANGED load
  BY FreshFrame DEF DeepCopy, Unused, Usable, Inv, Good, Typed, HasBlock
<1>2. Changed(heap, b, r, heap') /\ Changed(frames, g, x, frames')
  BY DEF DeepCopy, Changed
<1>3. HasBlock(x) /\ x.block = b
  BY DEF ViewOfCopy, Inv, Good, Typed, HasBlock
<1>4. "count" \in DOMAIN BlockOf(f)
  BY <1>1 DEF BlockOf, Inv, Good, Typed, HasCount
<1>5. HasCount(r) /\ r.count = 0
  BY <1>4, CopiesCountZero
<1> HIDE DEF x, r
<1>6. Good(heap', frames')
  BY <1>1, <1>2, <1>3, <1>5, Allocates DEF Inv
<1> QED
  BY <1>1, <1>6 DEF Inv

LEMMA SplitStep ==
    ASSUME Inv, NEW f \in Frames, NEW g \in Frames, NEW h \in Frames,
           NEW b \in Blocks, NEW c \in Blocks, Split(f, g, h, b, c)
    PROVE  Inv'
<1>1. PICK second \in Parts(Len(BlockOf(f).data)) :
        LET first == Rest(Len(BlockOf(f).data), second)
            all   == Copied(BlockOf(f), <<>>)
        IN  /\ heap' = [heap EXCEPT ![b] = Shrunk(all, first), ![c] = Copied(all, second)]
            /\ frames' = [frames EXCEPT
                            ![g] = [ViewOfCopy(f, b, <<>>) EXCEPT !.rows = Len(first)],
                            ![h] = ViewOfCopy(f, c, second)]
  BY DEF Split
<1> DEFINE first == Rest(Len(BlockOf(f).data), second)
           all   == Copied(BlockOf(f), <<>>)
           r1    == Shrunk(all, first)
           r2    == Copied(all, second)
           x1    == [ViewOfCopy(f, b, <<>>) EXCEPT !.rows = Len(first)]
           x2    == ViewOfCopy(f, c, second)
           h1    == [heap EXCEPT ![b] = r1]
           fr1   == [frames EXCEPT ![g] = x1]
<1>2. /\ frames[g].block = NoBlock /\ frames[h].block = NoBlock
      /\ g # h /\ b # c
      /\ heap[b] = Free /\ heap[c] = Free /\ frames[f].block \in Blocks
      /\ UNCHANGED load
  BY FreshFrame DEF Split, Unused, Usable, Inv, Good, Typed, HasBlock
<1>3. "count" \in DOMAIN BlockOf(f)
  BY <1>2 DEF BlockOf, Inv, Good, Typed, HasCount
<1>4. HasCount(all) /\ all.count = 0
  BY <1>3, CopiesCountZero
<1>5. HasCount(r1) /\ r1.count = 0 /\ HasCount(r2) /\ r2.count = 0
  BY <1>4, CopiesCountZero DEF HasCount
<1>6. HasBlock(x1) /\ x1.block = b /\ HasBlock(x2) /\ x2.block = c
  BY DEF ViewOfCopy, Inv, Good, Typed, HasBlock
<1>7. DOMAIN heap = Blocks /\ DOMAIN frames = Frames
  BY DEF Inv, Good, Typed
<1>8. heap' = [h1 EXCEPT ![c] = r2] /\ frames' = [fr1 EXCEPT ![h] = x2]
  BY <1>1, <1>2, <1>7
<1>9. h1[c] = Free /\ fr1[h].block = NoBlock
  BY <1>2, <1>7
<1>10. Changed(heap, b, r1, h1) /\ Changed(frames, g, x1, fr1)
  BY DEF Changed
<1> HIDE DEF r1, r2, x1, x2, h1, fr1
<1>11. Changed(h1, c, r2, heap') /\ Changed(fr1, h, x2, frames')
  BY <1>8 DEF Changed
<1>12. Good(h1, fr1)
  BY <1>2, <1>5, <1>6, <1>10, Allocates DEF Inv
<1>13. Good(heap', frames')
  BY <1>5, <1>6, <1>9, <1>11, <1>12, Allocates
<1> QED
  BY <1>2, <1>13 DEF Inv

LEMMA SplitWithShrinkStep ==
    ASSUME Inv, NEW f \in Frames, NEW h \in Frames, NEW c \in Blocks,
           SplitWithShrink(f, h, c)
    PROVE  Inv'
<1> DEFINE b == frames[f].block
<1>1. PICK second \in Parts(Len(BlockOf(f).data)) :
        LET first == Rest(Len(BlockOf(f).data), second)
        IN  /\ heap' = [heap EXCEPT ![b] = Shrunk(@, first), ![c] = Copied(BlockOf(f), second)]
            /\ frames' = [frames EXCEPT ![f].rows = Len(first),
                                        ![h] = ViewOfCopy(f, c, second)]
  BY DEF SplitWithShrink
<1> DEFINE first == Rest(Len(BlockOf(f).data), second)
           r1    == Shrunk(heap[b], first)
           r2    == Copied(BlockOf(f), second)
           x1    == [frames[f] EXCEPT !.rows = Len(first)]
           x2    == ViewOfCopy(f, c, second)
           h1    == [heap EXCEPT ![b] = r1]
           fr1   == [frames EXCEPT ![f] = x1]
<1>2. /\ frames[h].block = NoBlock /\ heap[c] = Free /\ b \in Blocks /\ b # NoBlock
      /\ heap[b].count = 0 /\ BlockOf(f) = heap[b] /\ UNCHANGED load
  BY FreshFrame DEF SplitWithShrink, Unused, Usable, Inv, Good, Typed, HasBlock, BlockOf
<1>3. HasCount(heap[b]) /\ f # h /\ b # c
  BY <1>2 DEF Inv, Good, Typed, Free
<1>4. HasCount(r1) /\ r1.count = 0 /\ HasCount(r2) /\ r2.count = 0
  BY <1>2, <1>3, CopiesCountZero DEF HasCount
<1>5. HasBlock(x1) /\ x1.block = b /\ HasBlock(x2) /\ x2.block = c
  BY DEF ViewOfCopy, Inv, Good, Typed, HasBlock
<1>6. DOMAIN heap = Blocks /\ DOMAIN frames = Frames
  BY DEF Inv, Good, Typed
<1>7. heap' = [h1 EXCEPT ![c] = r2] /\ frames' = [fr1 EXCEPT ![h] = x2]
  BY <1>1, <1>2, <1>3, <1>6
<1>8. h1[c] = Free /\ fr1[h].block = NoBlock
  BY <1>2, <1>3, <1>6
<1>9. Changed(heap, b, r1, h1) /\ Changed(frames, f, x1, fr1)
  BY DEF Changed
<1> HIDE DEF r1, r2, x1, x2, h1, fr1
<1>10. Changed(h1, c, r2, heap') /\ Changed(fr1, h, x2, frames')
  BY <1>7 DEF Changed
<1>11. Good(h1, frames)
  BY <1>2, <1>4, <1>9, Fills DEF Inv, HasCount
<1>12. Good(h1, fr1)
  BY <1>5, <1>9, <1>11, Looks
<1>13. Good(heap', frames')
  BY <1>4, <1>5, <1>8, <1>10, <1>12, Allocates
<1> QED
  BY <1>2, <1>13 DEF Inv

LEMMA AppendFrameStep ==
    ASSUME Inv, NEW f \in Frames, NEW g \in Frames, AppendFrame(f, g)
    PROVE  Inv'
<1> DEFINE b == frames[f].block
           r == Appended(heap[b], BlockOf(g))
           x == [frames[f] EXCEPT !.rows = Len(heap'[b].data)]
<1>1. b \in Blocks /\ UNCHANGED load
  BY DEF AppendFrame, Usable, Inv, Good, Typed, HasBlock
<1>2. Changed(heap, b, r, heap') /\ Changed(frames, f, x, frames')
  BY DEF AppendFrame, Changed
<1>3. HasBlock(x) /\ x.block = b
  BY DEF Inv, Good, Typed, HasBlock
<1>4. "count" \in DOMAIN r /\ r.count = heap[b].count
  BY <1>1 DEF Appended, Inv, Good, Typed, HasCount
<1> HIDE DEF r, x
<1>5. Good(heap', frames)
  BY <1>2, <1>4, Fills DEF Inv
<1>6. Good(heap', frames')
  BY <1>2, <1>3, <1>5, Looks
<1> QED
  BY <1>1, <1>6 DEF Inv

\* A frame without a block joins the users of another frame's block.
LEMMA JoinsOne ==
    ASSUME NEW hp, NEW fr, Good(hp, fr), NEW f \in Frames, fr[f].block = NoBlock,
           NEW g \in Frames, NEW x, HasBlock(x), x.block = fr[g].block, x.block \in Blocks
    PROVE  /\ Good([hp EXCEPT ![x.block].count = @ + 1], [fr EXCEPT ![f] = x])
           /\ g # f
<1> DEFINE b == x.block
           r == [hp[b] EXCEPT !.count = @ + 1]
           h2 == [hp EXCEPT ![b].count = @ + 1]
           fr2 == [fr EXCEPT ![f] = x]
<1>1. Changed(hp, b, r, h2) /\ Changed(fr, f, x, fr2)
  BY DEF Changed
<1>2. "count" \in DOMAIN r /\ r.count = hp[b].count + 1
  BY DEF Good, Typed, HasCount
<1>3. UsersOf(fr, b) # {}
  BY DEF UsersOf
<1> HIDE DEF r, h2, fr2
<1>4. Good(h2, fr2)
  BY <1>1, <1>2, <1>3, Joins
<1> QED
  BY <1>4, BlockAssumption DEF h2, fr2

LEMMA DatasetStep ==
    ASSUME Inv, NEW f \in Frames, NEW d \in Frames, NEW x \in Frames, NEW y \in Frames,
           NEW xs, NEW ys, Dataset(f, d, x, y, xs, ys)
    PROVE  Inv'
<1> DEFINE b  == frames[f].block
           v1 == frames'[d]
           v2 == frames'[x]
           v3 == frames'[y]
           h1 == [heap EXCEPT ![b].count = @ + 1]
           h2 == [h1 EXCEPT ![b].count = @ + 1]
           h3 == [h2 EXCEPT ![b].count = @ + 1]
           f1 == [frames EXCEPT ![d] = v1]
           f2 == [f1 EXCEPT ![x] = v2]
           f3 == [f2 EXCEPT ![y] = v3]
<1>1. d # x /\ d # y /\ x # y
  <2>1. Cardinality({d, x, y}) = 3
    BY DEF Dataset
  <2>2. ASSUME NEW p, NEW q
        PROVE  Cardinality({p, q}) # 3
    <3>1. IsFiniteSet({p}) /\ Cardinality({p}) = 1
      BY FS_Singleton
    <3>2. {p, q} = {p} \cup {q}
      OBVIOUS
    <3> QED
      BY <3>1, <3>2, FS_AddElement
  <2>3. d = x => {d, x, y} = {x, y}
    OBVIOUS
  <2>4. (d = y \/ x = y) => {d, x, y} = {d, x}
    OBVIOUS
  <2> QED
    BY <2>1, <2>2, <2>3, <2>4
<1>2. /\ b \in Blocks /\ UNCHANGED load
      /\ frames[d].block = NoBlock /\ frames[x].block = NoBlock /\ frames[y].block = NoBlock
  BY FreshFrame DEF Dataset, Usable, Inv, Good, Typed, HasBlock
<1>3. DOMAIN heap = Blocks /\ DOMAIN frames = Frames /\ HasCount(heap[b]) /\ HasBlock(frames[f])
  BY <1>2 DEF Inv, Good, Typed
<1>4. /\ HasBlock(v1) /\ v1.block = b
      /\ HasBlock(v2) /\ v2.block = b
      /\ HasBlock(v3) /\ v3.block = b
  BY <1>1, <1>3 DEF Dataset, HasBlock
<1>5. frames' = f3
  BY <1>1, <1>3 DEF Dataset
<1>6. heap' = h3
  BY <1>2, <1>3 DEF Dataset, HasCount
<1>7. /\ f1[x].block = NoBlock /\ f2[y].block = NoBlock
      /\ f1[d].block = b /\ f2[d].block = b
  BY <1>1, <1>2, <1>3, <1>4
<1> HIDE DEF b, v1, v2, v3
<1>8. Good(h1, f1)
  BY <1>2, <1>4, JoinsOne DEF Inv, b
<1> HIDE DEF h1, f1
<1>9. Good(h2, f2)
  BY <1>2, <1>4, <1>7, <1>8, JoinsOne
<1> HIDE DEF h2, f2
<1>10. Good(h3, f3)
  BY <1>2, <1>4, <1>7, <1>9, JoinsOne
<1> QED
  BY <1>2, <1>5, <1>6, <1>10 DEF Inv

-----------------------------------------------------------------------------

LEMMA InitInv == Init => Inv
<1> SUFFICES ASSUME Init PROVE Inv
  OBVIOUS
<1>1. DOMAIN heap = Blocks /\ \A b \in Blocks : heap[b] = Free
  BY DEF Init
<1>2. DOMAIN frames = Frames /\ \A f \in Frames : frames[f] = NoFrame
  BY DEF Init
<1>3. HasCount(Free) /\ Free.count = -1
  BY DEF Free, HasCount
<1>4. Typed(heap, frames)
  BY <1>1, <1>2, <1>3, NoFrameHasNoBlock DEF Typed
<1>5. \A b \in Blocks : UsersOf(frames, b) = {}
  BY <1>2, NoFrameHasNoBlock, BlockAssumption DEF UsersOf
<1>6. Cardinality({}) = 0
  BY FS_EmptySet
<1>7. Counted(heap, frames)
  BY <1>1, <1>3, <1>5, <1>6 DEF Counted
<1> QED
  BY <1>4, <1>7 DEF Inv, Good, LoadOK, Init

LEMMA NextInv == Inv /\ [Next]_vars => Inv'
<1> SUFFICES ASSUME Inv, [Next]_vars PROVE Inv'
  OBVIOUS
<1>1. CASE UNCHANGED <<heap, frames, load>>
  BY <1>1 DEF Inv
<1>2. CASE ReadNext
  BY <1>2, CountRowStep, CountEndStep, ReadRowStep, EndReadStep, QueryRowStep,
     EndQueryStep, QueryFailsStep, BeginReadStep, BeginQueryStep DEF ReadNext
<1>3. CASE ShareNext
  BY <1>3, ClearStep, SelectStep, AssignStep, AppendFrameStep, SplitStep, SplitWithShrinkStep,
     DeepCopyStep, DatasetStep DEF ShareNext
<1> QED
  BY <1>1, <1>2, <1>3 DEF Next, vars, frameVars

LEMMA InvShares == Inv => BlocksAreShared
<1> SUFFICES ASSUME Inv, NEW b \in Blocks
             PROVE  /\ heap[b].count = Cardinality(Users(b)) - 1
                    /\ heap[b] = Free <=> Users(b) = {}
  BY DEF BlocksAreShared
<1>1. Users(b) = UsersOf(frames, b)
  BY DEF Users, UsersOf
<1>2. Good(heap, frames)
  BY DEF Inv
<1> QED
  BY <1>1, <1>2, UsedCounts DEF Good, Counted

\* For any number of frames and blocks, and whatever is read, copied, split, selected
\* and cleared: the counter of a block is the number of its users beyond the first
\* (shared_count of dataframe.hpp), so that no frame is left with a freed block and
\* no block without a frame.
THEOREM BlocksStayShared == Spec => []BlocksAreShared
<1>1. Spec => []Inv
  BY InitInv, NextInv, PTL DEF Spec
<1> QED
  BY <1>1, InvShares, PTL

-----------------------------------------------------------------------------
(* Rows of a file.  A client without a frame holds one row for each line it  *)
(* has passed; the counters above are not needed.                            *)

Follows == client.kind \in {"chunk", "each", "caller"}

RowsTyped ==
    /\ file \in Seq(Seq(Item)) /\ file # <<>>
    /\ cut \in BOOLEAN /\ (cut => Len(file) > 1)
    /\ reader \in Reader /\ IsFiniteSet(reader.index)
    /\ client \in [kind : Clients, end : Ends]
    /\ out \in Seq(Seq(Item))

\* The last line, i below the header, has no line break yet.
LastCut(i) == cut /\ i + 1 = Len(file)

\* A row is at its line.  Only the last row may be from a line that is not whole, or was
\* not when it was read; no other is read after it.
RowsAtLines ==
    \A i \in DOMAIN out :
        /\ i + 1 \in DOMAIN file
        /\ \/ ~LastCut(i) /\ FromLine(file[i + 1], out[i])
           \/ /\ i = Len(out) /\ reader.eof
              /\ \/ LastCut(i) /\ FromLine(file[i + 1], out[i])
                 \/ ~LastCut(i) /\ \E b \in Begun(file[i + 1]) : FromLine(b, out[i])

\* A client that reads has one row for every line read, and names are added to the
\* header before the first; nobody else holds rows, and no other client begins while
\* a frame is being read.
CsvInv ==
    /\ RowsTyped /\ RowsFitHeader /\ RowsAtLines
    /\ client.end = "reading" /\ Follows => Len(out) = reader.pos - 1
    /\ ~Follows => out = <<>>
    /\ reader.converted => client.kind = "each"
    /\ load # NotLoading => /\ ~Follows /\ load.frame \in Frames
                            /\ frames[load.frame].block # NoBlock

LEMMA ItemKinds == STRING \subseteq Item /\ "" \in Item /\ "+" \in Item
  BY Zenon DEF Item

LEMMA ItemSequences == Seq(STRING) \subseteq Seq(Item)
<1> SUFFICES ASSUME NEW s \in Seq(STRING) PROVE s \in Seq(Item)
  OBVIOUS
<1>1. Len(s) \in Nat /\ s \in [1..Len(s) -> STRING]
  OBVIOUS
<1>2. s \in [1..Len(s) -> Item]
  BY <1>1, ItemKinds, Zenon
<1> QED
  BY <1>1, <1>2

LEMMA HeadTail ==
    ASSUME NEW S, NEW s \in Seq(S), s # <<>>
    PROVE  Head(s) \in S /\ Tail(s) \in Seq(S)
  OBVIOUS

\* Sequences of one item.
LEMMA SameItems ==
    ASSUME NEW S, NEW e \in S
    PROVE  /\ \A n \in Nat : /\ [i \in 1..n |-> e] \in Seq(S)
                             /\ Len([i \in 1..n |-> e]) = n
           /\ <<e>> \in Seq(S) /\ <<>> \in Seq(S)
  OBVIOUS

LEMMA NamesFinite ==
    ASSUME NEW s \in Seq(Item)
    PROVE  /\ IsFiniteSet(ToSet(s)) /\ Cardinality(ToSet(s)) \in Nat
           /\ ToSet(s) \in SUBSET Item
<1>1. IsFiniteSet(DOMAIN s)
  <2>1. DOMAIN s = 1..Len(s) /\ Len(s) \in Nat
    OBVIOUS
  <2> QED
    BY <2>1, FS_Interval
<1>2. ToSet(s) = {s[i] : i \in DOMAIN s}
  BY DEF ToSet
<1>3. s \in Surjection(DOMAIN s, ToSet(s))
  BY <1>2 DEF Surjection
<1>4. IsFiniteSet(ToSet(s))
  BY <1>1, <1>3, FS_Surjection
<1>5. ToSet(s) \in SUBSET Item
  BY <1>2
<1> QED
  BY <1>4, <1>5, FS_CardinalityType

LEMMA Lengthened ==
    ASSUME NEW s \in Seq(Item), NEW t \in Seq(Item)
    PROVE  /\ s \o t \in Seq(Item) /\ Len(s \o t) = Len(s) + Len(t)
           /\ IsPrefix(s, s) /\ IsPrefix(s, s \o t)
  BY DEF IsPrefix

\* A row that is padded, and one that is not refused.
LEMMA PaddedRow ==
    ASSUME NEW r \in Reader, IsFiniteSet(r.index), NEW its \in Seq(Item)
    PROVE  /\ Verified(r, its) \in Seq(Item) /\ Len(Verified(r, its)) >= NumberOf(r)
           /\ IsPrefix(its, Verified(r, its))
<1>1. NumberOf(r) \in Nat /\ Len(its) \in Nat
  BY FS_CardinalityType DEF NumberOf
<1>2. CASE Len(its) < NumberOf(r)
  <2> DEFINE n == NumberOf(r) - Len(its)
             pad == [i \in 1..n |-> ""]
  <2>1. pad \in Seq(Item) /\ Len(pad) = n
    <3>1. n \in Nat
      BY <1>1, <1>2
    <3> HIDE DEF n
    <3> QED
      BY <3>1, SameItems, ItemKinds, Zenon
  <2>2. Verified(r, its) = its \o pad
    BY <1>2, Zenon DEF Verified, Padded
  <2> HIDE DEF pad
  <2>3. Len(its \o pad) = Len(its) + n
    BY <2>1, Lengthened
  <2> QED
    BY <1>1, <2>1, <2>2, <2>3, Lengthened
<1>3. CASE ~(Len(its) < NumberOf(r))
  BY <1>1, <1>3, Lengthened DEF Verified
<1> QED
  BY <1>2, <1>3

\* The next row, when it is not refused.
LEMMA MovedRow ==
    ASSUME NEW r \in Reader, IsFiniteSet(r.index), NEW line \in Seq(Item),
           NEW its \in Parsed(line)
    PROVE  /\ Moved(r, its) \in Reader /\ Moved(r, its).pos = r.pos + 1
           /\ Moved(r, its).index = r.index /\ Moved(r, its).converted = r.converted
           /\ Moved(r, its).items \in Seq(Item)
           /\ Moved(r, its).eof = (cut /\ r.pos + 1 = Len(file))
           /\ ~Refused(r, its) => /\ FromLine(line, Moved(r, its).items)
                                  /\ ~r.converted => Len(Moved(r, its).items) >= NumberOf(r)
<1>1. its \in Seq(Item) /\ (its = line \/ line = <<>>)
  <2>1. <<>> \in Seq(Item) /\ <<"">> \in Seq(Item)
    BY SameItems, ItemKinds, Zenon
  <2> QED
    BY <2>1, Zenon DEF Parsed
<1> DEFINE items == IF ~r.converted /\ Fits(r, its) THEN Verified(r, its) ELSE its
<1>2. items \in Seq(Item) /\ IsPrefix(its, items)
  BY <1>1, PaddedRow, Lengthened
<1>3. ~r.converted /\ Fits(r, its) => Len(items) >= NumberOf(r)
  BY <1>1, PaddedRow
<1> DEFINE met == cut /\ r.pos + 1 = Len(file)
           past == [r EXCEPT !.pos = r.pos + 1]
           on == [past EXCEPT !.eof = met]
<1>8. /\ past \in Reader /\ past.pos = r.pos + 1
      /\ past.index = r.index /\ past.converted = r.converted
  BY DEF Reader
<1>9. met \in BOOLEAN
  OBVIOUS
<1>7. Moved(r, its) = [on EXCEPT !.items = items]
  BY DEF Moved
<1> HIDE DEF items, past, met
<1>4. /\ on \in Reader /\ on.pos = r.pos + 1 /\ on.eof = met
      /\ on.index = r.index /\ on.converted = r.converted
  BY <1>8, <1>9 DEF Reader
<1> HIDE DEF on
<1>5. /\ Moved(r, its) \in Reader /\ Moved(r, its).pos = r.pos + 1
      /\ Moved(r, its).eof = met
      /\ Moved(r, its).index = r.index /\ Moved(r, its).converted = r.converted
      /\ Moved(r, its).items = items
  BY <1>2, <1>4, <1>7 DEF Reader
<1>6. FromLine(line, items)
  BY <1>1, <1>2 DEF FromLine
<1> QED
  BY <1>2, <1>3, <1>5, <1>6 DEF Refused, met

LEMMA ClosedRow == Closed \in Reader /\ IsFiniteSet(Closed.index) /\ ~Closed.converted
  BY FS_EmptySet DEF Closed, Reader

\* A reader that has just opened the file, and a closed one.
LEMMA OpenedRow ==
    ASSUME RowsTyped, NEW r \in Reader
    PROVE  /\ Opened(r) \in Reader /\ IsFiniteSet(Opened(r).index)
           /\ Opened(r).pos = 1 /\ Opened(r).converted = r.converted
<1>1. file[1] \in Seq(Item)
  BY DEF RowsTyped
<1>2. IsFiniteSet(ToSet(file[1])) /\ ToSet(file[1]) \in SUBSET Item
  BY <1>1, NamesFinite
<1> DEFINE at == [Closed EXCEPT !.pos = 1]
           named == [at EXCEPT !.header = file[1]]
           found == [named EXCEPT !.index = ToSet(file[1])]
<1>3. at \in Reader /\ at.pos = 1
  BY ClosedRow DEF Reader
<1> HIDE DEF at
<1>4. named \in Reader /\ named.pos = 1
  BY <1>1, <1>3 DEF Reader
<1> HIDE DEF named
<1>5. found \in Reader /\ found.pos = 1 /\ found.index = ToSet(file[1])
  BY <1>2, <1>4 DEF Reader
<1>6. Opened(r) = [found EXCEPT !.converted = r.converted]
  BY DEF Opened, found, named, at
<1> HIDE DEF found
<1> QED
  BY <1>2, <1>5, <1>6 DEF Reader

LEMMA NothingHeld ==
    ASSUME out = <<>>
    PROVE  RowsFitHeader /\ RowsAtLines
  BY DEF RowsFitHeader, RowsAtLines

LEMMA NothingHeldNext ==
    ASSUME out' = <<>>
    PROVE  RowsFitHeader' /\ RowsAtLines'
  BY DEF RowsFitHeader, RowsAtLines

\* A row stays at its line while the file stays, and the end of it is not forgotten.
LEMMA RowsKept ==
    ASSUME RowsAtLines, UNCHANGED <<file, cut, out>>, reader.eof => reader'.eof
    PROVE  RowsAtLines'
  BY DEF RowsAtLines, LastCut

\* A step of a client without a frame, when no frame is being read.
LEMMA NoReadStep ==
    ASSUME CsvInv, Fresh = Frames
    PROVE  load = NotLoading
<1>1. load # NotLoading => load.frame \in Fresh /\ frames[load.frame].block # NoBlock
  BY DEF CsvInv
<1> QED
  BY <1>1 DEF Fresh, NoFrame

LEMMA CsvInitInv == Init => CsvInv
<1> SUFFICES ASSUME Init PROVE CsvInv
  OBVIOUS
<1>1. PICK h \in Headers : file = <<h>>
  BY DEF Init, CsvInit
<1>2. h \in Seq(Item)
  BY ItemSequences, LineAssumption
<1>3. file \in Seq(Seq(Item)) /\ file # <<>>
  BY <1>1, <1>2
<1>4. reader = Closed /\ client = [kind |-> "none", end |-> "done"] /\ out = <<>>
      /\ load = NotLoading /\ cut = FALSE
  BY DEF Init, CsvInit
<1>6. cut \in BOOLEAN /\ ~cut
  BY <1>4
<1>5. RowsTyped
  BY <1>3, <1>4, <1>6, ClosedRow DEF RowsTyped, Clients, Ends
<1> QED
  BY <1>4, <1>5, ClosedRow, NothingHeld DEF CsvInv, Follows

LEMMA Longer ==
    ASSUME NEW S, NEW s \in Seq(S), NEW e \in S
    PROVE  /\ Append(s, e) \in Seq(S) /\ Append(s, e) # <<>>
           /\ Len(Append(s, e)) = Len(s) + 1 /\ Append(s, e)[Len(s) + 1] = e
           /\ \A i \in DOMAIN s : i \in DOMAIN Append(s, e) /\ Append(s, e)[i] = s[i]
           /\ \A i \in DOMAIN Append(s, e) : i \in DOMAIN s \/ i = Len(s) + 1
  OBVIOUS

LEMMA BegunLine ==
    ASSUME NEW l \in Seq(Item), NEW b \in Begun(l)
    PROVE  b \in Seq(Item) /\ b # <<>>
<1>1. CASE \E n \in 1..Len(l) : b = SubSeq(l, 1, n)
  <2>1. PICK n \in 1..Len(l) : b = SubSeq(l, 1, n)
    BY <1>1
  <2>2. b \in Seq(Item) /\ Len(b) = n
    BY <2>1
  <2> QED
    BY <2>1, <2>2
<1>2. CASE \E n \in 1..Len(l) - 1 : b = Append(SubSeq(l, 1, n), "")
  <2>4. \A n \in 1..Len(l) - 1 : SubSeq(l, 1, n) \in Seq(Item)
    OBVIOUS
  <2>1. PICK n \in 1..Len(l) - 1 : b = Append(SubSeq(l, 1, n), "")
    BY <1>2, Zenon
  <2> DEFINE some == SubSeq(l, 1, n)
  <2>2. some \in Seq(Item)
    BY <2>4, Zenon
  <2>3. "" \in Item /\ b = Append(some, "")
    BY <2>1, ItemKinds, Zenon
  <2> HIDE DEF some
  <2> QED
    BY <2>2, <2>3, Longer, Zenon
<1> QED
  BY <1>1, <1>2, Zenon DEF Begun

\* The file has one line more, whole or not, or the rest of its last line.
LineAdded ==
    /\ ~cut /\ Len(file') = Len(file) + 1
    /\ \A i \in 1..Len(file) : file'[i] = file[i]
    /\ file'[Len(file) + 1] \in Lines \/ file'[Len(file) + 1] # <<>>
LineEnded ==
    /\ cut /\ ~cut' /\ Len(file') = Len(file)
    /\ \A i \in 1..Len(file) : i # Len(file) => file'[i] = file[i]
    /\ file'[Len(file)] \in Lines /\ file[Len(file)] \in Begun(file'[Len(file)])

LEMMA FileWritten ==
    ASSUME RowsTyped, Writes
    PROVE  /\ UNCHANGED <<reader, client, out>> /\ RowsTyped' /\ file'[1] = file[1]
           /\ Len(file) \in Nat \ {0} /\ DOMAIN file = 1..Len(file)
           /\ DOMAIN file' = 1..Len(file')
           /\ LineAdded \/ LineEnded
<1>1. file \in Seq(Seq(Item)) /\ Len(file) \in Nat \ {0} /\ cut \in BOOLEAN
  BY DEF RowsTyped
<1>2. UNCHANGED <<reader, client, out>>
  BY DEF Writes, AppendLine, BeginLine, EndLine
<1>3. ASSUME NEW l \in Seq(Item), ~cut, cut' \in BOOLEAN, file' = Append(file, l),
             l \in Lines \/ l # <<>>
      PROVE  /\ LineAdded /\ file' \in Seq(Seq(Item)) /\ file' # <<>> /\ Len(file') > 1
             /\ file'[1] = file[1]
  BY <1>1, <1>3, Longer DEF LineAdded
<1>4. Lines \subseteq Seq(Item)
  BY ItemSequences, LineAssumption
<1>5. CASE AppendLine
  <2>1. PICK l \in Lines : file' = Append(file, l)
    BY <1>5 DEF AppendLine
  <2>2. ~cut /\ cut' = cut
    BY <1>5 DEF AppendLine
  <2> QED
    BY <1>1, <1>2, <1>3, <1>4, <2>1, <2>2 DEF RowsTyped
<1>6. CASE BeginLine
  <2>1. PICK l \in Lines : \E b \in Begun(l) : file' = Append(file, b)
    BY <1>6 DEF BeginLine
  <2>2. PICK b \in Begun(l) : file' = Append(file, b)
    BY <2>1
  <2>3. ~cut /\ cut' = TRUE
    BY <1>6 DEF BeginLine
  <2>4. b \in Seq(Item) /\ b # <<>>
    BY <1>4, BegunLine
  <2> QED
    BY <1>1, <1>2, <1>3, <2>2, <2>3, <2>4 DEF RowsTyped
<1>7. CASE EndLine
  <2>1. PICK l \in Lines : /\ file[Len(file)] \in Begun(l)
                           /\ file' = [file EXCEPT ![Len(file)] = l]
    BY <1>7 DEF EndLine
  <2>2. cut /\ cut' = FALSE /\ Len(file) > 1
    BY <1>7 DEF EndLine, RowsTyped
  <2>3. l \in Seq(Item)
    BY <1>4
  <2>4. /\ file' \in Seq(Seq(Item)) /\ Len(file') = Len(file)
        /\ \A i \in 1..Len(file) : i # Len(file) => file'[i] = file[i]
        /\ file'[Len(file)] = l
    BY <1>1, <2>1, <2>3
  <2>5. file'[1] = file[1] /\ file' # <<>>
    BY <1>1, <2>2, <2>4
  <2> QED
    <3>4. file[Len(file)] \in Begun(l)
      BY <2>1, Zenon
    <3>1. LineEnded
      BY <2>2, <2>4, <3>4 DEF LineEnded
    <3>2. RowsTyped'
      BY <1>2, <2>2, <2>4, <2>5 DEF RowsTyped
    <3>3. DOMAIN file = 1..Len(file) /\ DOMAIN file' = 1..Len(file')
      BY <1>1, <2>4
    <3> QED
      BY <1>1, <1>2, <2>5, <3>1, <3>2, <3>3
<1> QED
  BY <1>5, <1>6, <1>7 DEF Writes

LEMMA WritesStep ==
    ASSUME CsvInv, Writes, UNCHANGED <<frames, load>>
    PROVE  CsvInv'
<1>1. /\ UNCHANGED <<reader, client, out>> /\ RowsTyped' /\ Len(file) \in Nat
      /\ DOMAIN file = 1..Len(file) /\ DOMAIN file' = 1..Len(file')
      /\ LineAdded \/ LineEnded
  BY FileWritten DEF CsvInv
<1>2. RowsAtLines'
  <2> SUFFICES ASSUME NEW i \in DOMAIN out
               PROVE  /\ i + 1 \in DOMAIN file'
                      /\ \/ ~LastCut(i)' /\ FromLine(file'[i + 1], out[i])
                         \/ /\ i = Len(out) /\ reader.eof
                            /\ \/ LastCut(i)' /\ FromLine(file'[i + 1], out[i])
                               \/ /\ ~LastCut(i)'
                                  /\ \E b \in Begun(file'[i + 1]) : FromLine(b, out[i])
    BY <1>1 DEF RowsAtLines
  <2>1. /\ i + 1 \in 1..Len(file)
        /\ \/ ~LastCut(i) /\ FromLine(file[i + 1], out[i])
           \/ /\ i = Len(out) /\ reader.eof
              /\ \/ LastCut(i) /\ FromLine(file[i + 1], out[i])
                 \/ ~LastCut(i) /\ \E b \in Begun(file[i + 1]) : FromLine(b, out[i])
    BY <1>1 DEF CsvInv, RowsAtLines
  <2>2. CASE LineAdded
    <3>1. i + 1 \in 1..Len(file') /\ file'[i + 1] = file[i + 1] /\ i + 1 # Len(file')
      BY <1>1, <2>1, <2>2 DEF LineAdded
    <3>2. ~LastCut(i) /\ ~LastCut(i)'
      BY <2>2, <3>1 DEF LineAdded, LastCut
    <3> QED
      BY <1>1, <2>1, <3>1, <3>2
  <2>3. CASE LineEnded
    <3>1. ~LastCut(i)' /\ i + 1 \in 1..Len(file')
      BY <2>1, <2>3 DEF LineEnded, LastCut
    <3>2. CASE i + 1 = Len(file)
      <4>1. LastCut(i) /\ file[i + 1] \in Begun(file'[i + 1])
        BY <2>3, <3>2 DEF LineEnded, LastCut
      <4> QED
        BY <1>1, <2>1, <3>1, <4>1
    <3>3. CASE i + 1 # Len(file)
      <4>1. ~LastCut(i) /\ file'[i + 1] = file[i + 1]
        BY <2>1, <2>3, <3>3 DEF LineEnded, LastCut
      <4> QED
        BY <1>1, <2>1, <3>1, <4>1
    <3> QED
      BY <3>2, <3>3
  <2> QED
    BY <1>1, <2>2, <2>3
<1>3. RowsFitHeader'
  BY <1>1 DEF CsvInv, RowsFitHeader
<1> QED
  BY <1>1, <1>2, <1>3 DEF CsvInv, Follows

LEMMA StartStep ==
    ASSUME CsvInv, NEW kind \in {"chunk", "each", "caller"}, Start(kind),
           load = NotLoading, UNCHANGED <<frames, load>>
    PROVE  CsvInv'
<1>1. out' = <<>> /\ UNCHANGED <<file, cut>>
  BY DEF Start
<1>2. \/ /\ CanOpen /\ reader' = Opened(Closed)
         /\ client' = [kind |-> kind, end |-> "reading"]
      \/ reader' = Closed /\ client' = [kind |-> kind, end |-> "failed"]
  BY DEF Start
<1>3. client' \in [kind : Clients, end : Ends]
  BY <1>2 DEF Clients, Ends
<1>4. /\ reader' \in Reader /\ IsFiniteSet(reader'.index) /\ ~reader'.converted
      /\ client'.end = "reading" => reader'.pos = 1
  BY <1>2, ClosedRow, OpenedRow DEF CsvInv
<1>5. RowsTyped'
  BY <1>1, <1>3, <1>4 DEF CsvInv, RowsTyped
<1>6. Len(out') = 0
  BY <1>1
<1> QED
  BY <1>1, <1>4, <1>5, <1>6, NothingHeldNext DEF CsvInv, Follows

LEMMA SetFlagsStep ==
    ASSUME CsvInv, SetFlags, UNCHANGED <<frames, load>>
    PROVE  CsvInv'
<1>1. PICK s, f \in BOOLEAN : reader' = [reader EXCEPT !.skip = s, !.force = f]
  BY Zenon DEF SetFlags
<1> DEFINE on == [reader EXCEPT !.skip = s]
<1>2. /\ on \in Reader /\ on.pos = reader.pos /\ on.index = reader.index
      /\ on.converted = reader.converted
  BY DEF CsvInv, RowsTyped, Reader
<1>3. reader' = [on EXCEPT !.force = f]
  BY <1>1
<1> HIDE DEF on
<1>4. /\ reader' \in Reader /\ reader'.pos = reader.pos /\ reader'.index = reader.index
      /\ reader'.converted = reader.converted
  BY <1>2, <1>3 DEF Reader
<1>5. UNCHANGED <<file, cut, client, out>>
  BY DEF SetFlags
<1>7. reader'.eof = reader.eof
  BY <1>1 DEF CsvInv, RowsTyped, Reader
<1>6. RowsTyped' /\ RowsFitHeader' /\ RowsAtLines'
  BY <1>4, <1>5, <1>7, RowsKept DEF CsvInv, RowsTyped, RowsFitHeader
<1> QED
  BY <1>4, <1>5, <1>6 DEF CsvInv, Follows

\* The header a converter returns.
LEMMA ConvertedRow ==
    ASSUME NEW r \in Reader, NEW h \in Seq(Item)
    PROVE  /\ Converted(r, h) \in Reader /\ IsFiniteSet(Converted(r, h).index)
           /\ Converted(r, h).pos = r.pos
<1> DEFINE names == {h[i] : i \in {i \in DOMAIN h : IsInjective(SubSeq(h, 1, i))}}
           flag  == r.converted \/ h # r.header
           now   == [r EXCEPT !.converted = flag]
           named == [now EXCEPT !.header = h]
<1>1. names \subseteq ToSet(h) /\ IsFiniteSet(ToSet(h)) /\ ToSet(h) \in SUBSET Item
  BY NamesFinite DEF ToSet
<1>2. Converted(r, h) = [named EXCEPT !.index = names]
  BY DEF Converted
<1>3. IsFiniteSet(names) /\ names \in SUBSET Item
  BY <1>1, FS_Subset
<1>4. flag \in BOOLEAN
  OBVIOUS
<1> HIDE DEF names, flag
<1>5. now \in Reader /\ now.pos = r.pos
  BY <1>4 DEF Reader
<1> HIDE DEF now
<1>6. named \in Reader /\ named.pos = r.pos
  BY <1>5 DEF Reader
<1> HIDE DEF named
<1> QED
  BY <1>2, <1>3, <1>6 DEF Reader

LEMMA ConvertHeaderStep ==
    ASSUME CsvInv, ConvertHeader, UNCHANGED <<frames, load>>
    PROVE  CsvInv'
<1>1. /\ client = [kind |-> "each", end |-> "reading"] /\ reader.pos = 1
      /\ UNCHANGED <<file, cut, out>>
  BY DEF ConvertHeader
<1>2. PICK n \in Extra :
         /\ reader' = Converted(reader, Append(reader.header, n))
         /\ client' = [client EXCEPT !.end =
                         IF NoDuplicates(reader'.header) THEN "reading" ELSE "failed"]
  BY DEF ConvertHeader
<1>3. Append(reader.header, n) \in Seq(Item)
  <2>1. n \in Item /\ reader.header \in Seq(Item)
    BY LineAssumption, ItemKinds, Zenon DEF CsvInv, RowsTyped, Reader
  <2> QED
    BY <2>1
<1>4. reader' \in Reader /\ IsFiniteSet(reader'.index) /\ reader'.pos = 1
  BY <1>1, <1>2, <1>3, ConvertedRow DEF CsvInv, RowsTyped
<1>5. client' \in [kind : Clients, end : Ends] /\ client'.kind = "each"
  BY <1>1, <1>2 DEF Clients, Ends
<1>6. Follows /\ client.end = "reading" /\ client.kind = "each"
  BY <1>1 DEF Follows
<1>7. out = <<>> /\ Len(out) = 0
  <2>1. Len(out) = 0
    BY <1>1, <1>6 DEF CsvInv
  <2> QED
    BY <2>1 DEF CsvInv, RowsTyped
<1>8. RowsTyped' /\ RowsFitHeader' /\ RowsAtLines'
  BY <1>1, <1>4, <1>5, <1>7, NothingHeldNext DEF CsvInv, RowsTyped
<1>9. load = NotLoading
  BY <1>6 DEF CsvInv
<1> QED
  BY <1>1, <1>4, <1>5, <1>7, <1>8, <1>9 DEF CsvInv, Follows

LEMMA EndOfFileStep ==
    ASSUME CsvInv, EndOfFile, UNCHANGED <<frames, load>>
    PROVE  CsvInv'
<1>1. /\ reader' = [reader EXCEPT !.eof = TRUE] /\ client' = [client EXCEPT !.end = "done"]
      /\ UNCHANGED <<file, cut, out>>
  BY DEF EndOfFile
<1>2. /\ reader' \in Reader /\ reader'.index = reader.index
      /\ reader'.converted = reader.converted /\ reader'.eof
  BY <1>1 DEF CsvInv, RowsTyped, Reader
<1>3. client' \in [kind : Clients, end : Ends] /\ client'.kind = client.kind
      /\ client'.end = "done"
  BY <1>1 DEF CsvInv, RowsTyped, Ends
<1>4. RowsTyped' /\ RowsFitHeader' /\ RowsAtLines'
  BY <1>1, <1>2, <1>3, RowsKept DEF CsvInv, RowsTyped, RowsFitHeader
<1> QED
  BY <1>1, <1>2, <1>3, <1>4 DEF CsvInv, Follows

\* One row more, for the line that was read.
LEMMA RowHeld ==
    ASSUME CsvInv, NEW row \in Seq(Item), reader.pos = Len(out) + 1,
           reader.pos < Len(file), FromLine(file[reader.pos + 1], row),
           Len(row) >= NumberOf(reader), out' = Append(out, row), UNCHANGED <<file, cut>>,
           reader'.index = reader.index, ~reader.eof,
           reader'.eof = (cut /\ reader.pos + 1 = Len(file))
    PROVE  RowsFitHeader' /\ RowsAtLines'
<1>1. out \in Seq(Seq(Item)) /\ Len(out) \in Nat /\ Len(file) \in Nat
  BY DEF CsvInv, RowsTyped
<1>2. /\ out'[Len(out) + 1] = row
      /\ \A i \in DOMAIN out : out'[i] = out[i]
      /\ \A i \in DOMAIN out' : i \in DOMAIN out \/ i = Len(out) + 1
  BY <1>1, Longer
<1>3. RowsFitHeader'
  BY <1>2 DEF CsvInv, RowsFitHeader, NumberOf
<1>4. RowsAtLines'
  <2>1. reader.pos + 1 \in DOMAIN file /\ reader.pos = Len(out) + 1
    BY <1>1 DEF CsvInv, RowsTyped
  <2>2. \A i \in DOMAIN out : /\ i + 1 \in DOMAIN file /\ ~LastCut(i)
                             /\ FromLine(file[i + 1], out[i])
    BY DEF CsvInv, RowsAtLines
  <2>3. \A i : LastCut(i)' <=> LastCut(i)
    BY DEF LastCut
  <2>4. LastCut(Len(out) + 1) <=> reader'.eof
    BY <2>1 DEF LastCut
  <2>5. Len(out') = Len(out) + 1
    BY <1>1, Longer
  <2> HIDE DEF LastCut, FromLine
  <2>6. ASSUME NEW i \in DOMAIN out'
        PROVE  /\ i + 1 \in DOMAIN file'
               /\ \/ ~LastCut(i) /\ FromLine(file'[i + 1], out'[i])
                  \/ /\ i = Len(out') /\ reader'.eof
                     /\ LastCut(i) /\ FromLine(file'[i + 1], out'[i])
    <3>1. CASE i \in DOMAIN out
      BY <1>2, <2>2, <3>1
    <3>2. CASE i = Len(out) + 1
      BY <1>2, <2>1, <2>4, <2>5, <3>2
    <3> QED
      BY <1>2, <3>1, <3>2
  <2> QED
    BY <2>3, <2>6 DEF RowsAtLines
<1> QED
  BY <1>3, <1>4

\* The item of a new column does not change how a row begins.
LEMMA FromLonger ==
    ASSUME NEW line \in Seq(Item), NEW row \in Seq(Item), NEW e \in Item, FromLine(line, row)
    PROVE  Append(row, e) \in Seq(Item) /\ FromLine(line, Append(row, e))
  BY DEF FromLine, IsPrefix

LEMMA NextRowStep ==
    ASSUME CsvInv, NextRow, load = NotLoading, UNCHANGED <<frames, load>>
    PROVE  CsvInv'
<1>1. /\ client.end = "reading" /\ client.kind \in {"chunk", "each", "caller"}
      /\ HasLine(reader) /\ UNCHANGED <<file, cut>>
  BY DEF NextRow
<1>2. PICK its \in Parsed(file[reader.pos + 1]) :
         /\ reader' = Moved(reader, its)
         /\ IF Refused(reader, its)
            THEN client' = [client EXCEPT !.end = "done"] /\ UNCHANGED out
            ELSE UseRow(reader'.items)
  BY DEF NextRow
<1> DEFINE line == file[reader.pos + 1]
           items == reader'.items
<1>3. /\ reader \in Reader /\ IsFiniteSet(reader.index) /\ out \in Seq(Seq(Item))
      /\ reader.pos \in Nat /\ client \in [kind : Clients, end : Ends]
  BY DEF CsvInv, RowsTyped, Reader
<1>4. line \in Seq(Item) /\ reader.pos < Len(file)
  BY <1>1, <1>3 DEF HasLine, CsvInv, RowsTyped
<1>5. Follows /\ Len(out) = reader.pos - 1 /\ Len(out) \in Nat
  BY <1>1, <1>3 DEF CsvInv, Follows
<1>6. /\ reader' \in Reader /\ reader'.pos = reader.pos + 1
      /\ reader'.eof = (cut /\ reader.pos + 1 = Len(file)) /\ ~reader.eof
      /\ reader'.index = reader.index /\ reader'.converted = reader.converted
      /\ items \in Seq(Item)
      /\ ~Refused(reader, its) => /\ FromLine(line, items)
                                  /\ ~reader.converted => Len(items) >= NumberOf(reader)
  BY <1>1, <1>2, <1>3, <1>4, MovedRow DEF HasLine
<1>7. CASE /\ client' \in [kind : Clients, end : Ends] /\ client'.kind = client.kind
           /\ client'.end # "reading" /\ UNCHANGED out
  <2>1. RowsTyped' /\ RowsFitHeader' /\ RowsAtLines'
    BY <1>1, <1>3, <1>6, <1>7, RowsKept DEF CsvInv, RowsTyped, RowsFitHeader
  <2> QED
    BY <1>1, <1>6, <1>7, <2>1 DEF CsvInv, Follows
<1>8. ASSUME NEW row \in Seq(Item), FromLine(line, row), Len(row) >= NumberOf(reader),
             out' = Append(out, row), UNCHANGED client
      PROVE  CsvInv'
  <2>1. RowsFitHeader' /\ RowsAtLines'
    <3>1. reader.pos = Len(out) + 1
      BY <1>3, <1>5
    <3> QED
      BY <1>1, <1>4, <1>6, <1>8, <3>1, RowHeld
  <2>2. out' \in Seq(Seq(Item)) /\ Len(out') = Len(out) + 1
    BY <1>3, <1>8
  <2>3. RowsTyped'
    BY <1>1, <1>3, <1>6, <1>8, <2>2 DEF CsvInv, RowsTyped
  <2> QED
    BY <1>1, <1>3, <1>5, <1>6, <1>8, <2>1, <2>2, <2>3 DEF CsvInv, Follows
<1>9. ASSUME NEW x \in {"done", "failed"}, client' = [client EXCEPT !.end = x]
      PROVE  /\ client' \in [kind : Clients, end : Ends] /\ client'.kind = client.kind
             /\ client'.end # "reading"
  BY <1>3, <1>9 DEF Ends
<1>10. CASE Refused(reader, its)
  BY <1>2, <1>7, <1>9, <1>10
<1>11. CASE ~Refused(reader, its)
  <2>1. UseRow(items) /\ FromLine(line, items)
        /\ (~reader.converted => Len(items) >= NumberOf(reader))
    BY <1>2, <1>6, <1>11
  <2>2. CASE client.kind \in {"chunk", "caller"}
    <3>1. ~reader.converted
      BY <2>2 DEF CsvInv
    <3>2. \/ client' = [client EXCEPT !.end = "failed"] /\ UNCHANGED out
          \/ out' = Append(out, items) /\ UNCHANGED client
      BY <2>1, <2>2, Zenon DEF UseRow
    <3> QED
      BY <1>6, <1>7, <1>8, <1>9, <2>1, <3>1, <3>2
  <2>3. CASE client.kind = "each"
    <3>1. PICK row \in IF reader.converted THEN {items, Append(items, "+")} ELSE {items} :
            IF Fits(reader, row)
            THEN out' = Append(out, row) /\ UNCHANGED client
            ELSE client' = [client EXCEPT !.end = "failed"] /\ UNCHANGED out
      BY <2>1, <2>3 DEF UseRow
    <3>2. row \in Seq(Item) /\ FromLine(line, row)
      BY <1>4, <1>6, <2>1, <3>1, FromLonger, ItemKinds, Zenon
    <3>3. CASE ~Fits(reader, row)
      BY <1>7, <1>9, <3>1, <3>3
    <3>4. CASE Fits(reader, row)
      <4>1. Len(row) >= NumberOf(reader)
        <5>1. NumberOf(reader) \in Nat
          BY <1>3, FS_CardinalityType DEF NumberOf
        <5>2. reader.converted => Len(row) = NumberOf(reader)
          BY <3>4 DEF Fits
        <5> QED
          BY <2>1, <3>1, <5>1, <5>2
      <4> QED
        BY <1>8, <3>1, <3>2, <3>4, <4>1
    <3> QED
      BY <3>3, <3>4
  <2> QED
    BY <1>1, <2>2, <2>3
<1> QED
  BY <1>10, <1>11

LEMMA CsvStep ==
    ASSUME CsvInv, CsvNext, Fresh = Frames, UNCHANGED <<frames, load>>
    PROVE  CsvInv'
  BY NoReadStep, WritesStep, SetFlagsStep, ConvertHeaderStep, NextRowStep,
     EndOfFileStep, StartStep DEF CsvNext

\* Nobody holds rows while a frame is read.
LEMMA Unheld ==
    ASSUME CsvInv, ~Follows, UNCHANGED out, RowsTyped', ~Follows', ~reader'.converted,
           load' # NotLoading => /\ load'.frame \in Frames
                                 /\ frames'[load'.frame].block # NoBlock
    PROVE  CsvInv'
<1>1. out = <<>> /\ out' = <<>>
  BY DEF CsvInv
<1> QED
  BY <1>1, NothingHeldNext DEF CsvInv, Follows

\* Steps of frames that are not read.
LEMMA UnreadStep ==
    ASSUME CsvInv, UNCHANGED csvVars, load = NotLoading, UNCHANGED load
    PROVE  CsvInv'
<1>1. UNCHANGED <<file, cut, reader, client, out>>
  BY DEF csvVars
<1>2. RowsTyped' /\ RowsFitHeader' /\ RowsAtLines'
  BY <1>1, RowsKept DEF CsvInv, RowsTyped, RowsFitHeader
<1> QED
  BY <1>1, <1>2 DEF CsvInv, Follows

LEMMA ShareOnly ==
    ASSUME ShareNext
    PROVE  UNCHANGED csvVars /\ load = NotLoading /\ UNCHANGED load
<1> DEFINE Shares == UNCHANGED csvVars /\ load = NotLoading /\ UNCHANGED load
<1>1. ASSUME NEW f \in Frames, Clear(f) PROVE Shares
  BY <1>1, Zenon DEF Clear, Quiet
<1>2. ASSUME NEW f \in Frames, NEW s \in ColPicks, Select(f, s) PROVE Shares
  BY <1>2, Zenon DEF Select, Quiet
<1>3. ASSUME NEW f \in Frames, NEW g \in Frames, Assign(f, g) PROVE Shares
  BY <1>3, Zenon DEF Assign, Quiet
<1>4. ASSUME NEW f \in Frames, NEW g \in Frames, AppendFrame(f, g) PROVE Shares
  BY <1>4, Zenon DEF AppendFrame, Quiet
<1>5. ASSUME NEW f \in Frames, NEW g \in Frames, NEW h \in Frames, NEW b \in Blocks,
             NEW c \in Blocks, Split(f, g, h, b, c)
      PROVE  Shares
  BY <1>5, Zenon DEF Split, Quiet
<1>6. ASSUME NEW f \in Frames, NEW g \in Frames, NEW b \in Blocks, NEW s \in RowPicks,
             DeepCopy(f, g, b, s)
      PROVE  Shares
  BY <1>6, Zenon DEF DeepCopy, Quiet
<1>7. ASSUME NEW f \in Frames, NEW d \in Frames, NEW x \in Frames, NEW y \in Frames,
             NEW xs \in Features, NEW ys \in Features, Dataset(f, d, x, y, xs, ys)
      PROVE  Shares
  BY <1>7, Zenon DEF Dataset, Quiet
<1>9. ASSUME NEW f \in Frames, NEW h \in Frames, NEW c \in Blocks, SplitWithShrink(f, h, c)
      PROVE  Shares
  BY <1>9, Zenon DEF SplitWithShrink, Quiet
<1> HIDE DEF Shares
<1>8. Shares
  BY <1>1, <1>2, <1>3, <1>4, <1>5, <1>6, <1>7, <1>9 DEF ShareNext
<1> QED
  BY <1>8 DEF Shares

LEMMA ShareRows ==
    ASSUME CsvInv, ShareNext
    PROVE  CsvInv'
  BY ShareOnly, UnreadStep

\* The frame that is read keeps its block, or the read is over and the file closed.
LEMMA ClosingRows ==
    ASSUME CsvInv, load # NotLoading, CloseFile, UNCHANGED out
    PROVE  CsvInv'
<1>1. /\ load' = NotLoading /\ reader' = Closed
      /\ client' = [kind |-> "none", end |-> "done"]
      /\ file' = <<file[1]>> /\ ~cut'
  BY DEF CloseFile
<1>2. file[1] \in Seq(Item)
  BY DEF CsvInv, RowsTyped
<1>3. file' \in Seq(Seq(Item)) /\ file' # <<>>
  BY <1>1, <1>2
<1>4. RowsTyped'
  <2>1. cut' \in BOOLEAN
    BY <1>1 DEF CloseFile
  <2> QED
    BY <1>1, <1>3, <2>1, ClosedRow DEF CsvInv, RowsTyped, Clients, Ends
<1>5. ~Follows /\ ~Follows'
  BY <1>1 DEF CsvInv, Follows
<1> QED
  BY <1>1, <1>4, <1>5, ClosedRow, Unheld

LEMMA ReadingRows ==
    ASSUME CsvInv, load # NotLoading, UNCHANGED <<file, cut, out, frames>>,
           reader' \in Reader, IsFiniteSet(reader'.index),
           reader'.converted = reader.converted,
           client' \in [kind : Clients, end : Ends], client'.kind \in {"none", "count", "frame"},
           load' # NotLoading => load'.frame = load.frame
    PROVE  CsvInv'
<1>1. RowsTyped'
  BY DEF CsvInv, RowsTyped
<1>2. ~Follows /\ ~Follows' /\ ~reader'.converted
  BY DEF CsvInv, Follows
<1>3. load' # NotLoading => load'.frame \in Frames /\ frames'[load'.frame].block # NoBlock
  BY DEF CsvInv
<1> QED
  BY <1>1, <1>2, <1>3, Unheld

\* The kind of client while a frame is read.
LEMMA ReadingKind ==
    ASSUME CsvInv, load # NotLoading
    PROVE  /\ client \in [kind : Clients, end : Ends]
           /\ client.kind \in {"none", "count", "frame"}
           /\ reader \in Reader /\ IsFiniteSet(reader.index)
  BY DEF CsvInv, RowsTyped, Follows, Clients

LEMMA BeginReadRows ==
    ASSUME Inv, CsvInv, NEW f \in Frames, NEW b \in Blocks, NEW us, BeginRead(f, b, us)
    PROVE  CsvInv'
<1>1. /\ load = NotLoading /\ client.kind = "none" /\ UNCHANGED <<file, cut, out>>
      /\ f \in DOMAIN frames /\ b # NoBlock
  BY BlockAssumption DEF BeginRead, Quiet, Inv, Good, Typed
<1>2. ~Follows /\ ~reader.converted
  BY <1>1 DEF CsvInv, Follows
<1>3. CASE UNCHANGED <<reader, client, load>>
  <2>1. RowsTyped' /\ RowsFitHeader' /\ RowsAtLines'
    BY <1>1, <1>3, RowsKept DEF CsvInv, RowsTyped, RowsFitHeader
  <2> QED
    BY <1>1, <1>2, <1>3, <2>1, Unheld DEF Follows
<1>4. CASE /\ CanOpen /\ frames' = [frames EXCEPT ![f].block = b]
           /\ reader' = Opened(Closed) /\ client' = [kind |-> "count", end |-> "reading"]
           /\ load' = [frame |-> f, kind |-> "count", usecols |-> us, count |-> 0,
                       rest |-> <<>>]
  <2>1. frames'[f].block = b /\ load'.frame = f
    BY <1>1, <1>4 DEF Inv, Good, Typed, HasBlock
  <2>2. reader' \in Reader /\ IsFiniteSet(reader'.index) /\ ~reader'.converted
    BY <1>4, ClosedRow, OpenedRow DEF CsvInv
  <2>3. client' \in [kind : Clients, end : Ends] /\ client'.kind = "count"
    BY <1>4 DEF Clients, Ends
  <2>4. RowsTyped'
    BY <1>1, <2>2, <2>3 DEF CsvInv, RowsTyped
  <2> QED
    BY <1>1, <1>2, <2>1, <2>2, <2>3, <2>4, Unheld DEF Follows
<1> QED
  BY <1>3, <1>4 DEF BeginRead

LEMMA BeginQueryRows ==
    ASSUME Inv, CsvInv, NEW f \in Frames, NEW b \in Blocks, NEW t, BeginQuery(f, b, t)
    PROVE  CsvInv'
<1>1. /\ load = NotLoading /\ client.kind = "none" /\ UNCHANGED <<file, cut, reader, client, out>>
      /\ f \in DOMAIN frames /\ b # NoBlock /\ frames' = [frames EXCEPT ![f].block = b]
      /\ load'.frame = f
  BY BlockAssumption DEF BeginQuery, Quiet, Inv, Good, Typed, csvVars
<1>2. ~Follows /\ ~reader.converted
  BY <1>1 DEF CsvInv, Follows
<1>3. frames'[f].block = b
  BY <1>1 DEF Inv, Good, Typed, HasBlock
<1>4. RowsTyped'
  BY <1>1 DEF CsvInv, RowsTyped
<1> QED
  BY <1>1, <1>2, <1>3, <1>4, Unheld DEF Follows

\* A refused row ends the pass.
LEMMA EndedRow ==
    ASSUME NEW r \in Reader, IsFiniteSet(r.index)
    PROVE  LET e == [r EXCEPT !.eof = TRUE]
           IN  /\ e \in Reader /\ IsFiniteSet(e.index)
               /\ e.converted = r.converted
  BY DEF Reader

LEMMA PassedRow ==
    ASSUME CsvInv, load # NotLoading, HasLine(reader), NEW its \in Parsed(file[reader.pos + 1]),
           \/ reader' = [Moved(reader, its) EXCEPT !.eof = TRUE]
           \/ reader' = Moved(reader, its)
    PROVE  /\ reader' \in Reader /\ IsFiniteSet(reader'.index)
           /\ reader'.converted = reader.converted
<1>1. file[reader.pos + 1] \in Seq(Item)
  <2>1. reader.pos \in Nat /\ reader.pos < Len(file) /\ file \in Seq(Seq(Item))
    BY DEF CsvInv, RowsTyped, Reader, HasLine
  <2> QED
    BY <2>1
<1> DEFINE r == Moved(reader, its)
<1>2. r \in Reader /\ r.index = reader.index /\ r.converted = reader.converted
      /\ IsFiniteSet(reader.index)
  BY <1>1, ReadingKind, MovedRow
<1>3. reader' = [r EXCEPT !.eof = TRUE] \/ reader' = r
  OBVIOUS
<1> HIDE DEF r
<1> QED
  BY <1>2, <1>3, EndedRow

LEMMA CountRowRows ==
    ASSUME Inv, CsvInv, CountRow
    PROVE  CsvInv'
<1>1. /\ load # NotLoading /\ HasLine(reader) /\ UNCHANGED <<file, cut, client, out, frames>>
      /\ "frame" \in DOMAIN load
  BY DEF CountRow, Reading, Inv, LoadOK
<1>2. PICK its \in Parsed(file[reader.pos + 1]) :
         \/ reader' = [Moved(reader, its) EXCEPT !.eof = TRUE] /\ UNCHANGED load
         \/ reader' = Moved(reader, its) /\ load' = [load EXCEPT !.count = @ + 1]
  BY DEF CountRow
<1>3. /\ reader' \in Reader /\ IsFiniteSet(reader'.index)
      /\ reader'.converted = reader.converted
  BY <1>1, <1>2, PassedRow
<1>4. load'.frame = load.frame
  BY <1>1, <1>2
<1> QED
  BY <1>1, <1>3, <1>4, ReadingKind, ReadingRows

LEMMA CountEndRows ==
    ASSUME Inv, CsvInv, CountEnd
    PROVE  CsvInv'
<1>1. load # NotLoading /\ UNCHANGED out /\ "frame" \in DOMAIN load
  BY DEF CountEnd, Reading, Inv, LoadOK
<1>2. CASE CloseFile
  BY <1>1, <1>2, ClosingRows
<1>3. CASE /\ reader' = Opened(reader) /\ client' = [client EXCEPT !.kind = "frame"]
           /\ load' = [load EXCEPT !.kind = "frame"] /\ UNCHANGED <<frames, file, cut>>
  <2>1. load'.frame = load.frame
    BY <1>1, <1>3
  <2>2. client' \in [kind : Clients, end : Ends] /\ client'.kind = "frame"
    BY <1>1, <1>3, ReadingKind DEF Clients
  <2>3. file # <<>> /\ file[1] \in Seq(Item)
    BY DEF CsvInv, RowsTyped
  <2>4. /\ reader' \in Reader /\ IsFiniteSet(reader'.index)
        /\ reader'.converted = reader.converted
    BY <1>1, <1>3, <2>3, ReadingKind, OpenedRow DEF CsvInv
  <2> QED
    BY <1>1, <1>3, <2>1, <2>2, <2>4, ReadingRows
<1> QED
  BY <1>2, <1>3 DEF CountEnd, Throws

LEMMA ReadRowRows ==
    ASSUME Inv, CsvInv, ReadRow
    PROVE  CsvInv'
<1>1. load # NotLoading /\ HasLine(reader) /\ UNCHANGED out
  BY Zenon DEF ReadRow, Reading
<1>2. PICK its \in Parsed(file[reader.pos + 1]) :
         \/ /\ reader' = [Moved(reader, its) EXCEPT !.eof = TRUE]
            /\ UNCHANGED <<file, cut, client, frames, load>>
         \/ CloseFile
         \/ reader' = Moved(reader, its) /\ UNCHANGED <<file, cut, client, frames, load>>
  BY Zenon DEF ReadRow, Throws
<1>3. CASE CloseFile
  BY <1>1, <1>3, ClosingRows
<1>4. CASE ~CloseFile
  <2>1. /\ reader' \in Reader /\ IsFiniteSet(reader'.index)
        /\ reader'.converted = reader.converted /\ UNCHANGED <<file, cut, client, frames, load>>
    BY <1>1, <1>2, <1>4, PassedRow
  <2> QED
    BY <1>1, <2>1, ReadingKind, ReadingRows
<1> QED
  BY <1>3, <1>4

LEMMA EndRows ==
    ASSUME Inv, CsvInv, EndRead \/ QueryRow \/ EndQuery \/ QueryFails
    PROVE  CsvInv'
<1>1. CASE EndRead
  BY <1>1, ClosingRows DEF EndRead, Reading
<1>2. CASE QueryRow
  <2>1. /\ load # NotLoading /\ UNCHANGED <<file, cut, reader, client, out, frames>>
        /\ load'.frame = load.frame
    BY <1>2 DEF QueryRow, Reading, Inv, LoadOK, csvVars
  <2> QED
    BY <2>1, ReadingKind, ReadingRows, SMTT(30)
<1>3. CASE EndQuery \/ QueryFails
  <2>1. /\ load # NotLoading /\ UNCHANGED <<file, cut, reader, client, out>> /\ load' = NotLoading
    BY <1>3 DEF EndQuery, QueryFails, Reading, csvVars
  <2>2. RowsTyped' /\ ~Follows /\ ~Follows' /\ ~reader'.converted
    BY <2>1 DEF CsvInv, RowsTyped, Follows
  <2> QED
    BY <2>1, <2>2, Unheld
<1> QED
  BY <1>1, <1>2, <1>3

LEMMA ReadRows ==
    ASSUME Inv, CsvInv, ReadNext
    PROVE  CsvInv'
  BY BeginReadRows, BeginQueryRows, CountRowRows, CountEndRows, ReadRowRows, EndRows
     DEF ReadNext

LEMMA NextCsvInv ==
    ASSUME Inv, CsvInv, [Next]_vars
    PROVE  CsvInv'
<1>1. CASE UNCHANGED vars
  <2>1. UNCHANGED <<file, cut, reader, client, out, frames, load>>
    BY <1>1 DEF vars
  <2>2. RowsTyped' /\ RowsFitHeader' /\ RowsAtLines'
    BY <2>1, RowsKept DEF CsvInv, RowsTyped, RowsFitHeader
  <2> QED
    BY <2>1, <2>2 DEF CsvInv, Follows
<1>2. CASE CsvNext /\ Fresh = Frames /\ UNCHANGED frameVars
  BY <1>2, CsvStep DEF frameVars
<1>3. CASE Writes /\ ~Quiet /\ UNCHANGED frameVars
  BY <1>3, WritesStep DEF frameVars
<1> QED
  BY <1>1, <1>2, <1>3, ReadRows, ShareRows DEF Next

LEMMA CsvHolds == Spec => []CsvInv
<1>1. Inv /\ CsvInv /\ [Next]_vars => (Inv /\ CsvInv)'
  BY NextInv, NextCsvInv
<1> QED
  BY <1>1, InitInv, CsvInitInv, PTL DEF Spec

\* Whatever the file, the flags and the converters are and whoever appends to the file
\* meanwhile: no client of the csv reader is handed a row that is shorter than the
\* header whose columns it goes on to index.
THEOREM RowsStayFit == Spec => []RowsFitHeader
<1>1. CsvInv => RowsFitHeader
  BY DEF CsvInv
<1> QED
  BY <1>1, CsvHolds, PTL

\* The rows a client of the csv reader holds are at lines of the file, in its order, and
\* no line before them is left out, whatever flags are set (the invariant finds row i at
\* line i + 1): only the last row can be from a line that was not whole yet.
THEOREM RowsStayInOrder == Spec => []RowsInOrder
<1>1. ASSUME CsvInv PROVE RowsInOrder
  <2> DEFINE at == [i \in DOMAIN out |-> i + 1]
  <2>1. /\ DOMAIN out = 1..Len(out) /\ Len(out) \in Nat
        /\ DOMAIN file = 1..Len(file) /\ Len(file) \in Nat
    BY <1>1 DEF CsvInv, RowsTyped
  <2>2. \A i \in DOMAIN out :
          /\ i + 1 \in 2..Len(file)
          /\ \/ FromLine(file[i + 1], out[i])
             \/ i = Len(out) /\ \E b \in Begun(file[i + 1]) : FromLine(b, out[i])
    BY <1>1, <2>1 DEF CsvInv, RowsAtLines
  <2>3. at \in [DOMAIN out -> 2..Len(file)] /\ \A i \in DOMAIN out : at[i] = i + 1
    BY <2>2
  <2>4. ASSUME NEW i \in DOMAIN out, NEW k \in 2..i + 1
        PROVE  \E j \in DOMAIN out : at[j] = k
    <3>1. k - 1 \in DOMAIN out /\ at[k - 1] = k
      BY <2>1, <2>3
    <3> QED
      BY <3>1
  <2>5. \A i, j \in DOMAIN out : i < j => at[i] < at[j]
    BY <2>1, <2>3
  <2> HIDE DEF at
  <2> QED
    BY <2>2, <2>3, <2>4, <2>5 DEF RowsInOrder
<1> QED
  BY <1>1, CsvHolds, PTL

-----------------------------------------------------------------------------
(* The rows of a frame that is read from a file.  The lines that the first   *)
(* pass counted stay where they are, and the second pass reads them all; only*)
(* the last of them may become longer between.                               *)

\* A line with an item for every name of the header.
Names == Cardinality(ToSet(file[1]))
FullLine(line) == line # <<>> /\ Len(line) = Names
RowOf(columns, line) == [n \in DOMAIN columns |-> line[columns[n].from]]

\* The first k lines below the header are there, and full; the last of them may have
\* been full before it was whole.
FullTo(k) ==
    /\ k \in Nat /\ k < Len(file)
    /\ \A i \in 1..k : \/ FullLine(file[i + 1])
                       \/ /\ i = k /\ ~LastCut(i)
                          /\ \E l \in Begun(file[i + 1]) : FullLine(l)
AllFull(k) == ~LastCut(k) /\ \A i \in 1..k : FullLine(file[i + 1])

\* A row in the block is that of its line, of k lines, or what was there of the last.
RowAt(columns, row, i, k) ==
    \/ row = RowOf(columns, file[i + 1])
    \/ /\ i = k /\ ~LastCut(i)
       /\ \E l \in Begun(file[i + 1]) : FullLine(l) /\ row = RowOf(columns, l)

\* The reader of a frame: it has the header of the file and no flag was set.
AsOpened == /\ reader.index = ToSet(file[1])
            /\ ~reader.converted /\ ~reader.skip /\ ~reader.force

\* A sequence of d members.
Filled(s, d) == s = [i \in 1..d |-> s[i]]

FileInv ==
    /\ file[1] \in Headers
    /\ \A i \in 2..Len(file) : file[i] \in Lines \/ file[i] # <<>>

\* During both passes the lines counted are full; after the first nothing is in the
\* block yet, and the second has put the lines before the reader into it.  A pass that
\* met the end of the file has counted all it can, or read all but the last line, which
\* has become too long.
Passing == Reading("count") \/ Reading("frame")
PassInv ==
    Passing =>
      /\ AsOpened /\ CanOpen /\ FullTo(load.count)
      /\ load.frame \in Frames /\ frames[load.frame].block \in Blocks
      /\ {"data", "columns", "room"} \subseteq DOMAIN BlockOf(load.frame)
      /\ "thrown" \in DOMAIN frames[load.frame]
CountInv ==
    Reading("count") => /\ BlockOf(load.frame).data = <<>>
                        /\ ~reader.eof => /\ reader.pos = load.count + 1
                                          /\ AllFull(load.count)
FrameInv ==
    Reading("frame") =>
      LET b == BlockOf(load.frame)
      IN  \E d \in 0..load.count :
            /\ Filled(b.data, d)
            /\ \A i \in 1..d : RowAt(b.columns, b.data[i], i, load.count)
            /\ ~reader.eof => reader.pos = d + 1
            /\ reader.eof => \/ d = load.count
                             \/ /\ d + 1 = load.count /\ ~LastCut(load.count)
                                /\ ~FullLine(file[load.count + 1])
LoadShape == load # NotLoading => {"kind", "frame", "count"} \subseteq DOMAIN load
LoadInv == LoadShape /\ PassInv /\ CountInv /\ FrameInv

\* An empty line of a file with one column is read as no item or as one empty item.
EmptyLinesShow == <<>> \notin Lines \/ \A h \in Headers : Len(h) # 1

\* The names of a header without duplicates.
LEMMA NamesOne ==
    ASSUME NEW h \in Seq(Item), NoDuplicates(h), h # <<>>
    PROVE  /\ Cardinality(ToSet(h)) \in Nat \ {0}
           /\ Cardinality(ToSet(h)) = 1 => Len(h) = 1
<1>1. IsFiniteSet(ToSet(h)) /\ Cardinality(ToSet(h)) \in Nat
  BY NamesFinite
<1>2. ToSet(h) = {h[i] : i \in DOMAIN h} /\ 1 \in DOMAIN h
  BY DEF ToSet
<1>3. Cardinality(ToSet(h)) # 0
  <2>1. ToSet(h) # {}
    BY <1>2
  <2> QED
    BY <1>1, <2>1, FS_EmptySet
<1>4. ASSUME Len(h) # 1 PROVE Cardinality(ToSet(h)) # 1
  <2>1. 2 \in DOMAIN h
    <3>1. Len(h) \in Nat /\ Len(h) # 0 /\ DOMAIN h = 1..Len(h)
      OBVIOUS
    <3>2. 2 \in 1..Len(h)
      BY <1>4, <3>1
    <3> QED
      BY <3>1, <3>2
  <2>2. h[1] # h[2]
    BY <1>2, <2>1 DEF NoDuplicates, IsInjective
  <2>3. \A x : ToSet(h) # {x}
    BY <1>2, <2>1, <2>2
  <2> QED
    BY <1>1, <2>3, FS_Singleton
<1> QED
  BY <1>1, <1>3, <1>4

LEMMA Below ==
    \A p, n \in Nat : p # 0 /\ p < n => p + 1 \in 2..n /\ p + 1 \in 1..n /\ 1 \in 1..n
  OBVIOUS

\* Both passes stop at the same line, and no item of a row is changed on its way.
LEMMA RowRead ==
    ASSUME EmptyLinesShow, CsvInv, FileInv, AsOpened, CanOpen,
           HasLine(reader), reader.pos # 0, NEW its \in Parsed(file[reader.pos + 1])
    PROVE  LET line == file[reader.pos + 1]
           IN  /\ Refused(reader, its) <=> ~FullLine(line)
               /\ FullLine(line) => Moved(reader, its).items = line
<1> DEFINE line == file[reader.pos + 1]
<1>1. /\ reader \in Reader /\ reader.pos \in Nat /\ reader.pos < Len(file)
      /\ file \in Seq(Seq(Item)) /\ file # <<>>
  BY DEF CsvInv, RowsTyped, Reader, HasLine
<1>2. /\ line \in Seq(Item) /\ (line \in Lines \/ line # <<>>)
      /\ file[1] \in Seq(Item) /\ file[1] \in Headers
  <2> DEFINE n == reader.pos + 1
  <2>1. n \in 2..Len(file) /\ n \in 1..Len(file) /\ 1 \in 1..Len(file)
    <3>1. Len(file) \in Nat
      BY <1>1
    <3> QED
      BY <1>1, <3>1, Below
  <2> HIDE DEF n
  <2>2. \A i \in 1..Len(file) : file[i] \in Seq(Item)
    BY <1>1
  <2>3. file[n] \in Lines \/ file[n] # <<>>
    BY <2>1 DEF FileInv
  <2>4. file[1] \in Headers
    BY DEF FileInv
  <2> QED
    BY <2>1, <2>2, <2>3, <2>4 DEF n
<1>3. NumberOf(reader) = Names
  BY DEF NumberOf, Names, AsOpened
<1>4. Names \in Nat \ {0} /\ (Names = 1 => Len(file[1]) = 1)
  BY <1>2, NamesOne DEF CanOpen, Names
<1>5. Refused(reader, its) <=> Len(its) # Names
  BY <1>3 DEF Refused, Fits, AsOpened
<1>6. CASE line = <<>>
  <2>1. Names # 1
    BY <1>2, <1>4, <1>6 DEF EmptyLinesShow
  <2>2. Len(its) \in {0, 1}
    <3>1. its = <<>> \/ its = <<"">>
      BY <1>6, Zenon DEF Parsed
    <3>2. Len(<<>>) = 0 /\ Len(<<"">>) = 1
      OBVIOUS
    <3> QED
      BY <3>1, <3>2, Zenon
  <2> QED
    BY <1>4, <1>5, <1>6, <2>1, <2>2 DEF FullLine
<1>7. CASE line # <<>>
  <2>1. its = line
    BY <1>7 DEF Parsed
  <2>2. Refused(reader, its) <=> ~FullLine(line)
    BY <1>5, <1>7, <2>1 DEF FullLine
  <2>3. ASSUME FullLine(line) PROVE Moved(reader, its).items = line
    <3>1. Len(its) = NumberOf(reader)
      BY <1>3, <2>1, <2>3 DEF FullLine
    <3>2. Verified(reader, its) = its
      BY <1>3, <1>4, <3>1 DEF Verified
    <3>3. Fits(reader, its)
      BY <3>1 DEF Fits
    <3> DEFINE at == [reader EXCEPT !.pos = @ + 1, !.eof = cut /\ reader.pos + 1 = Len(file)]
    <3>4. [at EXCEPT !.items = its].items = its
      BY <1>1 DEF Reader
    <3>5. Moved(reader, its) = [at EXCEPT !.items = its]
      BY <3>2, <3>3 DEF Moved
    <3> HIDE DEF at
    <3> QED
      BY <2>1, <3>4, <3>5
  <2> QED
    BY <2>2, <2>3
<1> QED
  BY <1>6, <1>7

\* A reader that moves on keeps what it was opened with.
LEMMA MovedOpened ==
    ASSUME CsvInv, AsOpened, NEW its, UNCHANGED <<file, cut>>,
           \/ reader' = [Moved(reader, its) EXCEPT !.eof = TRUE]
           \/ reader' = Moved(reader, its)
    PROVE  /\ AsOpened' /\ reader'.pos = reader.pos + 1
           /\ reader' = Moved(reader, its) => (reader'.eof <=> LastCut(reader.pos))
           /\ reader' = [Moved(reader, its) EXCEPT !.eof = TRUE] => reader'.eof
<1>1. DOMAIN reader = {"pos", "eof", "header", "index", "items", "converted", "skip", "force"}
  BY DEF CsvInv, RowsTyped, Reader
<1> DEFINE now == IF ~reader.converted /\ Fits(reader, its)
                  THEN Verified(reader, its) ELSE its
<1> DEFINE met == cut /\ reader.pos + 1 = Len(file)
<1>2. Moved(reader, its) = [reader EXCEPT !.pos = @ + 1, !.eof = met, !.items = now]
  BY DEF Moved
<1>3. met <=> LastCut(reader.pos)
  BY DEF LastCut
<1> HIDE DEF now, met
<1> QED
  BY <1>1, <1>2, <1>3 DEF AsOpened

LEMMA NothingCut ==
    ASSUME RowsTyped'
    PROVE  ~LastCut(0)'
<1>1. Len(file)' \in Nat /\ (cut' => Len(file)' > 1)
  BY DEF RowsTyped
<1>2. \A n \in Nat : n > 1 => ~(0 + 1 = n)
  OBVIOUS
<1>3. ~(cut' /\ 0 + 1 = Len(file)')
  BY <1>1, <1>2, Zenon
<1> QED
  BY <1>3, Zenon DEF LastCut

\* What is written to the file changes none of the lines above its last one, and that
\* only as long as it is not whole.
LEMMA WrittenLines ==
    ASSUME CsvInv, Writes
    PROVE  /\ Names' = Names /\ Len(file') >= Len(file)
           /\ \A i \in Nat \ {0} : i < Len(file) =>
                /\ ~LastCut(i)'
                /\ ~LastCut(i) => file'[i + 1] = file[i + 1]
                /\ LastCut(i) => file[i + 1] \in Begun(file'[i + 1])
<1>1. /\ file'[1] = file[1] /\ Len(file) \in Nat \ {0} /\ Len(file') \in Nat
      /\ LineAdded \/ LineEnded
  BY FileWritten DEF CsvInv, RowsTyped
<1>2. Names' = Names
  BY <1>1 DEF Names
<1>3. CASE LineAdded
  BY <1>1, <1>2, <1>3 DEF LineAdded, LastCut
<1>4. CASE LineEnded
  <2>1. ASSUME NEW i \in Nat \ {0}, i < Len(file)
        PROVE  /\ ~LastCut(i)' /\ (LastCut(i) <=> i + 1 = Len(file))
               /\ ~LastCut(i) => file'[i + 1] = file[i + 1]
    BY <1>1, <1>4, <2>1 DEF LineEnded, LastCut
  <2> QED
    BY <1>1, <1>2, <1>4, <2>1 DEF LineEnded
<1> QED
  BY <1>1, <1>3, <1>4

LEMMA FullLonger ==
    ASSUME CsvInv, Writes, NEW k \in Nat
    PROVE  /\ FullTo(k) => FullTo(k)'
           /\ FullTo(k) /\ AllFull(k) => AllFull(k)'
<1>1. /\ Len(file') >= Len(file) /\ Len(file) \in Nat /\ Len(file') \in Nat
      /\ Names' = Names /\ ~LastCut(0)'
      /\ \A i \in Nat \ {0} : i < Len(file) =>
           /\ ~LastCut(i)'
           /\ ~LastCut(i) => file'[i + 1] = file[i + 1]
           /\ LastCut(i) => file[i + 1] \in Begun(file'[i + 1])
  <2>1. RowsTyped /\ RowsTyped'
    BY FileWritten DEF CsvInv
  <2>3. /\ file \in Seq(Seq(Item)) /\ file' \in Seq(Seq(Item))
        /\ cut' => Len(file') > 1
    BY <2>1, Zenon DEF RowsTyped
  <2>4. Len(file) \in Nat /\ Len(file') \in Nat
    BY <2>3
  <2>2. ~LastCut(0)'
    BY <2>1, NothingCut
  <2> QED
    BY <2>2, <2>4, WrittenLines, Zenon
<1>2. ASSUME FullTo(k) PROVE FullTo(k)'
  <2>1. k < Len(file) /\ k < Len(file')
    BY <1>1, <1>2 DEF FullTo
  <2>2. ASSUME NEW i \in 1..k
        PROVE  (\/ FullLine(file[i + 1])
                \/ /\ i = k /\ ~LastCut(i)
                   /\ \E l \in Begun(file[i + 1]) : FullLine(l))'
    <3>1. i \in Nat \ {0} /\ i < Len(file)
      BY <1>1, <2>1
    <3>2. CASE LastCut(i)
      <4>1. FullLine(file[i + 1])
        BY <1>2, <3>2 DEF FullTo
      <4>2. i = k
        BY <1>1, <2>1, <3>2 DEF LastCut
      <4>3. ~LastCut(i)' /\ file[i + 1] \in Begun(file'[i + 1])
        BY <1>1, <3>1, <3>2
      <4> QED
        BY <1>1, <4>1, <4>2, <4>3 DEF FullLine
    <3>3. CASE ~LastCut(i)
      <4>1. file'[i + 1] = file[i + 1] /\ ~LastCut(i)'
        BY <1>1, <3>1, <3>3
      <4>2. \/ FullLine(file[i + 1])
            \/ i = k /\ \E l \in Begun(file[i + 1]) : FullLine(l)
        BY <1>2 DEF FullTo
      <4> QED
        BY <1>1, <4>1, <4>2 DEF FullLine
    <3> QED
      BY <3>2, <3>3
  <2> QED
    BY <2>1, <2>2, Zenon DEF FullTo
<1>3. ASSUME FullTo(k), AllFull(k) PROVE AllFull(k)'
  <2>1. k < Len(file)
    BY <1>3 DEF FullTo
  <2>2. ~LastCut(k)'
    BY <1>1, <2>1
  <2>3. ASSUME NEW i \in 1..k PROVE FullLine(file[i + 1])'
    <3>1. i \in Nat \ {0} /\ i < Len(file)
      BY <1>1, <2>1
    <3>2. ~LastCut(i)
      BY <1>1, <1>3, <2>1 DEF AllFull, LastCut
    <3>3. file'[i + 1] = file[i + 1] /\ FullLine(file[i + 1])
      BY <1>1, <1>3, <3>1, <3>2 DEF AllFull
    <3> QED
      BY <1>1, <3>3 DEF FullLine
  <2> QED
    BY <2>2, <2>3 DEF AllFull
<1> QED
  BY <1>2, <1>3

LEMMA FileSteps ==
    ASSUME [Next]_vars
    PROVE  UNCHANGED file \/ Writes \/ file' = <<file[1]>>
<1>1. ReadNext => UNCHANGED file \/ file' = <<file[1]>>
  BY Zenon DEF ReadNext, CountRow, CountEnd, ReadRow, EndRead, QueryRow, EndQuery, QueryFails,
         BeginRead, BeginQuery, Throws, CloseFile, csvVars
<1>2. ShareNext => UNCHANGED file
  BY ShareOnly DEF csvVars
<1>3. CsvNext => UNCHANGED file \/ Writes
  BY Zenon DEF CsvNext, SetFlags, ConvertHeader, NextRow, EndOfFile, Start
<1> QED
  BY <1>1, <1>2, <1>3, Zenon DEF Next, vars

LEMMA FileStep ==
    ASSUME CsvInv, FileInv, [Next]_vars
    PROVE  FileInv'
<1>1. file \in Seq(Seq(Item)) /\ file # <<>> /\ Len(file) \in Nat \ {0}
  BY DEF CsvInv, RowsTyped
<1>2. CASE UNCHANGED file
  BY <1>2 DEF FileInv
<1>3. CASE Writes
  <2>1. file'[1] = file[1] /\ (LineAdded \/ LineEnded)
    BY <1>3, FileWritten DEF CsvInv
  <2>2. CASE LineAdded
    <3>1. \A i \in 2..Len(file') : i \in 2..Len(file) \/ i = Len(file) + 1
      BY <1>1, <2>2 DEF LineAdded
    <3> QED
      BY <1>1, <2>1, <2>2, <3>1 DEF FileInv, LineAdded
  <2>3. CASE LineEnded
    BY <1>1, <2>1, <2>3 DEF FileInv, LineEnded
  <2> QED
    BY <2>1, <2>2, <2>3
<1>4. CASE file' = <<file[1]>>
  BY <1>4 DEF FileInv
<1> QED
  BY <1>2, <1>3, <1>4, FileSteps

LEMMA NotPassing ==
    ASSUME LoadShape', ~Passing'
    PROVE  LoadInv'
  BY DEF LoadInv, PassInv, CountInv, FrameInv, Passing

LEMMA NothingLoads ==
    ASSUME load' = NotLoading
    PROVE  LoadInv'
  BY NotPassing DEF LoadShape, Passing, Reading

LEMMA BeginReadLoad ==
    ASSUME Inv, CsvInv, NEW f \in Frames, NEW b \in Blocks, NEW us, BeginRead(f, b, us)
    PROVE  LoadInv'
<1>1. /\ load = NotLoading /\ f \in Fresh /\ NewBlock(b, <<>>, 0)
      /\ UNCHANGED <<file, cut>>
  BY DEF BeginRead, Quiet
<1>2. CASE UNCHANGED load
  BY <1>1, <1>2, NothingLoads
<1>3. CASE /\ CanOpen /\ frames' = [frames EXCEPT ![f].block = b]
           /\ reader' = Opened(Closed)
           /\ load' = [frame |-> f, kind |-> "count", usecols |-> us, count |-> 0,
                       rest |-> <<>>]
  <2>1. load'.frame = f /\ load'.kind = "count" /\ load'.count = 0 /\ LoadShape'
    BY <1>3 DEF LoadShape
  <2>2. frames[f] = NoFrame /\ f \in DOMAIN frames
    BY <1>1 DEF Fresh, Inv, Good, Typed
  <2>3. frames'[f].block = b /\ "thrown" \in DOMAIN frames'[f]
    BY <1>3, <2>2 DEF NoFrame
  <2>4. heap'[b] = [data |-> <<>>, room |-> 0, columns |-> <<>>, count |-> 0]
    BY <1>1 DEF NewBlock, Inv, Good, Typed
  <2>5. BlockOf(load.frame)' = heap'[b]
    BY <2>1, <2>3 DEF BlockOf
  <2>6. AsOpened' /\ CanOpen' /\ reader'.pos = 1
    BY <1>1, <1>3 DEF AsOpened, CanOpen, Opened, Closed
  <2>7. FullTo(0)' /\ AllFull(0)'
    <3>1. Len(file) \in Nat \ {0} /\ RowsTyped'
      BY BeginReadRows DEF CsvInv, RowsTyped
    <3>2. FullTo(0)'
      BY <1>1, <3>1 DEF FullTo
    <3>3. ~LastCut(0)'
      BY <3>1, NothingCut
    <3> QED
      BY <3>2, <3>3 DEF AllFull
  <2>8. PassInv'
    BY <2>1, <2>3, <2>4, <2>5, <2>6, <2>7 DEF PassInv, BlockOf
  <2>9. CountInv' /\ FrameInv'
    BY <2>1, <2>3, <2>4, <2>6, <2>7 DEF CountInv, FrameInv, Reading, BlockOf
  <2> QED
    BY <2>1, <2>8, <2>9 DEF LoadInv
<1> QED
  BY <1>1, <1>2, <1>3 DEF BeginRead

LEMMA CountRowLoad ==
    ASSUME EmptyLinesShow, CsvInv, FileInv, LoadInv, CountRow
    PROVE  LoadInv'
<1>1. /\ Reading("count") /\ HasLine(reader) /\ UNCHANGED <<file, cut, heap, frames>>
  BY DEF CountRow
<1>2. PICK its \in Parsed(file[reader.pos + 1]) :
         IF Refused(reader, its)
         THEN reader' = [Moved(reader, its) EXCEPT !.eof = TRUE] /\ UNCHANGED load
         ELSE reader' = Moved(reader, its) /\ load' = [load EXCEPT !.count = @ + 1]
  BY DEF CountRow
<1>3. /\ Passing /\ AsOpened /\ CanOpen /\ FullTo(load.count) /\ load.count \in Nat
      /\ reader.pos = load.count + 1 /\ AllFull(load.count)
      /\ {"kind", "frame", "count"} \subseteq DOMAIN load
      /\ load.kind = "count" /\ load # NotLoading
  BY <1>1 DEF LoadInv, LoadShape, PassInv, CountInv, Passing, FullTo, HasLine, Reading
<1>4. Refused(reader, its) <=> ~FullLine(file[reader.pos + 1])
  BY <1>1, <1>3, RowRead
<1>5. /\ AsOpened' /\ reader'.pos = reader.pos + 1
      /\ ~Refused(reader, its) => (reader'.eof <=> LastCut(reader.pos))
      /\ Refused(reader, its) => reader'.eof
  BY <1>1, <1>2, <1>3, MovedOpened
<1>6. CASE Refused(reader, its)
  <2>1. UNCHANGED load /\ reader'.eof
    BY <1>2, <1>5, <1>6
  <2>2. FullTo(load.count)'
    BY <1>1, <1>3, <2>1 DEF FullTo, FullLine, Names, LastCut
  <2> QED
    BY <1>1, <1>3, <1>5, <2>1, <2>2
       DEF LoadInv, LoadShape, PassInv, CountInv, FrameInv, Passing, Reading, BlockOf, CanOpen
<1>7. CASE ~Refused(reader, its)
  <2>1. load' = [load EXCEPT !.count = @ + 1] /\ FullLine(file[load.count + 2])
    BY <1>2, <1>3, <1>4, <1>7
  <2>2. /\ load'.kind = "count" /\ load'.frame = load.frame /\ load'.count = load.count + 1
        /\ LoadShape'
    BY <1>3, <2>1 DEF LoadShape
  <2>3. load.count + 1 < Len(file) /\ \A i \in 1..load.count + 1 : FullLine(file[i + 1])
    <3>1. reader.pos < Len(file) /\ Len(file) \in Nat
      BY <1>1 DEF HasLine, CsvInv, RowsTyped
    <3> QED
      BY <1>3, <2>1, <3>1 DEF AllFull
  <2>4. FullTo(load.count)'
    BY <1>1, <1>3, <2>2, <2>3 DEF FullTo, FullLine, Names
  <2>5. PassInv'
    BY <1>1, <1>3, <1>5, <2>2, <2>4 DEF LoadInv, PassInv, BlockOf, CanOpen
  <2>6. ~reader'.eof => AllFull(load.count)'
    <3>1. ~reader'.eof => ~LastCut(load.count + 1)
      BY <1>3, <1>5, <1>7
    <3> QED
      BY <1>1, <2>2, <2>3, <3>1 DEF AllFull, FullLine, Names, LastCut
  <2>7. CountInv' /\ FrameInv'
    BY <1>1, <1>3, <1>5, <2>2, <2>6 DEF LoadInv, CountInv, FrameInv, BlockOf, Reading
  <2> QED
    BY <2>2, <2>5, <2>7 DEF LoadInv
<1> QED
  BY <1>6, <1>7

LEMMA CountEndLoad ==
    ASSUME Inv, CsvInv, LoadInv, CountEnd
    PROVE  LoadInv'
<1>1. Reading("count")
  BY DEF CountEnd
<1> DEFINE b == frames[load.frame].block
<1>2. /\ AsOpened /\ CanOpen /\ FullTo(load.count) /\ load.count \in Nat
      /\ {"kind", "frame", "count"} \subseteq DOMAIN load
      /\ b \in DOMAIN heap /\ {"data", "columns", "room"} \subseteq DOMAIN heap[b]
      /\ heap[b].data = <<>> /\ load.frame \in Frames
      /\ "thrown" \in DOMAIN frames[load.frame] /\ b \in Blocks
  BY <1>1 DEF LoadInv, LoadShape, PassInv, CountInv, Passing, FullTo, Reading, BlockOf,
              Inv, Good, Typed
<1>3. CASE load' = NotLoading
  BY <1>3, NothingLoads
<1>4. CASE /\ reader' = Opened(reader) /\ load' = [load EXCEPT !.kind = "frame"]
           /\ heap' = [heap EXCEPT ![b].columns = ColumnsOf(load.usecols, file[1]),
                                   ![b].room = load.count]
           /\ UNCHANGED <<frames, file, cut>>
  <2>1. /\ load'.kind = "frame" /\ load'.frame = load.frame /\ load'.count = load.count
        /\ LoadShape'
    BY <1>2, <1>4 DEF LoadShape
  <2>2. heap'[b].data = <<>> /\ {"data", "columns", "room"} \subseteq DOMAIN heap'[b]
    BY <1>2, <1>4
  <2>3. AsOpened' /\ CanOpen' /\ reader'.pos = 1 /\ ~reader'.eof
    BY <1>2, <1>4 DEF AsOpened, CanOpen, Opened, Closed
  <2>4. FullTo(load.count)'
    BY <1>2, <1>4, <2>1 DEF FullTo, FullLine, Names, LastCut
  <2>5. PassInv'
    BY <1>2, <1>4, <2>1, <2>2, <2>3, <2>4 DEF PassInv, BlockOf
  <2>6. FrameInv'
    <3> DEFINE rows == heap'[b].data
    <3>1. Filled(rows, 0) /\ 0 \in 0..load'.count
      BY <1>2, <2>1, <2>2 DEF Filled
    <3>2. BlockOf(load.frame)'.data = rows
      BY <1>4, <2>1 DEF BlockOf
    <3> HIDE DEF rows
    <3> QED
      BY <2>1, <2>3, <3>1, <3>2 DEF FrameInv
  <2>7. CountInv'
    BY <2>1 DEF CountInv, Reading
  <2> QED
    BY <2>1, <2>5, <2>6, <2>7 DEF LoadInv
<1> QED
  BY <1>3, <1>4 DEF CountEnd, Throws, CloseFile

\* A sequence given as a function, and its next member.
LEMMA OneMore ==
    ASSUME NEW k \in Nat, NEW s, s = [i \in 1..k |-> s[i]], NEW e
    PROVE  Append(s, e) = [i \in 1..k + 1 |-> IF i = k + 1 THEN e ELSE s[i]]
<1> DEFINE S == {s[i] : i \in 1..k} \cup {e}
<1>1. s \in [1..k -> S]
  OBVIOUS
<1>2. s \in Seq(S) /\ e \in S /\ Len(s) = k
  BY <1>1
<1> HIDE DEF S
<1>3. \A i \in 1..k + 1 : Append(s, e)[i] = IF i = k + 1 THEN e ELSE s[i]
  BY <1>2, Longer
<1>4. DOMAIN Append(s, e) = 1..k + 1 /\ Append(s, e) \in Seq(S)
  BY <1>2
<1> QED
  BY <1>3, <1>4

LEMMA ReadRowLoad ==
    ASSUME EmptyLinesShow, Inv, CsvInv, FileInv, LoadInv, ReadRow
    PROVE  LoadInv'
<1> DEFINE b == frames[load.frame].block
           columns == BlockOf(load.frame).columns
           rows == BlockOf(load.frame).data
           line == file[reader.pos + 1]
<1>1. Reading("frame") /\ HasLine(reader) /\ Len(rows) < load.count
  BY Zenon DEF ReadRow, BlockOf
<1>2. /\ Passing /\ AsOpened /\ CanOpen /\ FullTo(load.count) /\ load.count \in Nat
      /\ load.kind = "frame" /\ load # NotLoading /\ ~reader.eof
      /\ b \in DOMAIN heap /\ {"data", "columns", "room"} \subseteq DOMAIN heap[b]
      /\ load.count < Len(file) /\ Len(file) \in Nat
  BY <1>1 DEF LoadInv, LoadShape, PassInv, Passing, FullTo, Reading, BlockOf,
              Inv, Good, Typed, HasLine, CsvInv, RowsTyped
<1>3. PICK d \in 0..load.count :
         /\ Filled(rows, d) /\ reader.pos = d + 1
         /\ \A i \in 1..d : RowAt(columns, rows[i], i, load.count)
  BY <1>1, <1>2 DEF LoadInv, FrameInv, BlockOf
<1>4. d < load.count /\ d + 1 \in 1..load.count /\ line = file[d + 1 + 1]
  <2>1. Len(rows) = d
    <3> HIDE DEF rows
    <3> QED
      BY <1>3 DEF Filled
  <2> QED
    BY <1>1, <1>2, <1>3, <2>1
<1>5. PICK its \in Parsed(line) :
         \/ /\ Refused(reader, its)
            /\ reader' = [Moved(reader, its) EXCEPT !.eof = TRUE]
            /\ UNCHANGED <<file, cut, client, heap, frames, load>>
         \/ load' = NotLoading
         \/ /\ ~Refused(reader, its) /\ reader' = Moved(reader, its)
            /\ heap' = [heap EXCEPT ![b].data = Append(@,
                 [n \in DOMAIN columns |-> reader'.items[columns[n].from]])]
            /\ UNCHANGED <<file, cut, client, frames, load>>
  BY Zenon DEF ReadRow, BlockOf, Throws, CloseFile
<1>6. /\ Refused(reader, its) <=> ~FullLine(line)
      /\ FullLine(line) => Moved(reader, its).items = line
  BY <1>1, <1>2, <1>3, RowRead
<1>7. CASE load' = NotLoading
  BY <1>7, NothingLoads
<1>8. ASSUME UNCHANGED <<file, cut, frames, load>>, AsOpened',
             BlockOf(load.frame)'.columns = columns,
             {"data", "columns", "room"} \subseteq DOMAIN BlockOf(load.frame)',
             FrameInv'
      PROVE  LoadInv'
  <2>1. FullTo(load.count)' /\ CanOpen'
    BY <1>2, <1>8, Zenon DEF FullTo, FullLine, Names, LastCut, CanOpen
  <2>2. PassInv'
    BY <1>2, <1>8, <2>1, Zenon DEF LoadInv, PassInv, Passing, Reading
  <2>3. CountInv' /\ LoadShape'
    BY <1>2, <1>8 DEF LoadInv, LoadShape, CountInv, Reading
  <2> QED
    BY <1>8, <2>2, <2>3 DEF LoadInv
<1>9. CASE /\ Refused(reader, its)
           /\ reader' = [Moved(reader, its) EXCEPT !.eof = TRUE]
           /\ UNCHANGED <<file, cut, client, heap, frames, load>>
  <2>1. AsOpened' /\ reader'.eof
    BY <1>2, <1>9, MovedOpened
  <2>2. d + 1 = load.count /\ ~LastCut(load.count) /\ ~FullLine(file[load.count + 1])
    BY <1>2, <1>4, <1>6, <1>9 DEF FullTo
  <2>6. UNCHANGED <<columns, rows, file, cut, load, frames>>
    BY <1>9 DEF BlockOf
  <2> HIDE DEF columns, rows, b, line
  <2>3. \A i \in 1..d : RowAt(columns, rows[i], i, load.count)'
    BY <1>3, <2>6 DEF RowAt, FullLine, Names, LastCut
  <2>4. ~LastCut(load.count)' /\ ~FullLine(file[load.count + 1])'
    BY <2>6, <2>2 DEF FullLine, Names, LastCut
  <2>5. FrameInv'
    BY <1>3, <2>1, <2>2, <2>3, <2>4, <2>6 DEF FrameInv, columns, rows
  <2>7. {"data", "columns", "room"} \subseteq DOMAIN BlockOf(load.frame)'
    BY <1>2, <1>9 DEF BlockOf, b
  <2> QED
    BY <1>8, <2>1, <2>5, <2>6, <2>7 DEF columns
<1>10. CASE /\ ~Refused(reader, its) /\ reader' = Moved(reader, its)
            /\ heap' = [heap EXCEPT ![b].data = Append(@,
                 [n \in DOMAIN columns |-> reader'.items[columns[n].from]])]
            /\ UNCHANGED <<file, cut, client, frames, load>>
  <2>1. /\ AsOpened' /\ reader'.pos = d + 1 + 1
        /\ reader'.eof => d + 1 = load.count
    <3>1. UNCHANGED <<file, cut>> /\ reader' = Moved(reader, its)
      BY <1>10
    <3>2. /\ AsOpened' /\ reader'.pos = reader.pos + 1
          /\ reader'.eof <=> LastCut(reader.pos)
      BY <1>2, <3>1, MovedOpened, Zenon
    <3>3. LastCut(d + 1) => d + 1 = load.count
      BY <1>2, <1>4 DEF LastCut
    <3> QED
      BY <1>3, <3>2, <3>3
  <2>2. FullLine(line) /\ [n \in DOMAIN columns |-> reader'.items[columns[n].from]]
                            = RowOf(columns, line)
    BY <1>6, <1>10, Zenon DEF RowOf
  <2>3. /\ rows' = Append(rows, RowOf(columns, line)) /\ columns' = columns
        /\ {"data", "columns", "room"} \subseteq DOMAIN BlockOf(load.frame)'
    <3> HIDE DEF line
    <3>1. /\ heap'[b].data = Append(heap[b].data, RowOf(columns, line))
          /\ heap'[b].columns = heap[b].columns
          /\ {"data", "columns", "room"} \subseteq DOMAIN heap'[b]
      BY <1>2, <1>10, <2>2, Zenon
    <3> QED
      BY <1>10, <3>1, Zenon DEF BlockOf
  <2>4. UNCHANGED <<file, cut, frames, load>>
    BY <1>10
  <2> HIDE DEF rows, columns, b, line
  <2>5. /\ Filled(rows, d + 1)'
        /\ \A i \in 1..d + 1 : rows'[i] = IF i = d + 1 THEN RowOf(columns, line) ELSE rows[i]
    <3>1. rows' = [i \in 1..d + 1 |-> IF i = d + 1 THEN RowOf(columns, line) ELSE rows[i]]
      BY <1>3, <2>3, OneMore DEF Filled
    <3> QED
      BY <3>1 DEF Filled
  <2>6. ASSUME NEW i \in 1..d + 1 PROVE RowAt(columns, rows[i], i, load.count)'
    <3>1. CASE i = d + 1
      <4>1. rows'[i] = RowOf(columns, file[i + 1])
        BY <1>4, <2>5, <3>1
      <4> QED
        BY <2>3, <2>4, <4>1 DEF RowAt
    <3>2. CASE i # d + 1
      <4>1. i \in 1..d /\ rows'[i] = rows[i]
        BY <2>5, <3>2
      <4>2. RowAt(columns, rows[i], i, load.count)
        BY <1>3, <4>1
      <4> QED
        BY <2>3, <2>4, <4>1, <4>2 DEF RowAt, FullLine, Names, LastCut
    <3> QED
      BY <3>1, <3>2
  <2>7. FrameInv'
    <3>1. d + 1 \in 0..load'.count
      BY <1>4, <2>4
    <3> QED
      BY <2>1, <2>4, <2>5, <2>6, <3>1, Zenon DEF FrameInv, rows, columns
  <2> QED
    BY <1>8, <2>1, <2>3, <2>4, <2>7, Zenon DEF columns
<1> QED
  BY <1>5, <1>7, <1>9, <1>10, Zenon

LEMMA QueryLoad ==
    ASSUME LoadInv, \/ \E f \in Frames, b \in Blocks : \E t \in Tables : BeginQuery(f, b, t)
                    \/ QueryRow \/ EndQuery \/ QueryFails \/ EndRead
    PROVE  LoadInv'
<1>1. CASE \E f \in Frames, b \in Blocks : \E t \in Tables : BeginQuery(f, b, t)
  <2>1. load'.kind = "query" /\ LoadShape'
    BY <1>1 DEF BeginQuery, LoadShape
  <2> QED
    BY <2>1, NotPassing DEF Passing, Reading
<1>2. CASE QueryRow
  <2>1. load.kind = "query" /\ {"kind", "frame", "count"} \subseteq DOMAIN load
    BY <1>2 DEF QueryRow, Reading, LoadInv, LoadShape
  <2>2. load'.kind = "query" /\ LoadShape'
    BY <1>2, <2>1 DEF QueryRow, LoadShape
  <2> QED
    BY <2>2, NotPassing DEF Passing, Reading
<1>3. CASE EndQuery \/ QueryFails \/ EndRead
  BY <1>3, NothingLoads DEF EndQuery, QueryFails, EndRead, CloseFile
<1> QED
  BY <1>1, <1>2, <1>3

\* What is written meanwhile changes no line that was counted but the last one, and
\* that only if it was not whole.
LEMMA WritesLoad ==
    ASSUME CsvInv, LoadInv, Writes, UNCHANGED frameVars
    PROVE  LoadInv'
<1>1. /\ UNCHANGED <<reader, heap, frames, load>> /\ file'[1] = file[1]
      /\ RowsTyped' /\ RowsTyped
  BY FileWritten DEF frameVars, CsvInv
<1>2. file # <<>> /\ file' # <<>> /\ Len(file) \in Nat
  BY <1>1 DEF RowsTyped
<1>3. PassInv'
  <2>1. FullTo(load.count) => FullTo(load.count)'
    <3>1. FullTo(load.count) => load.count \in Nat
      BY DEF FullTo
    <3>2. \A k \in Nat : FullTo(k) => FullTo(k)'
      BY FullLonger
    <3> QED
      BY <1>1, <3>1, <3>2
  <2>2. AsOpened => AsOpened'
    BY <1>1 DEF AsOpened
  <2>3. CanOpen => CanOpen'
    BY <1>1, <1>2 DEF CanOpen
  <2> QED
    BY <1>1, <2>1, <2>2, <2>3 DEF LoadInv, PassInv, BlockOf, Passing, Reading
<1>4. CountInv'
  <2> SUFFICES ASSUME Reading("count") PROVE CountInv'
    BY <1>1 DEF CountInv, Reading
  <2>1. FullTo(load.count) /\ load.count \in Nat
    BY DEF LoadInv, PassInv, Passing, FullTo
  <2>2. AllFull(load.count) => AllFull(load.count)'
    <3>1. \A k \in Nat : FullTo(k) /\ AllFull(k) => AllFull(k)'
      BY FullLonger
    <3> QED
      BY <1>1, <2>1, <3>1
  <2> QED
    BY <1>1, <2>2 DEF LoadInv, CountInv, BlockOf, Reading
<1>5. FrameInv'
  <2> SUFFICES ASSUME Reading("frame") PROVE FrameInv'
    BY <1>1 DEF FrameInv, Reading
  <2> DEFINE k == load.count
             columns == BlockOf(load.frame).columns
             rows == BlockOf(load.frame).data
  <2>1. FullTo(k) /\ k \in Nat /\ k < Len(file)
    BY DEF LoadInv, PassInv, Passing, FullTo
  <2>2. PICK d \in 0..k :
           /\ Filled(rows, d)
           /\ \A i \in 1..d : RowAt(columns, rows[i], i, k)
           /\ ~reader.eof => reader.pos = d + 1
           /\ reader.eof => \/ d = k
                            \/ d + 1 = k /\ ~LastCut(k) /\ ~FullLine(file[k + 1])
    BY DEF LoadInv, FrameInv
  <2>3. /\ Names' = Names
        /\ \A i \in Nat \ {0} : i < Len(file) =>
             /\ ~LastCut(i)'
             /\ ~LastCut(i) => file'[i + 1] = file[i + 1]
             /\ LastCut(i) => file[i + 1] \in Begun(file'[i + 1])
    BY WrittenLines
  <2>4. UNCHANGED <<k, columns, rows>>
    BY <1>1 DEF BlockOf
  <2> HIDE DEF k, columns, rows
  <2>5. ASSUME NEW i \in 1..d PROVE RowAt(columns, rows[i], i, k)'
    <3>1. i \in Nat \ {0} /\ i < Len(file) /\ i <= k
      BY <1>2, <2>1
    <3>2. CASE LastCut(i)
      <4>1. i = k
        BY <1>2, <2>1, <3>1, <3>2 DEF LastCut
      <4>2. FullLine(file[i + 1]) /\ rows[i] = RowOf(columns, file[i + 1])
        BY <2>1, <2>2, <3>2 DEF FullTo, RowAt
      <4>3. ~LastCut(i)' /\ file[i + 1] \in Begun(file'[i + 1])
        BY <2>3, <3>1, <3>2
      <4> QED
        BY <2>3, <2>4, <4>1, <4>2, <4>3 DEF RowAt, RowOf, FullLine
    <3>3. CASE ~LastCut(i)
      <4>1. ~LastCut(i)' /\ file'[i + 1] = file[i + 1]
        BY <2>3, <3>1, <3>3
      <4>2. RowAt(columns, rows[i], i, k)
        BY <2>2
      <4> QED
        BY <2>3, <2>4, <4>1, <4>2 DEF RowAt, RowOf, FullLine
    <3> QED
      BY <3>2, <3>3
  <2>6. ASSUME d + 1 = k, ~LastCut(k), ~FullLine(file[k + 1])
        PROVE  ~LastCut(k)' /\ ~FullLine(file[k + 1])'
    <3>1. k \in Nat \ {0} /\ k < Len(file)
      BY <2>1, <2>6
    <3>2. ~LastCut(k)' /\ file'[k + 1] = file[k + 1]
      BY <2>3, <2>4, <2>6, <3>1
    <3> QED
      BY <2>3, <2>4, <2>6, <3>2 DEF FullLine
  <2> QED
    BY <1>1, <2>2, <2>4, <2>5, <2>6 DEF FrameInv, k, columns, rows
<1> QED
  BY <1>1, <1>3, <1>4, <1>5 DEF LoadInv, LoadShape

LEMMA NextLoad ==
    ASSUME EmptyLinesShow, Inv, CsvInv, FileInv, LoadInv, [Next]_vars
    PROVE  LoadInv'
<1>1. CASE UNCHANGED vars
  <2>1. PassInv' /\ CountInv' /\ LoadShape'
    BY <1>1 DEF vars, LoadInv, LoadShape, PassInv, CountInv, Passing, Reading,
                AsOpened, CanOpen, FullTo, AllFull, FullLine, Names, LastCut, BlockOf
  <2>2. FrameInv'
    BY <1>1 DEF vars, LoadInv, FrameInv, Reading, RowAt, FullLine, Names, LastCut, BlockOf
  <2> QED
    BY <2>1, <2>2 DEF LoadInv
<1>2. CASE ReadNext
  BY <1>2, BeginReadLoad, CountRowLoad, CountEndLoad, ReadRowLoad, QueryLoad DEF ReadNext
<1>3. CASE ShareNext
  BY <1>3, ShareOnly, NothingLoads
<1>4. CASE CsvNext /\ Fresh = Frames /\ UNCHANGED frameVars
  BY <1>4, NoReadStep, NothingLoads DEF frameVars
<1>5. CASE Writes /\ ~Quiet /\ UNCHANGED frameVars
  BY <1>5, WritesLoad
<1> QED
  BY <1>1, <1>2, <1>3, <1>4, <1>5 DEF Next

LEMMA InitLoad == Init => FileInv /\ LoadInv
<1> SUFFICES ASSUME Init PROVE FileInv /\ LoadInv
  OBVIOUS
<1>1. PICK h \in Headers : file = <<h>>
  BY DEF Init, CsvInit
<1>2. load = NotLoading
  BY DEF Init
<1> QED
  BY <1>1, <1>2 DEF FileInv, LoadInv, LoadShape, PassInv, CountInv, FrameInv, Passing, Reading

\* Only EndRead ends the second pass without an exception.
LEMMA EndsRead ==
    ASSUME LoadInv, [Next]_vars, Reading("frame"), load' = NotLoading,
           load.frame \in DOMAIN frames, ~frames'[load.frame].thrown
    PROVE  EndRead
<1>1. /\ load.frame \in DOMAIN frames /\ "thrown" \in DOMAIN frames[load.frame]
      /\ load # NotLoading /\ load.kind = "frame" /\ load' # load
  BY DEF LoadInv, PassInv, Passing, Reading
<1>2. ~Throws(load.frame)
  BY <1>1 DEF Throws
<1>3. ~ShareNext
  BY <1>1, ShareOnly
<1>4. ~UNCHANGED frameVars /\ ~UNCHANGED vars
  BY <1>1 DEF frameVars, vars
<1>5. ReadNext
  BY <1>3, <1>4 DEF Next
<1>6. ~CountRow /\ ~CountEnd /\ ~QueryRow /\ ~EndQuery /\ ~QueryFails
  BY <1>1 DEF CountRow, CountEnd, QueryRow, EndQuery, QueryFails, Reading
<1>7. ~ReadRow
  BY <1>1, <1>2, Zenon DEF ReadRow
<1>8. /\ \A f \in Frames, c \in Blocks : \A us \in UseCols : ~BeginRead(f, c, us)
      /\ \A f \in Frames, c \in Blocks : \A t \in Tables : ~BeginQuery(f, c, t)
  BY <1>1 DEF BeginRead, BeginQuery, Quiet
<1> QED
  BY <1>5, <1>6, <1>7, <1>8 DEF ReadNext

\* What CountedIsRead says of the frame whose read ends.
RowsAsCounted ==
    LET b == BlockOf(load.frame)
        last == file[load.count + 1]
        shows(row, line) == \A n \in DOMAIN b.columns : row[n] = line[b.columns[n].from]
    IN  /\ \/ Len(b.data) = load.count
           \/ Len(b.data) + 1 = load.count /\ Len(last) # NumberOf(reader)
        /\ \A i \in DOMAIN b.data :
             \/ shows(b.data[i], file[i + 1])
             \/ i = load.count /\ \E l \in Begun(last) :
                  Len(l) = NumberOf(reader) /\ shows(b.data[i], l)

LEMMA EndsWhole ==
    ASSUME Inv, CsvInv, LoadInv, [Next]_vars, Reading("frame"), load' = NotLoading,
           ~frames'[load.frame].thrown
    PROVE  RowsAsCounted
<1> DEFINE b == BlockOf(load.frame)
           columns == b.columns
           rows == b.data
           k == load.count
<1>1. /\ k \in Nat /\ k < Len(file) /\ load.frame \in DOMAIN frames /\ AsOpened /\ CanOpen
      /\ Len(file) \in Nat
  BY DEF LoadInv, PassInv, Passing, FullTo, Inv, Good, Typed, CsvInv, RowsTyped
<1>2. PICK d \in 0..k :
         /\ Filled(rows, d)
         /\ \A i \in 1..d : RowAt(columns, rows[i], i, k)
         /\ ~reader.eof => reader.pos = d + 1
         /\ reader.eof => \/ d = k
                          \/ d + 1 = k /\ ~LastCut(k) /\ ~FullLine(file[k + 1])
  BY DEF LoadInv, FrameInv
<1>3. ~HasLine(reader) \/ Len(rows) >= k
  BY <1>1, EndsRead DEF EndRead
<1> HIDE DEF rows, k, columns
<1>4. Len(rows) = d /\ DOMAIN rows = 1..d
  BY <1>2 DEF Filled
<1>5. NumberOf(reader) = Names /\ Names \in Nat \ {0}
  <2>1. file[1] \in Seq(Item)
    BY DEF CsvInv, RowsTyped
  <2> QED
    BY <1>1, <2>1, NamesOne DEF NumberOf, Names, AsOpened, CanOpen
<1>6. \/ Len(rows) = k
      \/ Len(rows) + 1 = k /\ Len(file[k + 1]) # NumberOf(reader)
  <2>1. d = k \/ (d + 1 = k /\ ~FullLine(file[k + 1]))
    BY <1>1, <1>2, <1>3, <1>4 DEF HasLine
  <2>2. ~FullLine(file[k + 1]) => Len(file[k + 1]) # Names
    BY <1>5 DEF FullLine
  <2> QED
    BY <1>4, <1>5, <2>1, <2>2
<1>7. ASSUME NEW i \in DOMAIN rows
      PROVE  \/ \A n \in DOMAIN columns : rows[i][n] = file[i + 1][columns[n].from]
             \/ i = k /\ \E l \in Begun(file[k + 1]) :
                  /\ Len(l) = NumberOf(reader)
                  /\ \A n \in DOMAIN columns : rows[i][n] = l[columns[n].from]
  <2>1. RowAt(columns, rows[i], i, k)
    BY <1>2, <1>4
  <2> QED
    BY <1>5, <2>1 DEF RowAt, RowOf, FullLine
<1> QED
  BY <1>6, <1>7 DEF RowsAsCounted, rows, k, columns

\* Where an empty line cannot pass for a row (a file of one column reads it as no item
\* or as an empty one), for any files, column choices and string items and whatever is
\* written meanwhile, lines in part included: a frame that repository_csv reads without
\* an exception has the rows that its first pass counted, each with the items of its
\* own line.  If the last line counted was not whole, its row may have the part that
\* was there, or be missing where the whole line is no row.
THEOREM CountedRowsAreRead ==
    ASSUME EmptyLinesShow
    PROVE  Spec => CountedIsRead
<1> DEFINE ReadInv == Inv /\ CsvInv /\ FileInv /\ LoadInv
<1>1. Init => ReadInv
  BY InitInv, CsvInitInv, InitLoad
<1>2. ReadInv /\ [Next]_vars => ReadInv'
  BY NextInv, NextCsvInv, FileStep, NextLoad
<1>3. ReadInv /\ [Next]_vars =>
        [(Reading("frame") /\ load' = NotLoading /\ ~frames'[load.frame].thrown) =>
           RowsAsCounted]_vars
  BY EndsWhole
<1>4. CountedIsRead <=>
        [][(Reading("frame") /\ load' = NotLoading /\ ~frames'[load.frame].thrown) =>
             RowsAsCounted]_vars
  BY DEF CountedIsRead, RowsAsCounted
<1> HIDE DEF ReadInv
<1> QED
  BY <1>1, <1>2, <1>3, <1>4, PTL DEF Spec

-----------------------------------------------------------------------------
(* Numbers in ascending order                                                *)

\* Naturals have a least element.
LEMMA Least == ASSUME NEW T \in SUBSET Nat, T # {} PROVE \E n \in T : \A m \in T : n <= m
<1> DEFINE U == {0..n : n \in T}
<1>1. \A n \in T : 0..n \in SUBSET Nat /\ IsFiniteSet(0..n)
  BY FS_Interval
<1>2. U \subseteq FiniteSubsetsOf(Nat) /\ U # {}
  BY <1>1 DEF FiniteSubsetsOf
<1>3. PICK x \in U : \A y \in U : ~(<<y, x>> \in StrictSubsetOrdering(Nat))
  <2> HIDE DEF U
  <2> QED
    BY <1>2, FS_StrictSubsetOrderingWellFounded, WFMin, Zenon
<1>4. PICK n \in T : x = 0..n
  BY <1>3
<1>5. ASSUME NEW m \in T PROVE ~(0..m \subseteq 0..n /\ 0..m # 0..n)
  <2>1. ~(<<0..m, 0..n>> \in StrictSubsetOrdering(Nat))
    <3>1. 0..m \in U
      OBVIOUS
    <3> QED
      BY <1>3, <1>4, <3>1
  <2>2. <<0..m, 0..n>> \in (SUBSET Nat) \X (SUBSET Nat)
    BY <1>1
  <2> DEFINE s == <<0..m, 0..n>>
  <2>3. s[1] = 0..m /\ s[2] = 0..n
    OBVIOUS
  <2> HIDE DEF s
  <2>4. ~(s[1] \subseteq s[2] /\ s[1] # s[2])
    BY <2>1, <2>2, Zenon DEF StrictSubsetOrdering, s
  <2> QED
    BY <2>3, <2>4, Zenon
<1>6. ASSUME NEW m \in T, m < n PROVE FALSE
  <2>1. 0..m \subseteq 0..n /\ n \in 0..n /\ n \notin 0..m
    BY <1>6
  <2> QED
    BY <1>5, <2>1
<1> QED
  BY <1>6

\* The greatest and the least of a set of places.
LEMMA MaxOf ==
    ASSUME NEW n \in Nat, NEW S \in SUBSET (1..n), S # {}
    PROVE  Max(S) \in S /\ Min(S) \in S
<1>1. PICK l \in S : \A m \in S : l <= m
  <2>1. S \in SUBSET Nat
    OBVIOUS
  <2> QED
    BY <2>1, Least
<1>2. Min(S) \in S
  BY <1>1 DEF Min
<1> DEFINE T == {n - i : i \in S}
<1>3. PICK k \in T : \A m \in T : k <= m
  <2>1. T \in SUBSET Nat /\ T # {}
    OBVIOUS
  <2> HIDE DEF T
  <2> QED
    BY <2>1, Least
<1>4. PICK g \in S : k = n - g
  BY <1>3
<1>5. ASSUME NEW m \in S PROVE g >= m
  <2>1. k <= n - m
    BY <1>3
  <2> QED
    BY <1>4, <2>1
<1>6. Max(S) \in S
  BY <1>5 DEF Max
<1> QED
  BY <1>2, <1>6

\* How many numbers of a set there are up to one of them.
UpTo(S, i) == {j \in S : j <= i}
Rank(S, i) == Cardinality(UpTo(S, i))

\* The ranks of n numbers are 1..n, in their order.
LEMMA Ranks ==
    ASSUME NEW n \in Nat, NEW S \in SUBSET (1..n)
    PROVE  /\ IsFiniteSet(S) /\ Cardinality(S) \in Nat /\ Cardinality(S) <= n
           /\ \A i \in S : Rank(S, i) \in 1..Cardinality(S) /\ Rank(S, i) <= i
           /\ \A i, j \in S : i <= j => Rank(S, i) <= Rank(S, j)
           /\ \A i, j \in S : i < j => Rank(S, i) < Rank(S, j)
<1>1. IsFiniteSet(1..n) /\ Cardinality(1..n) = n
  BY FS_Interval
<1>2. IsFiniteSet(S) /\ Cardinality(S) \in Nat /\ Cardinality(S) <= n
  BY <1>1, FS_Subset, FS_CardinalityType
<1>3. ASSUME NEW i
      PROVE  /\ UpTo(S, i) \in SUBSET S /\ IsFiniteSet(UpTo(S, i)) /\ Rank(S, i) \in Nat
             /\ Rank(S, i) <= Cardinality(S)
  <2>1. UpTo(S, i) \in SUBSET S
    BY DEF UpTo
  <2> QED
    BY <1>2, <2>1, FS_Subset, FS_CardinalityType DEF Rank
<1>4. ASSUME NEW i \in S PROVE Rank(S, i) \in 1..Cardinality(S) /\ Rank(S, i) <= i
  <2>1. i \in UpTo(S, i)
    BY DEF UpTo
  <2>2. Rank(S, i) # 0
    BY <1>3, <2>1, FS_EmptySet DEF Rank
  <2>3. Rank(S, i) <= i
    <3>1. i \in Nat /\ \A m \in S : m \in Nat /\ m >= 1
      OBVIOUS
    <3>2. UpTo(S, i) \in SUBSET (1..i)
      <4>1. \A m \in UpTo(S, i) : m \in Nat /\ m >= 1 /\ m <= i
        BY <3>1 DEF UpTo
      <4> QED
        BY <3>1, <4>1
    <3>3. IsFiniteSet(1..i) /\ Cardinality(1..i) = i
      BY <3>1, FS_Interval
    <3> QED
      BY <3>2, <3>3, FS_Subset DEF Rank
  <2> QED
    BY <1>2, <1>3, <2>2, <2>3
<1>5. ASSUME NEW i \in S, NEW j \in S, i <= j
      PROVE  UpTo(S, i) \in SUBSET UpTo(S, j) /\ Rank(S, i) <= Rank(S, j)
  <2>1. \A m \in S : m \in Int
    OBVIOUS
  <2>2. \A m \in S : m <= i => m <= j
    BY <1>5, <2>1
  <2>3. UpTo(S, i) \in SUBSET UpTo(S, j)
    BY <2>2 DEF UpTo
  <2> QED
    BY <1>3, <2>3, FS_Subset DEF Rank
<1>6. ASSUME NEW i \in S, NEW j \in S, i < j PROVE Rank(S, i) < Rank(S, j)
  <2>1. UpTo(S, i) \in SUBSET UpTo(S, j) /\ Rank(S, i) <= Rank(S, j)
    BY <1>5, <1>6
  <2>2. j \in UpTo(S, j) /\ j \notin UpTo(S, i)
    BY <1>6 DEF UpTo
  <2>3. Rank(S, i) # Rank(S, j)
    BY <1>3, <2>1, <2>2, FS_Subset DEF Rank
  <2> QED
    BY <1>3, <2>1, <2>3
<1> QED
  BY <1>2, <1>4, <1>5, <1>6

\* It has the numbers of the set, each once, and each greater than the one before.
LEMMA Ascends ==
    ASSUME NEW n \in Nat, NEW S \in SUBSET (1..n)
    PROVE  LET k == Cardinality(S)
               s == Ascending(S)
           IN  /\ k \in Nat /\ k <= n /\ s \in Seq(S) /\ Len(s) = k /\ DOMAIN s = 1..k
               /\ ToSet(s) = S
               /\ \A i, j \in 1..k : i < j => s[i] < s[j]
               /\ \A i \in 1..k : s[i] \in S /\ i <= s[i]
<1> DEFINE k == Cardinality(S)
           s == Ascending(S)
           r == [i \in S |-> Rank(S, i)]
<1>1. /\ IsFiniteSet(S) /\ k \in Nat /\ k <= n
      /\ \A i \in S : Rank(S, i) \in 1..k /\ Rank(S, i) <= i
      /\ \A i, j \in S : i <= j => Rank(S, i) <= Rank(S, j)
      /\ \A i, j \in S : i < j => Rank(S, i) < Rank(S, j)
  BY Ranks
<1>2. r \in Injection(S, 1..k)
  <2>1. r \in [S -> 1..k]
    BY <1>1
  <2>2. \A i, j \in S : r[i] = r[j] => i = j
    <3> SUFFICES ASSUME NEW i \in S, NEW j \in S, Rank(S, i) = Rank(S, j) PROVE i = j
      OBVIOUS
    <3>1. Rank(S, i) \in Int
      BY <1>1
    <3> QED
      BY <1>1, <3>1
  <2> QED
    BY <2>1, <2>2 DEF Injection, IsInjective
<1>3. r \in Surjection(S, 1..k)
  <2>1. IsFiniteSet(1..k) /\ Cardinality(1..k) = k
    BY <1>1, FS_Interval
  <2> QED
    BY <1>2, <2>1, FS_Injection
<1>4. \A m \in 1..k : \E i \in S : Rank(S, i) = m
  BY <1>3 DEF Surjection
<1>5. s = [m \in 1..k |-> CHOOSE i \in S : Rank(S, i) = m]
  BY DEF Ascending, Rank, UpTo
<1> HIDE DEF s, k
<1>6. \A m \in 1..k : s[m] \in S /\ Rank(S, s[m]) = m /\ m <= s[m]
  BY <1>1, <1>4, <1>5
<1>7. s \in [1..k -> S] /\ DOMAIN s = 1..k
  BY <1>5, <1>6
<1>8. s \in Seq(S) /\ Len(s) = k
  BY <1>1, <1>7
<1>9. \A m \in S : m \in Int
  OBVIOUS
<1>10. ToSet(s) = S
  <2>1. \A i \in S : s[Rank(S, i)] = i
    <3> SUFFICES ASSUME NEW i \in S PROVE s[Rank(S, i)] = i
      OBVIOUS
    <3> DEFINE j == s[Rank(S, i)]
    <3>1. Rank(S, i) \in 1..k
      BY <1>1
    <3>2. j \in S /\ Rank(S, j) = Rank(S, i)
      BY <1>6, <3>1
    <3> HIDE DEF j
    <3>3. i \in Int /\ j \in Int
      BY <1>9, <3>2
    <3>4. Rank(S, i) \in Int
      BY <1>1, <3>1
    <3> QED
      BY <1>1, <3>2, <3>3, <3>4 DEF j
  <2> QED
    BY <1>1, <1>6, <1>7, <2>1 DEF ToSet
<1>11. ASSUME NEW i \in 1..k, NEW j \in 1..k, i < j PROVE s[i] < s[j]
  <2>1. s[i] \in S /\ s[j] \in S /\ Rank(S, s[i]) = i /\ Rank(S, s[j]) = j
    BY <1>6
  <2>2. s[i] \in Int /\ s[j] \in Int
    BY <1>9, <2>1
  <2>3. i \in Int /\ j \in Int
    BY <1>1
  <2>4. ASSUME s[j] <= s[i] PROVE FALSE
    <3>1. Rank(S, s[j]) <= Rank(S, s[i])
      BY <1>1, <2>1, <2>4
    <3> QED
      BY <1>11, <2>1, <2>3, <3>1
  <2> QED
    BY <2>2, <2>4
<1> QED
  BY <1>1, <1>6, <1>7, <1>8, <1>10, <1>11 DEF s, k

-----------------------------------------------------------------------------
(* Rows that are taken from a block                                          *)

\* The rows taken out of a sequence at the numbers of a set.
Taken(data, S) == [n \in 1..Cardinality(S) |-> data[Ascending(S)[n]]]

\* As many rows are taken as the set has numbers.
LEMMA TakenType ==
    ASSUME NEW D, NEW data \in Seq(D), NEW S \in SUBSET (1..Len(data))
    PROVE  /\ Taken(data, S) \in Seq(D) /\ Len(Taken(data, S)) = Cardinality(S)
           /\ DOMAIN Taken(data, S) = 1..Cardinality(S)
           /\ Cardinality(S) \in Nat /\ Cardinality(S) <= Len(data)
<1> DEFINE k == Cardinality(S)
           s == Ascending(S)
<1>0. Len(data) \in Nat /\ DOMAIN data = 1..Len(data) /\ \A i \in DOMAIN data : data[i] \in D
  OBVIOUS
<1>1. k \in Nat /\ k <= Len(data) /\ \A i \in 1..k : s[i] \in S
  BY <1>0, Ascends
<1> HIDE DEF k, s
<1>2. \A i \in 1..k : data[s[i]] \in D
  BY <1>0, <1>1
<1>3. [n \in 1..k |-> data[s[n]]] \in [1..k -> D]
  BY <1>2
<1>4. Taken(data, S) = [n \in 1..k |-> data[s[n]]]
  BY DEF Taken, k, s
<1>5. /\ Taken(data, S) \in Seq(D) /\ Len(Taken(data, S)) = k
      /\ DOMAIN Taken(data, S) = 1..k
  BY <1>1, <1>3, <1>4
<1> QED
  BY <1>1, <1>5 DEF k

\* Moving the rows up one after the other overwrites none that is still to be moved.
LEMMA MovedUpTakes ==
    ASSUME NEW D, NEW data \in Seq(D), NEW S \in SUBSET (1..Len(data))
    PROVE  MovedUp(data, Ascending(S)) = Taken(data, S)
<1> DEFINE N == Len(data)
           k == Cardinality(S)
           first == Ascending(S)
           F(f) == [n \in 0..k |->
                      IF n = 0 THEN data ELSE [f[n - 1] EXCEPT ![n] = f[n - 1][first[n]]]]
           c == CHOOSE f : f = F(f)
           g == [n \in 0..k |-> [m \in 1..N |-> IF m <= n THEN data[first[m]] ELSE data[m]]]
<1>0. N \in Nat /\ S \in SUBSET (1..N)
  OBVIOUS
<1>1. /\ N \in Nat /\ k \in Nat /\ k <= N /\ Len(first) = k
      /\ \A i \in 1..k : first[i] \in 1..N /\ i <= first[i]
  <2> HIDE DEF N
  <2>1. /\ k \in Nat /\ k <= N /\ Len(first) = k
        /\ \A i \in 1..k : first[i] \in S /\ i <= first[i]
    BY <1>0, Ascends
  <2> QED
    BY <1>0, <2>1
<1>2. MovedUp(data, first) = SubSeq(c[k], 1, k)
  BY <1>1 DEF MovedUp
<1>3. Taken(data, S) = [n \in 1..k |-> data[first[n]]]
  BY DEF Taken
<1> HIDE DEF first, k
<1>4. g = F(g)
  <2>1. g[0] = data
    <3>1. g[0] = [m \in 1..N |-> IF m <= 0 THEN data[first[m]] ELSE data[m]]
      BY <1>1
    <3>2. \A m \in 1..N : ~(m <= 0)
      BY <1>1
    <3>3. g[0] = [m \in 1..N |-> data[m]]
      BY <3>1, <3>2
    <3> QED
      BY <3>3
  <2>2. ASSUME NEW n \in 1..k PROVE g[n] = [g[n - 1] EXCEPT ![n] = g[n - 1][first[n]]]
    <3>1. /\ n - 1 \in 0..k /\ n \in 0..k /\ n \in 1..N /\ first[n] \in 1..N
          /\ ~(first[n] <= n - 1)
      BY <1>1
    <3>2. g[n - 1] = [m \in 1..N |-> IF m <= n - 1 THEN data[first[m]] ELSE data[m]]
      BY <3>1
    <3>3. g[n - 1][first[n]] = data[first[n]]
      BY <3>1, <3>2
    <3>4. [g[n - 1] EXCEPT ![n] = g[n - 1][first[n]]] =
            [m \in 1..N |-> IF m = n THEN data[first[n]] ELSE g[n - 1][m]]
      BY <3>2, <3>3
    <3>5. \A m \in 1..N : (IF m = n THEN data[first[n]] ELSE g[n - 1][m]) =
                            IF m <= n THEN data[first[m]] ELSE data[m]
      <4> SUFFICES ASSUME NEW m \in 1..N
                   PROVE  (IF m = n THEN data[first[n]] ELSE g[n - 1][m]) =
                            IF m <= n THEN data[first[m]] ELSE data[m]
        OBVIOUS
      <4>1. g[n - 1][m] = IF m <= n - 1 THEN data[first[m]] ELSE data[m]
        BY <3>2
      <4>2. m # n => (m <= n <=> m <= n - 1)
        BY <3>1
      <4> HIDE DEF g
      <4> QED
        BY <3>1, <4>1, <4>2
    <3> QED
      BY <3>1, <3>4, <3>5
  <2>3. \A n \in 0..k : n = 0 \/ n \in 1..k
    BY <1>1
  <2> HIDE DEF g
  <2>4. g = [n \in 0..k |-> g[n]]
    BY DEF g
  <2> QED
    BY <2>1, <2>2, <2>3, <2>4
<1>5. c = F(c)
  <2> HIDE DEF F
  <2> QED
    BY <1>4
<1> HIDE DEF c, g
<1> DEFINE Bad == {n \in 0..k : c[n] # g[n]}
<1>6. Bad = {}
  <2> SUFFICES ASSUME Bad # {} PROVE FALSE
    OBVIOUS
  <2>1. Bad \in SUBSET Nat
    BY <1>1
  <2>2. PICK n \in Bad : \A m \in Bad : n <= m
    <3> HIDE DEF Bad
    <3> QED
      BY <2>1, Least
  <2>3. n \in 0..k /\ c[n] # g[n]
    BY <2>2
  <2>4. /\ c[n] = IF n = 0 THEN data ELSE [c[n - 1] EXCEPT ![n] = c[n - 1][first[n]]]
        /\ g[n] = IF n = 0 THEN data ELSE [g[n - 1] EXCEPT ![n] = g[n - 1][first[n]]]
    BY <1>4, <1>5, <2>3
  <2>5. n # 0
    BY <2>3, <2>4
  <2>6. n \in Nat /\ n - 1 \in 0..k
    BY <1>1, <2>3, <2>5
  <2>7. c[n - 1] = g[n - 1]
    BY <2>2, <2>6
  <2> QED
    BY <2>3, <2>4, <2>5, <2>7
<1>7. c[k] = g[k]
  BY <1>1, <1>6
<1>8. g[k] = [m \in 1..N |-> IF m <= k THEN data[first[m]] ELSE data[m]]
  BY <1>1 DEF g
<1>9. g[k] \in Seq(D) /\ Len(g[k]) = N
  <2>1. \A m \in 1..N : (IF m <= k THEN data[first[m]] ELSE data[m]) \in D
    BY <1>1
  <2>2. g[k] \in [1..N -> D]
    BY <1>8, <2>1
  <2> QED
    BY <1>1, <2>2
<1>10. \A m \in 1..k : g[k][m] = data[first[m]]
  BY <1>1, <1>8
<1>11. SubSeq(g[k], 1, k) = [m \in 1..k |-> g[k][m]]
  BY <1>1, <1>9
<1>12. SubSeq(g[k], 1, k) = [m \in 1..k |-> data[first[m]]]
  BY <1>10, <1>11
<1> QED
  BY <1>2, <1>3, <1>7, <1>12 DEF first

\* The numbers of a set at which a row is found.
At(data, S, v) == {i \in S : data[i] = v}

\* What occurs in the rows taken occurs so often in the set.
LEMMA TakenOccurs ==
    ASSUME NEW D, NEW data \in Seq(D), NEW S \in SUBSET (1..Len(data)), NEW v
    PROVE  /\ IsFiniteSet(At(data, S, v)) /\ Cardinality(At(data, S, v)) \in Nat
           /\ Occurs(Taken(data, S), v) = Cardinality(At(data, S, v))
<1> DEFINE k == Cardinality(S)
           s == Ascending(S)
           T == {i \in 1..k : Taken(data, S)[i] = v}
           A == At(data, S, v)
<1>1. /\ k \in Nat /\ DOMAIN Taken(data, S) = 1..k /\ ToSet(s) = S /\ DOMAIN s = 1..k
      /\ \A i, j \in 1..k : i < j => s[i] < s[j]
      /\ \A i \in 1..k : s[i] \in S
  BY Ascends, TakenType
<1>2. \A i \in 1..k : Taken(data, S)[i] = data[s[i]]
  BY DEF Taken
<1>3. Occurs(Taken(data, S), v) = Cardinality(T)
  BY <1>1 DEF Occurs
<1>4. T = {i \in 1..k : data[s[i]] = v}
  BY <1>2
<1> HIDE DEF k, s, T
<1> DEFINE m == [i \in T |-> s[i]]
<1>5. m \in Bijection(T, A)
  <2>1. T \subseteq 1..k /\ \A i \in T : s[i] \in A
    BY <1>1, <1>4 DEF At
  <2>2. m \in [T -> A]
    BY <2>1
  <2>3. \A i, j \in T : m[i] = m[j] => i = j
    <3> SUFFICES ASSUME NEW i \in T, NEW j \in T, s[i] = s[j] PROVE i = j
      OBVIOUS
    <3>1. i \in 1..k /\ j \in 1..k
      BY <2>1
    <3>5. s[i] \in S /\ \A n \in S : n \in Int
      BY <1>1, <3>1
    <3>2. i \in Int /\ j \in Int
      BY <1>1, <3>1
    <3>3. i < j => s[i] < s[j]
      BY <1>1, <3>1
    <3>4. j < i => s[j] < s[i]
      BY <1>1, <3>1
    <3> QED
      <4>1. s[i] \in Int /\ s[j] \in Int /\ s[i] = s[j]
        BY <3>5
      <4>2. ~(i < j) /\ ~(j < i)
        BY <3>3, <3>4, <4>1
      <4> QED
        BY <3>2, <4>2
  <2>4. \A a \in A : \E i \in T : m[i] = a
    <3> SUFFICES ASSUME NEW a \in A PROVE \E i \in T : s[i] = a
      OBVIOUS
    <3>1. a \in S /\ data[a] = v
      BY DEF At
    <3>2. PICK i \in 1..k : s[i] = a
      BY <1>1, <3>1 DEF ToSet
    <3> QED
      BY <1>4, <3>1, <3>2
  <2> QED
    BY <2>2, <2>3, <2>4 DEF Bijection, Injection, Surjection, IsInjective
<1>6. IsFiniteSet(T)
  <2>1. IsFiniteSet(1..k) /\ T \in SUBSET (1..k)
    BY <1>1, <1>4, FS_Interval
  <2> QED
    BY <2>1, FS_Subset
<1>7. IsFiniteSet(A) /\ Cardinality(A) = Cardinality(T)
  <2>1. ExistsBijection(T, A)
    BY <1>5 DEF ExistsBijection
  <2> QED
    BY <1>6, <2>1, FS_Bijection
<1> QED
  BY <1>3, <1>7, FS_CardinalityType

\* A set of rows and the rest are all of them.
LEMMA PartsOccur ==
    ASSUME NEW D, NEW data \in Seq(D), NEW S \in SUBSET (1..Len(data)), NEW v
    PROVE  LET R == 1..Len(data) \ S
           IN  /\ Len(Taken(data, R)) + Len(Taken(data, S)) = Len(data)
               /\ Occurs(Taken(data, R), v) + Occurs(Taken(data, S), v) = Occurs(data, v)
               /\ Occurs(Taken(data, R), v) \in Nat /\ Occurs(Taken(data, S), v) \in Nat
<1> DEFINE N == Len(data)
           R == 1..N \ S
<1>1. N \in Nat /\ IsFiniteSet(1..N) /\ Cardinality(1..N) = N /\ DOMAIN data = 1..N
  <2>1. N \in Nat /\ DOMAIN data = 1..N
    OBVIOUS
  <2> HIDE DEF N
  <2> QED
    BY <2>1, FS_Interval
<1>2. R \in SUBSET (1..N)
  OBVIOUS
<1>3. /\ Len(Taken(data, R)) = Cardinality(R) /\ Len(Taken(data, S)) = Cardinality(S)
      /\ Cardinality(R) \in Nat /\ Cardinality(S) \in Nat
  BY <1>2, TakenType
<1>4. Cardinality(R) = N - Cardinality(S)
  <2>1. 1..N \cap S = S
    OBVIOUS
  <2>2. Cardinality(1..N \ S) = Cardinality(1..N) - Cardinality(1..N \cap S)
    <3> HIDE DEF N
    <3> QED
      BY <1>1, FS_Difference
  <2> QED
    BY <1>1, <2>1, <2>2
<1>5. At(data, R, v) \cup At(data, S, v) = At(data, 1..N, v)
      /\ At(data, R, v) \cap At(data, S, v) = {}
  BY DEF At
<1> HIDE DEF R
<1>6. /\ IsFiniteSet(At(data, R, v)) /\ Cardinality(At(data, R, v)) \in Nat
      /\ Occurs(Taken(data, R), v) = Cardinality(At(data, R, v))
  BY <1>2, TakenOccurs
<1>7. /\ IsFiniteSet(At(data, S, v)) /\ Cardinality(At(data, S, v)) \in Nat
      /\ Occurs(Taken(data, S), v) = Cardinality(At(data, S, v))
  BY TakenOccurs
<1>8. Cardinality(At(data, 1..N, v)) =
        Cardinality(At(data, R, v)) + Cardinality(At(data, S, v))
  <2> DEFINE A == At(data, R, v)
             B == At(data, S, v)
  <2>1. IsFiniteSet(A) /\ IsFiniteSet(B) /\ A \cap B = {}
    BY <1>5, <1>6, <1>7
  <2> HIDE DEF A, B
  <2>2. Cardinality(A \cup B) = Cardinality(A) + Cardinality(B) - Cardinality(A \cap B)
    BY <2>1, FS_Union
  <2>3. Cardinality(A \cap B) = 0
    BY <2>1, FS_EmptySet
  <2>4. Cardinality(A) \in Nat /\ Cardinality(B) \in Nat
    BY <2>1, FS_CardinalityType
  <2>5. Cardinality(A \cup B) = Cardinality(A) + Cardinality(B)
    BY <2>2, <2>3, <2>4
  <2> QED
    BY <1>5, <2>5 DEF A, B
<1>9. Occurs(data, v) = Cardinality(At(data, 1..N, v))
  BY <1>1 DEF Occurs, At
<1> QED
  BY <1>1, <1>3, <1>4, <1>6, <1>7, <1>8, <1>9 DEF R

-----------------------------------------------------------------------------
(* Columns and rows are typed                                                *)

\* A header without duplicates has as many names as items.
LEMMA NamesAll ==
    ASSUME NEW h \in Seq(Item), NoDuplicates(h)
    PROVE  Cardinality(ToSet(h)) = Len(h)
<1>1. Len(h) \in Nat /\ DOMAIN h = 1..Len(h)
  OBVIOUS
<1>2. IsFiniteSet(1..Len(h)) /\ Cardinality(1..Len(h)) = Len(h)
  BY <1>1, FS_Interval
<1>3. ToSet(h) = {h[i] : i \in DOMAIN h}
  BY DEF ToSet
<1>4. h \in Bijection(1..Len(h), ToSet(h))
  <2>1. h \in [1..Len(h) -> ToSet(h)]
    BY <1>1, <1>3
  <2> QED
    BY <1>1, <1>3, <2>1
       DEF Bijection, Injection, Surjection, NoDuplicates, IsInjective
<1>5. ExistsBijection(1..Len(h), ToSet(h))
  BY <1>4 DEF ExistsBijection
<1> QED
  BY <1>2, <1>5, FS_Bijection

-----------------------------------------------------------------------------
(* Columns                                                                   *)

\* usecols gives every column a type.
LEMMA TypesTyped ==
    ASSUME NEW us \in UseCols \cup {<<>>}, NEW names, NEW i
    PROVE  TypeOf(us, names, i) \in DataTypes
<1> DEFINE by == {k \in DOMAIN us : Takes(us[k], names, i)}
<1>1. /\ Len(us) \in Nat /\ DOMAIN us = 1..Len(us)
      /\ \A k \in DOMAIN us : us[k].type \in DataTypes
  <2>1. us = <<>> => Len(us) \in Nat /\ DOMAIN us = 1..Len(us) /\ DOMAIN us = {}
    OBVIOUS
  <2> QED
    BY <2>1, UseColAssumption
<1>2. by \in SUBSET (1..Len(us))
  BY <1>1
<1>3. TypeOf(us, names, i) = IF by = {} THEN "unknown" ELSE us[Max(by)].type
  BY DEF TypeOf
<1> HIDE DEF by
<1>4. by # {} => Max(by) \in DOMAIN us
  BY <1>1, <1>2, MaxOf
<1> QED
  BY <1>1, <1>3, <1>4 DEF DataTypes

\* Every column is one of the file's.
LEMMA ColumnsTyped ==
    ASSUME NEW us \in UseCols \cup {<<>>}, NEW names \in Seq(Item)
    PROVE  /\ ColumnsOf(us, names) \in Seq(Column)
           /\ \A n \in DOMAIN ColumnsOf(us, names) :
                ColumnsOf(us, names)[n].from \in 1..Len(names)
<1> DEFINE kept == {i \in DOMAIN names : TypeOf(us, names, i) # "unknown"}
           col(i) == [name |-> names[i], type |-> TypeOf(us, names, i), from |-> i]
           k == Cardinality(kept)
           s == Ascending(kept)
<1>1. /\ Len(names) \in Nat /\ DOMAIN names = 1..Len(names)
      /\ \A i \in DOMAIN names : names[i] \in Item
  OBVIOUS
<1>2. kept \in SUBSET (1..Len(names))
  BY <1>1
<1>3. ColumnsOf(us, names) = [n \in 1..k |-> col(s[n])]
  BY DEF ColumnsOf
<1> HIDE DEF kept
<1>4. k \in Nat /\ \A n \in 1..k : s[n] \in kept
  BY <1>1, <1>2, Ascends
<1> HIDE DEF k, s
<1>5. \A n \in 1..k : s[n] \in 1..Len(names) /\ s[n] \in Nat
  <2>1. \A i \in 1..Len(names) : i \in Nat
    BY <1>1
  <2> QED
    BY <1>2, <1>4, <2>1
<1>6. \A i \in 1..Len(names) : i \in Nat => col(i) \in Column
  BY <1>1, TypesTyped DEF Column
<1>7. \A n \in 1..k : col(s[n]) \in Column /\ col(s[n]).from = s[n]
  BY <1>5, <1>6
<1> HIDE DEF col
<1>8. [n \in 1..k |-> col(s[n])] \in [1..k -> Column]
  BY <1>7
<1>9. [n \in 1..k |-> col(s[n])] \in Seq(Column)
  BY <1>4, <1>8
<1> QED
  BY <1>3, <1>5, <1>7, <1>9

\* The columns of a query.
LEMMA FieldsTyped ==
    ASSUME NEW t \in Tables
    PROVE  Fields(t) \in Seq(Column)
<1> DEFINE k == Len(t.header)
           col(n) == [name |-> t.header[n], type |-> FieldType[t.types[n]], from |-> n]
<1>1. /\ k \in Nat /\ DOMAIN t.header = 1..k
      /\ \A n \in 1..k : t.header[n] \in STRING /\ t.types[n] \in DOMAIN FieldType
  <2>1. t.header \in Seq(STRING) /\ \A n \in DOMAIN t.header : t.types[n] \in DOMAIN FieldType
    BY TableAssumption
  <2>2. k \in Nat /\ DOMAIN t.header = 1..k /\ \A n \in DOMAIN t.header : t.header[n] \in STRING
    BY <2>1
  <2> QED
    BY <2>1, <2>2
<1>2. \A x \in DOMAIN FieldType : FieldType[x] \in DataTypes
  BY DEF FieldType, DataTypes
<1>3. Fields(t) = [n \in 1..k |-> col(n)]
  BY DEF Fields
<1> HIDE DEF k
<1>4. \A n \in 1..k : n \in Nat
  BY <1>1
<1>5. \A n \in 1..k : col(n) \in Column
  BY <1>1, <1>2, <1>4, ItemKinds, Zenon DEF Column
<1> HIDE DEF col
<1>6. [n \in 1..k |-> col(n)] \in [1..k -> Column]
  BY <1>5
<1> QED
  BY <1>1, <1>3, <1>6

\* The rows of a query.
LEMMA RowsTable ==
    ASSUME NEW t \in Tables
    PROVE  t.rows \in Seq(Seq(Item))
<1>1. t.rows \in Seq(Seq(STRING))
  BY TableAssumption
<1> DEFINE s == t.rows
<1>2. Len(s) \in Nat /\ s \in [1..Len(s) -> Seq(STRING)]
  BY <1>1
<1> HIDE DEF s
<1>3. s \in [1..Len(s) -> Seq(Item)]
  BY <1>2, ItemSequences
<1>4. s \in Seq(Seq(Item))
  BY <1>2, <1>3
<1> QED
  BY <1>4 DEF s

-----------------------------------------------------------------------------
(* Rows                                                                      *)

\* The rows that deep_copy takes are rows of the block.
LEMMA RowsAtTyped ==
    ASSUME NEW D, NEW data \in Seq(D), NEW s \in Seq(Nat), ToSet(s) \subseteq DOMAIN data
    PROVE  /\ RowsAt(data, s) \in Seq(D)
           /\ Len(RowsAt(data, s)) = IF s = <<>> THEN Len(data) ELSE Len(s)
<1>1. CASE s = <<>>
  BY <1>1 DEF RowsAt
<1>2. CASE s # <<>>
  <2>1. Len(s) \in Nat /\ DOMAIN s = 1..Len(s) /\ \A i \in DOMAIN data : data[i] \in D
    OBVIOUS
  <2>2. \A n \in DOMAIN s : data[s[n]] \in D
    BY <2>1 DEF ToSet
  <2>3. RowsAt(data, s) = [n \in 1..Len(s) |-> data[s[n]]]
    BY <1>2, <2>1 DEF RowsAt
  <2> DEFINE k == Len(s)
             t == RowsAt(data, s)
  <2>4. t \in [1..k -> D] /\ k \in Nat
    BY <2>1, <2>2, <2>3
  <2> HIDE DEF k, t
  <2>5. t \in Seq(D) /\ Len(t) = k
    BY <2>4
  <2> QED
    BY <1>2, <2>5 DEF k, t
<1> QED
  BY <1>1, <1>2

\* Both parts of a split are rows taken out, at numbers that are the rest of each other.
LEMMA PartsTaken ==
    ASSUME NEW D, NEW data \in Seq(D), NEW second \in Parts(Len(data))
    PROVE  \E S \in SUBSET (1..Len(data)) :
             LET R == 1..Len(data) \ S
                 first == Rest(Len(data), second)
             IN  /\ RowsAt(data, second) = Taken(data, S) /\ second # <<>>
                 /\ Len(second) = Cardinality(S) /\ Len(second) \in Nat
                 /\ MovedUp(data, first) = Taken(data, R)
                 /\ Len(first) = Cardinality(R) /\ Len(first) \in Nat
<1> DEFINE N == Len(data)
<1>0. N \in Nat
  OBVIOUS
<1>1. PICK S \in SUBSET (1..N) : second = Ascending(S) /\ S # {} /\ S # 1..N
  BY DEF Parts
<1> DEFINE R == 1..N \ S
           first == Rest(N, second)
<1> HIDE DEF N
<1>2. /\ Cardinality(S) \in Nat /\ Len(second) = Cardinality(S)
      /\ DOMAIN second = 1..Cardinality(S) /\ ToSet(second) = S /\ second # <<>>
  <2>1. LET k == Cardinality(S) IN k \in Nat /\ Len(second) = k
                                    /\ DOMAIN second = 1..k /\ ToSet(second) = S
    BY <1>0, <1>1, Ascends
  <2>2. second # <<>>
    BY <1>1, <2>1 DEF ToSet
  <2> QED
    BY <2>1, <2>2
<1>3. R \in SUBSET (1..N) /\ first = Ascending(R)
  BY <1>2 DEF Rest
<1> HIDE DEF R, first
<1>4. Cardinality(R) \in Nat /\ Len(first) = Cardinality(R)
  BY <1>0, <1>3, Ascends
<1>5. RowsAt(data, second) = Taken(data, S)
  BY <1>1, <1>2 DEF RowsAt, Taken
<1>6. MovedUp(data, first) = Taken(data, R)
  BY <1>3, MovedUpTakes DEF N
<1> QED
  BY <1>1, <1>2, <1>4, <1>5, <1>6 DEF N, R, first

-----------------------------------------------------------------------------
(* Views                                                                     *)

\* A block that has all that it had: rows and columns.
Extended(r, r2) ==
    /\ Len(r.data) <= Len(r2.data) /\ \A i \in DOMAIN r.data : r2.data[i] = r.data[i]
    /\ DOMAIN r.columns \subseteq DOMAIN r2.columns
\* The rows are inside the array; a view is inside its block.
BlockFits(r) == Len(r.data) <= r.room
FrameFits(x, r) == x.rows <= Len(r.data) /\ ToSet(x.picks) \subseteq DOMAIN r.columns

\* The types, and every view and every row inside the array.
Shaped(h, fr) ==
    /\ h \in [Blocks -> Block] /\ fr \in [Frames -> Frame]
    /\ \A b \in Blocks : BlockFits(h[b])
    /\ \A f \in Frames : fr[f].block # NoBlock => FrameFits(fr[f], h[fr[f].block])

\* A frame that shows what it showed.
Stays(h, fr, h2, fr2, f) ==
    fr[f].block # NoBlock =>
      fr2[f] = fr[f] /\ Extended(h[fr[f].block], h2[fr[f].block])
\* All frames but those of E show what they showed.
Kept(h, fr, h2, fr2, E) == \A f \in Frames \ E : Stays(h, fr, h2, fr2, f)

\* What each of the two passes and a query keep up.
ReadsFit ==
    /\ Passing => AsOpened /\ CanOpen
    /\ Reading("count") => BlockOf(load.frame).data = <<>> /\ BlockOf(load.frame).columns = <<>>
    /\ Reading("frame") =>
         /\ BlockOf(load.frame).room = load.count
         /\ \A n \in DOMAIN BlockOf(load.frame).columns :
              BlockOf(load.frame).columns[n].from \in 1..Len(file[1])
    /\ Reading("query") => BlockOf(load.frame).room = load.count /\ load.count >= 2
LoadTyped == load = NotLoading \/ load \in Loading
\* The invariant of the views: types, bounds, and the read in progress.
FitInv == Shaped(heap, frames) /\ LoadTyped /\ ReadsFit

LEMMA BlockData ==
    ASSUME NEW r \in Block
    PROVE  /\ r.data \in Seq(Seq(Item)) /\ Len(r.data) \in Nat /\ DOMAIN r.data = 1..Len(r.data)
           /\ r.columns \in Seq(Column) /\ Len(r.columns) \in Nat
           /\ DOMAIN r.columns = 1..Len(r.columns) /\ r.room \in Nat /\ r.count \in Int
<1>1. r.data \in Seq(Seq(Item)) /\ r.columns \in Seq(Column) /\ r.room \in Nat /\ r.count \in Int
  BY DEF Block
<1> QED
  BY <1>1

LEMMA ShapedFrame ==
    ASSUME NEW h, NEW fr, Shaped(h, fr), NEW f \in Frames
    PROVE  /\ fr[f] \in Frame /\ fr[f].block \in Blocks \cup {NoBlock} /\ fr[f].rows \in Nat
           /\ fr[f].picks \in Seq(Nat) /\ fr[f].selected \in BOOLEAN
           /\ fr[f].thrown \in BOOLEAN /\ DOMAIN fr = Frames
           /\ fr[f].block # NoBlock =>
                /\ fr[f].block \in Blocks /\ h[fr[f].block] \in Block
                /\ FrameFits(fr[f], h[fr[f].block]) /\ BlockFits(h[fr[f].block])
<1>1. fr[f] \in Frame /\ DOMAIN fr = Frames
  BY DEF Shaped
<1>2. /\ fr[f].block \in Blocks \cup {NoBlock} /\ fr[f].rows \in Nat
      /\ fr[f].picks \in Seq(Nat) /\ fr[f].selected \in BOOLEAN
      /\ fr[f].thrown \in BOOLEAN
  BY <1>1 DEF Frame
<1> QED
  BY <1>1, <1>2 DEF Shaped

\* Extended is a preorder.
LEMMA ExtendedItself == \A r \in Block : Extended(r, r)
<1> TAKE r \in Block
<1>1. Len(r.data) \in Nat
  BY BlockData
<1> QED
  BY <1>1 DEF Extended

LEMMA ExtendedOn ==
    ASSUME NEW r \in Block, NEW r2 \in Block, NEW r3 \in Block,
           Extended(r, r2), Extended(r2, r3)
    PROVE  Extended(r, r3)
<1>1. /\ Len(r.data) \in Nat /\ Len(r2.data) \in Nat /\ Len(r3.data) \in Nat
      /\ DOMAIN r.data = 1..Len(r.data) /\ DOMAIN r2.data = 1..Len(r2.data)
  BY BlockData
<1>2. Len(r.data) <= Len(r2.data) /\ Len(r2.data) <= Len(r3.data)
  BY DEF Extended
<1>3. DOMAIN r.data \subseteq DOMAIN r2.data
  BY <1>1, <1>2
<1> QED
  BY <1>1, <1>2, <1>3 DEF Extended

\* A view stays inside a block that is extended, and shows the same.
LEMMA ExtendedView ==
    ASSUME NEW r \in Block, NEW r2 \in Block, Extended(r, r2),
           NEW x \in Frame, FrameFits(x, r)
    PROVE  /\ FrameFits(x, r2)
           /\ \A n \in 1..x.rows : r2.data[n] = r.data[n]
<1>1. /\ Len(r.data) \in Nat /\ Len(r2.data) \in Nat /\ DOMAIN r.data = 1..Len(r.data)
      /\ x.rows \in Nat
  BY BlockData DEF Frame
<1>2. x.rows <= Len(r.data) /\ Len(r.data) <= Len(r2.data)
  BY DEF FrameFits, Extended
<1>3. FrameFits(x, r2)
  BY <1>1, <1>2 DEF FrameFits, Extended
<1>4. \A n \in 1..x.rows : n \in DOMAIN r.data
  BY <1>1, <1>2
<1> QED
  BY <1>3, <1>4 DEF Extended

\* A block changes; its users keep what they show.
LEMMA BlockChanges ==
    ASSUME NEW h, NEW fr, Shaped(h, fr), NEW b \in Blocks, NEW r \in Block, BlockFits(r),
           UsersOf(fr, b) # {} => Extended(h[b], r), NEW h2, Changed(h, b, r, h2)
    PROVE  Shaped(h2, fr) /\ Kept(h, fr, h2, fr, {})
<1>1. /\ h2 \in [Blocks -> Block] /\ h2[b] = r
      /\ \A c \in Blocks \ {b} : h2[c] = h[c]
  BY DEF Shaped, Changed
<1>2. ASSUME NEW f \in Frames, fr[f].block # NoBlock
      PROVE  /\ Extended(h[fr[f].block], h2[fr[f].block])
             /\ FrameFits(fr[f], h2[fr[f].block])
  <2> DEFINE c == fr[f].block
  <2>1. c \in Blocks /\ h[c] \in Block /\ FrameFits(fr[f], h[c]) /\ fr[f] \in Frame
    BY <1>2, ShapedFrame
  <2>2. c = b => UsersOf(fr, b) # {}
    BY DEF UsersOf
  <2>3. Extended(h[c], h2[c])
    BY <1>1, <2>1, <2>2, ExtendedItself
  <2>4. h2[c] \in Block
    BY <1>1, <2>1
  <2> HIDE DEF c
  <2>5. FrameFits(fr[f], h2[c])
    BY <2>1, <2>3, <2>4, ExtendedView
  <2> QED
    BY <2>3, <2>5 DEF c
<1>3. \A c \in Blocks : BlockFits(h2[c])
  BY <1>1 DEF Shaped
<1>4. Shaped(h2, fr)
  BY <1>1, <1>2, <1>3 DEF Shaped
<1> QED
  BY <1>2, <1>4 DEF Kept, Stays

\* A frame changes.
LEMMA FrameChanges ==
    ASSUME NEW h, NEW fr, Shaped(h, fr), NEW f \in Frames, NEW x \in Frame,
           x.block # NoBlock => FrameFits(x, h[x.block]),
           NEW fr2, Changed(fr, f, x, fr2)
    PROVE  Shaped(h, fr2) /\ Kept(h, fr, h, fr2, {f})
<1>1. /\ fr2 \in [Frames -> Frame] /\ fr2[f] = x
      /\ \A g \in Frames \ {f} : fr2[g] = fr[g]
  BY DEF Shaped, Changed
<1>2. Shaped(h, fr2)
  BY <1>1 DEF Shaped
<1>3. ASSUME NEW g \in Frames \ {f}, fr[g].block # NoBlock
      PROVE  fr2[g] = fr[g] /\ Extended(h[fr[g].block], h[fr[g].block])
  BY <1>1, <1>3, ShapedFrame, ExtendedItself
<1> QED
  BY <1>2, <1>3 DEF Kept, Stays

\* One change after the other.
LEMMA KeptOn ==
    ASSUME NEW h, NEW fr, Shaped(h, fr), NEW h2, NEW fr2, Shaped(h2, fr2),
           NEW h3, NEW fr3, Shaped(h3, fr3), NEW E, NEW F,
           Kept(h, fr, h2, fr2, E), Kept(h2, fr2, h3, fr3, F)
    PROVE  Kept(h, fr, h3, fr3, E \cup F)
<1> SUFFICES ASSUME NEW f \in Frames \ (E \cup F), fr[f].block # NoBlock
             PROVE  fr3[f] = fr[f] /\ Extended(h[fr[f].block], h3[fr[f].block])
  BY DEF Kept, Stays
<1> DEFINE b == fr[f].block
<1>1. fr2[f] = fr[f] /\ Extended(h[b], h2[b])
  BY DEF Kept, Stays
<1>2. fr3[f] = fr2[f] /\ Extended(h2[b], h3[b])
  BY <1>1 DEF Kept, Stays
<1>3. b \in Blocks
  BY ShapedFrame
<1>4. h[b] \in Block /\ h2[b] \in Block /\ h3[b] \in Block
  BY <1>3 DEF Shaped
<1> HIDE DEF b
<1>5. Extended(h[b], h3[b])
  BY <1>1, <1>2, <1>4, ExtendedOn
<1> QED
  BY <1>1, <1>2, <1>5 DEF b

\* Frames without a block show nothing.
LEMMA KeptFresh ==
    ASSUME NEW h, NEW fr, NEW h2, NEW fr2, NEW E, NEW F, Kept(h, fr, h2, fr2, E),
           \A f \in E \ F : fr[f].block = NoBlock
    PROVE  Kept(h, fr, h2, fr2, F)
  BY DEF Kept, Stays

\* A frame that is kept shows the same rows and columns.
LEMMA KeptView ==
    ASSUME NEW e, Shaped(heap, frames), Shaped(heap', frames'),
           Kept(heap, frames, heap', frames', {e}),
           NEW f \in Frames \ {e}, Usable(f)
    PROVE  View(f)' = View(f)
<1> DEFINE b == frames[f].block
<1>1. b # NoBlock /\ frames'[f] = frames[f] /\ Extended(heap[b], heap'[b])
  BY DEF Usable, Kept, Stays
<1>2. /\ b \in Blocks /\ heap[b] \in Block /\ frames[f] \in Frame
      /\ FrameFits(frames[f], heap[b])
  BY <1>1, ShapedFrame
<1>3. heap'[b] \in Block
  BY <1>2 DEF Shaped
<1> HIDE DEF b
<1>4. \A n \in 1..frames[f].rows : heap'[b].data[n] = heap[b].data[n]
  BY <1>1, <1>2, <1>3, ExtendedView
<1> DEFINE rows == frames[f].rows
           picks == frames[f].picks
           k == Len(picks)
<1>5. View(f)' = [n \in 1..rows |-> [c \in 1..k |-> heap'[b].data[n][picks[c]]]]
  BY <1>1 DEF View, Cols, BlockOf, b
<1>6. View(f) = [n \in 1..rows |-> [c \in 1..k |-> heap[b].data[n][picks[c]]]]
  BY DEF View, Cols, BlockOf, b
<1> HIDE DEF rows, picks, k
<1>7. \A n \in 1..rows : [c \in 1..k |-> heap'[b].data[n][picks[c]]] =
                           [c \in 1..k |-> heap[b].data[n][picks[c]]]
  BY <1>4 DEF rows
<1> QED
  BY <1>5, <1>6, <1>7

\* What a kept frame shows does not change: at most one view does.  If it is that of a
\* frame that was not set, no other has its block: they would have kept the rows in it.
LEMMA OneChanges ==
    ASSUME NEW e, Shaped(heap, frames), Shaped(heap', frames'),
           Kept(heap, frames, heap', frames', {e})
    PROVE  /\ Cardinality(Shown) <= 1
           /\ \A f \in Shown : frames'[f] # frames[f] \/ Users(frames[f].block) = {f}
<1> DEFINE C == Shown
<1>1. C \in SUBSET {e}
  BY KeptView DEF Shown
<1>2. IsFiniteSet({e}) /\ Cardinality({e}) = 1
  BY FS_Singleton
<1> HIDE DEF C
<1>3. Cardinality(C) <= 1
  BY <1>1, <1>2, FS_Subset
<1>4. ASSUME NEW f \in C, frames'[f] = frames[f], Users(frames[f].block) # {f}
      PROVE  FALSE
  <2>1. f \in Frames /\ f = e /\ Usable(f) /\ View(f)' # View(f)
    BY <1>1, <1>4 DEF C, Shown
  <2>2. PICK g \in Frames \ {f} : frames[g].block = frames[f].block
    BY <1>4, <2>1 DEF Users
  <2>3. Stays(heap, frames, heap', frames', f)
    BY <1>4, <2>1, <2>2 DEF Kept, Stays
  <2>4. Kept(heap, frames, heap', frames', {g})
    BY <2>1, <2>3 DEF Kept
  <2> QED
    BY <2>1, <2>2, <2>4, KeptView
<1> QED
  BY <1>3, <1>4 DEF C

-----------------------------------------------------------------------------
(* Reading keeps the views                                                   *)

\* A block changes, and then a frame.
LEMMA BothChange ==
    ASSUME NEW h, NEW fr, Shaped(h, fr), NEW b \in Blocks, NEW r \in Block, BlockFits(r),
           UsersOf(fr, b) # {} => Extended(h[b], r), NEW h2, Changed(h, b, r, h2),
           NEW f \in Frames, NEW x \in Frame, x.block # NoBlock => FrameFits(x, h2[x.block]),
           NEW fr2, Changed(fr, f, x, fr2)
    PROVE  Shaped(h2, fr2) /\ Kept(h, fr, h2, fr2, {f})
<1>1. Shaped(h2, fr) /\ Kept(h, fr, h2, fr, {})
  BY BlockChanges
<1>2. Shaped(h2, fr2) /\ Kept(h2, fr, h2, fr2, {f})
  BY <1>1, FrameChanges
<1>3. Kept(h, fr, h2, fr2, {} \cup {f})
  BY <1>1, <1>2, KeptOn
<1> QED
  BY <1>2, <1>3

\* A new block for a frame.
LEMMA MakesOne ==
    ASSUME NEW h, NEW fr, Good(h, fr), Shaped(h, fr), NEW b \in Blocks, h[b] = Free,
           NEW r \in Block, BlockFits(r), NEW h2, Changed(h, b, r, h2),
           NEW f \in Frames, NEW x \in Frame, x.block = b, FrameFits(x, r),
           NEW fr2, Changed(fr, f, x, fr2)
    PROVE  Shaped(h2, fr2) /\ Kept(h, fr, h2, fr2, {f})
<1>1. UsersOf(fr, b) = {}
  BY UsedCounts
<1>2. h2[x.block] = r
  BY DEF Shaped, Changed
<1> QED
  BY <1>1, <1>2, BothChange

\* The frame and the block of the read in progress.
LEMMA LoadingBlock ==
    ASSUME CsvInv, FitInv, load # NotLoading
    PROVE  LET b == frames[load.frame].block
           IN  /\ load.frame \in Frames /\ b \in Blocks /\ b # NoBlock /\ heap[b] \in Block
               /\ load.kind \in {"count", "frame", "query"} /\ load.count \in Nat
               /\ load.usecols \in UseCols \cup {<<>>} /\ load.rest \in Seq(Seq(Item))
               /\ DOMAIN load = {"frame", "kind", "usecols", "count", "rest"}
               /\ load \in Loading
<1>1. load \in Loading
  BY DEF FitInv, LoadTyped
<1>2. /\ load.kind \in {"count", "frame", "query"} /\ load.count \in Nat
      /\ load.usecols \in UseCols \cup {<<>>} /\ load.rest \in Seq(Seq(Item))
      /\ DOMAIN load = {"frame", "kind", "usecols", "count", "rest"}
  BY <1>1 DEF Loading
<1>3. load.frame \in Frames /\ frames[load.frame].block # NoBlock
  BY DEF CsvInv
<1>4. frames[load.frame].block \in Blocks /\ heap[frames[load.frame].block] \in Block
  BY <1>3, ShapedFrame DEF FitInv
<1> QED
  BY <1>1, <1>2, <1>3, <1>4

\* A frame that shows its whole block, one that throws.
LEMMA WholeFits ==
    ASSUME Shaped(heap, frames), NEW f \in Frames, frames[f].block # NoBlock,
           frames' = Whole(f), UNCHANGED heap
    PROVE  Shaped(heap', frames') /\ Kept(heap, frames, heap', frames', {f})
<1> DEFINE r == BlockOf(f)
           k == Len(r.columns)
           all == [n \in DOMAIN r.columns |-> n]
           x == [frames[f] EXCEPT !.rows = Len(r.data), !.picks = all]
<1>1. /\ r \in Block /\ frames[f] \in Frame /\ frames[f].block \in Blocks
      /\ DOMAIN frames = Frames
  BY ShapedFrame DEF BlockOf
<1>2. Len(r.data) \in Nat /\ k \in Nat /\ DOMAIN r.columns = 1..k
  BY <1>1, BlockData
<1>3. all \in Seq(Nat) /\ ToSet(all) = DOMAIN r.columns
  <2>1. all = [n \in 1..k |-> n] /\ 1..k \in SUBSET Nat
    BY <1>2
  <2>2. all \in [1..k -> Nat]
    BY <2>1
  <2>3. all \in Seq(Nat)
    BY <1>2, <2>2
  <2>4. DOMAIN all = 1..k /\ \A n \in 1..k : all[n] = n
    BY <1>2
  <2> HIDE DEF all
  <2>5. ToSet(all) = 1..k
    BY <2>4 DEF ToSet
  <2> QED
    BY <1>2, <2>3, <2>5
<1>4. Changed(frames, f, x, frames')
  BY <1>1 DEF Whole, Changed
<1> HIDE DEF all
<1>5. x \in Frame /\ x.block = frames[f].block /\ x.rows = Len(r.data) /\ x.picks = all
  BY <1>1, <1>2, <1>3 DEF Frame
<1> HIDE DEF x
<1>6. FrameFits(x, heap[x.block])
  BY <1>2, <1>3, <1>5 DEF FrameFits, BlockOf
<1>7. Shaped(heap, frames') /\ Kept(heap, frames, heap, frames', {f})
  BY <1>4, <1>5, <1>6, FrameChanges
<1> QED
  BY <1>7

LEMMA ThrowsFits ==
    ASSUME Shaped(heap, frames), NEW f \in Frames, frames[f].block # NoBlock,
           frames' = [frames EXCEPT ![f].thrown = TRUE], UNCHANGED heap
    PROVE  Shaped(heap', frames') /\ Kept(heap, frames, heap', frames', {f})
<1> DEFINE x == [frames[f] EXCEPT !.thrown = TRUE]
<1>1. Changed(frames, f, x, frames')
  BY DEF Changed
<1>2. frames[f] \in Frame /\ FrameFits(frames[f], heap[frames[f].block])
  BY ShapedFrame
<1>3. /\ x \in Frame /\ x.block = frames[f].block /\ x.rows = frames[f].rows
      /\ x.picks = frames[f].picks
  BY <1>2 DEF Frame
<1> HIDE DEF x
<1>4. Shaped(heap, frames') /\ Kept(heap, frames, heap, frames', {f})
  BY <1>1, <1>2, <1>3, FrameChanges DEF FrameFits
<1> QED
  BY <1>4

\* A step after which at most one frame shows something else.
OneMoves == \E e : Kept(heap, frames, heap', frames', {e})

LEMMA NoRead ==
    ASSUME load' = NotLoading
    PROVE  LoadTyped' /\ ReadsFit'
  BY DEF LoadTyped, ReadsFit, Passing, Reading

\* The block that read and a query begin with.
LEMMA EmptyBlock ==
    ASSUME NEW columns \in Seq(Column), NEW room \in Nat
    PROVE  LET r == [data |-> <<>>, room |-> room, columns |-> columns, count |-> 0]
           IN  r \in Block /\ BlockFits(r)
<1>1. <<>> \in Seq(Seq(Item)) /\ Len(<<>>) = 0
  OBVIOUS
<1> QED
  BY <1>1 DEF Block, BlockFits

LEMMA NoFrameTyped ==
    /\ NoFrame \in Frame /\ NoFrame.block = NoBlock /\ NoFrame.rows = 0
    /\ NoFrame.picks = <<>> /\ NoFrame.selected = FALSE /\ NoFrame.thrown = FALSE
<1>1. <<>> \in Seq(Nat)
  OBVIOUS
<1> QED
  BY <1>1 DEF NoFrame, Frame

LEMMA EmptyView ==
    ASSUME NEW b \in Blocks, NEW t \in BOOLEAN, NEW x,
           x = [NoFrame EXCEPT !.block = b, !.thrown = t]
    PROVE  /\ x \in Frame /\ x.block = b
           /\ \A r \in Block : FrameFits(x, r)
<1>1. <<>> \in Seq(Nat) /\ ToSet(<<>>) = {}
  BY DEF ToSet
<1>2. x \in Frame /\ x.block = b /\ x.rows = NoFrame.rows /\ x.picks = NoFrame.picks
  BY NoFrameTyped DEF Frame
<1>3. x.rows = 0 /\ x.picks = <<>>
  BY <1>2, NoFrameTyped
<1>4. ASSUME NEW r \in Block PROVE FrameFits(x, r)
  <2>1. Len(r.data) \in Nat
    BY BlockData
  <2> QED
    BY <1>1, <1>3, <2>1 DEF FrameFits
<1> QED
  BY <1>2, <1>4

\* A read begins with an empty block, nobody else sees it.
LEMMA BeginReadFits ==
    ASSUME Inv, CsvInv, FitInv, NEW f \in Frames, NEW b \in Blocks, NEW us \in UseCols,
           BeginRead(f, b, us)
    PROVE  FitInv' /\ OneMoves
<1> DEFINE r == [data |-> <<>>, room |-> 0, columns |-> <<>>, count |-> 0]
           x == frames'[f]
           l == [frame |-> f, kind |-> "count", usecols |-> us, count |-> 0, rest |-> <<>>]
<1>1. /\ load = NotLoading /\ f \in Fresh /\ b \in Unused /\ NewBlock(b, <<>>, 0)
      /\ UNCHANGED file
  BY DEF BeginRead, Quiet
<1>2. frames[f] = NoFrame /\ heap[b] = Free /\ DOMAIN frames = Frames
  BY <1>1 DEF Fresh, Unused, Inv, Good, Typed
<1>3. r \in Block /\ BlockFits(r) /\ Changed(heap, b, r, heap') /\ heap'[b] = r
  <2>1. <<>> \in Seq(Column)
    OBVIOUS
  <2>2. r \in Block /\ BlockFits(r)
    BY <2>1, EmptyBlock
  <2> QED
    BY <1>1, <2>2 DEF NewBlock, Changed, Inv, Good, Typed
<1>4. PICK t \in BOOLEAN :
        /\ frames' = [frames EXCEPT ![f] = [NoFrame EXCEPT !.block = b, !.thrown = t]]
        /\ IF t THEN UNCHANGED load
           ELSE CanOpen /\ reader' = Opened(Closed) /\ load' = l
  <2>1. CASE /\ CanOpen /\ frames' = [frames EXCEPT ![f].block = b]
             /\ reader' = Opened(Closed) /\ load' = l
    <3>1. [frames EXCEPT ![f].block = b]
            = [frames EXCEPT ![f] = [NoFrame EXCEPT !.block = b, !.thrown = FALSE]]
      <4>1. [NoFrame EXCEPT !.block = b] = [NoFrame EXCEPT !.block = b, !.thrown = FALSE]
        BY NoFrameTyped DEF Frame
      <4> QED
        BY <1>2, <4>1
    <3> HIDE DEF l
    <3> QED
      BY <2>1, <3>1, Zenon
  <2>2. CASE /\ frames' = [frames EXCEPT ![f].block = b, ![f].thrown = TRUE]
             /\ UNCHANGED load
    <3>1. [frames EXCEPT ![f].block = b, ![f].thrown = TRUE]
            = [frames EXCEPT ![f] = [NoFrame EXCEPT !.block = b, !.thrown = TRUE]]
      BY <1>2 DEF NoFrame
    <3> QED
      BY <2>2, <3>1, Zenon
  <2> QED
    BY <2>1, <2>2, Zenon DEF BeginRead
<1>5. x = [NoFrame EXCEPT !.block = b, !.thrown = t]
  BY <1>2, <1>4
<1>6. Changed(frames, f, x, frames')
  BY <1>4, <1>5 DEF Changed
<1>7. x \in Frame /\ x.block = b /\ FrameFits(x, r)
  <2>1. x \in Frame /\ x.block = b /\ \A q \in Block : FrameFits(x, q)
    BY <1>5, EmptyView, Zenon
  <2> QED
    BY <1>3, <2>1, Zenon
<1> HIDE DEF r, x
<1>8. Shaped(heap', frames') /\ Kept(heap, frames, heap', frames', {f})
  BY <1>2, <1>3, <1>6, <1>7, MakesOne DEF Inv, FitInv
<1>9. LoadTyped' /\ ReadsFit'
  <2>1. CASE t
    BY <1>1, <1>4, <2>1, NoRead
  <2>2. CASE ~t
    <3>1. l \in Loading /\ l.kind = "count" /\ l.frame = f /\ l # NotLoading
      <4>1. <<>> \in Seq(Seq(Item))
        OBVIOUS
      <4>2. "frame" \in DOMAIN l /\ "frame" \notin DOMAIN NotLoading
        BY DEF NotLoading
      <4> QED
        BY <4>1, <4>2 DEF Loading
    <3>2. CanOpen /\ reader' = Opened(Closed) /\ load' = l
      BY <1>4, <2>2
    <3> HIDE DEF l
    <3>3. AsOpened' /\ CanOpen'
      BY <1>1, <3>2 DEF AsOpened, CanOpen, Opened, Closed
    <3>4. BlockOf(load.frame)' = r
      BY <1>3, <1>7, <3>1, <3>2 DEF BlockOf, x
    <3> QED
      BY <3>1, <3>2, <3>3, <3>4 DEF LoadTyped, ReadsFit, Passing, Reading, r
  <2> QED
    BY <2>1, <2>2
<1> QED
  BY <1>8, <1>9 DEF FitInv, OneMoves

\* So does a query, with a few rows of room.
LEMMA BeginQueryFits ==
    ASSUME Inv, CsvInv, FitInv, NEW f \in Frames, NEW b \in Blocks, NEW t \in Tables,
           BeginQuery(f, b, t)
    PROVE  FitInv' /\ OneMoves
<1> DEFINE r == [data |-> <<>>, room |-> Growth, columns |-> Fields(t), count |-> 0]
           x == frames'[f]
           l == [frame |-> f, kind |-> "query", usecols |-> <<>>, count |-> Growth,
                 rest |-> t.rows]
<1>1. /\ f \in Fresh /\ b \in Unused /\ NewBlock(b, Fields(t), Growth)
      /\ frames' = [frames EXCEPT ![f].block = b] /\ load' = l
  BY DEF BeginQuery
<1>2. frames[f] = NoFrame /\ heap[b] = Free /\ DOMAIN frames = Frames
  BY <1>1 DEF Fresh, Unused, Inv, Good, Typed
<1>3. r \in Block /\ BlockFits(r) /\ Changed(heap, b, r, heap') /\ heap'[b] = r
  <2>1. Growth \in Nat
    BY GrowthAssumption
  <2>2. r \in Block /\ BlockFits(r)
    BY <2>1, EmptyBlock, FieldsTyped
  <2> QED
    BY <1>1, <2>2 DEF NewBlock, Changed, Inv, Good, Typed
<1>4. x = [NoFrame EXCEPT !.block = b, !.thrown = FALSE]
  <2>1. x = [NoFrame EXCEPT !.block = b]
    BY <1>1, <1>2
  <2> QED
    BY <2>1, NoFrameTyped DEF Frame
<1>5. Changed(frames, f, x, frames')
  BY <1>1 DEF Changed
<1>6. x \in Frame /\ x.block = b /\ FrameFits(x, r)
  BY <1>3, <1>4, EmptyView, Zenon
<1> HIDE DEF r, x
<1>7. Shaped(heap', frames') /\ Kept(heap, frames, heap', frames', {f})
  BY <1>2, <1>3, <1>5, <1>6, MakesOne DEF Inv, FitInv
<1>8. /\ l \in Loading /\ l.kind = "query" /\ l.frame = f /\ l.count = Growth
  <2>1. t.rows \in Seq(Seq(Item)) /\ Growth \in Nat
    BY RowsTable, GrowthAssumption
  <2> QED
    BY <2>1 DEF Loading
<1> HIDE DEF l
<1>9. LoadTyped' /\ ReadsFit'
  <2>1. BlockOf(load.frame)' = r
    BY <1>1, <1>3, <1>6, <1>8 DEF BlockOf, x
  <2>2. r.room = Growth /\ Growth >= 2
    BY GrowthAssumption DEF r
  <2> QED
    BY <1>1, <1>8, <2>1, <2>2 DEF LoadTyped, ReadsFit, Passing, Reading
<1> QED
  BY <1>7, <1>9 DEF FitInv, OneMoves

\* A step in which heap and frames stay as they are.
LEMMA NothingMoves ==
    ASSUME FitInv, UNCHANGED <<heap, frames>>
    PROVE  /\ Shaped(heap', frames')
           /\ \A e : Kept(heap, frames, heap', frames', {e})
<1>1. \A f \in Frames : frames[f].block # NoBlock =>
        Extended(heap[frames[f].block], heap[frames[f].block])
  BY ShapedFrame, ExtendedItself DEF FitInv
<1> QED
  BY <1>1 DEF FitInv, Kept, Stays

LEMMA CountedOne ==
    ASSUME NEW l \in Loading, l.count \in Nat
    PROVE  LET l2 == [l EXCEPT !.count = @ + 1]
           IN  l2 \in Loading /\ l2.kind = l.kind /\ l2.frame = l.frame
<1> DEFINE n == l.count + 1
<1>1. n \in Nat
  OBVIOUS
<1> HIDE DEF n
<1>2. /\ [l EXCEPT !.count = n] \in Loading
      /\ [l EXCEPT !.count = n].kind = l.kind /\ [l EXCEPT !.count = n].frame = l.frame
  BY <1>1 DEF Loading
<1> QED
  BY <1>2 DEF n

LEMMA CountRowFits ==
    ASSUME CsvInv, FitInv, CountRow
    PROVE  FitInv' /\ OneMoves
<1>1. /\ Reading("count") /\ HasLine(reader) /\ UNCHANGED <<file, cut, heap, frames>>
  BY DEF CountRow
<1>2. PICK its \in Parsed(file[reader.pos + 1]) :
         IF Refused(reader, its)
         THEN reader' = [Moved(reader, its) EXCEPT !.eof = TRUE] /\ UNCHANGED load
         ELSE reader' = Moved(reader, its) /\ load' = [load EXCEPT !.count = @ + 1]
  BY DEF CountRow
<1>3. AsOpened /\ CanOpen /\ load # NotLoading /\ load.kind = "count"
  BY <1>1 DEF FitInv, ReadsFit, Passing, Reading
<1>4. AsOpened' /\ CanOpen'
  BY <1>1, <1>2, <1>3, MovedOpened DEF CanOpen
<1>5. load \in Loading /\ load.frame \in Frames /\ load.count \in Nat
  BY <1>3, LoadingBlock
<1>6. load' \in Loading /\ load'.kind = "count" /\ load'.frame = load.frame
  <2>1. CASE UNCHANGED load
    BY <1>3, <1>5, <2>1
  <2>2. CASE load' = [load EXCEPT !.count = @ + 1]
    BY <1>3, <1>5, <2>2, CountedOne
  <2> QED
    BY <1>2, <2>1, <2>2
<1>7. LoadTyped' /\ ReadsFit'
  BY <1>1, <1>4, <1>6 DEF FitInv, LoadTyped, ReadsFit, Passing, Reading, BlockOf
<1> QED
  BY <1>1, <1>5, <1>7, NothingMoves DEF FitInv, OneMoves

\* The block that is given its columns and its room has no rows yet.
LEMMA CountEndFits ==
    ASSUME CsvInv, FitInv, CountEnd
    PROVE  FitInv' /\ OneMoves
<1> DEFINE f == load.frame
           b == frames[f].block
           columns == ColumnsOf(load.usecols, file[1])
           r == [heap[b] EXCEPT !.columns = columns, !.room = load.count]
<1>1. Reading("count") /\ load # NotLoading /\ load.kind = "count"
  BY DEF CountEnd, Reading
<1>2. /\ f \in Frames /\ b \in Blocks /\ b # NoBlock /\ heap[b] \in Block
      /\ load.count \in Nat /\ load.usecols \in UseCols \cup {<<>>} /\ load \in Loading
  BY <1>1, LoadingBlock
<1>3. heap[b].data = <<>> /\ heap[b].columns = <<>> /\ AsOpened /\ CanOpen
  BY <1>1 DEF FitInv, ReadsFit, Passing, BlockOf
<1>4. CASE Throws(f) /\ UNCHANGED heap
  BY <1>2, <1>4, ThrowsFits, NoRead DEF FitInv, OneMoves, Throws, CloseFile
<1>5. CASE /\ reader' = Opened(reader) /\ load' = [load EXCEPT !.kind = "frame"]
           /\ heap' = [heap EXCEPT ![b].columns = columns, ![b].room = load.count]
           /\ UNCHANGED <<frames, file>>
  <2>1. /\ columns \in Seq(Column)
        /\ \A n \in DOMAIN columns : columns[n].from \in 1..Len(file[1])
    <3>1. file[1] \in Seq(Item)
      BY DEF CsvInv, RowsTyped
    <3> QED
      BY <1>2, <3>1, ColumnsTyped
  <2> HIDE DEF columns
  <2>2. /\ r \in Block /\ r.data = <<>> /\ r.columns = columns /\ r.room = load.count
    BY <1>2, <1>3, <2>1 DEF Block
  <2>3. BlockFits(r) /\ Extended(heap[b], r)
    <3>1. Len(r.data) = 0 /\ DOMAIN heap[b].columns = {} /\ DOMAIN r.data = {}
      BY <1>3, <2>2
    <3> QED
      BY <1>2, <1>3, <2>2, <3>1 DEF BlockFits, Extended
  <2>4. Changed(heap, b, r, heap')
    BY <1>2, <1>5 DEF Changed, FitInv, Shaped
  <2> HIDE DEF r
  <2>5. Shaped(heap', frames) /\ Kept(heap, frames, heap', frames, {}) /\ heap'[b] = r
    <3>1. Shaped(heap', frames) /\ Kept(heap, frames, heap', frames, {})
      BY <1>2, <2>2, <2>3, <2>4, BlockChanges DEF FitInv
    <3> QED
      BY <1>2, <2>4, <3>1 DEF Changed, FitInv, Shaped
  <2>6. Shaped(heap', frames') /\ Kept(heap, frames, heap', frames', {f})
    BY <1>5, <2>5, KeptFresh
  <2>7. load' \in Loading /\ load'.kind = "frame" /\ load'.frame = f /\ load'.count = load.count
    BY <1>2, <1>5 DEF Loading
  <2>8. AsOpened' /\ CanOpen'
    BY <1>3, <1>5 DEF AsOpened, CanOpen, Opened, Closed
  <2>9. BlockOf(load.frame)' = r
    BY <1>5, <2>5, <2>7 DEF BlockOf
  <2>10. LoadTyped' /\ ReadsFit'
    BY <1>5, <2>1, <2>2, <2>7, <2>8, <2>9 DEF LoadTyped, ReadsFit, Passing, Reading
  <2> QED
    BY <1>2, <2>6, <2>10 DEF FitInv, OneMoves
<1> QED
  BY <1>4, <1>5 DEF CountEnd

\* A row more in the block of the frame that is read.
WithRow(r, row, room) == [r EXCEPT !.data = Append(@, row), !.room = room]

LEMMA RowAdded ==
    ASSUME NEW r \in Block, NEW row \in Seq(Item), NEW room \in Nat, Len(r.data) < room
    PROVE  LET r2 == WithRow(r, row, room)
           IN  /\ r2 \in Block /\ BlockFits(r2) /\ Extended(r, r2)
               /\ r2.columns = r.columns /\ r2.room = room
<1>1. /\ r.data \in Seq(Seq(Item)) /\ Len(r.data) \in Nat
      /\ DOMAIN r.data = 1..Len(r.data)
  BY BlockData
<1> DEFINE data == Append(r.data, row)
           r2 == WithRow(r, row, room)
<1>2. /\ data \in Seq(Seq(Item)) /\ Len(data) = Len(r.data) + 1
      /\ \A i \in DOMAIN r.data : data[i] = r.data[i]
  BY <1>1, Longer
<1> HIDE DEF data
<1>3. r2 = [r EXCEPT !.data = data, !.room = room]
  BY DEF data, WithRow
<1> HIDE DEF r2
<1>4. r2 \in Block /\ r2.data = data /\ r2.columns = r.columns /\ r2.room = room
  BY <1>2, <1>3, Zenon DEF Block
<1>5. BlockFits(r2) /\ Extended(r, r2)
  BY <1>1, <1>2, <1>4 DEF BlockFits, Extended
<1> QED
  BY <1>4, <1>5 DEF r2

\* A row is put where there is room, with an item for every column.
LEMMA ReadRowFits ==
    ASSUME CsvInv, FitInv, ReadRow
    PROVE  FitInv' /\ OneMoves
<1> DEFINE f == load.frame
           b == frames[f].block
           columns == heap[b].columns
           line == file[reader.pos + 1]
           row(m) == [n \in DOMAIN columns |-> m.items[columns[n].from]]
<1>1. /\ Reading("frame") /\ load # NotLoading /\ load.kind = "frame" /\ HasLine(reader)
      /\ Len(heap[b].data) < load.count
  BY Zenon DEF ReadRow, Reading
<1>2. /\ f \in Frames /\ b \in Blocks /\ b # NoBlock /\ heap[b] \in Block
      /\ load.count \in Nat /\ load \in Loading
  BY <1>1, LoadingBlock
<1>3. /\ AsOpened /\ CanOpen /\ heap[b].room = load.count
      /\ \A n \in DOMAIN columns : columns[n].from \in 1..Len(file[1])
  BY <1>1, Zenon DEF FitInv, ReadsFit, Passing, BlockOf
<1>4. PICK its \in Parsed(line) :
         \/ /\ Refused(reader, its) /\ reader' = [Moved(reader, its) EXCEPT !.eof = TRUE]
            /\ UNCHANGED <<file, cut, heap, frames, load>>
         \/ Throws(f) /\ UNCHANGED heap
         \/ /\ ~Refused(reader, its) /\ reader' = Moved(reader, its)
            /\ heap' = [heap EXCEPT ![b].data = Append(@, row(reader'))]
            /\ UNCHANGED <<file, cut, frames, load>>
  BY Zenon DEF ReadRow
<1>5. CASE Throws(f) /\ UNCHANGED heap
  BY <1>2, <1>5, ThrowsFits, NoRead DEF FitInv, OneMoves, Throws, CloseFile
<1>6. CASE /\ Refused(reader, its) /\ reader' = [Moved(reader, its) EXCEPT !.eof = TRUE]
           /\ UNCHANGED <<file, cut, heap, frames, load>>
  <2>1. AsOpened' /\ CanOpen'
    BY <1>3, <1>6, MovedOpened DEF CanOpen
  <2>2. LoadTyped' /\ ReadsFit'
    BY <1>6, <2>1 DEF FitInv, LoadTyped, ReadsFit, Passing, Reading, BlockOf
  <2> QED
    BY <1>2, <1>6, <2>2, NothingMoves DEF FitInv, OneMoves
<1>7. CASE /\ ~Refused(reader, its) /\ reader' = Moved(reader, its)
           /\ heap' = [heap EXCEPT ![b].data = Append(@, row(reader'))]
           /\ UNCHANGED <<file, cut, frames, load>>
  <2> DEFINE r2 == [heap[b] EXCEPT !.data = Append(@, row(reader')), !.room = load.count]
  <2>1. reader'.items \in Seq(Item) /\ Len(reader'.items) >= NumberOf(reader)
    <3>1. reader \in Reader /\ IsFiniteSet(reader.index) /\ line \in Seq(Item)
      BY <1>1 DEF CsvInv, RowsTyped, Reader, HasLine
    <3> HIDE DEF line
    <3> QED
      BY <1>3, <1>7, <3>1, MovedRow, Zenon DEF AsOpened
  <2>2. NumberOf(reader) = Len(file[1]) /\ Len(file[1]) \in Nat
    <3>1. file[1] \in Seq(Item) /\ NoDuplicates(file[1])
      BY <1>3 DEF CanOpen, CsvInv, RowsTyped
    <3>2. Len(file[1]) \in Nat
      BY <3>1
    <3> QED
      BY <1>3, <3>1, <3>2, NamesAll, SMTT(30) DEF NumberOf, AsOpened
  <2>3. row(reader') \in Seq(Item)
    <3> DEFINE k == Len(columns)
               items == reader'.items
               s == [n \in 1..k |-> items[columns[n].from]]
    <3>1. k \in Nat /\ DOMAIN columns = 1..k
      BY <1>2, BlockData
    <3>2. Len(items) \in Nat /\ \A i \in 1..Len(items) : items[i] \in Item
      BY <2>1, SMTT(30)
    <3>3. \A n \in 1..k : columns[n].from \in 1..Len(items)
      <4> DEFINE w == Len(file[1])
      <4>1. w \in Nat /\ w <= Len(items) /\ Len(items) \in Nat
        BY <2>1, <2>2, <3>2
      <4>2. \A n \in 1..k : columns[n].from \in 1..w
        BY <1>3, <3>1
      <4> HIDE DEF w, items, k, columns
      <4> QED
        BY <4>1, <4>2
    <3>4. \A n \in 1..k : items[columns[n].from] \in Item
      BY <3>2, <3>3, SMTT(30)
    <3>5. row(reader') = s
      BY <3>1
    <3> HIDE DEF k
    <3>6. s \in [1..k -> Item]
      BY <3>4
    <3> HIDE DEF s
    <3>7. s \in Seq(Item)
      BY <3>1, <3>6
    <3> QED
      BY <3>5, <3>7, Zenon
  <2> HIDE DEF row
  <2>4. /\ r2 \in Block /\ BlockFits(r2) /\ Extended(heap[b], r2)
        /\ r2.columns = columns /\ r2.room = load.count
    <3> DEFINE rw == row(reader')
    <3>1. r2 = WithRow(heap[b], rw, load.count)
      BY DEF WithRow
    <3> HIDE DEF r2, rw
    <3> QED
      BY <1>1, <1>2, <2>3, <3>1, RowAdded DEF rw
  <2>5. Changed(heap, b, r2, heap')
    <3>1. r2 = [heap[b] EXCEPT !.data = Append(@, row(reader'))]
      BY <1>2, <1>3, Zenon DEF Block
    <3> HIDE DEF r2
    <3> QED
      BY <1>7, <3>1 DEF Changed
  <2> HIDE DEF r2
  <2>6. Shaped(heap', frames) /\ Kept(heap, frames, heap', frames, {}) /\ heap'[b] = r2
    <3>1. Shaped(heap', frames) /\ Kept(heap, frames, heap', frames, {})
      BY <1>2, <2>4, <2>5, BlockChanges, SMTT(30) DEF FitInv
    <3> QED
      BY <1>2, <2>5, <3>1 DEF Changed, FitInv, Shaped
  <2>7. Shaped(heap', frames') /\ Kept(heap, frames, heap', frames', {f})
    <3>1. frames' = frames
      BY <1>7
    <3> QED
      BY <2>6, <3>1, KeptFresh
  <2>8. AsOpened' /\ CanOpen'
    BY <1>3, <1>7, MovedOpened, SMTT(30) DEF CanOpen
  <2>9. BlockOf(load.frame)' = r2
    <3>1. UNCHANGED <<frames, load>>
      BY <1>7
    <3> QED
      BY <2>6, <3>1, Zenon DEF BlockOf
  <2>10. LoadTyped' /\ ReadsFit'
    BY <1>1, <1>3, <1>7, <2>4, <2>8, <2>9, Zenon
       DEF FitInv, LoadTyped, ReadsFit, Passing, Reading
  <2> QED
    BY <1>2, <2>7, <2>10, Zenon DEF FitInv, OneMoves
<1> QED
  BY <1>4, <1>5, <1>6, <1>7, Zenon

LEMMA EndFits ==
    ASSUME CsvInv, FitInv, EndRead \/ EndQuery
    PROVE  FitInv' /\ OneMoves
<1>1. load # NotLoading /\ load' = NotLoading /\ UNCHANGED heap /\ frames' = Whole(load.frame)
  BY DEF EndRead, EndQuery, Reading, CloseFile
<1>2. load.frame \in Frames /\ frames[load.frame].block # NoBlock
  BY <1>1, LoadingBlock
<1> QED
  BY <1>1, <1>2, WholeFits, NoRead DEF FitInv, OneMoves

LEMMA FailsFits ==
    ASSUME CsvInv, FitInv, QueryFails
    PROVE  FitInv' /\ OneMoves
<1>1. load # NotLoading /\ load' = NotLoading /\ UNCHANGED heap
      /\ frames' = [frames EXCEPT ![load.frame].thrown = TRUE]
  BY DEF QueryFails, Reading
<1>2. load.frame \in Frames /\ frames[load.frame].block # NoBlock
  BY <1>1, LoadingBlock
<1> QED
  BY <1>1, <1>2, ThrowsFits, NoRead DEF FitInv, OneMoves

\* An array that is full grows before the row is put.
LEMMA QueryRowFits ==
    ASSUME CsvInv, FitInv, QueryRow
    PROVE  FitInv' /\ OneMoves
<1> DEFINE f == load.frame
           b == frames[f].block
           row == Head(load.rest)
           room == IF Len(heap[b].data) = load.count THEN Grown(load.count) ELSE load.count
           r2 == [heap[b] EXCEPT !.data = Append(@, row), !.room = room]
<1>1. /\ Reading("query") /\ load # NotLoading /\ load.kind = "query" /\ load.rest # <<>>
      /\ heap' = [heap EXCEPT ![b].data = Append(@, row), ![b].room = room]
      /\ load' = [load EXCEPT !.rest = Tail(@), !.count = room] /\ UNCHANGED frames
  BY DEF QueryRow, Reading
<1>2. /\ f \in Frames /\ b \in Blocks /\ b # NoBlock /\ heap[b] \in Block
      /\ load.count \in Nat /\ load \in Loading /\ load.rest \in Seq(Seq(Item))
  BY <1>1, LoadingBlock
<1>3. heap[b].room = load.count /\ load.count >= 2
  BY <1>1, Zenon DEF FitInv, ReadsFit, BlockOf
<1>4. /\ room \in Nat /\ Len(heap[b].data) < room /\ room >= 2
  <2>1. Len(heap[b].data) \in Nat /\ Len(heap[b].data) <= load.count
    BY <1>2, <1>3, BlockData DEF FitInv, Shaped, BlockFits
  <2>2. Grown(load.count) \in Nat /\ Grown(load.count) > load.count
    <3>1. load.count \div 2 \in Nat /\ load.count \div 2 >= 1
      BY <1>2, <1>3
    <3> QED
      BY <1>2, <3>1 DEF Grown
  <2> QED
    BY <1>2, <1>3, <2>1, <2>2
<1> HIDE DEF room
<1>5. row \in Seq(Item) /\ Tail(load.rest) \in Seq(Seq(Item))
  BY <1>1, <1>2, HeadTail
<1> HIDE DEF row
<1>6. r2 \in Block /\ BlockFits(r2) /\ Extended(heap[b], r2) /\ r2.room = room
  <2>1. r2 = WithRow(heap[b], row, room)
    BY DEF WithRow
  <2> HIDE DEF r2
  <2> QED
    BY <1>2, <1>4, <1>5, <2>1, RowAdded, SMTT(30)
<1>7. Changed(heap, b, r2, heap')
  BY <1>1, <1>2 DEF Changed, FitInv, Shaped
<1> HIDE DEF r2
<1>8. Shaped(heap', frames) /\ Kept(heap, frames, heap', frames, {}) /\ heap'[b] = r2
  <2>1. Shaped(heap', frames) /\ Kept(heap, frames, heap', frames, {})
    BY <1>2, <1>6, <1>7, BlockChanges DEF FitInv
  <2> QED
    BY <1>2, <1>7, <2>1 DEF Changed, FitInv, Shaped
<1>9. Shaped(heap', frames') /\ Kept(heap, frames, heap', frames', {f})
  <2>1. frames' = frames
    BY <1>1
  <2> QED
    BY <1>8, <2>1, KeptFresh
<1>10. load' \in Loading /\ load'.kind = "query" /\ load'.frame = f /\ load'.count = room
  BY <1>1, <1>2, <1>4, <1>5, Zenon DEF Loading
<1>11. BlockOf(load.frame)' = r2
  BY <1>1, <1>8, <1>10, Zenon DEF BlockOf
<1>12. LoadTyped' /\ ReadsFit'
  BY <1>4, <1>6, <1>10, <1>11 DEF LoadTyped, ReadsFit, Passing, Reading
<1> QED
  BY <1>2, <1>9, <1>12 DEF FitInv, OneMoves

-----------------------------------------------------------------------------
(* Sharing keeps the views                                                   *)

\* A step of ShareNext: nothing is read.
LEMMA SharesFit ==
    ASSUME Shaped(heap', frames'), load' = NotLoading
    PROVE  FitInv'
  BY NoRead DEF FitInv

\* The counter of a block is none of its rows.
LEMMA Recounted ==
    ASSUME NEW r \in Block, NEW n \in Int, BlockFits(r)
    PROVE  LET r2 == [r EXCEPT !.count = n]
           IN  /\ r2 \in Block /\ BlockFits(r2) /\ Extended(r, r2)
<1> DEFINE r2 == [r EXCEPT !.count = n]
<1>1. /\ r2 \in Block /\ r2.data = r.data /\ r2.columns = r.columns /\ r2.room = r.room
  BY DEF Block
<1>2. Len(r.data) \in Nat
  BY BlockData
<1> HIDE DEF r2
<1>3. BlockFits(r2) /\ Extended(r, r2)
  BY <1>1, <1>2 DEF BlockFits, Extended
<1> QED
  BY <1>1, <1>3 DEF r2

LEMMA FreeFits == Free \in Block /\ BlockFits(Free)
<1>1. <<>> \in Seq(Seq(Item)) /\ <<>> \in Seq(Column) /\ Len(<<>>) = 0 /\ -1 \in Int
  OBVIOUS
<1> QED
  BY <1>1 DEF Free, Block, BlockFits

\* The block that a frame drops is kept as long as another shows it.
LEMMA DropsOne ==
    ASSUME NEW h, NEW fr, Good(h, fr), Shaped(h, fr), NEW f \in Frames,
           NEW h2, h2 = Dropped(h, fr[f].block), NEW fr2, Changed(fr, f, NoFrame, fr2)
    PROVE  Shaped(h2, fr2) /\ Kept(h, fr, h2, fr2, {f})
<1> DEFINE b == fr[f].block
<1>1. Shaped(h, fr2) /\ Kept(h, fr, h, fr2, {f})
  BY NoFrameTyped, FrameChanges
<1>2. CASE b = NoBlock
  BY <1>1, <1>2 DEF Dropped
<1>3. CASE b # NoBlock
  <2> DEFINE r == IF h[b].count > 0 THEN [h[b] EXCEPT !.count = @ - 1] ELSE Free
  <2>1. b \in Blocks /\ h[b] \in Block /\ BlockFits(h[b]) /\ h[b].count \in Int
    BY <1>3, ShapedFrame, BlockData
  <2>2. LET r1 == [h[b] EXCEPT !.count = @ - 1]
        IN  r1 \in Block /\ BlockFits(r1) /\ Extended(h[b], r1)
    <3> DEFINE n == h[b].count - 1
    <3>1. n \in Int
      BY <2>1
    <3> HIDE DEF n
    <3>2. LET r1 == [h[b] EXCEPT !.count = n]
          IN  r1 \in Block /\ BlockFits(r1) /\ Extended(h[b], r1)
      BY <2>1, <3>1, Recounted
    <3> QED
      BY <3>2 DEF n
  <2>3. h2 = [h EXCEPT ![b] = r]
    <3>1. h[b].count > 0 => h2 = [h EXCEPT ![b] = [h[b] EXCEPT !.count = @ - 1]]
      BY <1>3 DEF Dropped
    <3>2. ~(h[b].count > 0) => h2 = [h EXCEPT ![b] = Free]
      BY <1>3 DEF Dropped
    <3> QED
      BY <3>1, <3>2
  <2>4. r \in Block /\ BlockFits(r)
    BY <2>2, FreeFits
  <2>5. UsersOf(fr2, b) # {} => Extended(h[b], r)
    <3>1. Good(h2, fr2)
      BY NoFrameHasNoBlock, Drops
    <3>2. UsersOf(fr2, b) # {} => h2[b] # Free
      BY <2>1, <3>1, UsedCounts
    <3>3. h2[b] = r
      BY <2>1, <2>3 DEF Shaped
    <3>4. UsersOf(fr2, b) # {} => h[b].count > 0
      BY <3>2, <3>3
    <3> QED
      BY <2>2, <3>4
  <2> HIDE DEF r
  <2>6. Changed(h, b, r, h2)
    BY <2>3 DEF Changed
  <2>7. Shaped(h2, fr2) /\ Kept(h, fr2, h2, fr2, {})
    BY <1>1, <2>1, <2>4, <2>5, <2>6, BlockChanges
  <2>8. Kept(h, fr, h2, fr2, {f} \cup {})
    BY <1>1, <2>7, KeptOn
  <2> QED
    BY <2>7, <2>8
<1> QED
  BY <1>2, <1>3

LEMMA ClearFits ==
    ASSUME Inv, FitInv, NEW f \in Frames, Clear(f)
    PROVE  Shaped(heap', frames') /\ OneMoves
<1>1. Changed(frames, f, NoFrame, frames') /\ heap' = Dropped(heap, frames[f].block)
  BY DEF Clear, Changed
<1>2. Shaped(heap', frames') /\ Kept(heap, frames, heap', frames', {f})
  BY <1>1, DropsOne DEF Inv, FitInv
<1> QED
  BY <1>2 DEF OneMoves

\* A frame that is assigned drops its block, then joins that of the other.
LEMMA AssignFits ==
    ASSUME Inv, FitInv, NEW f \in Frames, NEW g \in Frames, Assign(f, g)
    PROVE  Shaped(heap', frames') /\ OneMoves
<1> DEFINE b == frames[g].block
           x == frames[g]
<1>1. f # g /\ b # NoBlock /\ heap' = Shared(heap, f, b) /\ frames' = [frames EXCEPT ![f] = x]
  BY DEF Assign, Usable
<1>2. /\ b \in Blocks /\ x \in Frame /\ heap[b] \in Block /\ FrameFits(x, heap[b])
      /\ DOMAIN frames = Frames
  BY <1>1, ShapedFrame DEF FitInv
<1>3. CASE frames[f].block = b
  <2>1. heap' = heap
    BY <1>1, <1>3 DEF Shared
  <2>2. Changed(frames, f, x, frames')
    BY <1>1 DEF Changed
  <2>3. Shaped(heap, frames') /\ Kept(heap, frames, heap, frames', {f})
    BY <1>2, <2>2, FrameChanges DEF FitInv
  <2> QED
    BY <2>1, <2>3 DEF OneMoves
<1>4. CASE frames[f].block # b
  <2> DEFINE h1 == Dropped(heap, frames[f].block)
             fr1 == [frames EXCEPT ![f] = NoFrame]
             r == [h1[b] EXCEPT !.count = @ + 1]
  <2>1. Changed(frames, f, NoFrame, fr1)
    BY DEF Changed
  <2>2. fr1[g] = x /\ frames' = [fr1 EXCEPT ![f] = x]
    BY <1>1, <1>2
  <2>3. heap' = [h1 EXCEPT ![b].count = @ + 1]
    BY <1>1, <1>4 DEF Shared
  <2> HIDE DEF h1, fr1
  <2>4. Shaped(h1, fr1) /\ Kept(heap, frames, h1, fr1, {f})
    BY <2>1, DropsOne DEF Inv, FitInv, h1
  <2>5. /\ h1[b] \in Block /\ BlockFits(h1[b]) /\ FrameFits(x, h1[b])
        /\ h1[b].count \in Int
    BY <1>1, <2>2, <2>4, ShapedFrame, BlockData
  <2>6. r \in Block /\ BlockFits(r) /\ Extended(h1[b], r)
    BY <2>5, Recounted
  <2>7. Changed(h1, b, r, heap') /\ Changed(fr1, f, x, frames')
    BY <2>2, <2>3 DEF Changed
  <2> HIDE DEF r
  <2>8. heap'[b] = r
    BY <1>2, <2>4, <2>7 DEF Changed, Shaped
  <2>9. FrameFits(x, heap'[b])
    BY <1>2, <2>5, <2>6, <2>8, ExtendedView
  <2>10. Shaped(heap', frames') /\ Kept(h1, fr1, heap', frames', {f})
    BY <1>2, <2>4, <2>6, <2>7, <2>9, BothChange
  <2>11. Kept(heap, frames, heap', frames', {f} \cup {f})
    BY <2>4, <2>10, KeptOn DEF FitInv
  <2>12. {f} \cup {f} = {f}
    OBVIOUS
  <2> QED
    BY <2>10, <2>11, <2>12 DEF OneMoves
<1> QED
  BY <1>3, <1>4

LEMMA SelectFits ==
    ASSUME FitInv, NEW f \in Frames, NEW s \in ColPicks, Select(f, s)
    PROVE  Shaped(heap', frames') /\ OneMoves
<1>1. /\ UNCHANGED heap /\ frames[f].block # NoBlock
      /\ ToSet(s) \subseteq DOMAIN BlockOf(f).columns
  BY DEF Select, Usable
<1>2. CASE s = <<>>
  BY <1>1, <1>2, WholeFits DEF Select, FitInv, OneMoves
<1>3. CASE s # <<>>
  <2> DEFINE r == BlockOf(f)
             x == [frames[f] EXCEPT !.selected = TRUE, !.picks = s, !.rows = Len(r.data)]
  <2>1. /\ r \in Block /\ frames[f] \in Frame /\ DOMAIN frames = Frames
    BY <1>1, ShapedFrame DEF BlockOf, FitInv
  <2>2. Len(r.data) \in Nat /\ s \in Seq(Nat)
    BY <2>1, BlockData, PickAssumption
  <2>3. Changed(frames, f, x, frames')
    BY <1>3, <2>1 DEF Select, Changed
  <2>4. x \in Frame /\ x.block = frames[f].block /\ x.rows = Len(r.data) /\ x.picks = s
    <3> DEFINE y == [frames[f] EXCEPT !.selected = TRUE]
    <3>1. y \in Frame /\ y.block = frames[f].block
      BY <2>1 DEF Frame
    <3>2. x = [y EXCEPT !.picks = s, !.rows = Len(r.data)]
      OBVIOUS
    <3> HIDE DEF y, x
    <3> QED
      BY <2>2, <3>1, <3>2 DEF Frame
  <2> HIDE DEF x
  <2>5. FrameFits(x, heap[x.block])
    BY <1>1, <2>2, <2>4 DEF FrameFits, BlockOf
  <2>6. Shaped(heap, frames') /\ Kept(heap, frames, heap, frames', {f})
    BY <2>3, <2>4, <2>5, FrameChanges DEF FitInv
  <2> QED
    BY <1>1, <2>6 DEF OneMoves
<1> QED
  BY <1>2, <1>3

\* The copy of a block, of all rows or some.
LEMMA CopyFits ==
    ASSUME NEW r \in Block, NEW s \in Seq(Nat), ToSet(s) \subseteq DOMAIN r.data
    PROVE  LET c == Copied(r, s)
           IN  /\ c \in Block /\ BlockFits(c) /\ c.columns = r.columns
               /\ c.data = RowsAt(r.data, s)
               /\ Len(c.data) = IF s = <<>> THEN Len(r.data) ELSE Len(s)
<1> DEFINE data == RowsAt(r.data, s)
           room == IF s = <<>> THEN Len(r.data) ELSE Len(s)
           c == Copied(r, s)
<1>1. r.data \in Seq(Seq(Item)) /\ Len(r.data) \in Nat /\ Len(s) \in Nat
  BY BlockData
<1>2. data \in Seq(Seq(Item)) /\ Len(data) = room
  BY <1>1, RowsAtTyped
<1>3. room \in Nat
  BY <1>1
<1> DEFINE y == [r EXCEPT !.count = 0]
<1>4. c = [y EXCEPT !.data = data, !.room = room]
  BY DEF Copied
<1> HIDE DEF data, room, c
<1>5. y \in Block /\ y.columns = r.columns
  <2> DEFINE none == 0
  <2>1. none \in Int
    OBVIOUS
  <2>2. y = [r EXCEPT !.count = none]
    OBVIOUS
  <2> HIDE DEF none, y
  <2> QED
    BY <2>1, <2>2 DEF Block
<1> HIDE DEF y
<1>6. c \in Block /\ c.columns = r.columns /\ c.data = data /\ c.room = room
  BY <1>2, <1>3, <1>4, <1>5 DEF Block
<1>7. BlockFits(c)
  BY <1>2, <1>3, <1>6 DEF BlockFits
<1> QED
  BY <1>2, <1>6, <1>7 DEF c, data, room

LEMMA CopyView ==
    ASSUME FitInv, NEW f \in Frames, frames[f].block # NoBlock, NEW b \in Blocks,
           NEW s \in Seq(Nat)
    PROVE  LET x == ViewOfCopy(f, b, s)
           IN  /\ x \in Frame /\ x.block = b /\ x.picks = frames[f].picks
               /\ x.rows = IF s = <<>> THEN frames[f].rows ELSE Len(s)
<1> DEFINE rows == IF s = <<>> THEN frames[f].rows ELSE Len(s)
           x == ViewOfCopy(f, b, s)
<1>1. frames[f] \in Frame /\ frames[f].rows \in Nat
  BY ShapedFrame DEF FitInv
<1>2. Len(s) \in Nat
  OBVIOUS
<1>3. rows \in Nat
  BY <1>1, <1>2
<1>4. x = [frames[f] EXCEPT !.block = b, !.rows = rows]
  BY DEF ViewOfCopy
<1> HIDE DEF rows, x
<1>5. x \in Frame /\ x.block = b /\ x.picks = frames[f].picks /\ x.rows = rows
  BY <1>1, <1>3, <1>4 DEF Frame
<1> QED
  BY <1>5 DEF rows, x

LEMMA DeepCopyFits ==
    ASSUME Inv, FitInv, NEW f \in Frames, NEW g \in Frames, NEW b \in Blocks,
           NEW s \in RowPicks, DeepCopy(f, g, b, s)
    PROVE  Shaped(heap', frames') /\ OneMoves
<1> DEFINE r == BlockOf(f)
           c == Copied(r, s)
           x == ViewOfCopy(f, b, s)
<1>1. /\ frames[f].block # NoBlock /\ heap[b] = Free /\ ToSet(s) \subseteq DOMAIN r.data
      /\ Changed(heap, b, c, heap') /\ Changed(frames, g, x, frames')
  BY DEF DeepCopy, Usable, Unused, Changed
<1>2. s \in Seq(Nat) /\ Len(s) \in Nat
  <2>1. s \in Seq(Nat)
    BY PickAssumption
  <2> QED
    BY <2>1
<1>3. r \in Block /\ FrameFits(frames[f], r) /\ frames[f].rows \in Nat
  BY <1>1, ShapedFrame DEF FitInv, BlockOf
<1> HIDE DEF r
<1>4. /\ c \in Block /\ BlockFits(c) /\ c.columns = r.columns
      /\ Len(c.data) = IF s = <<>> THEN Len(r.data) ELSE Len(s)
  BY <1>1, <1>2, <1>3, CopyFits
<1>5. /\ x \in Frame /\ x.block = b /\ x.picks = frames[f].picks
      /\ x.rows = IF s = <<>> THEN frames[f].rows ELSE Len(s)
  BY <1>1, <1>2, CopyView
<1> HIDE DEF c, x
<1>6. FrameFits(x, c)
  BY <1>2, <1>3, <1>4, <1>5 DEF FrameFits
<1>7. Shaped(heap', frames') /\ Kept(heap, frames, heap', frames', {g})
  BY <1>1, <1>4, <1>5, <1>6, MakesOne DEF Inv, FitInv
<1> QED
  BY <1>7 DEF OneMoves

\* A copy of all rows that is shrunk in place.
LEMMA ShrunkFits ==
    ASSUME NEW r \in Block, NEW first, Len(first) \in Nat,
           MovedUp(r.data, first) \in Seq(Seq(Item)), Len(MovedUp(r.data, first)) = Len(first)
    PROVE  LET c == Shrunk(r, first)
           IN  /\ c \in Block /\ BlockFits(c) /\ c.columns = r.columns
               /\ c.data = MovedUp(r.data, first)
<1> DEFINE data == MovedUp(r.data, first)
           room == Len(first)
           c == Shrunk(r, first)
<1>1. c = [r EXCEPT !.data = data, !.room = room]
  BY DEF Shrunk
<1>2. data \in Seq(Seq(Item)) /\ room \in Nat /\ Len(data) = room
  OBVIOUS
<1> HIDE DEF data, room, c
<1>3. c \in Block /\ c.columns = r.columns /\ c.data = data /\ c.room = room
  BY <1>1, <1>2 DEF Block
<1>4. BlockFits(c)
  BY <1>2, <1>3 DEF BlockFits
<1> QED
  BY <1>3, <1>4 DEF data, room, c

\* What split makes.
SplitsInto(data, S, b, r1, x1, c, r2, x2) ==
    /\ r1.data = Taken(data, 1..Len(data) \ S) /\ r2.data = Taken(data, S)
    /\ BlockFits(r1) /\ BlockFits(r2)
    /\ x1.block = b /\ x2.block = c /\ FrameFits(x1, r1) /\ FrameFits(x2, r2)
BothGiven(g, h, b, r1, x1, c, r2, x2) ==
    /\ heap' = [heap EXCEPT ![b] = r1, ![c] = r2]
    /\ frames' = [frames EXCEPT ![g] = x1, ![h] = x2]

\* A block `all' with the rows of a frame is shrunk, and the others are taken out of it.
LEMMA HalvesMade ==
    ASSUME FitInv, NEW f \in Frames, frames[f].block # NoBlock,
           NEW second \in Parts(Len(BlockOf(f).data)),
           NEW all \in Block, all.data = BlockOf(f).data, all.columns = BlockOf(f).columns,
           NEW b \in Blocks, NEW c \in Blocks,
           NEW y1 \in Frame, y1.block = b, y1.picks = frames[f].picks
    PROVE  LET first == Rest(Len(BlockOf(f).data), second)
               r1 == Shrunk(all, first)
               r2 == Copied(all, second)
               x1 == [y1 EXCEPT !.rows = Len(first)]
               x2 == ViewOfCopy(f, c, second)
           IN  /\ r1 \in Block /\ r2 \in Block /\ x1 \in Frame /\ x2 \in Frame
               /\ \E S \in SUBSET (1..Len(BlockOf(f).data)) :
                    SplitsInto(BlockOf(f).data, S, b, r1, x1, c, r2, x2)
<1> DEFINE r == BlockOf(f)
           data == r.data
           N == Len(data)
           first == Rest(N, second)
           r1 == Shrunk(all, first)
           r2 == Copied(all, second)
           x1 == [y1 EXCEPT !.rows = Len(first)]
           x2 == ViewOfCopy(f, c, second)
<1>3. r \in Block /\ FrameFits(frames[f], r) /\ data \in Seq(Seq(Item)) /\ N \in Nat
  <2>1. r \in Block /\ FrameFits(frames[f], r)
    BY ShapedFrame DEF FitInv, BlockOf
  <2> QED
    BY <2>1, BlockData
<1>4. all.data = data /\ all.columns = r.columns
  OBVIOUS
<1> HIDE DEF r
<1>5. PICK S \in SUBSET (1..N) :
        LET R == 1..N \ S
        IN  /\ RowsAt(data, second) = Taken(data, S) /\ second # <<>>
            /\ Len(second) = Cardinality(S) /\ Len(second) \in Nat
            /\ MovedUp(data, first) = Taken(data, R)
            /\ Len(first) = Cardinality(R) /\ Len(first) \in Nat
  BY <1>3, PartsTaken DEF r
<1> DEFINE R == 1..N \ S
<1>6. second \in Seq(Nat) /\ ToSet(second) \subseteq DOMAIN data
  <2>1. PICK T \in SUBSET (1..N) : second = Ascending(T)
    BY DEF Parts, r
  <2> HIDE DEF data
  <2>2. N \in Nat /\ DOMAIN data = 1..N
    BY <1>3
  <2> HIDE DEF N
  <2>3. second \in Seq(T) /\ ToSet(second) = T
    BY <2>1, <2>2, Ascends
  <2>7. \A i \in T : i \in Nat
    BY <2>1, <2>2
  <2>4. Len(second) \in Nat /\ second \in [1..Len(second) -> T] /\ \A i \in T : i \in Nat
    BY <2>3, <2>7
  <2>5. second \in [1..Len(second) -> Nat]
    BY <2>4
  <2>6. second \in Seq(Nat)
    BY <2>4, <2>5
  <2> QED
    BY <2>2, <2>3, <2>6
<1> HIDE DEF first
<1>7. /\ r1 \in Block /\ BlockFits(r1) /\ r1.columns = r.columns /\ r1.data = Taken(data, R)
      /\ Len(r1.data) = Len(first)
  <2>1. R \in SUBSET (1..N)
    OBVIOUS
  <2> HIDE DEF R
  <2>2. Taken(data, R) \in Seq(Seq(Item)) /\ Len(Taken(data, R)) = Cardinality(R)
    BY <1>3, <2>1, TakenType
  <2>3. /\ MovedUp(all.data, first) = Taken(data, R) /\ Len(first) = Cardinality(R)
        /\ Len(first) \in Nat
    BY <1>4, <1>5 DEF R
  <2>4. r1 \in Block /\ BlockFits(r1) /\ r1.columns = all.columns
        /\ r1.data = MovedUp(all.data, first)
    BY <1>4, <2>2, <2>3, ShrunkFits
  <2> QED
    BY <1>4, <2>2, <2>3, <2>4
<1>8. /\ r2 \in Block /\ BlockFits(r2) /\ r2.columns = r.columns /\ r2.data = Taken(data, S)
      /\ Len(r2.data) = Len(second)
  <2>1. /\ r2 \in Block /\ BlockFits(r2) /\ r2.columns = all.columns
        /\ r2.data = RowsAt(all.data, second) /\ Len(r2.data) = Len(second)
    BY <1>4, <1>5, <1>6, CopyFits
  <2> QED
    BY <1>4, <1>5, <2>1
<1>9. /\ x1 \in Frame /\ x1.block = b /\ x1.picks = frames[f].picks /\ x1.rows = Len(first)
  BY <1>5 DEF Frame
<1>10. x2 \in Frame /\ x2.block = c /\ x2.picks = frames[f].picks /\ x2.rows = Len(second)
  BY <1>5, <1>6, CopyView
<1> HIDE DEF r1, r2, x1, x2
<1>12. FrameFits(x1, r1) /\ FrameFits(x2, r2)
  BY <1>3, <1>5, <1>7, <1>8, <1>9, <1>10 DEF FrameFits
<1> HIDE DEF R, N, data
<1>13. /\ r1.data = Taken(data, 1..Len(data) \ S) /\ r2.data = Taken(data, S)
  BY <1>7, <1>8 DEF R, N
<1>14. SplitsInto(data, S, b, r1, x1, c, r2, x2)
  BY <1>7, <1>8, <1>9, <1>10, <1>12, <1>13 DEF SplitsInto
<1>15. S \in SUBSET (1..Len(data))
  BY DEF N
<1> QED
  BY <1>7, <1>8, <1>9, <1>10, <1>14, <1>15 DEF data, r, r1, r2, x1, x2, first, N

LEMMA SplitMakes ==
    ASSUME Inv, FitInv, NEW f \in Frames, NEW g \in Frames, NEW h \in Frames,
           NEW b \in Blocks, NEW c \in Blocks, Split(f, g, h, b, c)
    PROVE  \E S \in SUBSET (1..Len(BlockOf(f).data)) :
             \E r1, r2 \in Block : \E x1, x2 \in Frame :
               /\ SplitsInto(BlockOf(f).data, S, b, r1, x1, c, r2, x2)
               /\ BothGiven(g, h, b, r1, x1, c, r2, x2)
<1> DEFINE N == Len(BlockOf(f).data)
           all == Copied(BlockOf(f), <<>>)
           y1 == ViewOfCopy(f, b, <<>>)
<1>1. PICK second \in Parts(N) :
        LET first == Rest(N, second)
        IN  /\ heap' = [heap EXCEPT ![b] = Shrunk(all, first), ![c] = Copied(all, second)]
            /\ frames' = [frames EXCEPT ![g] = [y1 EXCEPT !.rows = Len(first)],
                                        ![h] = ViewOfCopy(f, c, second)]
  BY DEF Split
<1>2. frames[f].block # NoBlock
  BY DEF Split, Usable
<1>3. all \in Block /\ all.data = BlockOf(f).data /\ all.columns = BlockOf(f).columns
  <2>1. <<>> \in Seq(Nat) /\ ToSet(<<>>) = {} /\ BlockOf(f) \in Block
    BY <1>2, ShapedFrame DEF ToSet, FitInv, BlockOf
  <2>2. /\ all \in Block /\ all.data = RowsAt(BlockOf(f).data, <<>>)
        /\ all.columns = BlockOf(f).columns
    BY <2>1, CopyFits
  <2> QED
    BY <2>2 DEF RowsAt
<1>4. y1 \in Frame /\ y1.block = b /\ y1.picks = frames[f].picks
  <2>1. <<>> \in Seq(Nat)
    OBVIOUS
  <2> QED
    BY <1>2, <2>1, CopyView
<1> DEFINE r1 == Shrunk(all, Rest(N, second))
           r2 == Copied(all, second)
           x1 == [y1 EXCEPT !.rows = Len(Rest(N, second))]
           x2 == ViewOfCopy(f, c, second)
<1> HIDE DEF all, y1
<1>5. /\ r1 \in Block /\ r2 \in Block /\ x1 \in Frame /\ x2 \in Frame
      /\ \E S \in SUBSET (1..N) : SplitsInto(BlockOf(f).data, S, b, r1, x1, c, r2, x2)
  BY <1>2, <1>3, <1>4, HalvesMade
<1>6. BothGiven(g, h, b, r1, x1, c, r2, x2)
  BY <1>1 DEF BothGiven
<1> HIDE DEF r1, r2, x1, x2
<1> QED
  BY <1>5, <1>6

\* split_with_shrink does the same to the block of the frame itself.
LEMMA ShrinkMakes ==
    ASSUME Inv, FitInv, NEW f \in Frames, NEW h \in Frames, NEW c \in Blocks,
           SplitWithShrink(f, h, c)
    PROVE  \E S \in SUBSET (1..Len(BlockOf(f).data)) :
             \E r1, r2 \in Block : \E x1, x2 \in Frame :
               /\ SplitsInto(BlockOf(f).data, S, frames[f].block, r1, x1, c, r2, x2)
               /\ BothGiven(f, h, frames[f].block, r1, x1, c, r2, x2)
<1> DEFINE N == Len(BlockOf(f).data)
           b == frames[f].block
<1>1. PICK second \in Parts(N) :
        LET first == Rest(N, second)
        IN  /\ heap' = [heap EXCEPT ![b] = Shrunk(@, first), ![c] = Copied(BlockOf(f), second)]
            /\ frames' = [frames EXCEPT ![f].rows = Len(first),
                                        ![h] = ViewOfCopy(f, c, second)]
  BY DEF SplitWithShrink
<1>2. b # NoBlock
  BY DEF SplitWithShrink, Usable
<1>3. BlockOf(f) \in Block /\ b \in Blocks /\ frames[f] \in Frame
  BY <1>2, ShapedFrame DEF FitInv, BlockOf
<1> DEFINE r1 == Shrunk(BlockOf(f), Rest(N, second))
           r2 == Copied(BlockOf(f), second)
           x1 == [frames[f] EXCEPT !.rows = Len(Rest(N, second))]
           x2 == ViewOfCopy(f, c, second)
<1>5. /\ r1 \in Block /\ r2 \in Block /\ x1 \in Frame /\ x2 \in Frame
      /\ \E S \in SUBSET (1..N) : SplitsInto(BlockOf(f).data, S, b, r1, x1, c, r2, x2)
  BY <1>2, <1>3, HalvesMade
<1>6. BothGiven(f, h, b, r1, x1, c, r2, x2)
  BY <1>1 DEF BothGiven, BlockOf
<1> HIDE DEF r1, r2, x1, x2
<1> QED
  BY <1>5, <1>6

\* The two frames of a split are new, and nobody sees their blocks.
LEMMA SplitFits ==
    ASSUME Inv, FitInv, NEW f \in Frames, NEW g \in Frames, NEW h \in Frames,
           NEW b \in Blocks, NEW c \in Blocks, Split(f, g, h, b, c)
    PROVE  Shaped(heap', frames') /\ OneMoves
<1>1. PICK S \in SUBSET (1..Len(BlockOf(f).data)) :
        \E r1, r2 \in Block : \E x1, x2 \in Frame :
          /\ SplitsInto(BlockOf(f).data, S, b, r1, x1, c, r2, x2)
          /\ BothGiven(g, h, b, r1, x1, c, r2, x2)
  BY SplitMakes
<1>2. PICK r1, r2 \in Block, x1, x2 \in Frame :
        /\ SplitsInto(BlockOf(f).data, S, b, r1, x1, c, r2, x2)
        /\ BothGiven(g, h, b, r1, x1, c, r2, x2)
  BY <1>1
<1>3. /\ BlockFits(r1) /\ BlockFits(r2)
      /\ x1.block = b /\ x2.block = c /\ FrameFits(x1, r1) /\ FrameFits(x2, r2)
      /\ heap' = [heap EXCEPT ![b] = r1, ![c] = r2]
      /\ frames' = [frames EXCEPT ![g] = x1, ![h] = x2]
  BY <1>2 DEF SplitsInto, BothGiven
<1>4. /\ frames[g].block = NoBlock /\ frames[h].block = NoBlock /\ g # h /\ b # c
      /\ heap[b] = Free /\ heap[c] = Free /\ DOMAIN heap = Blocks /\ DOMAIN frames = Frames
  BY FreshFrame DEF Split, Unused, Inv, Good, Typed
<1> DEFINE h1 == [heap EXCEPT ![b] = r1]
           fr1 == [frames EXCEPT ![g] = x1]
<1>5. heap' = [h1 EXCEPT ![c] = r2] /\ frames' = [fr1 EXCEPT ![h] = x2]
  BY <1>3, <1>4
<1>6. h1[c] = Free /\ Changed(heap, b, r1, h1) /\ Changed(frames, g, x1, fr1)
  BY <1>4 DEF Changed
<1>7. UsersOf(frames, b) = {}
  BY <1>4, UsedCounts DEF Inv
<1> HIDE DEF h1, fr1
<1>8. Changed(h1, c, r2, heap') /\ Changed(fr1, h, x2, frames')
  BY <1>5 DEF Changed
<1>9. Shaped(h1, fr1) /\ Kept(heap, frames, h1, fr1, {g})
  BY <1>3, <1>4, <1>6, MakesOne DEF Inv, FitInv
<1>10. UsersOf(fr1, c) = {}
  <2>1. UsersOf(frames, c) = {} /\ x1.block # c
    BY <1>3, <1>4, UsedCounts DEF Inv
  <2>2. UsersOf(fr1, c) = UsersOf(frames, c) \ {g}
    BY <1>4, <1>6, <2>1, UsersMove
  <2> QED
    BY <2>1, <2>2
<1>11. Shaped(heap', frames') /\ Kept(h1, fr1, heap', frames', {h})
  <2>1. heap'[c] = r2
    BY <1>8, <1>9 DEF Changed, Shaped
  <2> QED
    BY <1>3, <1>8, <1>9, <1>10, <2>1, BothChange
<1>12. Kept(heap, frames, heap', frames', {g} \cup {h})
  BY <1>9, <1>11, KeptOn DEF FitInv
<1>13. Kept(heap, frames, heap', frames', {g})
  BY <1>4, <1>12, KeptFresh
<1> QED
  BY <1>11, <1>13 DEF OneMoves

\* Nobody else has the block that is shrunk, and nobody sees the new one.
LEMMA SplitWithShrinkFits ==
    ASSUME Inv, FitInv, NEW f \in Frames, NEW h \in Frames, NEW c \in Blocks,
           SplitWithShrink(f, h, c)
    PROVE  Shaped(heap', frames') /\ OneMoves
<1> DEFINE b == frames[f].block
<1>1. PICK S \in SUBSET (1..Len(BlockOf(f).data)) :
        \E r1, r2 \in Block : \E x1, x2 \in Frame :
          /\ SplitsInto(BlockOf(f).data, S, b, r1, x1, c, r2, x2)
          /\ BothGiven(f, h, b, r1, x1, c, r2, x2)
  BY ShrinkMakes
<1>2. PICK r1, r2 \in Block, x1, x2 \in Frame :
        /\ SplitsInto(BlockOf(f).data, S, b, r1, x1, c, r2, x2)
        /\ BothGiven(f, h, b, r1, x1, c, r2, x2)
  BY <1>1
<1>3. /\ BlockFits(r1) /\ BlockFits(r2)
      /\ x1.block = b /\ x2.block = c /\ FrameFits(x1, r1) /\ FrameFits(x2, r2)
      /\ heap' = [heap EXCEPT ![b] = r1, ![c] = r2]
      /\ frames' = [frames EXCEPT ![f] = x1, ![h] = x2]
  BY <1>2 DEF SplitsInto, BothGiven
<1>4. /\ b \in Blocks /\ b # NoBlock /\ heap[b].count = 0 /\ b # c
      /\ frames[h].block = NoBlock /\ heap[c] = Free /\ f # h
      /\ DOMAIN heap = Blocks /\ DOMAIN frames = Frames
  BY FreshFrame DEF SplitWithShrink, Unused, Usable, Inv, Good, Typed, HasBlock, BlockOf, Free
<1> HIDE DEF b
<1>5. UsersOf(frames, b) = {f}
  BY <1>4, SoleUser DEF Inv, b
<1> DEFINE fr0 == [frames EXCEPT ![f] = NoFrame]
           h1 == [heap EXCEPT ![b] = r1]
           fr1 == [fr0 EXCEPT ![f] = x1]
<1>6. heap' = [h1 EXCEPT ![c] = r2] /\ frames' = [fr1 EXCEPT ![h] = x2]
  BY <1>3, <1>4
<1>7. /\ Changed(frames, f, NoFrame, fr0) /\ Changed(heap, b, r1, h1)
      /\ Changed(fr0, f, x1, fr1) /\ Changed(frames, f, x1, fr1)
      /\ h1[b] = r1 /\ h1[c] = Free
  BY <1>4 DEF Changed
<1> HIDE DEF fr0, h1, fr1
<1>8. Changed(h1, c, r2, heap') /\ Changed(fr1, h, x2, frames')
  BY <1>6 DEF Changed
<1>9. Shaped(heap, fr0) /\ Kept(heap, frames, heap, fr0, {f})
  BY <1>7, NoFrameTyped, FrameChanges DEF FitInv
<1>10. UsersOf(fr0, b) = {}
  <2>1. UsersOf(fr0, b) = UsersOf(frames, b) \ {f}
    BY <1>4, <1>7, NoFrameTyped, UsersMove
  <2> QED
    BY <1>5, <2>1
<1>11. Shaped(h1, fr1) /\ Kept(heap, fr0, h1, fr1, {f})
  BY <1>3, <1>4, <1>7, <1>9, <1>10, BothChange
<1>12. UsersOf(fr1, c) = {}
  <2>1. UsersOf(frames, c) = {} /\ x1.block # c
    BY <1>3, <1>4, UsedCounts DEF Inv
  <2>2. UsersOf(fr1, c) = UsersOf(frames, c) \ {f}
    BY <1>4, <1>7, <2>1, UsersMove
  <2> QED
    BY <2>1, <2>2
<1>13. Shaped(heap', frames') /\ Kept(h1, fr1, heap', frames', {h})
  <2>1. heap'[c] = r2
    BY <1>8, <1>11 DEF Changed, Shaped
  <2> QED
    BY <1>3, <1>8, <1>11, <1>12, <2>1, BothChange
<1>14. Kept(heap, frames, h1, fr1, {f} \cup {f})
  BY <1>9, <1>11, KeptOn DEF FitInv
<1>15. Kept(heap, frames, h1, fr1, {f})
  <2>1. {f} \cup {f} = {f}
    OBVIOUS
  <2> QED
    BY <1>14, <2>1
<1>16. Kept(heap, frames, heap', frames', {f} \cup {h})
  BY <1>11, <1>13, <1>15, KeptOn DEF FitInv
<1>17. Kept(heap, frames, heap', frames', {f})
  BY <1>4, <1>16, KeptFresh
<1> QED
  BY <1>13, <1>17 DEF OneMoves

LEMMA Joined ==
    ASSUME NEW D, NEW s \in Seq(D), NEW t \in Seq(D)
    PROVE  /\ s \o t \in Seq(D) /\ Len(s \o t) = Len(s) + Len(t) /\ Len(s) + Len(t) \in Nat
           /\ Len(s) <= Len(s \o t) /\ \A i \in DOMAIN s : (s \o t)[i] = s[i]
  OBVIOUS

\* The rows that are appended are behind all that the other frames show.
LEMMA AppendFrameFits ==
    ASSUME FitInv, NEW f \in Frames, NEW g \in Frames, AppendFrame(f, g)
    PROVE  Shaped(heap', frames') /\ OneMoves
<1> DEFINE b == frames[f].block
           r == heap[b]
           q == BlockOf(g)
           r2 == Appended(r, q)
           x == [frames[f] EXCEPT !.rows = Len(heap'[b].data)]
<1>1. /\ b # NoBlock /\ frames[g].block # NoBlock
      /\ heap' = [heap EXCEPT ![b] = r2]
      /\ frames' = [frames EXCEPT ![f].rows = Len(heap'[b].data)]
  BY DEF AppendFrame, Usable
<1>2. /\ b \in Blocks /\ r \in Block /\ q \in Block /\ frames[f] \in Frame
      /\ FrameFits(frames[f], r) /\ DOMAIN heap = Blocks
  BY <1>1, ShapedFrame DEF FitInv, BlockOf, Shaped
<1>3. /\ r.data \in Seq(Seq(Item)) /\ Len(r.data) \in Nat
      /\ q.data \in Seq(Seq(Item)) /\ Len(q.data) \in Nat
      /\ DOMAIN r.data = 1..Len(r.data)
  BY <1>2, BlockData
<1>4. Changed(heap, b, r2, heap') /\ Changed(frames, f, x, frames') /\ heap'[b] = r2
  BY <1>1, <1>2 DEF Changed
<1>5. /\ r2 \in Block /\ BlockFits(r2) /\ Extended(r, r2) /\ r2.columns = r.columns
      /\ Len(r2.data) \in Nat
  <2> DEFINE data == r.data \o q.data
             room == Len(r.data) + Len(q.data)
  <2>1. /\ data \in Seq(Seq(Item)) /\ Len(data) = room /\ room \in Nat
        /\ Len(r.data) <= Len(data) /\ \A i \in DOMAIN r.data : data[i] = r.data[i]
    BY <1>3, Joined
  <2>2. r2 = [r EXCEPT !.data = data, !.room = room]
    BY DEF Appended
  <2> HIDE DEF data, room, r2, r
  <2>3. r2 \in Block /\ r2.columns = r.columns /\ r2.data = data /\ r2.room = room
    BY <1>2, <2>1, <2>2 DEF Block
  <2> QED
    BY <2>1, <2>3 DEF BlockFits, Extended
<1> HIDE DEF r2
<1>6. x \in Frame /\ x.block = b /\ x.picks = frames[f].picks /\ x.rows = Len(r2.data)
  <2> DEFINE n == Len(heap'[b].data)
  <2>1. n \in Nat /\ n = Len(r2.data)
    BY <1>4, <1>5
  <2>2. x = [frames[f] EXCEPT !.rows = n]
    OBVIOUS
  <2> HIDE DEF n, x
  <2> QED
    BY <1>2, <2>1, <2>2 DEF Frame
<1> HIDE DEF x
<1>7. FrameFits(x, heap'[b])
  BY <1>2, <1>4, <1>5, <1>6 DEF FrameFits
<1>8. Shaped(heap', frames') /\ Kept(heap, frames, heap', frames', {f})
  BY <1>2, <1>4, <1>5, <1>6, <1>7, BothChange DEF FitInv
<1> QED
  BY <1>8 DEF OneMoves

\* The columns of x and y are given by ascending indexes.
LEMMA SequencesOfNumbers ==
    ASSUME NEW n \in Nat, NEW S \in SUBSET (1..n)
    PROVE  Ascending(S) \in Seq(Nat) /\ ToSet(Ascending(S)) = S
<1> DEFINE s == Ascending(S)
<1>1. s \in Seq(S) /\ ToSet(s) = S
  BY Ascends
<1> HIDE DEF s
<1>2. Len(s) \in Nat /\ s \in [1..Len(s) -> S] /\ \A i \in S : i \in Nat
  BY <1>1
<1>3. s \in [1..Len(s) -> Nat]
  BY <1>2
<1>4. s \in Seq(Nat)
  BY <1>2, <1>3
<1> QED
  BY <1>1, <1>4 DEF s

\* The three frames of a dataset are new, and their block only counts them.
LEMMA DatasetFits ==
    ASSUME Inv, FitInv, NEW f \in Frames, NEW d \in Frames, NEW x \in Frames, NEW y \in Frames,
           NEW xs, NEW ys, Dataset(f, d, x, y, xs, ys)
    PROVE  Shaped(heap', frames') /\ OneMoves
<1> DEFINE b  == frames[f].block
           r  == BlockOf(f)
           k  == Len(r.columns)
           xi == XIndexes(r.columns, xs)
           yi == YIndexes(r.columns, ys)
           n  == heap[b].count + 3
           r2 == [r EXCEPT !.count = n]
           sx == Ascending(xi)
           sy == Ascending({Min(yi)})
           picked(s) == [frames[f] EXCEPT !.selected = TRUE, !.picks = s,
                                          !.rows = Len(heap[b].data)]
           vx == picked(sx)
           vy == picked(sy)
           f1 == [frames EXCEPT ![d] = frames[f]]
           f2 == [f1 EXCEPT ![x] = vx]
<1>1. /\ b # NoBlock /\ {d, x, y} \subseteq Fresh /\ k > 1 /\ yi # {}
      /\ heap' = [heap EXCEPT ![b].count = @ + 3]
      /\ frames' = [frames EXCEPT ![d] = frames[f], ![x] = vx, ![y] = vy]
  BY DEF Dataset, Usable
<1>2. /\ b \in Blocks /\ r \in Block /\ BlockFits(r) /\ FrameFits(frames[f], r)
      /\ frames[f] \in Frame /\ DOMAIN frames = Frames /\ DOMAIN heap = Blocks /\ r = heap[b]
  BY <1>1, ShapedFrame DEF FitInv, BlockOf, Shaped
<1>3. /\ k \in Nat /\ DOMAIN r.columns = 1..k /\ r.count \in Int /\ Len(r.data) \in Nat
      /\ DOMAIN r.data = 1..Len(r.data)
  BY <1>2, BlockData
<1>4. n \in Int /\ Changed(heap, b, r2, heap') /\ heap'[b] = r2
  BY <1>1, <1>2, <1>3 DEF Changed
<1>5. r2 \in Block /\ BlockFits(r2) /\ Extended(r, r2)
  <2> HIDE DEF n
  <2> QED
    BY <1>2, <1>4, Recounted
<1>6. xi \in SUBSET (1..k) /\ {Min(yi)} \in SUBSET (1..k)
  <2>1. xi \in SUBSET (1..k) /\ yi \in SUBSET (1..k)
    BY <1>1, <1>3 DEF XIndexes, YIndexes
  <2> HIDE DEF k, xi, yi
  <2> QED
    BY <1>1, <1>3, <2>1, MaxOf
<1> DEFINE one == {Min(yi)}
<1> HIDE DEF xi, yi, k, r
<1>7. /\ sx \in Seq(Nat) /\ ToSet(sx) \subseteq 1..k
      /\ sy \in Seq(Nat) /\ ToSet(sy) \subseteq 1..k
  <2>1. sx \in Seq(Nat) /\ ToSet(sx) = xi
    BY <1>3, <1>6, SequencesOfNumbers
  <2>2. one \in SUBSET (1..k)
    BY <1>6
  <2> HIDE DEF one
  <2>3. Ascending(one) \in Seq(Nat) /\ ToSet(Ascending(one)) = one
    BY <1>3, <2>2, SequencesOfNumbers
  <2> QED
    BY <1>6, <2>1, <2>2, <2>3 DEF one
<1> HIDE DEF sx, sy
<1>8. ASSUME NEW s \in Seq(Nat), ToSet(s) \subseteq 1..k
      PROVE  picked(s) \in Frame /\ picked(s).block = b /\ FrameFits(picked(s), r)
  <2> DEFINE z == [frames[f] EXCEPT !.selected = TRUE]
             rows == Len(r.data)
  <2>1. z \in Frame /\ z.block = b
    BY <1>2 DEF Frame
  <2>2. picked(s) = [z EXCEPT !.picks = s, !.rows = rows]
    BY <1>2
  <2>3. rows \in Nat
    BY <1>3
  <2> HIDE DEF z, picked, rows
  <2>4. /\ picked(s) \in Frame /\ picked(s).block = b /\ picked(s).picks = s
        /\ picked(s).rows = rows
    BY <2>1, <2>2, <2>3 DEF Frame
  <2>5. FrameFits(picked(s), r)
    BY <1>3, <1>8, <2>3, <2>4 DEF FrameFits, rows
  <2> QED
    BY <2>4, <2>5
<1>9. /\ vx \in Frame /\ vx.block = b /\ FrameFits(vx, r)
      /\ vy \in Frame /\ vy.block = b /\ FrameFits(vy, r)
  BY <1>7, <1>8, Zenon
<1> HIDE DEF vx, vy, r2
<1>10. FrameFits(frames[f], r2) /\ FrameFits(vx, r2) /\ FrameFits(vy, r2)
  BY <1>2, <1>5, <1>9, ExtendedView
<1>11. Changed(frames, d, frames[f], f1) /\ Changed(f1, x, vx, f2) /\ Changed(f2, y, vy, frames')
  BY <1>1 DEF Changed
<1> HIDE DEF f1, f2
<1>12. Shaped(heap', f1) /\ Kept(heap, frames, heap', f1, {d})
  BY <1>2, <1>4, <1>5, <1>10, <1>11, BothChange DEF FitInv
<1>13. Shaped(heap', f2) /\ Kept(heap', f1, heap', f2, {x})
  BY <1>4, <1>9, <1>10, <1>11, <1>12, FrameChanges
<1>14. Shaped(heap', frames') /\ Kept(heap', f2, heap', frames', {y})
  BY <1>4, <1>9, <1>10, <1>11, <1>13, FrameChanges
<1>15. Kept(heap, frames, heap', f2, {d} \cup {x})
  BY <1>12, <1>13, KeptOn DEF FitInv
<1>16. Kept(heap, frames, heap', frames', {d} \cup {x} \cup {y})
  BY <1>13, <1>14, <1>15, KeptOn DEF FitInv
<1>17. frames[d].block = NoBlock /\ frames[x].block = NoBlock /\ frames[y].block = NoBlock
  BY <1>1, FreshFrame
<1>18. Kept(heap, frames, heap', frames', {d})
  BY <1>16, <1>17, KeptFresh
<1> QED
  BY <1>14, <1>18 DEF OneMoves

-----------------------------------------------------------------------------
(* The invariant                                                             *)

LEMMA ShareFits ==
    ASSUME Inv, FitInv, ShareNext
    PROVE  FitInv' /\ OneMoves
<1> DEFINE Fine == Shaped(heap', frames') /\ OneMoves
<1>1. ASSUME NEW f \in Frames, Clear(f) PROVE Fine
  BY <1>1, ClearFits
<1>2. ASSUME NEW f \in Frames, NEW s \in ColPicks, Select(f, s) PROVE Fine
  BY <1>2, SelectFits
<1>3. ASSUME NEW f \in Frames, NEW g \in Frames, Assign(f, g) PROVE Fine
  BY <1>3, AssignFits
<1>4. ASSUME NEW f \in Frames, NEW g \in Frames, AppendFrame(f, g) PROVE Fine
  BY <1>4, AppendFrameFits
<1>5. ASSUME NEW f \in Frames, NEW g \in Frames, NEW h \in Frames, NEW b \in Blocks,
             NEW c \in Blocks, Split(f, g, h, b, c)
      PROVE  Fine
  BY <1>5, SplitFits
<1>6. ASSUME NEW f \in Frames, NEW g \in Frames, NEW b \in Blocks, NEW s \in RowPicks,
             DeepCopy(f, g, b, s)
      PROVE  Fine
  BY <1>6, DeepCopyFits
<1>7. ASSUME NEW f \in Frames, NEW d \in Frames, NEW x \in Frames, NEW y \in Frames,
             NEW xs \in Features, NEW ys \in Features, Dataset(f, d, x, y, xs, ys)
      PROVE  Fine
  BY <1>7, DatasetFits
<1>10. ASSUME NEW f \in Frames, NEW g \in Frames, NEW b \in Blocks, SplitWithShrink(f, g, b)
       PROVE  Fine
  BY <1>10, SplitWithShrinkFits
<1> HIDE DEF Fine
<1>8. Fine
  BY <1>1, <1>2, <1>3, <1>4, <1>5, <1>6, <1>7, <1>10 DEF ShareNext
<1>9. load' = NotLoading
  BY ShareOnly
<1> QED
  BY <1>8, <1>9, SharesFit DEF Fine

LEMMA ReadFits ==
    ASSUME Inv, CsvInv, FitInv, ReadNext
    PROVE  FitInv' /\ OneMoves
<1>1. CASE CountRow
  BY <1>1, CountRowFits
<1>2. CASE CountEnd
  BY <1>2, CountEndFits
<1>3. CASE ReadRow
  BY <1>3, ReadRowFits
<1>4. CASE EndRead \/ EndQuery
  BY <1>4, EndFits
<1>5. CASE QueryRow
  BY <1>5, QueryRowFits
<1>8. CASE QueryFails
  BY <1>8, FailsFits
<1>6. ASSUME NEW f \in Frames, NEW b \in Blocks, NEW us \in UseCols, BeginRead(f, b, us)
      PROVE  FitInv' /\ OneMoves
  BY <1>6, BeginReadFits
<1>7. ASSUME NEW f \in Frames, NEW b \in Blocks, NEW t \in Tables, BeginQuery(f, b, t)
      PROVE  FitInv' /\ OneMoves
  BY <1>7, BeginQueryFits
<1> QED
  BY <1>1, <1>2, <1>3, <1>4, <1>5, <1>6, <1>7, <1>8 DEF ReadNext

\* What is written leaves the header as it was opened.
LEMMA WritesFits ==
    ASSUME CsvInv, FitInv, Writes, UNCHANGED frameVars
    PROVE  FitInv'
<1>1. UNCHANGED <<reader, heap, frames, load>> /\ file'[1] = file[1] /\ RowsTyped'
  BY FileWritten DEF frameVars, CsvInv
<1>2. AsOpened => AsOpened'
  BY <1>1 DEF AsOpened
<1>3. CanOpen => CanOpen'
  BY <1>1, SMTT(30) DEF CanOpen, RowsTyped
<1>4. ReadsFit'
  BY <1>1, <1>2, <1>3 DEF FitInv, ReadsFit, Passing, Reading, BlockOf
<1> QED
  BY <1>1, <1>4 DEF FitInv, LoadTyped

LEMMA NextFits ==
    ASSUME Inv, CsvInv, FitInv, [Next]_vars
    PROVE  FitInv' /\ OneMoves
<1>1. CASE UNCHANGED vars
  <2>1. UNCHANGED <<file, reader, heap, frames, load>>
    BY <1>1 DEF vars
  <2>2. FitInv'
    BY <2>1 DEF FitInv, LoadTyped, ReadsFit, Passing, Reading, BlockOf, AsOpened, CanOpen
  <2> QED
    BY <2>1, <2>2, NothingMoves DEF OneMoves
<1>2. CASE ReadNext
  BY <1>2, ReadFits
<1>3. CASE ShareNext
  BY <1>3, ShareFits
<1>4. CASE CsvNext /\ Fresh = Frames /\ UNCHANGED frameVars
  <2>1. UNCHANGED <<heap, frames>> /\ load' = NotLoading
    BY <1>4, NoReadStep DEF frameVars
  <2> QED
    BY <2>1, NothingMoves, NoRead DEF FitInv, OneMoves
<1>5. CASE Writes /\ ~Quiet /\ UNCHANGED frameVars
  <2>1. UNCHANGED <<heap, frames>>
    BY <1>5 DEF frameVars
  <2> QED
    BY <1>5, <2>1, WritesFits, NothingMoves DEF OneMoves
<1> QED
  BY <1>1, <1>2, <1>3, <1>4, <1>5 DEF Next

LEMMA InitFits == Init => FitInv
<1> SUFFICES ASSUME Init PROVE FitInv
  OBVIOUS
<1>1. heap \in [Blocks -> Block] /\ \A b \in Blocks : BlockFits(heap[b])
  BY FreeFits DEF Init
<1>2. frames \in [Frames -> Frame] /\ \A f \in Frames : frames[f].block = NoBlock
  BY NoFrameTyped DEF Init
<1>3. load = NotLoading
  BY DEF Init
<1> QED
  BY <1>1, <1>2, <1>3 DEF FitInv, Shaped, LoadTyped, ReadsFit, Passing, Reading

\* The three invariants together are inductive.
AllInv == Inv /\ CsvInv /\ FitInv

LEMMA FrameInvHolds == Spec => []AllInv
<1>1. Init => AllInv
  BY InitInv, CsvInitInv, InitFits DEF AllInv
<1>2. AllInv /\ [Next]_vars => AllInv'
  BY NextInv, NextCsvInv, NextFits DEF AllInv
<1> QED
  BY <1>1, <1>2, PTL DEF Spec

\* For any files, queries and column choices and any number of frames and blocks, every
\* variable keeps its type: a row that is read has an item for every column, the sets of
\* indexes that split and feature_select sort become lists of numbers, and the private
\* data of a frame is never that of another kind (dataframe.hpp, csv.hpp).
THEOREM TypesStay == Spec => []TypeOK
<1>1. AllInv => TypeOK
  BY DEF AllInv, CsvInv, RowsTyped, FitInv, Shaped, LoadTyped, TypeOK, CsvTypeOK
<1> QED
  BY <1>1, FrameInvHolds, PTL

\* get_row's bare pointer and get_raw's flat index stay inside the array: whatever was
\* read, copied, selected, split, appended or dropped, every view has its rows and columns
\* inside its block, and no block more rows than were allocated for it.
THEOREM ViewsStayInBounds == Spec => []ViewsInBounds
<1>1. AllInv => ViewsInBounds
  BY DEF AllInv, FitInv, Shaped, ViewsInBounds, Usable, BlockFits, FrameFits, BlockOf
<1> QED
  BY <1>1, FrameInvHolds, PTL

\* "the immutable shared_data can not be changed": in no step do two frames change what
\* they show, though they share blocks that append lengthens in place, and no step
\* changes what a frame shows but one that sets this frame's own view, or one on a block
\* that no other frame has.
THEOREM OneViewAtATime == Spec => OneViewChanges
<1>1. AllInv /\ [Next]_vars =>
        [/\ Cardinality(Shown) <= 1
         /\ \A f \in Shown : frames'[f] # frames[f] \/ Users(frames[f].block) = {f}]_vars
  BY NextFits, OneChanges DEF AllInv, OneMoves, FitInv
<1> QED
  BY <1>1, FrameInvHolds, PTL DEF Spec, OneViewChanges

-----------------------------------------------------------------------------
(* Split                                                                     *)

\* A step after which the frames have the blocks they had, none, or one that is new.
\* The frame of a step that reads.
Reads(f) == \A g \in Frames \ {f} : frames'[g].block = frames[g].block

LEMMA ThrowsReads ==
    ASSUME Inv, NEW f, frames' = [frames EXCEPT ![f].thrown = TRUE]
    PROVE  Reads(f)
<1> DEFINE x == [frames[f] EXCEPT !.thrown = TRUE]
<1>1. frames' = [frames EXCEPT ![f] = x] /\ DOMAIN frames = Frames
  BY DEF Inv, Good, Typed
<1> HIDE DEF x
<1> QED
  BY <1>1 DEF Reads

LEMMA WholeReads ==
    ASSUME Inv, NEW f, frames' = Whole(f)
    PROVE  Reads(f)
<1> DEFINE x == [frames[f] EXCEPT !.rows = Len(BlockOf(f).data),
                                  !.picks = [n \in DOMAIN BlockOf(f).columns |-> n]]
<1>1. frames' = [frames EXCEPT ![f] = x] /\ DOMAIN frames = Frames
  BY DEF Whole, Inv, Good, Typed
<1> HIDE DEF x
<1> QED
  BY <1>1 DEF Reads

LEMMA ReadReads ==
    ASSUME Inv, ReadNext
    PROVE  \E f : Reads(f)
<1>1. DOMAIN frames = Frames
  BY DEF Inv, Good, Typed
<1>2. CASE CountRow \/ QueryRow
  BY <1>2 DEF CountRow, QueryRow, Reads
<1>3. CASE CountEnd
  <2>1. Throws(load.frame) \/ UNCHANGED frames
    BY <1>3 DEF CountEnd
  <2> QED
    BY <2>1, ThrowsReads DEF Throws, Reads
<1>4. CASE ReadRow
  <2>1. Throws(load.frame) \/ UNCHANGED frames
    BY <1>4, Zenon DEF ReadRow
  <2> QED
    BY <2>1, ThrowsReads DEF Throws, Reads
<1>5. CASE EndRead \/ EndQuery
  BY <1>5, WholeReads DEF EndRead, EndQuery
<1>8. CASE QueryFails
  BY <1>8, ThrowsReads DEF QueryFails
<1>6. ASSUME NEW f \in Frames, NEW b \in Blocks, NEW us \in UseCols, BeginRead(f, b, us)
      PROVE  Reads(f)
  BY <1>1, <1>6 DEF BeginRead, Reads
<1>7. ASSUME NEW f \in Frames, NEW b \in Blocks, NEW t \in Tables, BeginQuery(f, b, t)
      PROVE  Reads(f)
  BY <1>1, <1>7 DEF BeginQuery, Reads
<1> QED
  BY <1>2, <1>3, <1>4, <1>5, <1>6, <1>7, <1>8 DEF ReadNext

\* A frame that shares gets a block that another has, or none.
Clones(f) == frames'[f].block = NoBlock \/ \E g \in Frames : frames'[f].block = frames[g].block

LEMMA ShareClones ==
    ASSUME Inv, ShareNext,
           \A f, g, h \in Frames, b, c \in Blocks : ~Split(f, g, h, b, c)
    PROVE  \E e : \A g \in Frames \ {e} : Clones(g)
<1>1. DOMAIN frames = Frames
  BY DEF Inv, Good, Typed
<1>2. ASSUME NEW f \in Frames, Clear(f)
      PROVE  \A g \in Frames \ {f} : Clones(g)
  BY <1>1, <1>2 DEF Clear, Clones
<1>3. ASSUME NEW f \in Frames, NEW s \in ColPicks, Select(f, s)
      PROVE  \A g \in Frames \ {f} : Clones(g)
  <2>1. CASE s = <<>>
    BY <1>3, <2>1, WholeReads DEF Select, Clones, Reads
  <2>2. CASE s # <<>>
    BY <1>1, <1>3, <2>2 DEF Select, Clones
  <2> QED
    BY <2>1, <2>2
<1>4. ASSUME NEW f \in Frames, NEW g \in Frames, Assign(f, g)
      PROVE  \A h \in Frames \ {f} : Clones(h)
  BY <1>1, <1>4 DEF Assign, Clones
<1>5. ASSUME NEW f \in Frames, NEW g \in Frames, AppendFrame(f, g)
      PROVE  \A h \in Frames \ {f} : Clones(h)
  BY <1>1, <1>5 DEF AppendFrame, Clones
<1>6. ASSUME NEW f \in Frames, NEW g \in Frames, NEW b \in Blocks, NEW s \in RowPicks,
             DeepCopy(f, g, b, s)
      PROVE  \A h \in Frames \ {g} : Clones(h)
  BY <1>1, <1>6 DEF DeepCopy, Clones
<1>7. ASSUME NEW f \in Frames, NEW d \in Frames, NEW x \in Frames, NEW y \in Frames,
             NEW xs \in Features, NEW ys \in Features, Dataset(f, d, x, y, xs, ys)
      PROVE  \A h \in Frames \ {d} : Clones(h)
  <2> DEFINE picked(S) == [frames[f] EXCEPT !.selected = TRUE, !.picks = Ascending(S),
                                            !.rows = Len(heap[frames[f].block].data)]
             xi == XIndexes(BlockOf(f).columns, xs)
             yi == YIndexes(BlockOf(f).columns, ys)
  <2>1. frames' = [frames EXCEPT ![d] = frames[f], ![x] = picked(xi), ![y] = picked({Min(yi)})]
    BY <1>7 DEF Dataset
  <2>2. \A S : picked(S).block = frames[f].block
    BY DEF Inv, Good, Typed, HasBlock
  <2> HIDE DEF picked, xi, yi
  <2>3. \A h \in Frames \ {d} :
          \/ frames'[h].block = frames[h].block
          \/ frames'[h].block = frames[f].block
    BY <1>1, <2>1, <2>2
  <2> QED
    BY <2>3 DEF Clones
<1>8. ASSUME NEW f \in Frames, NEW h \in Frames, NEW c \in Blocks, SplitWithShrink(f, h, c)
      PROVE  \A g \in Frames \ {h} : Clones(g)
  <2>1. PICK second : frames' = [frames EXCEPT ![f].rows = Len(Rest(Len(BlockOf(f).data), second)),
                                              ![h] = ViewOfCopy(f, c, second)]
    BY <1>8 DEF SplitWithShrink
  <2>2. ASSUME NEW g \in Frames \ {h} PROVE frames'[g].block = frames[g].block
    BY <1>1, <2>1 DEF Inv, Good, Typed, HasBlock
  <2> QED
    BY <2>2 DEF Clones
<1> QED
  BY <1>2, <1>3, <1>4, <1>5, <1>6, <1>7, <1>8 DEF ShareNext

\* Two new blocks need two frames that are given a new one.
LEMMA NewTaken ==
    ASSUME Inv, Inv', NEW e, \A g \in Frames \ {e} : Clones(g),
           NEW b \in Unused, heap'[b] # Free
    PROVE  frames'[e].block = b
<1>1. b \in Blocks /\ heap[b] = Free
  BY DEF Unused
<1>2. UsersOf(frames, b) = {}
  BY <1>1, UsedCounts DEF Inv
<1>3. UsersOf(frames', b) # {}
  BY <1>1, UsedCounts DEF Inv
<1>4. PICK f \in Frames : frames'[f].block = b
  BY <1>3 DEF UsersOf
<1>5. ~Clones(f)
  BY <1>1, <1>2, <1>4, BlockAssumption DEF Clones, UsersOf
<1> QED
  BY <1>4, <1>5

LEMMA OccursNat ==
    ASSUME NEW s \in Seq(Seq(Item))
    PROVE  \A v : Occurs(s, v) \in Nat
<1> TAKE v
<1> DEFINE at == {i \in DOMAIN s : s[i] = v}
<1>1. Len(s) \in Nat /\ DOMAIN s = 1..Len(s)
  OBVIOUS
<1>2. IsFiniteSet(1..Len(s)) /\ at \subseteq 1..Len(s)
  BY <1>1, FS_Interval
<1> HIDE DEF at
<1>3. Cardinality(at) \in Nat
  BY <1>2, FS_Subset, FS_CardinalityType
<1> QED
  BY <1>3 DEF Occurs, at

\* What a split makes has every row as often as the block had it.
LEMMA HalvesDivide ==
    ASSUME NEW data \in Seq(Seq(Item)), NEW S \in SUBSET (1..Len(data)),
           NEW b, NEW r1, NEW x1, NEW c, NEW r2, NEW x2,
           SplitsInto(data, S, b, r1, x1, c, r2, x2), heap'[b] = r1, heap'[c] = r2
    PROVE  Divided(data, b, c)
<1>1. heap'[b].data = Taken(data, 1..Len(data) \ S) /\ heap'[c].data = Taken(data, S)
  BY DEF SplitsInto
<1>2. ASSUME NEW v
      PROVE  /\ Len(Taken(data, 1..Len(data) \ S)) + Len(Taken(data, S)) = Len(data)
             /\ Occurs(Taken(data, 1..Len(data) \ S), v) + Occurs(Taken(data, S), v)
                  = Occurs(data, v)
  BY PartsOccur
<1> QED
  BY <1>1, <1>2 DEF Divided

LEMMA DividedBack ==
    ASSUME NEW data, NEW b, NEW c, Divided(data, b, c),
           heap'[b].data \in Seq(Seq(Item)), heap'[c].data \in Seq(Seq(Item))
    PROVE  Divided(data, c, b)
<1> DEFINE p == heap'[b].data
           q == heap'[c].data
<1>1. Len(p) \in Nat /\ Len(q) \in Nat
  OBVIOUS
<1>2. \A v : Occurs(p, v) \in Nat /\ Occurs(q, v) \in Nat
  BY OccursNat
<1>3. /\ Len(p) + Len(q) = Len(data)
      /\ \A v \in ToSet(data) : Occurs(p, v) + Occurs(q, v) = Occurs(data, v)
  BY DEF Divided
<1> HIDE DEF p, q
<1>4. /\ Len(q) + Len(p) = Len(data)
      /\ \A v \in ToSet(data) : Occurs(q, v) + Occurs(p, v) = Occurs(data, v)
  BY <1>1, <1>2, <1>3
<1> QED
  BY <1>4 DEF Divided, p, q

\* A split gives its two blocks the rows of a set and the rest.
LEMMA SplitParts ==
    ASSUME Inv, Inv', FitInv, NEW f \in Frames, NEW g \in Frames, NEW h \in Frames,
           NEW b \in Blocks, NEW c \in Blocks, Split(f, g, h, b, c),
           NEW b2 \in Unused, NEW c2 \in Unused, b2 # c2, heap'[b2] # Free, heap'[c2] # Free
    PROVE  PartsOf(f, b2, c2)
<1> DEFINE r == BlockOf(f)
           data == r.data
<1>1. PICK S \in SUBSET (1..Len(BlockOf(f).data)) :
        \E r1, r2 \in Block : \E x1, x2 \in Frame :
          /\ SplitsInto(BlockOf(f).data, S, b, r1, x1, c, r2, x2)
          /\ BothGiven(g, h, b, r1, x1, c, r2, x2)
  BY SplitMakes
<1>2. PICK r1, r2 \in Block, x1, x2 \in Frame :
        /\ SplitsInto(BlockOf(f).data, S, b, r1, x1, c, r2, x2)
        /\ BothGiven(g, h, b, r1, x1, c, r2, x2)
  BY <1>1
<1>3. /\ r1.data = Taken(data, 1..Len(data) \ S) /\ r2.data = Taken(data, S)
      /\ heap' = [heap EXCEPT ![b] = r1, ![c] = r2]
  BY <1>2 DEF SplitsInto, BothGiven
<1>4. /\ heap[b] = Free /\ heap[c] = Free /\ b # c /\ DOMAIN heap = Blocks
      /\ Usable(f) /\ frames[f].block # NoBlock
  BY DEF Split, Unused, Inv, Good, Typed, Usable
<1>5. heap'[b] = r1 /\ heap'[c] = r2 /\ \A d \in Blocks \ {b, c} : heap'[d] = heap[d]
  BY <1>3, <1>4
<1>6. (b2 = b /\ c2 = c) \/ (b2 = c /\ c2 = b)
  BY <1>5 DEF Unused
<1>7. frames[f].block \in Blocks /\ r \in Block
  BY <1>4, ShapedFrame DEF FitInv, BlockOf
<1>8. heap'[frames[f].block] = r
  <2>1. f \in UsersOf(frames, frames[f].block)
    BY DEF UsersOf
  <2>2. heap[frames[f].block] # Free
    BY <1>7, <2>1, UsedCounts DEF Inv
  <2> QED
    BY <1>4, <1>5, <1>7, <2>2 DEF BlockOf
<1>9. /\ data \in Seq(Seq(Item)) /\ S \in SUBSET (1..Len(data))
      /\ r1.data \in Seq(Seq(Item)) /\ r2.data \in Seq(Seq(Item))
  BY <1>7, BlockData
<1>10. Divided(data, b, c)
  BY <1>2, <1>5, <1>9, HalvesDivide
<1>11. Divided(data, b2, c2)
  BY <1>5, <1>6, <1>9, <1>10, DividedBack
<1> QED
  BY <1>4, <1>8, <1>11 DEF PartsOf

\* Only a split makes two blocks: in any other step at most one frame is given a new one.
LEMMA NewParts ==
    ASSUME Inv, Inv', CsvInv, FitInv, [Next]_vars,
           NEW b \in Unused, NEW c \in Unused, b # c, heap'[b] # Free, heap'[c] # Free
    PROVE  \E f \in Frames : PartsOf(f, b, c)
<1> SUFFICES ASSUME \A f, g, h \in Frames, d, e \in Blocks : ~Split(f, g, h, d, e)
             PROVE  FALSE
  BY SplitParts
<1>1. PICK e : \A g \in Frames \ {e} : Clones(g)
  <2>1. CASE ReadNext
    BY <2>1, ReadReads DEF Reads, Clones
  <2>2. CASE ShareNext
    BY <2>2, ShareClones
  <2>3. CASE UNCHANGED frames
    BY <2>3 DEF Clones
  <2> QED
    BY <2>1, <2>2, <2>3 DEF Next, vars, frameVars
<1> QED
  BY <1>1, NewTaken

\* A step that makes a block leaves the rows of the others, but for split_with_shrink.
OnlyOld == \A c \in Unused : heap'[c] = Free
OnlyNew == \A b \in Blocks \ Unused : heap'[b] = heap[b]

\* A block that a frame points to is in use.
LEMMA PointedUsed ==
    ASSUME Inv, NEW f \in Frames, frames[f].block # NoBlock
    PROVE  frames[f].block \in Blocks \ Unused
<1>1. frames[f].block \in Blocks
  BY DEF Inv, Good, Typed, HasBlock
<1>2. f \in UsersOf(frames, frames[f].block)
  BY DEF UsersOf
<1>3. heap[frames[f].block] # Free
  BY <1>1, <1>2, UsedCounts DEF Inv
<1> QED
  BY <1>1, <1>3 DEF Unused

LEMMA ChangesOld ==
    ASSUME NEW b \in Blocks \ Unused, \A c \in Blocks : c # b => heap'[c] = heap[c]
    PROVE  OnlyOld
  BY DEF OnlyOld, Unused

LEMMA ReadMakes ==
    ASSUME Inv, CsvInv, ReadNext
    PROVE  OnlyOld \/ OnlyNew
<1>1. DOMAIN heap = Blocks
  BY DEF Inv, Good, Typed
<1>2. CASE UNCHANGED heap
  BY <1>2 DEF OnlyNew
<1>3. CASE load # NotLoading /\ ~UNCHANGED heap
  <2> DEFINE b == frames[load.frame].block
  <2>1. load.frame \in Frames /\ b # NoBlock
    BY <1>3 DEF CsvInv
  <2>2. b \in Blocks \ Unused
    BY <2>1, PointedUsed
  <2>3. CountEnd \/ ReadRow \/ QueryRow
    BY <1>3 DEF ReadNext, CountRow, EndRead, EndQuery, QueryFails, BeginRead, BeginQuery,
                Quiet
  <2>4. \A c \in Blocks : c # b => heap'[c] = heap[c]
    <3>1. CASE CountEnd
      BY <1>1, <1>3, <3>1 DEF CountEnd
    <3>2. CASE ReadRow
      <4>1. PICK row : heap' = [heap EXCEPT ![b].data = Append(@, row)]
        BY <1>3, <3>2, Zenon DEF ReadRow
      <4> QED
        BY <1>1, <4>1
    <3>3. CASE QueryRow
      <4>1. PICK row, room : heap' = [heap EXCEPT ![b].data = Append(@, row), ![b].room = room]
        BY <3>3, Zenon DEF QueryRow
      <4> QED
        BY <1>1, <4>1
    <3> QED
      BY <2>3, <3>1, <3>2, <3>3
  <2> HIDE DEF b
  <2> QED
    BY <2>2, <2>4, ChangesOld
<1>4. CASE load = NotLoading
  <2>1. PICK f \in Frames, b \in Blocks :
           \/ \E us \in UseCols : BeginRead(f, b, us)
           \/ \E t \in Tables : BeginQuery(f, b, t)
    BY <1>4 DEF ReadNext, CountRow, CountEnd, ReadRow, EndRead, QueryRow, EndQuery,
                QueryFails, Reading
  <2>2. b \in Unused /\ \E r : heap' = [heap EXCEPT ![b] = r]
    BY <2>1 DEF BeginRead, BeginQuery, NewBlock
  <2> QED
    BY <1>1, <2>2 DEF OnlyNew
<1> QED
  BY <1>2, <1>3, <1>4

\* What a frame drops is the block it has.
LEMMA DropsAt ==
    ASSUME NEW b, NEW c \in Blocks, c # b, DOMAIN heap = Blocks
    PROVE  Dropped(heap, b)[c] = heap[c]
  BY DEF Dropped

LEMMA ShareMakes ==
    ASSUME Inv, ShareNext,
           \A f, h \in Frames, c \in Blocks : ~SplitWithShrink(f, h, c)
    PROVE  OnlyOld \/ OnlyNew
<1>1. DOMAIN heap = Blocks
  BY DEF Inv, Good, Typed
<1>2. ASSUME NEW f \in Frames, Clear(f) PROVE OnlyOld
  <2> DEFINE b == frames[f].block
  <2>1. b # NoBlock /\ heap' = Dropped(heap, b) /\ b \in Blocks \ Unused
    BY <1>2, PointedUsed DEF Clear
  <2>2. \A c \in Blocks : c # b => heap'[c] = heap[c]
    BY <1>1, <2>1, DropsAt
  <2> HIDE DEF b
  <2> QED
    BY <2>1, <2>2, ChangesOld
<1>3. ASSUME NEW f \in Frames, NEW s \in ColPicks, Select(f, s) PROVE OnlyNew
  BY <1>3 DEF Select, OnlyNew
<1>4. ASSUME NEW f \in Frames, NEW g \in Frames, Assign(f, g) PROVE OnlyOld
  <2> DEFINE b == frames[g].block
             h1 == Dropped(heap, frames[f].block)
  <2>1. b \in Blocks \ Unused /\ heap' = Shared(heap, f, b)
    BY <1>4, PointedUsed DEF Assign, Usable
  <2>2. ASSUME NEW c \in Unused PROVE h1[c] = heap[c] /\ c # b
    <3>1. c \in Blocks /\ c # b
      BY <2>1 DEF Unused
    <3>2. c # frames[f].block
      BY <3>1, PointedUsed, BlockAssumption
    <3> HIDE DEF b
    <3> QED
      BY <1>1, <3>1, <3>2, DropsAt
  <2> HIDE DEF h1
  <2>3. heap' = heap \/ \E r : heap' = [h1 EXCEPT ![b] = r]
    BY <2>1 DEF Shared, h1
  <2> HIDE DEF b
  <2>4. DOMAIN h1 = Blocks
    BY <1>1 DEF h1, Dropped
  <2>5. \A c \in Unused : c \in Blocks /\ heap[c] = Free
    BY DEF Unused
  <2> QED
    BY <1>1, <2>2, <2>3, <2>4, <2>5 DEF OnlyOld
<1>5. ASSUME NEW f \in Frames, NEW g \in Frames, AppendFrame(f, g) PROVE OnlyOld
  <2> DEFINE b == frames[f].block
  <2>1. b \in Blocks \ Unused /\ heap' = [heap EXCEPT ![b] = Appended(@, BlockOf(g))]
    BY <1>5, PointedUsed DEF AppendFrame, Usable
  <2> HIDE DEF b
  <2> QED
    BY <1>1, <2>1, ChangesOld
<1>6. ASSUME NEW f \in Frames, NEW g \in Frames, NEW h \in Frames, NEW b \in Blocks,
             NEW c \in Blocks, Split(f, g, h, b, c)
      PROVE  OnlyNew
  <2>1. {b, c} \subseteq Unused /\ \E r, r2 : heap' = [heap EXCEPT ![b] = r, ![c] = r2]
    BY <1>6 DEF Split
  <2> QED
    BY <1>1, <2>1 DEF OnlyNew
<1>7. ASSUME NEW f \in Frames, NEW g \in Frames, NEW b \in Blocks, NEW s \in RowPicks,
             DeepCopy(f, g, b, s)
      PROVE  OnlyNew
  <2>1. b \in Unused /\ \E r : heap' = [heap EXCEPT ![b] = r]
    BY <1>7 DEF DeepCopy
  <2> QED
    BY <1>1, <2>1 DEF OnlyNew
<1>8. ASSUME NEW f \in Frames, NEW d \in Frames, NEW x \in Frames, NEW y \in Frames,
             NEW xs \in Features, NEW ys \in Features, Dataset(f, d, x, y, xs, ys)
      PROVE  OnlyOld
  <2> DEFINE b == frames[f].block
  <2>1. b \in Blocks \ Unused /\ heap' = [heap EXCEPT ![b].count = @ + 3]
    BY <1>8, PointedUsed DEF Dataset, Usable
  <2> HIDE DEF b
  <2> QED
    BY <1>1, <2>1, ChangesOld
<1> QED
  BY <1>2, <1>3, <1>4, <1>5, <1>6, <1>7, <1>8 DEF ShareNext

\* split_with_shrink makes one block, and shrinks its own.
LEMMA ShrinkParts ==
    ASSUME Inv, FitInv, NEW f \in Frames, NEW h \in Frames, NEW d \in Blocks,
           SplitWithShrink(f, h, d), NEW b \in Blocks \ Unused, NEW c \in Unused,
           heap'[b].data # heap[b].data, heap'[c] # Free
    PROVE  Divided(heap[b].data, b, c)
<1> DEFINE o == frames[f].block
<1>1. PICK S \in SUBSET (1..Len(BlockOf(f).data)) :
        \E r1, r2 \in Block : \E x1, x2 \in Frame :
          /\ SplitsInto(BlockOf(f).data, S, o, r1, x1, d, r2, x2)
          /\ BothGiven(f, h, o, r1, x1, d, r2, x2)
  BY ShrinkMakes
<1>2. PICK r1, r2 \in Block, x1, x2 \in Frame :
        /\ SplitsInto(BlockOf(f).data, S, o, r1, x1, d, r2, x2)
        /\ BothGiven(f, h, o, r1, x1, d, r2, x2)
  BY <1>1
<1>3. o \in Blocks \ Unused /\ d \in Unused /\ o # d /\ DOMAIN heap = Blocks
  <2>1. o \in Blocks \ Unused
    BY PointedUsed DEF SplitWithShrink, Usable
  <2> QED
    BY <2>1 DEF SplitWithShrink, Inv, Good, Typed
<1>4. heap'[o] = r1 /\ heap'[d] = r2 /\ \A e \in Blocks \ {o, d} : heap'[e] = heap[e]
  BY <1>2, <1>3 DEF BothGiven
<1>5. b = o /\ c = d
  BY <1>3, <1>4 DEF Unused
<1>6. BlockOf(f).data \in Seq(Seq(Item)) /\ BlockOf(f) = heap[o]
  <2>1. heap[o] \in Block
    BY <1>3 DEF FitInv, Shaped
  <2> QED
    BY <2>1, BlockData DEF BlockOf
<1> HIDE DEF o
<1>7. Divided(BlockOf(f).data, o, d)
  BY <1>2, <1>4, <1>6, HalvesDivide
<1> QED
  BY <1>5, <1>6, <1>7

LEMMA OldParts ==
    ASSUME Inv, CsvInv, FitInv, [Next]_vars,
           NEW b \in Blocks \ Unused, NEW c \in Unused,
           heap'[b].data # heap[b].data, heap'[c] # Free
    PROVE  Divided(heap[b].data, b, c)
<1> SUFFICES ASSUME \A f, h \in Frames, d \in Blocks : ~SplitWithShrink(f, h, d)
             PROVE  FALSE
  BY ShrinkParts
<1>1. OnlyOld \/ OnlyNew
  <2>1. CASE ReadNext
    BY <2>1, ReadMakes
  <2>2. CASE ShareNext
    BY <2>2, ShareMakes
  <2>3. CASE UNCHANGED heap
    BY <2>3 DEF OnlyNew
  <2> QED
    BY <2>1, <2>2, <2>3 DEF Next, vars, frameVars
<1> QED
  BY <1>1 DEF OnlyOld, OnlyNew

\* random_shuffle_with_split and the compaction in place lose no row and double none: every
\* row is in the two results together as often as in the block that was split, for any
\* block and any choice of the second part, whether a copy of the block is compacted or,
\* in split_with_shrink, the block itself.
THEOREM SplitKeepsRows == Spec => SplitPartitions
<1>1. AllInv /\ AllInv' /\ [Next]_vars =>
        [/\ \A b, c \in Unused : (b # c /\ heap'[b] # Free /\ heap'[c] # Free) =>
              \E f \in Frames : PartsOf(f, b, c)
         /\ \A b \in Blocks \ Unused, c \in Unused :
              (heap'[b].data # heap[b].data /\ heap'[c] # Free) =>
                 Divided(heap[b].data, b, c)]_vars
  BY NewParts, OldParts DEF AllInv
<1> QED
  BY <1>1, FrameInvHolds, PTL DEF Spec, SplitPartitions

=============================================================================
