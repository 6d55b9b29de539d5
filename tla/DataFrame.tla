------------------------------ MODULE DataFrame ------------------------------
(***************************************************************************)
(* Data frames of gaenari (gaenari/dataset/dataframe.hpp): C++ objects that*)
(* share a block of rows and count its users, each with a view of its own  *)
(* (row count, columns).  Rows come from a csv file (repository_csv) or    *)
(* from a query (supul/db/sqlite/impl/sqlite.repository.hpp); a dataset    *)
(* (gaenari/dataset/dataset.hpp) is three frames on one block.             *)
(*                                                                         *)
(* A frame whose operation threw is not used again but destroyed, as all   *)
(* callers do, and `read' is called on a fresh frame.                      *)
(***************************************************************************)
EXTENDS Csv

CONSTANTS
    Frames,    \* dataframe objects
    Blocks,    \* addresses of shared_data
    NoBlock,   \* the null pointer
    UseCols,   \* the lists of usecols that are passed to read
    Tables,    \* results of queries: header and rows
    Features,  \* the sets of names that select x or y columns; {}: the last column
    ColPicks,  \* the index lists that are passed to select
    RowPicks,  \* the index lists that are passed to deep_copy
    Growth,    \* auto_growth_initial_count: 2 in a debug build, 4 otherwise
    MaxFrames, \* bound: frames in use where no dataset is made
    MaxRows    \* bound: rows of all blocks together, a split aside

ASSUME BlockAssumption == NoBlock \notin Blocks
ASSUME FrameAssumption == IsFiniteSet(Frames)
ASSUME GrowthAssumption == Growth \in {2, 4}
ASSUME BoundAssumption == MaxRows \in Nat /\ MaxFrames \in Nat
ASSUME PickAssumption == ColPicks \cup RowPicks \subseteq Seq(Nat)

VARIABLES
    heap,    \* shared_data of every address, Free where there is none
    frames,  \* private_data and shared_data pointer of every frame
    load     \* the read in progress

frameVars == <<heap, frames, load>>
vars == <<file, cut, reader, client, out, heap, frames, load>>

DataTypes == {"unknown", "int", "int64", "double", "string", "string_table"}
Column == [name : Item, type : DataTypes, from : Nat]
\* `room' is the number of rows allocated, `count' is shared_count.
Block == [data : Seq(Seq(Item)), room : Nat, columns : Seq(Column), count : Int]
Free == [data |-> <<>>, room |-> 0, columns |-> <<>>, count |-> -1]
Frame == [block : Blocks \cup {NoBlock}, rows : Nat, picks : Seq(Nat),
          selected : BOOLEAN, thrown : BOOLEAN]
NoFrame == [block |-> NoBlock, rows |-> 0, picks |-> <<>>,
            selected |-> FALSE, thrown |-> FALSE]
Loading == [frame : Frames, kind : {"count", "frame", "query"}, usecols : UseCols \cup {<<>>},
            count : Nat, rest : Seq(Seq(Item))]
NotLoading == [kind |-> "none"]

BlockOf(f) == heap[frames[f].block]
Users(b) == {f \in Frames : frames[f].block = b}
Unused == {b \in Blocks : heap[b] = Free}
Fresh == {f \in Frames : frames[f] = NoFrame}
Spare(n) == Cardinality(Frames \ Fresh) + n <= MaxFrames
Usable(f) == frames[f].block # NoBlock /\ ~frames[f].thrown
Rows == MapThenSumSet(LAMBDA b : Len(heap[b].data), Blocks)
Quiet == load = NotLoading /\ client.kind = "none"

\* The column of a view is read through select_indexes when columns were selected.
Cols(f) == Len(frames[f].picks)
\* What the view of a frame shows.
View(f) == [r \in 1..frames[f].rows |->
              [c \in 1..Cols(f) |-> BlockOf(f).data[r][frames[f].picks[c]]]]

-----------------------------------------------------------------------------
(* Columns                                                                   *)

\* The numbers of a set in ascending order: its nth has n numbers up to it.
Ascending(S) ==
    [n \in 1..Cardinality(S) |->
       CHOOSE i \in S : Cardinality({j \in S : j <= i}) = n]

\* The kinds of usecols; a regular expression stands for the names it finds.
\* column_names.size() - _last_n wraps around when there are fewer columns.
Takes(u, names, i) ==
    CASE u.kind = "all" -> TRUE
      [] u.kind = "first_n" -> i <= u.n
      [] u.kind = "last_n" -> u.n <= Len(names) /\ i > Len(names) - u.n
      [] u.kind = "indexes" -> i \in u.set
      [] u.kind \in {"names", "regexes"} -> names[i] \in u.set

\* The last usecols that takes a column gives it its type; unknown drops it.
TypeOf(us, names, i) ==
    LET by == {k \in DOMAIN us : Takes(us[k], names, i)}
    IN  IF by = {} THEN "unknown" ELSE us[Max(by)].type
ColumnsOf(us, names) ==
    LET kept == {i \in DOMAIN names : TypeOf(us, names, i) # "unknown"}
        col(i) == [name |-> names[i], type |-> TypeOf(us, names, i), from |-> i]
    IN  [n \in 1..Cardinality(kept) |-> col(Ascending(kept)[n])]

\* An item of a csv file goes to a text column as it is, to a number column if it
\* is a number, and never to the ids of a string table.
Converts(type, item) ==
    \/ type = "string"
    \/ type \in {"int", "int64", "double"} /\ ~NoNumber(item)

\* get_usecols gives every field of a query the type its value converts to.
FieldType == [INTEGER |-> "int", SMALLINT |-> "int", TINYINT |-> "int",
              BIGINT |-> "int64", REAL |-> "double", TEXT |-> "string",
              TEXT_ID |-> "string_table"]
Fields(t) == [n \in 1..Len(t.header) |->
                [name |-> t.header[n], type |-> FieldType[t.types[n]], from |-> n]]

\* A usecols gives a type; a query has rows of texts, and a type for every field.
ASSUME UseColAssumption ==
    \A us \in UseCols :
      /\ Len(us) \in Nat /\ DOMAIN us = 1..Len(us)
      /\ \A k \in DOMAIN us : us[k].type \in DataTypes
ASSUME TableAssumption ==
    \A t \in Tables :
      /\ t.header \in Seq(STRING) /\ t.rows \in Seq(Seq(STRING))
      /\ \A n \in DOMAIN t.header : t.types[n] \in DOMAIN FieldType

-----------------------------------------------------------------------------
(* Reading                                                                   *)

NewBlock(b, columns, room) ==
    heap' = [heap EXCEPT ![b] = [data |-> <<>>, room |-> room,
                                 columns |-> columns, count |-> 0]]

\* read on a fresh frame: the block is there before the repository is opened.
BeginRead(f, b, us) ==
    /\ Quiet /\ f \in Fresh /\ Spare(1) /\ b \in Unused
    /\ NewBlock(b, <<>>, 0)
    /\ \/ /\ CanOpen
          /\ frames' = [frames EXCEPT ![f].block = b]
          /\ reader' = Opened(Closed) /\ client' = [kind |-> "count", end |-> "reading"]
          /\ load' = [frame |-> f, kind |-> "count", usecols |-> us, count |-> 0,
                      rest |-> <<>>]
       \/ /\ frames' = [frames EXCEPT ![f].block = b, ![f].thrown = TRUE]
          /\ UNCHANGED <<reader, client, load>>
    /\ UNCHANGED <<file, cut, out>>

Reading(kind) == load # NotLoading /\ load.kind = kind

\* The first pass of repository_csv::open counts the rows it can move to.
CountRow ==
    /\ Reading("count") /\ HasLine(reader)
    /\ \E its \in Parsed(file[reader.pos + 1]) :
         IF Refused(reader, its) THEN reader' = [Moved(reader, its) EXCEPT !.eof = TRUE]
                                      /\ UNCHANGED load
         ELSE reader' = Moved(reader, its) /\ load' = [load EXCEPT !.count = @ + 1]
    /\ UNCHANGED <<file, cut, client, out, heap, frames>>

\* The repository is closed; the next read is of another file.
CloseFile ==
    /\ load' = NotLoading
    /\ reader' = Closed /\ client' = [kind |-> "none", end |-> "done"]
    /\ file' = <<file[1]>> /\ cut' = FALSE

Throws(f) ==
    /\ frames' = [frames EXCEPT ![f].thrown = TRUE]
    /\ CloseFile

\* The file is opened again and the array allocated for the rows counted.
CountEnd ==
    LET columns == ColumnsOf(load.usecols, file[1])
    IN  /\ Reading("count") /\ ~HasLine(reader)
        /\ IF columns = <<>> THEN Throws(load.frame) /\ UNCHANGED heap
           ELSE /\ reader' = Opened(reader)
                /\ client' = [client EXCEPT !.kind = "frame"]
                /\ load' = [load EXCEPT !.kind = "frame"]
                /\ heap' = [heap EXCEPT ![frames[load.frame].block].columns = columns,
                                        ![frames[load.frame].block].room = load.count]
                /\ UNCHANGED <<frames, file, cut>>
        /\ UNCHANGED out

\* A row of the second pass, while there is room for it.
ReadRow ==
    LET b == frames[load.frame].block
    IN  /\ Reading("frame") /\ HasLine(reader) /\ Len(heap[b].data) < load.count
        /\ \E its \in Parsed(file[reader.pos + 1]) :
             LET columns == heap[b].columns
                 row(m) == [n \in DOMAIN columns |-> m.items[columns[n].from]]
             IN  IF Refused(reader, its)
                 THEN /\ reader' = [Moved(reader, its) EXCEPT !.eof = TRUE]
                      /\ UNCHANGED <<file, cut, client, heap, frames, load>>
                 ELSE IF \E n \in DOMAIN columns :
                           ~Converts(columns[n].type, Moved(reader, its).items[columns[n].from])
                 THEN Throws(load.frame) /\ UNCHANGED heap
                 ELSE /\ reader' = Moved(reader, its)
                      /\ heap' = [heap EXCEPT ![b].data = Append(@, row(reader'))]
                      /\ UNCHANGED <<file, cut, client, frames, load>>
        /\ UNCHANGED out

\* Mutant: the last row is not counted.
WholeMutant(f) == [frames EXCEPT ![f].rows = Len(BlockOf(f).data) - 1,
                                 ![f].picks = [n \in DOMAIN BlockOf(f).columns |-> n]]
\* The view of a frame that shows its whole block.
Whole(f) == [frames EXCEPT ![f].rows = Len(BlockOf(f).data),
                           ![f].picks = [n \in DOMAIN BlockOf(f).columns |-> n]]

EndRead ==
    /\ Reading("frame")
    /\ ~HasLine(reader) \/ Len(BlockOf(load.frame).data) >= load.count
    /\ frames' = Whole(load.frame)
    /\ CloseFile
    /\ UNCHANGED <<out, heap>>

\* A query does not know its row count: the array starts with a few rows.
\* (No csv file is being written meanwhile: a bound.)
BeginQuery(f, b, t) ==
    /\ Quiet /\ f \in Fresh /\ Spare(1) /\ b \in Unused /\ Len(file) = 1
    /\ Rows + Len(t.rows) <= MaxRows
    /\ NewBlock(b, Fields(t), Growth)
    /\ frames' = [frames EXCEPT ![f].block = b]
    /\ load' = [frame |-> f, kind |-> "query", usecols |-> <<>>, count |-> Growth,
                rest |-> t.rows]
    /\ UNCHANGED csvVars

\* Mutant: the array grows by half of its half.
GrownMutant(n) == n + n \div 4
\* The array grows by half when it is full.
Grown(n) == n + n \div 2

QueryRow ==
    LET b == frames[load.frame].block
        full == Len(heap[b].data) = load.count
        room == IF full THEN Grown(load.count) ELSE load.count
    IN  /\ Reading("query") /\ load.rest # <<>>
        /\ heap' = [heap EXCEPT ![b].data = Append(@, Head(load.rest)), ![b].room = room]
        /\ load' = [load EXCEPT !.rest = Tail(@), !.count = room]
        /\ UNCHANGED <<csvVars, frames>>

\* The end of the rows; or memory for the growth runs out, an exception that the
\* repository swallows: the frame ends there, as if there were no more rows.
EndQuery ==
    /\ Reading("query")
    /\ load.rest = <<>> \/ Len(BlockOf(load.frame).data) = load.count
    /\ frames' = Whole(load.frame) /\ load' = NotLoading
    /\ UNCHANGED <<csvVars, heap>>

\* The database is busy or fails, before any row or after it: the repository lets the
\* caller of read see that.
QueryFails ==
    /\ Reading("query")
    /\ frames' = [frames EXCEPT ![load.frame].thrown = TRUE] /\ load' = NotLoading
    /\ UNCHANGED <<csvVars, heap>>

-----------------------------------------------------------------------------
(* Frames and blocks                                                         *)

\* clear, and the destructor: the last user frees the block.
Dropped(h, b) ==
    IF b = NoBlock THEN h
    ELSE IF h[b].count > 0 THEN [h EXCEPT ![b].count = @ - 1] ELSE [h EXCEPT ![b] = Free]

Clear(f) ==
    /\ Quiet /\ frames[f].block # NoBlock
    /\ heap' = Dropped(heap, frames[f].block)
    /\ frames' = [frames EXCEPT ![f] = NoFrame]
    /\ UNCHANGED <<csvVars, load>>

\* Mutant: the users of the new block are not counted.
SharedMutant(h, f, b) == Dropped(h, frames[f].block)
\* operator=, shallow_copy and the copy constructor.  A frame of the same block
\* only takes over the view.
Shared(h, f, b) ==
    IF frames[f].block = b THEN h
    ELSE [Dropped(h, frames[f].block) EXCEPT ![b].count = @ + 1]

Assign(f, g) ==
    /\ Quiet /\ f # g /\ Usable(g) /\ ~frames[f].thrown
    /\ f \in Fresh => Spare(1)
    /\ heap' = Shared(heap, f, frames[g].block)
    /\ frames' = [frames EXCEPT ![f] = frames[g]]
    /\ UNCHANGED <<csvVars, load>>

\* select is refused on a frame that is selected already; no index at all brings
\* back every row and column of the block.  Indexes may repeat.  (An index that is
\* no column throws, and leaves the columns of the view half changed.)
Select(f, s) ==
    /\ Quiet /\ Usable(f) /\ ~frames[f].selected
    /\ ToSet(s) \subseteq DOMAIN BlockOf(f).columns
    /\ frames' = IF s = <<>> THEN Whole(f)
                 ELSE [frames EXCEPT ![f].selected = TRUE, ![f].picks = s,
                                     ![f].rows = Len(BlockOf(f).data)]
    /\ UNCHANGED <<csvVars, heap, load>>

\* deep_copy: the rows named, or all of them when none is named; a frame keeps its
\* selection of columns, and the block keeps them all.
RowsAt(data, s) == IF s = <<>> THEN data ELSE [n \in DOMAIN s |-> data[s[n]]]
Copied(b, s) == [b EXCEPT !.data = RowsAt(@, s), !.count = 0,
                          !.room = IF s = <<>> THEN Len(b.data) ELSE Len(s)]
ViewOfCopy(f, b, s) ==
    [frames[f] EXCEPT !.block = b, !.rows = IF s = <<>> THEN @ ELSE Len(s)]

DeepCopy(f, g, b, s) ==
    /\ Quiet /\ Usable(f) /\ g \in Fresh /\ Spare(1) /\ b \in Unused
    /\ ToSet(s) \subseteq DOMAIN BlockOf(f).data
    /\ Rows + Len(RowsAt(BlockOf(f).data, s)) <= MaxRows
    /\ heap' = [heap EXCEPT ![b] = Copied(BlockOf(f), s)]
    /\ frames' = [frames EXCEPT ![g] = ViewOfCopy(f, b, s)]
    /\ UNCHANGED <<csvVars, load>>

\* random_shuffle_with_split: at least one row goes to the second part, not all (for
\* two rows or more), and both parts are in ascending order.
Parts(n) ==
    {Ascending(S) : S \in {S \in SUBSET (1..n) : S # {} /\ S # 1..n}}
\* Mutant: the parts are left in the order of the shuffle.
RestMutant(n, second) == SetToSortSeq(1..n \ ToSet(second), >)
Rest(n, second) == Ascending(1..n \ ToSet(second))

\* The rows that stay are moved to the top of their own array, one after the other.
MovedUp(data, first) ==
    LET moved[n \in 0..Len(first)] ==
          IF n = 0 THEN data ELSE [moved[n - 1] EXCEPT ![n] = moved[n - 1][first[n]]]
    IN  SubSeq(moved[Len(first)], 1, Len(first))
Shrunk(b, first) == [b EXCEPT !.data = MovedUp(@, first), !.room = Len(first)]

\* split: a full deep copy g that is shrunk in place, and h with the rows taken out.
\* (With a single row the first part is empty; see the hazard at realloc.)
Split(f, g, h, b, c) ==
    /\ Quiet /\ Usable(f) /\ {g, h} \subseteq Fresh /\ g # h /\ Spare(2)
    /\ {b, c} \subseteq Unused /\ b # c
    /\ \E second \in Parts(Len(BlockOf(f).data)) :
         LET first == Rest(Len(BlockOf(f).data), second)
             all   == Copied(BlockOf(f), <<>>)
         IN  /\ heap' = [heap EXCEPT ![b] = Shrunk(all, first), ![c] = Copied(all, second)]
             /\ frames' = [frames EXCEPT
                             ![g] = [ViewOfCopy(f, b, <<>>) EXCEPT !.rows = Len(first)],
                             ![h] = ViewOfCopy(f, c, second)]
    /\ UNCHANGED <<csvVars, load>>

\* split_with_shrink: the same on the block of f itself, whose rows are moved under
\* every frame that shares it.  "an access error may occur in the other dataframe
\* referenced to this dataframe": a caller must have the block for itself.
SplitWithShrink(f, h, c) ==
    LET b == frames[f].block
    IN  /\ Quiet /\ Usable(f) /\ BlockOf(f).count = 0
        /\ h \in Fresh /\ Spare(1) /\ c \in Unused
        /\ \E second \in Parts(Len(BlockOf(f).data)) :
             LET first == Rest(Len(BlockOf(f).data), second)
             IN  /\ heap' = [heap EXCEPT ![b] = Shrunk(@, first),
                                         ![c] = Copied(BlockOf(f), second)]
                 /\ frames' = [frames EXCEPT ![f].rows = Len(first),
                                             ![h] = ViewOfCopy(f, c, second)]
        /\ UNCHANGED <<csvVars, load>>

\* append: the rows of another block with the same columns, at the end of this one.
\* The other frames of this block keep their row counts.
\* Mutant: the rows are put before those that are there.
AppendedMutant(b, c) == [b EXCEPT !.data = c.data \o @, !.room = Len(b.data) + Len(c.data)]
Appended(b, c) == [b EXCEPT !.data = @ \o c.data, !.room = Len(b.data) + Len(c.data)]

AppendFrame(f, g) ==
    LET b == frames[f].block
    IN  /\ Quiet /\ Usable(f) /\ Usable(g) /\ frames[g].block # b
        /\ ~frames[f].selected /\ BlockOf(f).columns = BlockOf(g).columns
        /\ Rows + Len(BlockOf(g).data) <= MaxRows
        /\ heap' = [heap EXCEPT ![b] = Appended(@, BlockOf(g))]
        /\ frames' = [frames EXCEPT ![f].rows = Len(heap'[b].data)]
        /\ UNCHANGED <<csvVars, load>>

-----------------------------------------------------------------------------
(* A dataset                                                                 *)

\* feature_select: by names and regular expressions, or the last column and the rest.
XIndexes(columns, xs) ==
    IF xs = {} THEN 1..(Len(columns) - 1)
    ELSE {i \in DOMAIN columns : columns[i].name \in xs}
YIndexes(columns, ys) ==
    IF ys = {} THEN {Len(columns)} ELSE {i \in DOMAIN columns : columns[i].name \in ys}

\* The constructor: the frame itself, its x and its y columns.  It throws, and
\* drops what it had copied, on fewer than two columns, without an x or a y column,
\* and on a frame that is selected.
Dataset(f, d, x, y, xs, ys) ==
    LET b  == frames[f].block
        xi == XIndexes(BlockOf(f).columns, xs)
        yi == YIndexes(BlockOf(f).columns, ys)
        picked(S) == [frames[f] EXCEPT !.selected = TRUE, !.picks = Ascending(S),
                                       !.rows = Len(heap[b].data)]
    IN  /\ Quiet /\ Usable(f) /\ {d, x, y} \subseteq Fresh /\ Cardinality({d, x, y}) = 3
        /\ Len(BlockOf(f).columns) > 1 /\ ~frames[f].selected
        /\ xi # {} /\ yi # {}
        /\ heap' = [heap EXCEPT ![b].count = @ + 3]
        /\ frames' = [frames EXCEPT ![d] = frames[f], ![x] = picked(xi),
                                    ![y] = picked({Min(yi)})]
        /\ UNCHANGED <<csvVars, load>>

-----------------------------------------------------------------------------

Init ==
    /\ CsvInit
    /\ heap = [b \in Blocks |-> Free]
    /\ frames = [f \in Frames |-> NoFrame]
    /\ load = NotLoading

\* One thread: a read is not interleaved with other operations, but the program that
\* appends to the file may run at any point of it.
ReadNext ==
    \/ CountRow \/ CountEnd \/ ReadRow \/ EndRead \/ QueryRow \/ EndQuery
    \/ QueryFails
    \/ \E f \in Frames, b \in Blocks :
         \/ \E us \in UseCols : BeginRead(f, b, us)
         \/ \E t \in Tables : BeginQuery(f, b, t)

ShareNext ==
    \/ \E f \in Frames : Clear(f)
    \/ \E f \in Frames : \E s \in ColPicks : Select(f, s)
    \/ \E f, g \in Frames : Assign(f, g) \/ AppendFrame(f, g)
    \/ \E f, g, h \in Frames, b, c \in Blocks : Split(f, g, h, b, c)
    \/ \E f, g \in Frames, b \in Blocks :
         SplitWithShrink(f, g, b) \/ \E s \in RowPicks : DeepCopy(f, g, b, s)
    \/ \E f, d, x, y \in Frames :
         \E xs, ys \in Features : Dataset(f, d, x, y, xs, ys)

\* The clients of Csv that have no frame share nothing with the frames: they run
\* while there are none.
Next ==
    \/ ReadNext \/ ShareNext
    \/ CsvNext /\ Fresh = Frames /\ UNCHANGED frameVars
    \/ Writes /\ ~Quiet /\ UNCHANGED frameVars

Spec == Init /\ [][Next]_vars

-----------------------------------------------------------------------------
(* Properties                                                                *)

\* The type of every variable.
TypeOK ==
    /\ CsvTypeOK
    /\ heap \in [Blocks -> Block] /\ frames \in [Frames -> Frame]
    /\ load = NotLoading \/ load \in Loading

\* A block counts its users beyond the first, and is there exactly as long as some
\* frame points to it: no frame is left with a freed block, no block without a frame.
BlocksAreShared ==
    /\ \A b \in Blocks : heap[b].count = Cardinality(Users(b)) - 1
    /\ \A b \in Blocks : heap[b] = Free <=> Users(b) = {}

\* What get_row hands out as a bare pointer and get_raw reads by a flat index is
\* inside the array: rows and columns of every view, and rows written by read.
ViewsInBounds ==
    /\ \A b \in Blocks : Len(heap[b].data) <= heap[b].room
    /\ \A f \in Frames : Usable(f) =>
         /\ frames[f].rows <= Len(BlockOf(f).data)
         /\ ToSet(frames[f].picks) \subseteq DOMAIN BlockOf(f).columns

\* "the immutable shared_data can not be changed": no step changes what two frames
\* show, and what one frame shows changes only when the operation was on that frame (it
\* set the view of it), or on a block that no other frame has.  An operation on one
\* frame never shows in another, whatever block they share.
Shown == {f \in Frames : Usable(f) /\ Usable(f)' /\ View(f)' # View(f)}
OneViewChanges ==
    [][/\ Cardinality(Shown) <= 1
       /\ \A f \in Shown : frames'[f] # frames[f] \/ Users(frames[f].block) = {f}]_vars

Occurs(s, v) == Cardinality({i \in DOMAIN s : s[i] = v})
\* A split gives every row of the block to exactly one of the two results, although
\* one of them is compacted in place: the blocks it makes, in the only step that makes
\* two, or the block it shrinks and the one it makes.
Divided(data, b, c) ==
    /\ Len(heap'[b].data) + Len(heap'[c].data) = Len(data)
    /\ \A v \in ToSet(data) :
         Occurs(heap'[b].data, v) + Occurs(heap'[c].data, v) = Occurs(data, v)
PartsOf(f, b, c) ==
    /\ Usable(f) /\ heap'[frames[f].block] = BlockOf(f)
    /\ Divided(BlockOf(f).data, b, c)
SplitPartitions ==
    [][/\ \A b, c \in Unused : (b # c /\ heap'[b] # Free /\ heap'[c] # Free) =>
            \E f \in Frames : PartsOf(f, b, c)
       /\ \A b \in Blocks \ Unused, c \in Unused :
            (heap'[b].data # heap[b].data /\ heap'[c] # Free) =>
               Divided(heap[b].data, b, c)]_vars

\* The rows counted by the first pass over a file are the rows the second one reads,
\* in order and up to the count, though the file grows meanwhile: a frame is not torn
\* between two states of the file.  Only the last line counted may have been written
\* in part when it was counted or read: then the frame has the part that was read, or
\* ends one row short because the whole line is too long.
CountedIsRead ==
    [][(Reading("frame") /\ load' = NotLoading /\ ~frames'[load.frame].thrown) =>
         LET b == BlockOf(load.frame)
             last == file[load.count + 1]
             shows(row, line) ==
               \A n \in DOMAIN b.columns : row[n] = line[b.columns[n].from]
         IN  /\ \/ Len(b.data) = load.count
                \/ Len(b.data) + 1 = load.count /\ Len(last) # NumberOf(reader)
             /\ \A i \in DOMAIN b.data :
                  \/ shows(b.data[i], file[i + 1])
                  \/ i = load.count /\ \E l \in Begun(last) :
                       Len(l) = NumberOf(reader) /\ shows(b.data[i], l)]_vars

=============================================================================
