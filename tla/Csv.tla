--------------------------------- MODULE Csv ---------------------------------
(***************************************************************************)
(* The csv reader of gaenari (gaenari/dataset/csv.hpp) and those that read *)
(* through it: insert_chunk_csv, for_each_csv and a program that uses      *)
(* csv_reader itself.  A line is the sequence of its items, the first line *)
(* of the file is the header, and another program may append lines while   *)
(* the file is read, in one write or in two.  A reader that fails and a    *)
(* reader at the end of the file look alike to all of them: each passes a  *)
(* null `err'.                                                             *)
(***************************************************************************)
EXTENDS Integers, Sequences, FiniteSets, SequencesExt

CONSTANTS
    Headers,   \* headers a file may have
    Lines,     \* lines a file may have below its header
    Words,     \* items that are no numbers (std::stoll throws)
    Extra,     \* names that for_each_csv's converter may append to the header
    MaxLines   \* bound: lines of the file

ASSUME LineAssumption ==
    /\ Headers \cup Lines \cup {<<>>} \subseteq Seq(STRING)
    /\ Words \cup Extra \subseteq STRING
ASSUME MaxLinesAssumption == MaxLines \in Nat \ {0}

VARIABLES
    file,    \* the lines of the file
    cut,     \* whether the last line has no line break yet
    reader,  \* the csv_reader
    client,  \* who is reading, and how it ended
    out      \* the rows it was given

csvVars == <<file, cut, reader, client, out>>

\* An item: of the file, the empty one that fills up a row, or one that a converter adds.
Item == STRING \cup {"", "+"}

\* `header' and `index' (header_index_map) differ after a duplicate name only.
Reader == [pos : Nat, eof : BOOLEAN, header : Seq(Item), index : SUBSET Item,
           items : Seq(Item), converted : BOOLEAN, skip : BOOLEAN, force : BOOLEAN]
Closed == [pos |-> 0, eof |-> FALSE, header |-> <<>>, index |-> {}, items |-> <<>>,
           converted |-> FALSE, skip |-> FALSE, force |-> FALSE]

Clients == {"none", "chunk", "each", "caller", "count", "frame"}
Ends == {"reading", "done", "failed"}

\* What stands in the file of a line that is being written: its first items, of which
\* the last is there or still empty.
Begun(l) ==
    {SubSeq(l, 1, n) : n \in 1..Len(l)} \cup
    {Append(SubSeq(l, 1, n), "") : n \in 1..Len(l) - 1}

-----------------------------------------------------------------------------
(* The reader                                                                *)

NoDuplicates(s) == IsInjective(s)
NumberOf(r) == Cardinality(r.index)

\* csv_reader::open reads the header; a name that occurs twice fails it, and so does
\* a file that is not there.
CanOpen == file # <<>> /\ file[1] # <<>> /\ NoDuplicates(file[1])
\* Mutant: the first row is taken for a second header.
OpenedTwiceMutant(r) ==
    [Closed EXCEPT !.pos = 2, !.header = file[1], !.index = ToSet(file[1]),
                   !.converted = r.converted]
\* Mutant: the end of the file that was met before stays.
OpenedMutant(r) ==
    [r EXCEPT !.pos = 1, !.header = file[1], !.index = ToSet(file[1]), !.items = <<>>]
\* The close at the begin of open clears the flags, header_converted it leaves.
Opened(r) ==
    [Closed EXCEPT !.pos = 1, !.header = file[1], !.index = ToSet(file[1]),
                   !.converted = r.converted]

\* build_header_map stops at the first name it has seen before.
Converted(r, h) ==
    LET fresh == {i \in DOMAIN h : IsInjective(SubSeq(h, 1, i))}
    IN  [r EXCEPT !.converted = @ \/ h # r.header, !.header = h,
                  !.index = {h[i] : i \in fresh}]

\* parse_delim of an empty line looks at the last character of an empty string,
\* which is undefined: no item, or one empty item.
Parsed(line) == IF line = <<>> THEN {<<>>, <<"">>} ELSE {line}

\* std::stoll and its like throw at an empty item too.
NoNumber(item) == item \in Words \cup {""}

Padded(r, its) == its \o [i \in 1..(NumberOf(r) - Len(its)) |-> ""]

\* verify_row_data.  The flag that should move on to the next line refuses the row.
Fits(r, its) == Len(its) = NumberOf(r) \/ (~r.converted /\ ~r.skip /\ r.force)
\* Mutant: a short row is accepted as it is.
VerifiedMutant(r, its) == its
Verified(r, its) == IF Len(its) < NumberOf(r) THEN Padded(r, its) ELSE its

\* line_reader::readline.  The end of the file stays once it was met.
HasLine(r) == ~r.eof /\ r.pos < Len(file)

\* move_next_row with a line at hand.  A last line without a line break is read as it
\* is, and with it the end of the file was met.
Moved(r, its) ==
    [r EXCEPT !.pos = @ + 1, !.eof = cut /\ r.pos + 1 = Len(file),
              !.items = IF ~r.converted /\ Fits(r, its) THEN Verified(r, its) ELSE its]
Refused(r, its) == ~r.converted /\ ~Fits(r, its)

-----------------------------------------------------------------------------
(* Those that read                                                           *)

CsvInit ==
    /\ file \in {<<h>> : h \in Headers} /\ cut = FALSE
    /\ reader = Closed /\ client = [kind |-> "none", end |-> "done"] /\ out = <<>>

\* Another program appends a line.
AppendLine ==
    /\ ~cut /\ Len(file) < MaxLines
    /\ \E l \in Lines : file' = Append(file, l)
    /\ UNCHANGED <<cut, reader, client, out>>

\* It writes a part of a line, and the rest of it later.
BeginLine ==
    /\ ~cut /\ Len(file) < MaxLines
    /\ \E l \in Lines : \E b \in Begun(l) : file' = Append(file, b)
    /\ cut' = TRUE
    /\ UNCHANGED <<reader, client, out>>

EndLine ==
    /\ cut /\ cut' = FALSE
    /\ \E l \in Lines : /\ file[Len(file)] \in Begun(l)
                        /\ file' = [file EXCEPT ![Len(file)] = l]
    /\ UNCHANGED <<reader, client, out>>

Writes == AppendLine \/ BeginLine \/ EndLine

Idle == client.end # "reading"

Start(kind) ==
    /\ Idle /\ out' = <<>>
    /\ \/ /\ CanOpen
          /\ reader' = Opened(Closed) /\ client' = [kind |-> kind, end |-> "reading"]
       \/ reader' = Closed /\ client' = [kind |-> kind, end |-> "failed"]
    /\ UNCHANGED <<file, cut>>

\* A program may set the two flags once the file is open.
SetFlags ==
    /\ client = [kind |-> "caller", end |-> "reading"] /\ reader.pos = 1
    /\ \E s, f \in BOOLEAN : reader' = [reader EXCEPT !.skip = s, !.force = f]
    /\ UNCHANGED <<file, cut, client, out>>

\* for_each_csv asks its converter for a header, that may have more names.
ConvertHeader ==
    /\ client = [kind |-> "each", end |-> "reading"]
    /\ reader.pos = 1 /\ ~reader.converted
    /\ \E n \in Extra :
         /\ reader' = Converted(reader, Append(reader.header, n))
         /\ client' = [client EXCEPT !.end =
                         IF NoDuplicates(reader'.header) THEN "reading" ELSE "failed"]
    /\ UNCHANGED <<file, cut, out>>

\* What a client does with the row it was given.  insert_chunk_csv leaves by an
\* exception at an item that is no number, in the column of a number; the converter
\* of for_each_csv appends the item of its new column or forgets to, and the row is
\* verified after that.
UseRow(its) ==
    \/ /\ client.kind \in {"chunk", "caller"}
       /\ out' = Append(out, its) /\ UNCHANGED client
    \/ /\ client.kind = "chunk" /\ \E n \in DOMAIN its : NoNumber(its[n])
       /\ client' = [client EXCEPT !.end = "failed"] /\ UNCHANGED out
    \/ /\ client.kind = "each"
       /\ \E row \in IF reader.converted THEN {its, Append(its, "+")} ELSE {its} :
            IF Fits(reader, row)
            THEN out' = Append(out, row) /\ UNCHANGED client
            ELSE client' = [client EXCEPT !.end = "failed"] /\ UNCHANGED out

\* One turn of the loop of a client.
NextRow ==
    /\ client.end = "reading" /\ client.kind \in {"chunk", "each", "caller"}
    /\ HasLine(reader)
    /\ \E its \in Parsed(file[reader.pos + 1]) :
         /\ reader' = Moved(reader, its)
         /\ IF Refused(reader, its)
            THEN client' = [client EXCEPT !.end = "done"] /\ UNCHANGED out
            ELSE UseRow(reader'.items)
    /\ UNCHANGED <<file, cut>>

EndOfFile ==
    /\ client.end = "reading" /\ client.kind \in {"chunk", "each", "caller"}
    /\ ~HasLine(reader)
    /\ reader' = [reader EXCEPT !.eof = TRUE]
    /\ client' = [client EXCEPT !.end = "done"]
    /\ UNCHANGED <<file, cut, out>>

CsvNext ==
    \/ Writes \/ SetFlags \/ ConvertHeader \/ NextRow \/ EndOfFile
    \/ \E kind \in {"chunk", "each", "caller"} : Start(kind)

-----------------------------------------------------------------------------
(* Properties                                                                *)

CsvTypeOK ==
    /\ file \in Seq(Seq(Item)) /\ cut \in BOOLEAN /\ reader \in Reader
    /\ client \in [kind : Clients, end : Ends]
    /\ out \in Seq(Seq(Item))

\* Every consumer takes the items of a row by the index of a header column without
\* looking at their number: no row that is handed over is shorter than the header,
\* whatever the file, the flags and the converter did.
RowsFitHeader ==
    \A i \in DOMAIN out : Len(out[i]) >= Cardinality(reader.index)

\* Rows are handed over in the order of the file, each from a line of its own.  Of the
\* lines before the last one handed over, none is left out but those with another
\* number of items than the header, and those only if the program set the flag for it.
\* A row is its line, an item that was padded, converted or unreadable aside; only the
\* last one may come from a line that was not whole when it was read.
FromLine(line, row) == line = <<>> \/ IsPrefix(line, row)
RowsInOrder ==
    \E at \in [DOMAIN out -> 2..Len(file)] :
        /\ \A i, j \in DOMAIN out : i < j => at[i] < at[j]
        /\ \A i \in DOMAIN out :
             \/ FromLine(file[at[i]], out[i])
             \/ i = Len(out) /\ \E b \in Begun(file[at[i]]) : FromLine(b, out[i])
        /\ \A i \in DOMAIN out : \A k \in 2..at[i] :
             \/ \E j \in DOMAIN out : at[j] = k
             \/ reader.skip /\ Len(file[k]) # NumberOf(reader)

=============================================================================
