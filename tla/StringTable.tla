----------------------------- MODULE StringTable -----------------------------
(***************************************************************************)
(* The string table of supul (supul/supul/impl/string_table.hpp, with the  *)
(* container of gaenari/common/string_table.hpp).  A text column stores    *)
(* the id of its text.  Ids are handed out in the memory of an object that *)
(* has the database open; insert_chunk_csv writes the new texts ("flush")  *)
(* at its end, in the transaction that holds its rows.  A transaction that *)
(* is rolled back takes the rows and the texts out of the database, never  *)
(* the texts out of the memory.                                            *)
(*                                                                         *)
(* Several objects, in one process or more, may have the database open.    *)
(* Those in Writers insert, the others predict and report.  Ids begin at   *)
(* 0, so the text of id i is element i + 1 of a table.                     *)
(***************************************************************************)
EXTENDS Integers, Sequences, FiniteSets

CONSTANTS
    Objects,   \* objects that may open the database
    Writers,   \* those of them that insert
    Nobody,    \* no object
    Texts,     \* texts of a TEXT_ID column
    MaxRows    \* bound: rows in the database

ASSUME ObjectAssumption == Writers \subseteq Objects /\ Nobody \notin Objects
ASSUME BoundAssumption == MaxRows \in Nat

VARIABLES
    disk,    \* the committed database: its string table and its rows
    db,      \* the database as the open transaction sees it
    table,   \* string_table::strings of every object
    opened,  \* the objects that have the database open
    writer,  \* the object in an exclusive transaction
    next     \* next id that flush writes; -1 while rows are still added

vars == <<disk, db, table, opened, writer, next>>

\* A row is the id it stores; `text' is what its CSV file said.
Row      == [id : Nat, text : Texts]
Database == [strings : Seq(Texts), rows : Seq(Row)]

Init ==
    /\ disk = [strings |-> <<>>, rows |-> <<>>] /\ db = disk
    /\ table = [o \in Objects |-> <<>>]
    /\ opened = {} /\ writer = Nobody /\ next = -1

\* load adds the committed string table, row by row with the ids: a text that is
\* there with its id stays, a new one gets the next id.  The object may have texts
\* from the time before it was shut.
Loaded(t, s) == IF Len(s) <= Len(t) THEN t ELSE s
\* (When the two disagree, which takes two objects that insert, load throws or mixes
\* them; that is left out.)
Agree(t, s) == \A i \in DOMAIN t \cap DOMAIN s : t[i] = s[i]

Open(o) ==
    /\ o \notin opened /\ Agree(table[o], disk.strings)
    /\ opened' = opened \cup {o}
    /\ table' = [table EXCEPT ![o] = Loaded(@, disk.strings)]
    /\ UNCHANGED <<disk, db, writer, next>>

\* begin exclusive: fails at once while another object is in a transaction.
Begin(o) ==
    /\ o \in opened \cap Writers /\ writer = Nobody
    /\ writer' = o
    /\ UNCHANGED <<disk, db, table, opened, next>>

\* string_table::add: the id of a known text, the lowest if it was added twice,
\* or the next id.
Known(t, s) == {i \in 1..Len(t) : t[i] = s}
FirstKnown(t, s) == CHOOSE i \in Known(t, s) : \A j \in Known(t, s) : i <= j
\* Mutant: the text is only looked up (get_id), -1 when it is new.
IdOfMutant(t, s) == IF Known(t, s) = {} THEN -1 ELSE FirstKnown(t, s) - 1
IdOf(t, s) == IF Known(t, s) = {} THEN Len(t) ELSE FirstKnown(t, s) - 1
\* Mutant: a new text is put before the others.
AddedMutant(t, s) == IF Known(t, s) = {} THEN <<s>> \o t ELSE t
Added(t, s) == IF Known(t, s) = {} THEN Append(t, s) ELSE t

\* One row of the loop of insert_chunk_csv.
AddRow(o, s) ==
    /\ writer = o /\ next = -1
    /\ Len(db.rows) < MaxRows
    /\ table' = [table EXCEPT ![o] = Added(@, s)]
    /\ db' = [db EXCEPT !.rows = Append(@, [id |-> IdOf(table[o], s), text |-> s])]
    /\ UNCHANGED <<disk, opened, writer, next>>

\* get_string_table_last_id answers 0 for an empty table.
LastId(d) == IF d.strings = <<>> THEN 0 ELSE Len(d.strings) - 1
\* Mutant: flush does not treat an empty string table apart.
FlushFromMutant(d) == LastId(d) + 1
FlushFrom(d) == IF d.strings = <<>> THEN 0 ELSE LastId(d) + 1

Flush(o) ==
    /\ writer = o /\ next = -1
    /\ next' = FlushFrom(db)
    /\ UNCHANGED <<disk, db, table, opened, writer>>

\* Ids up to get_last_id of the memory are written, one record at a time.
FlushOne(o) ==
    /\ writer = o /\ next # -1 /\ next < Len(table[o])
    /\ db' = [db EXCEPT !.strings = Append(@, table[o][next + 1])]
    /\ next' = next + 1
    /\ UNCHANGED <<disk, table, opened, writer>>

Commit(o) ==
    /\ writer = o /\ next # -1 /\ next >= Len(table[o])
    /\ disk' = db
    /\ writer' = Nobody /\ next' = -1
    /\ UNCHANGED <<db, table, opened>>

\* An exception at any point, a commit that fails included: the destructor of
\* transaction_guard rolls back, the object and its table live on.
Rollback(o) ==
    /\ writer = o
    /\ db' = disk
    /\ writer' = Nobody /\ next' = -1
    /\ UNCHANGED <<disk, table, opened>>

\* The object is destroyed, or its process ends: the open transaction is rolled
\* back and the table is gone.
Close(o) ==
    /\ o \in opened
    /\ opened' = opened \ {o}
    /\ table' = [table EXCEPT ![o] = <<>>]
    /\ IF writer = o THEN db' = disk /\ writer' = Nobody /\ next' = -1
       ELSE UNCHANGED <<db, writer, next>>
    /\ UNCHANGED disk

\* The object is closed, by close or by open again, between two calls.
\* string_table::deinit clears nothing: the texts stay.
Shut(o) ==
    /\ o \in opened /\ writer # o
    /\ opened' = opened \ {o}
    /\ UNCHANGED <<disk, db, table, writer, next>>

Next == \E o \in Objects :
           \/ Open(o) \/ Shut(o) \/ Begin(o) \/ \E s \in Texts : AddRow(o, s)
           \/ Flush(o) \/ FlushOne(o) \/ Commit(o) \/ Rollback(o) \/ Close(o)

Spec == Init /\ [][Next]_vars

-----------------------------------------------------------------------------
(* Properties                                                                *)

\* The type of every variable.
TypeOK ==
    /\ disk \in Database /\ db \in Database
    /\ table \in [Objects -> Seq(Texts)]
    /\ opened \subseteq Objects /\ writer \in opened \cup {Nobody}
    /\ next \in Nat \cup {-1}

\* "TEXT_ID use index stored in a string table": the id of every committed row is
\* in the committed string table, with the text the row's file had.
RowsKeepTheirText ==
    \A k \in 1..Len(disk.rows) :
        LET r == disk.rows[k]
        IN  r.id < Len(disk.strings) /\ disk.strings[r.id + 1] = r.text

\* An id never means two texts: what an object has in memory, rolled back texts
\* included, and what the database holds agree as far as both go.
IdsMeanOneText ==
    \A o \in opened : \A i \in 1..Len(table[o]) :
        i <= Len(disk.strings) => table[o][i] = disk.strings[i]

Extends(t, s) == Len(s) <= Len(t) /\ \A i \in 1..Len(s) : t[i] = s[i]

\* What makes the two inductive with one writer: the committed table begins the
\* table of the transaction, which begins that of the writer, open or shut, unless it
\* is gone; the others lag behind the committed one; and rows are judged by the
\* writer's table until the flush is over.
WriterAhead ==
    /\ \A o \in Writers :
         (o \in opened \/ table[o] # <<>>) => Extends(table[o], db.strings)
    /\ \A o \in Objects \ Writers : Extends(disk.strings, table[o])
    /\ Extends(db.strings, disk.strings)
    /\ writer = Nobody => db = disk /\ next = -1
    /\ writer # Nobody =>
         /\ writer \in Writers
         /\ next # -1 => next = Len(db.strings)
         /\ \A k \in 1..Len(db.rows) :
              LET r == db.rows[k]
              IN  r.id < Len(table[writer]) /\ table[writer][r.id + 1] = r.text

Inductive == TypeOK /\ RowsKeepTheirText /\ IdsMeanOneText /\ WriterAhead

=============================================================================
