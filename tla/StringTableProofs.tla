-------------------------- MODULE StringTableProofs --------------------------
(***************************************************************************)
(* With one writer the ids stored in the database mean their text, for any *)
(* number of objects, texts and rows, whatever is rolled back or closed.   *)
(***************************************************************************)
EXTENDS StringTable, TLAPS, SequenceTheorems, WellFoundedInduction

\* No two different objects insert.
OneWriter == \A o, p \in Writers : o = p

-----------------------------------------------------------------------------
(* Tables                                                                    *)

\* The table that add returns has the text at the id that add returns, and what
\* it had before.
LEMMA AddFinds ==
    ASSUME NEW t \in Seq(Texts), NEW s \in Texts
    PROVE  /\ Added(t, s) \in Seq(Texts) /\ Extends(Added(t, s), t)
           /\ IdOf(t, s) \in Nat /\ IdOf(t, s) < Len(Added(t, s))
           /\ Added(t, s)[IdOf(t, s) + 1] = s
  <1>1. CASE Known(t, s) = {}
    BY <1>1 DEF Added, IdOf, Extends
  <1>2. CASE Known(t, s) # {}
    <2>1. Known(t, s) \in SUBSET Nat
      BY DEF Known
    <2>2. \E i \in Known(t, s) : \A j \in Known(t, s) : ~(<<j, i>> \in OpToRel(<, Nat))
      BY <1>2, <2>1, NatLessThanWellFounded, WFMin
    <2>3. \A i, j \in Nat : ~(<<j, i>> \in OpToRel(<, Nat)) => i <= j
      BY DEF OpToRel
    <2>4. \E i \in Known(t, s) : \A j \in Known(t, s) : i <= j
      BY <2>1, <2>2, <2>3, Zenon
    <2>5. FirstKnown(t, s) \in Known(t, s)
      BY <2>4 DEF FirstKnown
    <2>6. FirstKnown(t, s) \in 1..Len(t) /\ t[FirstKnown(t, s)] = s
      BY <2>5 DEF Known
    <2>. QED  BY <1>2, <2>6 DEF Added, IdOf, Extends
  <1>. QED  BY <1>1, <1>2

LEMMA ExtendsTransitive ==
    ASSUME NEW r \in Seq(Texts), NEW s \in Seq(Texts), NEW t \in Seq(Texts),
           Extends(t, s), Extends(s, r)
    PROVE  Extends(t, r)
  BY DEF Extends

LEMMA ExtendsItself ==
    ASSUME NEW t \in Seq(Texts)
    PROVE  Extends(t, t)
  BY DEF Extends

\* What a table says of an id, one that extends it says too.
LEMMA ExtendsKeeps ==
    ASSUME NEW s \in Seq(Texts), NEW t \in Seq(Texts), Extends(t, s),
           NEW i \in Nat, i < Len(s)
    PROVE  i < Len(t) /\ t[i + 1] = s[i + 1]
  <1>1. i + 1 \in 1..Len(s)
    OBVIOUS
  <1>2. Len(s) \in Nat /\ Len(t) \in Nat /\ Len(s) <= Len(t) /\ t[i + 1] = s[i + 1]
    BY <1>1 DEF Extends
  <1>. QED  BY <1>2

LEMMA RowAt ==
    ASSUME NEW rs \in Seq(Row), NEW k \in 1..Len(rs)
    PROVE  rs[k] \in Row /\ rs[k].id \in Nat
  <1>1. rs[k] \in Row
    OBVIOUS
  <1>. QED  BY <1>1 DEF Row

\* The database with one more row, or one more text.
LEMMA WithRow ==
    ASSUME NEW d \in Database, NEW r \in Row, NEW e,
           e = [d EXCEPT !.rows = Append(d.rows, r)]
    PROVE  e \in Database /\ e.strings = d.strings /\ e.rows = Append(d.rows, r)
  <1>1. d.rows \in Seq(Row) /\ d.strings \in Seq(Texts)
    BY DEF Database
  <1>2. Append(d.rows, r) \in Seq(Row)
    BY <1>1
  <1>. QED  BY <1>1, <1>2 DEF Database

LEMMA WithText ==
    ASSUME NEW d \in Database, NEW x \in Texts, NEW e,
           e = [d EXCEPT !.strings = Append(d.strings, x)]
    PROVE  e \in Database /\ e.strings = Append(d.strings, x) /\ e.rows = d.rows
  <1>1. d.rows \in Seq(Row) /\ d.strings \in Seq(Texts)
    BY DEF Database
  <1>2. Append(d.strings, x) \in Seq(Texts)
    BY <1>1
  <1>. QED  BY <1>1, <1>2 DEF Database

-----------------------------------------------------------------------------
(* Every step preserves the inductive invariant.                             *)

LEMMA InitInductive == Init => Inductive
  <1>. SUFFICES ASSUME Init PROVE Inductive
    OBVIOUS
  <1>1. TypeOK
    BY DEF Init, TypeOK, Database
  <1>. QED  BY <1>1 DEF Init, Inductive, RowsKeepTheirText, IdsMeanOneText, WriterAhead, Extends

\* What the open transaction and its writer have in common.
LEMMA WriterIsOpen ==
    ASSUME Inductive, NEW o \in Objects, writer = o, OneWriter
    PROVE  /\ o \in opened /\ o \in Writers /\ writer # Nobody
           /\ \A p \in Writers : p = o
           /\ disk \in Database /\ db \in Database /\ table[o] \in Seq(Texts)
           /\ Extends(table[o], db.strings) /\ Extends(db.strings, disk.strings)
  BY ObjectAssumption DEF Inductive, TypeOK, WriterAhead, OneWriter

\* A table that was shut and is loaded again has what it had and what is committed.
LEMMA LoadedExtends ==
    ASSUME NEW t \in Seq(Texts), NEW s \in Seq(Texts)
    PROVE  /\ Loaded(t, s) \in Seq(Texts)
           /\ t = <<>> \/ Extends(t, s) => Extends(Loaded(t, s), s)
           /\ Extends(s, t) => Loaded(t, s) = s
  <1>1. Len(t) \in Nat /\ Len(s) \in Nat
    OBVIOUS
  <1>2. CASE Len(s) <= Len(t)
    <2>1. Loaded(t, s) = t
      BY <1>2 DEF Loaded
    <2>2. t = <<>> => Extends(t, s)
      BY <1>1, <1>2 DEF Extends
    <2>3. Extends(s, t) => t = s
      BY <1>1, <1>2 DEF Extends
    <2>. QED  BY <2>1, <2>2, <2>3
  <1>3. CASE ~(Len(s) <= Len(t))
    <2>1. Loaded(t, s) = s
      BY <1>3 DEF Loaded
    <2>. QED  BY <2>1, ExtendsItself
  <1>. QED  BY <1>2, <1>3

LEMMA OpenStep ==
    ASSUME Inductive, NEW o \in Objects, Open(o), OneWriter
    PROVE  Inductive'
  <1>1. /\ disk \in Database /\ disk.strings \in Seq(Texts)
        /\ table \in [Objects -> Seq(Texts)] /\ table[o] \in Seq(Texts)
    BY DEF Inductive, TypeOK, Database
  <1>. DEFINE t == Loaded(table[o], disk.strings)
  <1>2. /\ t \in Seq(Texts)
        /\ table[o] = <<>> \/ Extends(table[o], disk.strings) => Extends(t, disk.strings)
        /\ Extends(disk.strings, table[o]) => t = disk.strings
    BY <1>1, LoadedExtends
  <1>3. /\ table' \in [Objects -> Seq(Texts)] /\ table'[o] = t
        /\ \A p \in Objects \ {o} : table'[p] = table[p]
    BY <1>1, <1>2 DEF Open
  <1>. HIDE DEF t
  <1>4. /\ opened' \subseteq Objects /\ \A p \in opened' : p = o \/ p \in opened
        /\ writer' \in opened' \cup {Nobody}
    BY DEF Inductive, TypeOK, Open
  <1>5. writer # o
    BY ObjectAssumption DEF Inductive, TypeOK, Open
  <1>6. TypeOK'
    BY <1>3, <1>4 DEF Inductive, TypeOK, Open
  <1>7. o \in Writers => writer = Nobody /\ db = disk
    BY <1>5 DEF Inductive, WriterAhead, OneWriter
  <1>8. Extends(disk.strings, disk.strings)
    BY <1>1, ExtendsItself
  <1>9. o \in Writers => Extends(t, disk.strings)
    BY <1>2, <1>7 DEF Inductive, WriterAhead
  <1>10. o \notin Writers => t = disk.strings
    BY <1>2 DEF Inductive, WriterAhead
  <1>11. Extends(t, disk.strings)
    BY <1>8, <1>9, <1>10
  <1>12. IdsMeanOneText'
    <2>1. ASSUME NEW p \in opened', NEW i \in 1..Len(table'[p]), i <= Len(disk.strings)
          PROVE  table'[p][i] = disk.strings[i]
      <3>1. CASE p = o
        BY <1>1, <1>2, <1>3, <1>11, <2>1, <3>1 DEF Extends
      <3>2. CASE p # o
        BY <1>3, <1>4, <2>1, <3>2 DEF Inductive, TypeOK, IdsMeanOneText
      <3>. QED  BY <3>1, <3>2
    <2>. QED  BY <2>1 DEF IdsMeanOneText, Open
  <1>13. \A p \in Writers :
           (p \in opened' \/ table'[p] # <<>>) => Extends(table'[p], db.strings)
    <2>1. ASSUME NEW p \in Writers, p = o PROVE Extends(table'[p], db.strings)
      BY <1>3, <1>7, <1>9, <2>1
    <2>2. ASSUME NEW p \in Writers, p # o, p \in opened' \/ table'[p] # <<>>
          PROVE  Extends(table'[p], db.strings)
      <3>1. p \in Objects /\ table'[p] = table[p] /\ (p \in opened \/ table[p] # <<>>)
        BY <1>3, <1>4, <2>2, ObjectAssumption
      <3>. QED  BY <3>1 DEF Inductive, WriterAhead
    <2>. QED  BY <2>1, <2>2
  <1>14. \A p \in Objects \ Writers : Extends(disk.strings, table'[p])
    BY <1>3, <1>8, <1>10 DEF Inductive, WriterAhead
  <1>15. WriterAhead'
    <2>1. writer # Nobody => table'[writer] = table[writer]
      BY <1>3, <1>5 DEF Inductive, TypeOK
    <2>. QED  BY <1>13, <1>14, <2>1 DEF Inductive, WriterAhead, Open
  <1>. QED  BY <1>6, <1>12, <1>15 DEF Inductive, RowsKeepTheirText, Open

LEMMA ShutStep ==
    ASSUME Inductive, NEW o \in Objects, Shut(o)
    PROVE  Inductive'
  <1>1. /\ opened' = opened \ {o} /\ writer # o
        /\ UNCHANGED <<disk, db, table, writer, next>>
    BY DEF Shut
  <1>2. TypeOK'
    BY <1>1 DEF Inductive, TypeOK
  <1>3. IdsMeanOneText' /\ RowsKeepTheirText'
    BY <1>1 DEF Inductive, IdsMeanOneText, RowsKeepTheirText
  <1>4. WriterAhead'
    BY <1>1 DEF Inductive, WriterAhead
  <1>. QED  BY <1>2, <1>3, <1>4 DEF Inductive

LEMMA BeginStep ==
    ASSUME Inductive, NEW o \in Objects, Begin(o), OneWriter
    PROVE  Inductive'
  <1>1. db = disk /\ next = -1 /\ o \in Writers /\ o \in opened
    BY DEF Inductive, WriterAhead, Begin
  <1>2. /\ disk \in Database /\ table[o] \in Seq(Texts) /\ Extends(table[o], disk.strings)
    BY <1>1 DEF Inductive, TypeOK, WriterAhead
  <1>3. ASSUME NEW k \in 1..Len(disk.rows)
        PROVE  /\ disk.rows[k].id < Len(table[o])
               /\ table[o][disk.rows[k].id + 1] = disk.rows[k].text
    <2>1. disk.rows[k].id \in Nat /\ disk.strings \in Seq(Texts)
      BY <1>2, RowAt DEF Database
    <2>2. /\ disk.rows[k].id < Len(disk.strings)
          /\ disk.strings[disk.rows[k].id + 1] = disk.rows[k].text
      BY DEF Inductive, RowsKeepTheirText
    <2>. QED  BY <1>2, <2>1, <2>2, ExtendsKeeps
  <1>4. TypeOK'
    BY <1>1 DEF Inductive, TypeOK, Begin
  <1>5. WriterAhead'
    BY <1>1, <1>3, ObjectAssumption DEF Inductive, WriterAhead, Begin
  <1>. QED  BY <1>4, <1>5 DEF Inductive, RowsKeepTheirText, IdsMeanOneText, Begin

LEMMA AddRowStep ==
    ASSUME Inductive, NEW o \in Objects, NEW s \in Texts, AddRow(o, s), OneWriter
    PROVE  Inductive'
  <1>1. /\ writer = o /\ next = -1 /\ UNCHANGED <<disk, opened, writer, next>>
        /\ table \in [Objects -> Seq(Texts)]
    BY DEF AddRow, Inductive, TypeOK
  <1>. DEFINE t == table[o]
              new == [id |-> IdOf(t, s), text |-> s]
  <1>2. /\ o \in opened /\ o \in Writers /\ writer # Nobody
        /\ \A p \in Writers : p = o
        /\ disk \in Database /\ db \in Database /\ t \in Seq(Texts)
        /\ Extends(t, db.strings) /\ Extends(db.strings, disk.strings)
    BY <1>1, WriterIsOpen
  <1>3. /\ Added(t, s) \in Seq(Texts) /\ Extends(Added(t, s), t)
        /\ IdOf(t, s) \in Nat /\ IdOf(t, s) < Len(Added(t, s))
        /\ Added(t, s)[IdOf(t, s) + 1] = s
    BY <1>2, AddFinds
  <1>4. /\ table' \in [Objects -> Seq(Texts)] /\ table'[o] = Added(t, s)
        /\ \A p \in Objects \ {o} : table'[p] = table[p]
    BY <1>1, <1>3 DEF AddRow
  <1>5. new \in Row /\ db.rows \in Seq(Row) /\ db.strings \in Seq(Texts)
        /\ disk.strings \in Seq(Texts)
    BY <1>2, <1>3 DEF Row, Database
  <1>6. db' \in Database /\ db'.strings = db.strings /\ db'.rows = Append(db.rows, new)
    <2>1. db' = [db EXCEPT !.rows = Append(db.rows, new)]
      BY DEF AddRow
    <2>. HIDE DEF new
    <2>. QED  BY <1>2, <1>5, <2>1, WithRow
  <1>. HIDE DEF t
  <1>7. TypeOK'
    BY <1>1, <1>4, <1>6 DEF Inductive, TypeOK
  <1>8. Extends(Added(t, s), db.strings)
    BY <1>2, <1>3, <1>5, ExtendsTransitive
  <1>9. Extends(Added(t, s), disk.strings)
    BY <1>2, <1>3, <1>5, <1>8, ExtendsTransitive
  <1>10. IdsMeanOneText'
    <2>1. ASSUME NEW i \in 1..Len(Added(t, s)), i <= Len(disk.strings)
          PROVE  Added(t, s)[i] = disk.strings[i]
      BY <1>3, <1>9, <2>1 DEF Extends
    <2>. QED  BY <1>1, <1>4, <2>1 DEF Inductive, TypeOK, IdsMeanOneText
  <1>11. ASSUME NEW k \in 1..Len(db'.rows)
         PROVE  /\ db'.rows[k].id < Len(Added(t, s))
                /\ Added(t, s)[db'.rows[k].id + 1] = db'.rows[k].text
    <2>1. CASE k = Len(db.rows) + 1
      <3>1. db'.rows[k] = new
        BY <1>5, <1>6, <2>1
      <3>. QED  BY <1>3, <3>1
    <2>2. CASE k # Len(db.rows) + 1
      <3>1. k \in 1..Len(db.rows) /\ db'.rows[k] = db.rows[k]
        BY <1>5, <1>6, <2>2
      <3>2. db.rows[k].id \in Nat
        BY <1>5, <3>1, RowAt
      <3>3. db.rows[k].id < Len(t) /\ t[db.rows[k].id + 1] = db.rows[k].text
        BY <1>1, <1>2, <3>1 DEF Inductive, WriterAhead, t
      <3>. QED  BY <1>2, <1>3, <3>1, <3>2, <3>3, ExtendsKeeps
    <2>. QED  BY <2>1, <2>2
  <1>12. WriterAhead'
    <2>1. /\ \A p \in Writers : Extends(table'[p], db.strings)
          /\ \A p \in Objects \ Writers : table'[p] = table[p]
      BY <1>2, <1>4, <1>8 DEF Inductive, TypeOK
    <2>. QED  BY <1>1, <1>2, <1>4, <1>6, <1>11, <2>1 DEF Inductive, WriterAhead
  <1>. QED  BY <1>1, <1>7, <1>10, <1>12 DEF Inductive, RowsKeepTheirText

LEMMA FlushStep ==
    ASSUME Inductive, NEW o \in Objects, Flush(o), OneWriter
    PROVE  Inductive'
  <1>1. db.strings \in Seq(Texts)
    BY DEF Inductive, TypeOK, Database
  <1>2. FlushFrom(db) = Len(db.strings) /\ FlushFrom(db) \in Nat
    BY <1>1 DEF FlushFrom, LastId
  <1>3. TypeOK'
    BY <1>2 DEF Inductive, TypeOK, Flush
  <1>4. WriterAhead'
    BY <1>2, ObjectAssumption DEF Inductive, WriterAhead, Flush
  <1>. QED  BY <1>3, <1>4 DEF Inductive, RowsKeepTheirText, IdsMeanOneText, Flush

LEMMA FlushOneStep ==
    ASSUME Inductive, NEW o \in Objects, FlushOne(o), OneWriter
    PROVE  Inductive'
  <1>1. /\ writer = o /\ next # -1 /\ next < Len(table[o])
        /\ UNCHANGED <<disk, table, opened, writer>>
    BY DEF FlushOne
  <1>2. /\ o \in opened /\ o \in Writers /\ writer # Nobody
        /\ \A p \in Writers : p = o
        /\ disk \in Database /\ db \in Database /\ table[o] \in Seq(Texts)
        /\ Extends(table[o], db.strings) /\ Extends(db.strings, disk.strings)
    BY <1>1, WriterIsOpen
  <1>3. next = Len(db.strings) /\ next \in Nat
    BY <1>1, <1>2 DEF Inductive, WriterAhead, TypeOK
  <1>4. db.strings \in Seq(Texts) /\ table[o][next + 1] \in Texts
        /\ disk.strings \in Seq(Texts)
    BY <1>1, <1>2, <1>3 DEF Database
  <1>. DEFINE new == Append(db.strings, table[o][next + 1])
  <1>5. db' \in Database /\ db'.strings = new /\ db'.rows = db.rows
    <2>1. db' = [db EXCEPT !.strings = Append(db.strings, table[o][next + 1])]
      BY DEF FlushOne
    <2>. QED  BY <1>2, <1>4, <2>1, WithText
  <1>6. new \in Seq(Texts) /\ Len(new) = next + 1
    BY <1>3, <1>4
  <1>7. next' = Len(new) /\ next' \in Nat
    BY <1>3, <1>6 DEF FlushOne
  <1>8. Extends(new, disk.strings) /\ Extends(table[o], new)
    BY <1>1, <1>2, <1>3, <1>4 DEF Extends
  <1>. HIDE DEF new
  <1>9. TypeOK'
    BY <1>1, <1>5, <1>7 DEF Inductive, TypeOK
  <1>10. WriterAhead'
    <2>1. \A p \in Writers : Extends(table[p], new)
      BY <1>2, <1>8
    <2>. QED  BY <1>1, <1>2, <1>5, <1>7, <1>8, <2>1 DEF Inductive, WriterAhead
  <1>. QED  BY <1>1, <1>9, <1>10 DEF Inductive, RowsKeepTheirText, IdsMeanOneText

LEMMA CommitStep ==
    ASSUME Inductive, NEW o \in Objects, Commit(o), OneWriter
    PROVE  Inductive'
  <1>1. /\ writer = o /\ next # -1 /\ next >= Len(table[o])
        /\ disk' = db /\ writer' = Nobody /\ next' = -1 /\ UNCHANGED <<db, table, opened>>
    BY DEF Commit
  <1>2. /\ o \in opened /\ o \in Writers /\ writer # Nobody
        /\ \A p \in Writers : p = o
        /\ disk \in Database /\ db \in Database /\ table[o] \in Seq(Texts)
        /\ Extends(table[o], db.strings) /\ Extends(db.strings, disk.strings)
    BY <1>1, WriterIsOpen
  <1>3. /\ db.strings \in Seq(Texts) /\ disk.strings \in Seq(Texts) /\ db.rows \in Seq(Row)
    BY <1>2 DEF Database
  <1>4. next = Len(db.strings) /\ Len(db.strings) = Len(table[o])
    BY <1>1, <1>2, <1>3 DEF Inductive, WriterAhead, Extends
  <1>5. TypeOK'
    BY <1>1 DEF Inductive, TypeOK
  <1>6. RowsKeepTheirText'
    <2>1. ASSUME NEW k \in 1..Len(db.rows)
          PROVE  db.rows[k].id < Len(db.strings) /\ db.strings[db.rows[k].id + 1] = db.rows[k].text
      <3>1. db.rows[k].id \in Nat
        BY <1>3, RowAt
      <3>2. db.rows[k].id < Len(table[o]) /\ table[o][db.rows[k].id + 1] = db.rows[k].text
        BY <1>1, <1>2 DEF Inductive, WriterAhead
      <3>3. Extends(db.strings, table[o])
        BY <1>2, <1>3, <1>4 DEF Extends
      <3>. QED  BY <1>2, <1>3, <3>1, <3>2, <3>3, ExtendsKeeps
    <2>. QED  BY <1>1, <2>1 DEF RowsKeepTheirText
  <1>7. ASSUME NEW p \in Objects \ Writers PROVE Extends(db.strings, table[p])
    <2>1. Extends(disk.strings, table[p]) /\ table[p] \in Seq(Texts)
      BY DEF Inductive, TypeOK, WriterAhead
    <2>. QED  BY <1>2, <1>3, <2>1, ExtendsTransitive
  <1>8. IdsMeanOneText'
    <2>1. ASSUME NEW p \in opened, NEW i \in 1..Len(table[p]), i <= Len(db.strings)
          PROVE  table[p][i] = db.strings[i]
      <3>1. p \in Objects /\ table[p] \in Seq(Texts)
        BY DEF Inductive, TypeOK
      <3>2. CASE p \in Writers
        BY <1>2, <1>3, <2>1, <3>2 DEF Extends
      <3>3. CASE p \notin Writers
        BY <1>3, <1>7, <2>1, <3>1, <3>3 DEF Extends
      <3>. QED  BY <3>2, <3>3
    <2>. QED  BY <1>1, <2>1 DEF IdsMeanOneText
  <1>9. WriterAhead'
    <2>1. Extends(db.strings, db.strings)
      BY <1>3, ExtendsItself
    <2>. QED  BY <1>1, <1>7, <2>1 DEF Inductive, WriterAhead
  <1>. QED  BY <1>5, <1>6, <1>8, <1>9 DEF Inductive

LEMMA RollbackStep ==
    ASSUME Inductive, NEW o \in Objects, Rollback(o), OneWriter
    PROVE  Inductive'
  <1>1. /\ writer = o /\ db' = disk /\ writer' = Nobody /\ next' = -1
        /\ UNCHANGED <<disk, table, opened>>
    BY DEF Rollback
  <1>2. /\ \A p \in Writers : p = o
        /\ disk.strings \in Seq(Texts) /\ db.strings \in Seq(Texts) /\ table[o] \in Seq(Texts)
        /\ Extends(table[o], db.strings) /\ Extends(db.strings, disk.strings)
    BY <1>1, WriterIsOpen DEF Database
  <1>3. Extends(table[o], disk.strings) /\ Extends(disk.strings, disk.strings)
    BY <1>2, ExtendsTransitive, ExtendsItself
  <1>4. TypeOK'
    BY <1>1 DEF Inductive, TypeOK
  <1>5. WriterAhead'
    BY <1>1, <1>2, <1>3 DEF Inductive, WriterAhead
  <1>. QED  BY <1>1, <1>4, <1>5 DEF Inductive, RowsKeepTheirText, IdsMeanOneText

LEMMA CloseStep ==
    ASSUME Inductive, NEW o \in Objects, Close(o), OneWriter
    PROVE  Inductive'
  <1>1. /\ opened' = opened \ {o} /\ UNCHANGED disk
        /\ table' \in [Objects -> Seq(Texts)] /\ \A p \in Objects \ {o} : table'[p] = table[p]
        /\ table'[o] = <<>> /\ table \in [Objects -> Seq(Texts)] /\ opened \subseteq Objects
    BY DEF Close, Inductive, TypeOK
  <1>2. IdsMeanOneText' /\ RowsKeepTheirText'
    BY <1>1 DEF Inductive, IdsMeanOneText, RowsKeepTheirText
  <1>3. \A p \in Objects \ Writers : Extends(disk.strings, table'[p])
    <2>1. Extends(disk.strings, <<>>)
      BY DEF Inductive, TypeOK, Database, Extends
    <2>2. \A p \in Objects \ Writers : Extends(disk.strings, table[p])
      BY DEF Inductive, WriterAhead
    <2>. QED  BY <1>1, <2>1, <2>2
  <1>4. \A p \in Writers : p \in opened' \/ table'[p] # <<>> =>
           p # o /\ Extends(table'[p], db.strings)
    <2>1. \A p \in Writers :
            (p \in opened \/ table[p] # <<>>) => Extends(table[p], db.strings)
      BY DEF Inductive, WriterAhead
    <2>. QED  BY <1>1, <2>1, ObjectAssumption
  <1>5. CASE writer = o
    <2>1. db' = disk /\ writer' = Nobody /\ next' = -1
      BY <1>5 DEF Close
    <2>2. \A p \in Writers : p = o
      BY <1>5, WriterIsOpen
    <2>3. Extends(disk.strings, disk.strings)
      BY ExtendsItself DEF Inductive, TypeOK, Database
    <2>4. TypeOK'
      BY <1>1, <2>1 DEF Inductive, TypeOK
    <2>5. WriterAhead'
      BY <1>1, <1>3, <1>4, <2>1, <2>2, <2>3 DEF WriterAhead
    <2>. QED  BY <1>2, <2>4, <2>5 DEF Inductive
  <1>6. CASE writer # o
    <2>1. UNCHANGED <<db, writer, next>>
      BY <1>6 DEF Close
    <2>2. TypeOK'
      BY <1>1, <1>6, <2>1 DEF Inductive, TypeOK
    <2>3. writer # Nobody => table'[writer] = table[writer]
      BY <1>1, <1>6 DEF Inductive, TypeOK
    <2>4. WriterAhead'
      BY <1>1, <1>3, <1>4, <2>1, <2>3 DEF Inductive, WriterAhead
    <2>. QED  BY <1>2, <2>2, <2>4 DEF Inductive
  <1>. QED  BY <1>5, <1>6

LEMMA NextInductive ==
    ASSUME OneWriter
    PROVE  Inductive /\ [Next]_vars => Inductive'
  <1>. SUFFICES ASSUME Inductive, [Next]_vars PROVE Inductive'
    OBVIOUS
  <1>1. CASE UNCHANGED vars
    BY <1>1 DEF vars, Inductive, TypeOK, RowsKeepTheirText, IdsMeanOneText, WriterAhead
  <1>2. CASE Next
    <2>1. PICK o \in Objects :
             \/ Open(o) \/ Shut(o) \/ Begin(o) \/ \E s \in Texts : AddRow(o, s)
             \/ Flush(o) \/ FlushOne(o) \/ Commit(o) \/ Rollback(o) \/ Close(o)
      BY <1>2 DEF Next
    <2>. QED  BY <2>1, OpenStep, ShutStep, BeginStep, AddRowStep, FlushStep, FlushOneStep,
                 CommitStep, RollbackStep, CloseStep
  <1>. QED  BY <1>1, <1>2

-----------------------------------------------------------------------------
(* The theorems.                                                             *)

LEMMA AlwaysInductive ==
    ASSUME OneWriter
    PROVE  Spec => []Inductive
  BY InitInductive, NextInductive, PTL DEF Spec

\* As long as one object inserts, every id in a committed row is the one of its
\* text in the committed string table, also when texts of a rolled back insertion
\* are flushed by a later one.
THEOREM TextsAreKept ==
    ASSUME OneWriter
    PROVE  Spec => []RowsKeepTheirText
  <1>1. Spec => []Inductive
    BY AlwaysInductive
  <1>2. Inductive => RowsKeepTheirText
    BY DEF Inductive
  <1>. QED  BY <1>1, <1>2, PTL

\* As long as one object inserts, no object reads an id as another text than the
\* database does, however long ago it loaded its table.
THEOREM TextsAreShared ==
    ASSUME OneWriter
    PROVE  Spec => []IdsMeanOneText
  <1>1. Spec => []Inductive
    BY AlwaysInductive
  <1>2. Inductive => IdsMeanOneText
    BY DEF Inductive
  <1>. QED  BY <1>1, <1>2, PTL

\* Every step keeps the types, however many objects insert.
LEMMA NextTyped ==
    ASSUME TypeOK, [Next]_vars
    PROVE  TypeOK'
  <1>1. /\ disk \in Database /\ db \in Database /\ table \in [Objects -> Seq(Texts)]
        /\ opened \subseteq Objects /\ writer \in opened \cup {Nobody}
        /\ next \in Nat \cup {-1}
    BY DEF TypeOK
  <1>2. CASE UNCHANGED vars
    BY <1>1, <1>2 DEF vars, TypeOK
  <1>3. CASE Next
    <2>1. PICK o \in Objects :
             \/ Open(o) \/ Shut(o) \/ Begin(o) \/ \E s \in Texts : AddRow(o, s)
             \/ Flush(o) \/ FlushOne(o) \/ Commit(o) \/ Rollback(o) \/ Close(o)
      BY <1>3 DEF Next
    <2>2. /\ table[o] \in Seq(Texts) /\ db.strings \in Seq(Texts) /\ db.rows \in Seq(Row)
          /\ disk.strings \in Seq(Texts)
      BY <1>1 DEF Database
    <2>3. CASE Open(o)
      <3>1. Loaded(table[o], disk.strings) \in Seq(Texts)
        BY <2>2 DEF Loaded
      <3>. QED  BY <1>1, <2>3, <3>1 DEF Open, TypeOK
    <2>4. CASE Shut(o) \/ Begin(o)
      BY <1>1, <2>4 DEF Shut, Begin, TypeOK
    <2>5. ASSUME NEW s \in Texts, AddRow(o, s) PROVE TypeOK'
      <3>. DEFINE new == [id |-> IdOf(table[o], s), text |-> s]
      <3>1. IdOf(table[o], s) \in Nat /\ Added(table[o], s) \in Seq(Texts)
        BY <2>2, AddFinds
      <3>2. new \in Row
        BY <3>1 DEF Row
      <3>3. db' = [db EXCEPT !.rows = Append(db.rows, new)]
        BY <2>5 DEF AddRow
      <3>. HIDE DEF new
      <3>4. db' \in Database
        BY <1>1, <3>2, <3>3, WithRow
      <3>. QED  BY <1>1, <2>5, <3>1, <3>4 DEF AddRow, TypeOK
    <2>6. CASE Flush(o)
      <3>1. FlushFrom(db) \in Nat
        BY <2>2 DEF FlushFrom, LastId
      <3>. QED  BY <1>1, <2>6, <3>1 DEF Flush, TypeOK
    <2>7. CASE FlushOne(o)
      <3>1. next \in Nat /\ next < Len(table[o])
        BY <1>1, <2>7 DEF FlushOne
      <3>2. table[o][next + 1] \in Texts
        BY <2>2, <3>1
      <3>3. db' = [db EXCEPT !.strings = Append(db.strings, table[o][next + 1])]
        BY <2>7 DEF FlushOne
      <3>4. db' \in Database
        BY <1>1, <3>2, <3>3, WithText
      <3>. QED  BY <1>1, <2>7, <3>1, <3>4 DEF FlushOne, TypeOK
    <2>8. CASE Commit(o) \/ Rollback(o)
      BY <1>1, <2>8 DEF Commit, Rollback, TypeOK
    <2>9. CASE Close(o)
      <3>1. <<>> \in Seq(Texts)
        OBVIOUS
      <3>2. table' \in [Objects -> Seq(Texts)]
        BY <1>1, <2>9, <3>1 DEF Close
      <3>. QED  BY <1>1, <2>9, <3>2 DEF Close, TypeOK
    <2>. QED  BY <2>1, <2>3, <2>4, <2>5, <2>6, <2>7, <2>8, <2>9
  <1>. QED  BY <1>2, <1>3

\* Every variable has its type for any number of inserting objects: what two of them
\* do to each other's tables is wrong in what the tables say, never in what they are.
THEOREM TypeCorrect == Spec => []TypeOK
  <1>1. Init => TypeOK
    BY InitInductive DEF Inductive
  <1>2. TypeOK /\ [Next]_vars => TypeOK'
    BY NextTyped
  <1>. QED  BY <1>1, <1>2, PTL DEF Spec

=============================================================================
