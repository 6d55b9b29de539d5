---------------------------- MODULE ProjectProofs ----------------------------
(***************************************************************************)
(* What module Project promises for any processes, fields, settings and    *)
(* versions: the types, the one owner of the mutex, that no file stays     *)
(* empty or half written unless a process ended in a call, and, of calls   *)
(* that come one after the other, that what was set stays set and that the *)
(* version of the file never falls back.                                   *)
(*                                                                         *)
(* The first part types the operators on properties.  FromLines is         *)
(* recursive; that it exists and what it returns is shown by a least       *)
(* counterexample.  IInv is the invariant of all behaviours; InOrder, the  *)
(* one of orderly calls, says of every control point what the process, the *)
(* file and the settings have to do with each other.                       *)
(***************************************************************************)
EXTENDS Project, WellFoundedInduction, FiniteSetTheorems, TLAPS

Names == {"ver", "db.type", "limit"}

-----------------------------------------------------------------------------
(* Operators on properties                                                   *)

\* A name that is found has a value.
LEMMA ValueType ==
    ASSUME NEW s \in Seq(Setting), NEW n \in NameAt(s)
    PROVE  Value(s, n) \in Values
<1>1. \E i \in DOMAIN s : s[i].name = n
  BY DEF NameAt
<1>2. (CHOOSE i \in DOMAIN s : s[i].name = n) \in DOMAIN s
  BY <1>1
<1>3. s[CHOOSE i \in DOMAIN s : s[i].name = n] \in Setting
  BY <1>2
<1>4. \A l \in Setting : l.value \in Values
  BY DEF Setting
<1> QED
  BY <1>3, <1>4 DEF Value

LEMMA GetType ==
    ASSUME NEW s \in Seq(Setting), NEW n, NEW default \in Values
    PROVE  Get(s, n, default) \in Values
  BY ValueType DEF Get

\* Setting a name leaves something.
LEMMA SetType ==
    ASSUME NEW s \in Seq(Setting), NEW n \in Names, NEW v \in Values
    PROVE  Set(s, n, v) \in Seq(Setting) /\ Set(s, n, v) # <<>>
<1>1. CASE n \in NameAt(s)
  <2>1. DOMAIN s = 1..Len(s) /\ Len(s) \in Nat
    OBVIOUS
  <2>2. DOMAIN s # {}
    BY <1>1 DEF NameAt
  <2>3. \A i \in DOMAIN s :
          (IF s[i].name = n THEN [s[i] EXCEPT !.value = v] ELSE s[i]) \in Setting
    <3>1. \A l \in Setting : [l EXCEPT !.value = v] \in Setting
      BY DEF Setting
    <3>2. \A i \in DOMAIN s : s[i] \in Setting
      OBVIOUS
    <3> QED
      BY <3>1, <3>2
  <2>4. Set(s, n, v) =
          [i \in 1..Len(s) |-> IF s[i].name = n THEN [s[i] EXCEPT !.value = v] ELSE s[i]]
    BY <1>1, <2>1 DEF Set
  <2>5. Set(s, n, v) \in [1..Len(s) -> Setting]
    BY <2>1, <2>3, <2>4
  <2>6. Set(s, n, v) \in Seq(Setting) /\ DOMAIN Set(s, n, v) = 1..Len(s)
    BY <2>1, <2>5
  <2> QED
    BY <2>1, <2>2, <2>6
<1>2. CASE n \notin NameAt(s)
  <2>1. [name |-> n, value |-> v] \in Setting
    BY DEF Setting, Names
  <2>2. Set(s, n, v) = Append(s, [name |-> n, value |-> v])
    BY <1>2 DEF Set
  <2> QED
    BY <2>1, <2>2
<1> QED
  BY <1>1, <1>2

LEMMA DefaultsType == \A n \in {"db.type", "limit"} : Defaults[n] \in Values
  BY DEF Defaults, Values

LEMMA WithDefaultsType ==
    ASSUME NEW s \in Seq(Setting), NEW v \in Versions
    PROVE  WithDefaults(s, v) \in Seq(Setting) /\ WithDefaults(s, v) # <<>>
<1> DEFINE a == Set(s, "ver", v)
           b == Default(a, "db.type", Defaults["db.type"])
           c == Default(b, "limit", Defaults["limit"])
<1>1. a \in Seq(Setting) /\ a # <<>>
  BY SetType DEF Names, Values
<1> HIDE DEF a
<1>2. b \in Seq(Setting) /\ b # <<>>
  BY <1>1, SetType, DefaultsType DEF Default, Names
<1> HIDE DEF b
<1>3. c \in Seq(Setting) /\ c # <<>>
  BY <1>2, SetType, DefaultsType DEF Default, Names
<1> QED
  BY <1>3 DEF WithDefaults, a, b

-----------------------------------------------------------------------------
(* Reading lines                                                             *)

\* Naturals have a least element: the intervals from 0 are finite sets, which strict
\* inclusion orders well.
LEMMA Least == ASSUME NEW T \in SUBSET Nat, T # {} PROVE \E n \in T : \A m \in T : n <= m
<1> DEFINE U == {0..n : n \in T}
<1>1. \A n \in T : 0..n \in SUBSET Nat /\ IsFiniteSet(0..n)
  BY FS_Interval
<1>2. U \subseteq FiniteSubsetsOf(Nat) /\ U # {}
  BY <1>1 DEF FiniteSubsetsOf
<1>3. PICK x \in U : \A y \in U : ~(<<y, x>> \in StrictSubsetOrdering(Nat))
  <2> HIDE DEF U
  <2> QED
    BY <1>2, FS_StrictSubsetOrderingWellFounded, WFMin, Zenon
<1>4. PICK n \in T : x = 0..n
  BY <1>3
<1>5. \A m \in T : ~(0..m \subseteq 0..n /\ 0..m # 0..n)
  BY <1>1, <1>3, <1>4, Zenon DEF StrictSubsetOrdering
<1>6. ASSUME NEW m \in T, m < n PROVE FALSE
  <2>1. 0..m \subseteq 0..n /\ n \in 0..n /\ n \notin 0..m
    BY <1>6
  <2> QED
    BY <1>5, <2>1
<1> QED
  BY <1>6

\* What reading does with one more line.
Line(s, l) == Set(s, l.name, l.value)

LEMMA LineType ==
    ASSUME NEW s \in Seq(Setting), NEW l \in Setting
    PROVE  Line(s, l) \in Seq(Setting)
<1>1. l.name \in Names /\ l.value \in Values
  BY DEF Setting, Names
<1> QED
  BY <1>1, SetType DEF Line

\* g holds what is read after each of the first n lines.
Reads(lines, g, n) == g[0] = <<>> /\ \A k \in 1..n : g[k] = Line(g[k - 1], lines[k])

LEMMA ReadsExist ==
    ASSUME NEW lines \in Seq(Setting)
    PROVE  \A n \in 0..Len(lines) : \E g \in [0..n -> Seq(Setting)] : Reads(lines, g, n)
<1> DEFINE Bad == {n \in 0..Len(lines) : ~ \E g \in [0..n -> Seq(Setting)] : Reads(lines, g, n)}
<1> SUFFICES ASSUME Bad # {} PROVE FALSE
  OBVIOUS
<1>1. Bad \in SUBSET Nat
  OBVIOUS
<1>2. PICK n \in Bad : \A m \in Bad : n <= m
  <2> HIDE DEF Bad
  <2> QED
    BY <1>1, Least
<1>3. n \in 0..Len(lines) /\ ~ \E g \in [0..n -> Seq(Setting)] : Reads(lines, g, n)
  BY <1>2
<1>4. n # 0
  <2> SUFFICES ASSUME n = 0 PROVE FALSE
    OBVIOUS
  <2> DEFINE g == [k \in 0..0 |-> <<>>]
  <2>1. g \in [0..0 -> Seq(Setting)]
    OBVIOUS
  <2>2. Reads(lines, g, 0)
    BY DEF Reads
  <2> QED
    BY <1>3, <2>1, <2>2
<1>5. n - 1 \in 0..Len(lines) /\ n - 1 \notin Bad
  <2>1. n \in Nat /\ n - 1 \in 0..Len(lines)
    BY <1>3, <1>4
  <2> HIDE DEF Bad
  <2> QED
    BY <1>2, <2>1
<1>6. PICK g \in [0..(n - 1) -> Seq(Setting)] : Reads(lines, g, n - 1)
  BY <1>5
<1> DEFINE h == [k \in 0..n |-> IF k = n THEN Line(g[n - 1], lines[n]) ELSE g[k]]
<1>7. lines[n] \in Setting /\ g[n - 1] \in Seq(Setting)
  BY <1>3, <1>4
<1>8. Line(g[n - 1], lines[n]) \in Seq(Setting)
  BY <1>7, LineType
<1>9. h \in [0..n -> Seq(Setting)]
  BY <1>3, <1>8
<1>10. Reads(lines, h, n)
  BY <1>3, <1>4, <1>6 DEF Reads
<1> QED
  BY <1>3, <1>9, <1>10

\* The recursive function of FromLines is there, and its last value is what is read.
LEMMA FromLinesReads ==
    ASSUME NEW lines \in Seq(Setting)
    PROVE  \E g \in [0..Len(lines) -> Seq(Setting)] :
             Reads(lines, g, Len(lines)) /\ FromLines(lines) = g[Len(lines)]
<1> DEFINE N == Len(lines)
           F(f) == [n \in 0..N |->
                      IF n = 0 THEN <<>> ELSE Set(f[n - 1], lines[n].name, lines[n].value)]
           c == CHOOSE f : f = F(f)
<1>1. N \in Nat
  OBVIOUS
<1>2. PICK g \in [0..N -> Seq(Setting)] : Reads(lines, g, N)
  BY ReadsExist, <1>1
<1>3. g = F(g)
  BY <1>1, <1>2 DEF Reads, Line
<1>4. c = F(c)
  <2> HIDE DEF F
  <2> QED
    BY <1>3
<1>5. FromLines(lines) = c[N]
  BY DEF FromLines
<1> HIDE DEF c
<1> DEFINE Bad == {n \in 0..N : c[n] # g[n]}
<1>6. Bad = {}
  <2> SUFFICES ASSUME Bad # {} PROVE FALSE
    OBVIOUS
  <2>1. Bad \in SUBSET Nat
    BY <1>1
  <2>2. PICK n \in Bad : \A m \in Bad : n <= m
    <3> HIDE DEF Bad
    <3> QED
      BY <2>1, Least
  <2>3. n \in 0..N /\ c[n] # g[n]
    BY <2>2
  <2>4. /\ c[n] = IF n = 0 THEN <<>> ELSE Set(c[n - 1], lines[n].name, lines[n].value)
        /\ g[n] = IF n = 0 THEN <<>> ELSE Set(g[n - 1], lines[n].name, lines[n].value)
    BY <1>3, <1>4, <2>3
  <2>5. n # 0
    BY <2>3, <2>4
  <2>6. n \in Nat /\ n - 1 \in 0..N
    BY <1>1, <2>3, <2>5
  <2>7. c[n - 1] = g[n - 1]
    BY <2>2, <2>6
  <2> QED
    BY <2>3, <2>4, <2>5, <2>7
<1>7. c[N] = g[N]
  BY <1>1, <1>6
<1> QED
  BY <1>1, <1>2, <1>5, <1>7

\* What is read of well-typed lines are well-typed properties.
LEMMA FromLinesType ==
    ASSUME NEW lines \in Seq(Setting)
    PROVE  FromLines(lines) \in Seq(Setting)
<1>1. Len(lines) \in 0..Len(lines)
  OBVIOUS
<1> QED
  BY <1>1, FromLinesReads

-----------------------------------------------------------------------------
(* The invariant                                                             *)

Saving == {"lock", "truncate", "unlock", "flush"}

\* A process about to save has something to save; one that writes attributes.json
\* writes a document; one that sets a property knows which.
ProcOK(r) ==
    /\ r \in Proc
    /\ r.pc \in Saving => r.props # <<>>
    /\ r.pc \in {"conf", "write"} => r.edit.kind = "document"
    /\ (r.pc = "read" /\ r.call = "set") => r.arg # <<>>

FilesOK ==
    /\ file \in Seq(Setting) \cup {Missing} /\ conf \in Conf
    /\ disorder \in 0..MaxDisorder /\ last \in [{"db.type", "limit"} -> Values]
ProcsOK ==
    /\ lock \in Procs \cup {NoProc} /\ procs \in [Procs -> Proc]
    /\ \A p \in Procs : ProcOK(procs[p])
\* Nothing deletes a file that was opened for writing.
Opened == \A p \in Procs : procs[p].pc \in {"unlock", "flush"} => file \in Seq(Setting)

IInv == FilesOK /\ ProcsOK /\ Opened /\ LockOwned /\ NothingTorn

LEMMA IdleOK == ProcOK(Idle)
<1>1. NoConf \in Conf /\ <<>> \in Seq(Setting)
  BY DEF NoConf, Conf
<1>2. Idle \in Proc
  BY <1>1 DEF Idle, Proc, Controls, Calls
<1> QED
  BY <1>2 DEF ProcOK, Idle, Saving

LEMMA EndedOK ==
    ASSUME NEW r \in Proc, NEW object \in {"none", "created", "ready"}
    PROVE  ProcOK(Ended(r, object)) /\ Ended(r, object).pc = "idle"
<1>1. Idle \in Proc /\ Idle.pc = "idle" /\ <<>> \in Seq(Setting)
  BY IdleOK DEF ProcOK, Idle
<1>2. Ended(r, object) \in Proc /\ Ended(r, object).pc = "idle"
  BY <1>1 DEF Ended, Proc
<1> QED
  BY <1>2 DEF ProcOK, Saving

LEMMA EmptyConfOK == EmptyConf \in Conf /\ EmptyConf.kind = "document" /\ TornConf \in Conf
<1>1. NoConf \in Conf
  BY DEF NoConf, Conf
<1> QED
  BY <1>1 DEF EmptyConf, TornConf, Conf

LEMMA EditedOK ==
    ASSUME NEW c \in Conf, c.kind = "document", NEW d \in Edited(c)
    PROVE  d \in Conf /\ d.kind = "document"
<1>1. CASE \E f \in Fields : d = [c EXCEPT !.fields = @ \cup {f}]
  <2>1. PICK f \in Fields : d = [c EXCEPT !.fields = @ \cup {f}]
    BY <1>1
  <2> DEFINE F == c.fields \cup {f}
  <2>2. F \in SUBSET Fields
    BY DEF Conf
  <2> HIDE DEF F
  <2>3. d = [c EXCEPT !.fields = F]
    BY <2>1 DEF F
  <2> QED
    BY <2>2, <2>3 DEF Conf
<1>2. CASE \E f \in Fields : d = [c EXCEPT !.x = Append(@, f)]
  <2>1. c.x \in Seq(Fields)
    BY DEF Conf
  <2>2. PICK f \in Fields : d = [c EXCEPT !.x = Append(@, f)]
    BY <1>2
  <2>3. Append(c.x, f) \in Seq(Fields)
    BY <2>1
  <2> DEFINE x == Append(c.x, f)
  <2> HIDE DEF x
  <2>4. x \in Seq(Fields) /\ d = [c EXCEPT !.x = x]
    BY <2>2, <2>3 DEF x
  <2> QED
    BY <2>4 DEF Conf
<1>3. CASE \E f \in Fields : d = [c EXCEPT !.y = f]
  BY <1>3 DEF Conf
<1> QED
  BY <1>1, <1>2, <1>3 DEF Edited

LEMMA InitInv == Init => IInv
<1> SUFFICES ASSUME Init PROVE IInv
  OBVIOUS
<1>1. \A p \in Procs : procs[p] = Idle
  BY DEF Init
<1>2. Idle.pc = "idle" /\ Idle \in Proc
  BY IdleOK DEF ProcOK, Idle
<1>3. ProcsOK /\ Opened /\ LockOwned
  BY <1>1, <1>2, IdleOK, ProcAssumption DEF Init, ProcsOK, Opened, LockOwned
<1>4. last \in [{"db.type", "limit"} -> Values] /\ disorder \in 0..MaxDisorder
  <2>1. last = Defaults /\ disorder = 0
    BY DEF Init
  <2>2. Defaults \in [{"db.type", "limit"} -> Values]
    BY DEF Defaults, Values
  <2>3. 0 \in 0..MaxDisorder
    BY BoundAssumption
  <2> QED
    BY <2>1, <2>2, <2>3
<1>5. file \in Seq(Setting) \cup {Missing} /\ file # <<>>
  <2>1. CASE file = Missing
    BY <2>1 DEF Missing
  <2>2. ASSUME NEW v \in Versions,
               file = <<[name |-> "ver", value |-> v],
                        [name |-> "db.type", value |-> "{choose one}"]>>
        PROVE  file \in Seq(Setting) \cup {Missing} /\ file # <<>>
    <3>1. /\ [name |-> "ver", value |-> v] \in Setting
          /\ [name |-> "db.type", value |-> "{choose one}"] \in Setting
      BY DEF Setting, Values
    <3>2. \A a, b \in Setting : <<a, b>> \in Seq(Setting) /\ <<a, b>> # <<>>
      OBVIOUS
    <3> QED
      BY <2>2, <3>1, <3>2
  <2> QED
    BY <2>1, <2>2 DEF Init
<1>6. conf \in Conf /\ conf.kind # "torn"
  <2>1. NoConf \in Conf /\ NoConf.kind # "torn"
    BY DEF NoConf, Conf
  <2> QED
    BY <2>1, EmptyConfOK DEF Init
<1>7. NothingTorn
  BY <1>5, <1>6 DEF NothingTorn
<1> QED
  BY <1>3, <1>4, <1>5, <1>6, <1>7 DEF IInv, FilesOK

\* One process changes: the others stay as they are.
LEMMA OneChanges ==
    ASSUME ProcsOK, NEW p \in Procs, NEW r, ProcOK(r), procs' = [procs EXCEPT ![p] = r],
           lock' \in Procs \cup {NoProc}
    PROVE  /\ ProcsOK' /\ procs'[p] = r
           /\ \A q \in Procs \ {p} : procs'[q] = procs[q]
  BY DEF ProcsOK, ProcOK

\* The parts that relate the processes to the files hold after a step of p that leaves
\* the files alone, unless p was to write one of them.
LEMMA FilesStay ==
    ASSUME IInv, NEW p \in Procs, UNCHANGED <<file, conf>>,
           \A q \in Procs \ {p} : procs'[q] = procs[q],
           procs[p].pc # "ended",
           \/ procs'[p].pc = "ended"
           \/ /\ procs[p].pc \in {"unlock", "flush"} => procs'[p].pc \in {"unlock", "flush"}
              /\ procs[p].pc = "write" => procs'[p].pc = "write",
           procs'[p].pc \in {"unlock", "flush"} => procs[p].pc \in {"unlock", "flush"}
    PROVE  Opened' /\ NothingTorn'
<1>1. Opened'
  BY DEF IInv, Opened
<1>2. NothingTorn'
  BY DEF IInv, NothingTorn, Writing
<1> QED
  BY <1>1, <1>2

\* A step between control points outside of the writing of a file.
Outside == {"idle", "read", "lock", "conf", "attributes"}

LEMMA OutsideStep ==
    ASSUME IInv, NEW p \in Procs, NEW r, ProcOK(r), procs' = [procs EXCEPT ![p] = r],
           procs[p].pc \in Outside, r.pc \in Outside,
           UNCHANGED <<file, conf, lock, last>>, disorder' \in 0..MaxDisorder
    PROVE  IInv'
<1>1. ProcsOK' /\ procs'[p] = r /\ \A q \in Procs \ {p} : procs'[q] = procs[q]
  BY OneChanges DEF IInv, ProcsOK
<1>2. Opened' /\ NothingTorn'
  BY <1>1, FilesStay DEF Outside
<1>3. LockOwned'
  BY <1>1 DEF IInv, LockOwned, Outside
<1>4. FilesOK'
  BY DEF IInv, FilesOK
<1> QED
  BY <1>1, <1>2, <1>3, <1>4 DEF IInv

LEMMA CountedType ==
    ASSUME IInv, NEW ordered, Counted(ordered)
    PROVE  disorder' \in 0..MaxDisorder
  BY BoundAssumption DEF IInv, FilesOK, Counted

\* The begin of a call.
LEMMA BeginsInv ==
    ASSUME IInv, NEW p \in Procs, NEW call \in Calls, NEW pc \in {"read", "lock"},
           NEW arg \in Seq(Setting), Busy(p, "idle"), Begins(p, call, pc, arg),
           pc = "lock" => procs[p].props # <<>>,
           call = "set" => arg # <<>>
    PROVE  IInv'
<1> DEFINE r == [procs[p] EXCEPT !.call = call, !.pc = pc, !.arg = arg]
<1>1. procs[p] \in Proc /\ procs \in [Procs -> Proc] /\ procs[p].pc = "idle"
  BY DEF IInv, ProcsOK, Busy
<1>2. r \in Proc /\ r.pc = pc /\ r.call = call /\ r.arg = arg /\ r.props = procs[p].props
  BY <1>1 DEF Proc, Controls
<1>3. procs' = [procs EXCEPT ![p] = r]
  BY <1>1 DEF Begins
<1> HIDE DEF r
<1>4. ProcOK(r)
  BY <1>2 DEF ProcOK, Saving
<1> QED
  BY <1>1, <1>2, <1>3, <1>4, OutsideStep, CountedType DEF Begins, Outside

LEMMA SetObjectInv ==
    ASSUME IInv, NEW p \in Procs, NEW n \in Names, NEW v \in Values, SetObject(p, n, v)
    PROVE  IInv'
<1> DEFINE props == Set(procs[p].props, n, v)
           arg == Set(procs[p].arg, n, v)
           r == [procs[p] EXCEPT !.props = props, !.arg = arg]
<1>1. procs[p] \in Proc /\ procs \in [Procs -> Proc] /\ procs[p].pc = "idle"
  BY DEF IInv, ProcsOK, SetObject, Busy
<1>2. procs[p].props \in Seq(Setting) /\ procs[p].arg \in Seq(Setting)
  BY <1>1 DEF Proc
<1>3. props \in Seq(Setting) /\ arg \in Seq(Setting)
  BY <1>2, SetType
<1>4. procs' = [procs EXCEPT ![p] = r]
  BY <1>1 DEF SetObject
<1> HIDE DEF props, arg
<1>5. r \in Proc /\ r.pc = "idle"
  BY <1>1, <1>3 DEF Proc
<1> HIDE DEF r
<1>6. ProcOK(r)
  BY <1>5 DEF ProcOK, Saving
<1>7. disorder' \in 0..MaxDisorder
  BY DEF SetObject, IInv, FilesOK
<1> QED
  BY <1>1, <1>4, <1>5, <1>6, <1>7, OutsideStep DEF SetObject, Outside

LEMMA EditConfInv ==
    ASSUME IInv, NEW p \in Procs, EditConf(p)
    PROVE  IInv'
<1>1. PICK c \in Edited(conf) :
        procs' = [procs EXCEPT ![p].call = "edit", ![p].pc = "conf", ![p].edit = c]
  BY DEF EditConf
<1>2. c \in Conf /\ c.kind = "document"
  BY EditedOK DEF EditConf, IInv, FilesOK
<1> DEFINE r == [procs[p] EXCEPT !.call = "edit", !.pc = "conf", !.edit = c]
<1>3. procs[p] \in Proc /\ procs \in [Procs -> Proc] /\ procs[p].pc = "idle"
  BY DEF IInv, ProcsOK, EditConf, Busy
<1>4. r \in Proc /\ r.pc = "conf" /\ r.edit = c
  BY <1>2, <1>3 DEF Proc, Controls, Calls
<1>5. procs' = [procs EXCEPT ![p] = r]
  BY <1>1, <1>3
<1> HIDE DEF r
<1>6. ProcOK(r)
  BY <1>2, <1>4 DEF ProcOK, Saving
<1> QED
  BY <1>3, <1>4, <1>5, <1>6, OutsideStep, CountedType DEF EditConf, Outside

LEMMA CallInv ==
    ASSUME IInv, NEW p \in Procs, Call(p)
    PROVE  IInv'
<1>0. procs[p] \in Proc /\ procs[p].arg \in Seq(Setting) /\ <<>> \in Seq(Setting)
  BY DEF IInv, ProcsOK, Proc
<1>1. CASE Open(p)
  BY <1>0, <1>1, BeginsInv DEF Open, Calls
<1>2. CASE Save(p)
  BY <1>0, <1>2, BeginsInv DEF Save, CanSave, Calls
<1>3. CASE Reload(p)
  BY <1>0, <1>3, BeginsInv DEF Reload, Calls
<1>4. CASE EditConf(p)
  BY <1>4, EditConfInv
<1>5. ASSUME NEW n \in Names, NEW v \in Values, SetFile(p, n, v) \/ SetObject(p, n, v)
      PROVE  IInv'
  <2>1. CASE SetFile(p, n, v)
    <3>1. [name |-> n, value |-> v] \in Setting
      BY DEF Setting, Names
    <3>2. \A l \in Setting : <<l>> \in Seq(Setting) /\ <<l>> # <<>>
      OBVIOUS
    <3> QED
      BY <2>1, <3>1, <3>2, BeginsInv DEF SetFile, Calls
  <2> QED
    BY <1>5, <2>1, SetObjectInv
<1>6. Settings \subseteq Values /\ Types \subseteq Values /\ {"limit", "db.type"} \subseteq Names
  BY DEF Values, Names
<1> QED
  BY <1>1, <1>2, <1>3, <1>4, <1>5, <1>6 DEF Call

LEMMA ReadInv ==
    ASSUME IInv, NEW p \in Procs, Read(p)
    PROVE  IInv'
<1> DEFINE new == FromLines(IF file = Missing THEN <<>> ELSE file)
           was == [procs[p] EXCEPT !.props = new, !.stale = FALSE]
           goes(pc, props, create) == [was EXCEPT
             !.pc = pc, !.props = props, !.create = create,
             !.object = IF was.call = "open" THEN "none" ELSE @]
<1>1. procs[p] \in Proc /\ procs \in [Procs -> Proc] /\ procs[p].pc = "read"
  BY DEF IInv, ProcsOK, Read, Busy
<1>2. new \in Seq(Setting)
  <2>1. (IF file = Missing THEN <<>> ELSE file) \in Seq(Setting)
    BY DEF IInv, FilesOK
  <2> QED
    BY <2>1, FromLinesType
<1>3. /\ UNCHANGED <<file, conf, lock, disorder, last>>
      /\ \/ /\ was.call = "open"
            /\ procs' = [procs EXCEPT ![p] =
                 goes("lock", WithDefaults(new, Version[p]), Get(new, "ver", "") = "")]
         \/ /\ was.call = "open"
            /\ procs' = [procs EXCEPT ![p] = goes("attributes", new, FALSE)]
         \/ /\ was.call = "set" /\ new # <<>>
            /\ procs' = [procs EXCEPT ![p] =
                 goes("lock", Set(new, was.arg[1].name, was.arg[1].value), FALSE)]
         \/ procs' = [procs EXCEPT ![p] = Ended(was, was.object)]
  BY DEF Read, Returns
<1> HIDE DEF new
<1>4. was \in Proc /\ was.pc = "read" /\ was.call = procs[p].call /\ was.arg = procs[p].arg
  BY <1>1, <1>2 DEF Proc
<1> HIDE DEF was
<1>5. ASSUME NEW pc \in {"lock", "attributes"}, NEW props \in Seq(Setting),
             NEW create \in BOOLEAN, pc = "lock" => props # <<>>
      PROVE  ProcOK(goes(pc, props, create)) /\ goes(pc, props, create).pc = pc
  <2>1. goes(pc, props, create) \in Proc
    BY <1>4 DEF Proc, Controls
  <2>2. goes(pc, props, create).pc = pc /\ goes(pc, props, create).props = props
    BY <1>4 DEF Proc
  <2> QED
    BY <1>5, <2>1, <2>2 DEF ProcOK, Saving
<1>6. disorder' \in 0..MaxDisorder
  BY <1>3 DEF IInv, FilesOK
<1>7. ASSUME NEW r, ProcOK(r), r.pc \in Outside, procs' = [procs EXCEPT ![p] = r] PROVE IInv'
  BY <1>1, <1>3, <1>6, <1>7, OutsideStep DEF Outside
<1>8. CASE procs' = [procs EXCEPT ![p] =
             goes("lock", WithDefaults(new, Version[p]), Get(new, "ver", "") = "")]
  <2> DEFINE props == WithDefaults(new, Version[p])
             create == Get(new, "ver", "") = ""
  <2>1. props \in Seq(Setting) /\ props # <<>>
    BY <1>2, WithDefaultsType, VersionAssumption
  <2>2. create \in BOOLEAN
    OBVIOUS
  <2>3. procs' = [procs EXCEPT ![p] = goes("lock", props, create)]
    BY <1>8
  <2> HIDE DEF props, create, goes
  <2> QED
    BY <1>5, <1>7, <2>1, <2>2, <2>3 DEF Outside
<1>9. CASE procs' = [procs EXCEPT ![p] = goes("attributes", new, FALSE)]
  <2> HIDE DEF goes
  <2> QED
    BY <1>2, <1>5, <1>7, <1>9 DEF Outside
<1>10. CASE /\ was.call = "set"
            /\ procs' = [procs EXCEPT ![p] =
                 goes("lock", Set(new, was.arg[1].name, was.arg[1].value), FALSE)]
  <2> DEFINE props == Set(new, was.arg[1].name, was.arg[1].value)
  <2>1. was.arg \in Seq(Setting) /\ was.arg # <<>>
    <3>1. ProcOK(procs[p])
      BY DEF IInv, ProcsOK
    <3> QED
      BY <1>1, <1>4, <1>10, <3>1 DEF ProcOK, Proc
  <2>2. was.arg[1] \in Setting
    BY <2>1
  <2>3. was.arg[1].name \in Names /\ was.arg[1].value \in Values
    BY <2>2 DEF Setting, Names
  <2>4. props \in Seq(Setting) /\ props # <<>>
    BY <1>2, <2>3, SetType
  <2>5. procs' = [procs EXCEPT ![p] = goes("lock", props, FALSE)]
    BY <1>10
  <2> HIDE DEF props, goes
  <2> QED
    BY <1>5, <1>7, <2>4, <2>5 DEF Outside
<1>11. CASE procs' = [procs EXCEPT ![p] = Ended(was, was.object)]
  <2>1. was.object \in {"none", "created", "ready"}
    BY <1>4 DEF Proc
  <2>2. ProcOK(Ended(was, was.object)) /\ Ended(was, was.object).pc = "idle"
    BY <1>4, <2>1, EndedOK
  <2> QED
    BY <1>7, <1>11, <2>2 DEF Outside
<1> QED
  BY <1>3, <1>8, <1>9, <1>10, <1>11

\* The steps of a save that only move on.
LEMMA MovesOn ==
    ASSUME IInv, NEW p \in Procs, NEW pc \in {"truncate", "unlock", "flush"},
           procs[p].pc \in {"lock", "truncate", "unlock"},
           procs' = [procs EXCEPT ![p].pc = pc], lock' \in Procs \cup {NoProc}
    PROVE  /\ ProcsOK' /\ procs'[p].pc = pc
           /\ \A q \in Procs \ {p} : procs'[q] = procs[q]
<1> DEFINE r == [procs[p] EXCEPT !.pc = pc]
<1>1. procs[p] \in Proc /\ procs \in [Procs -> Proc] /\ procs[p].props # <<>>
  BY DEF IInv, ProcsOK, ProcOK, Saving
<1>2. r \in Proc /\ r.pc = pc /\ r.props = procs[p].props
  BY <1>1 DEF Proc, Controls
<1>3. procs' = [procs EXCEPT ![p] = r]
  BY <1>1
<1> HIDE DEF r
<1>4. ProcOK(r)
  BY <1>1, <1>2 DEF ProcOK
<1> QED
  BY <1>2, <1>3, <1>4, OneChanges DEF IInv, ProcsOK

LEMMA LockInv ==
    ASSUME IInv, NEW p \in Procs, Lock(p)
    PROVE  IInv'
<1>1. /\ ProcsOK' /\ procs'[p].pc = "truncate"
      /\ \A q \in Procs \ {p} : procs'[q] = procs[q]
  BY MovesOn DEF Lock, Busy
<1>2. Opened' /\ NothingTorn'
  BY <1>1, FilesStay DEF Lock, Busy
<1>3. LockOwned'
  BY <1>1, ProcAssumption DEF IInv, LockOwned, Lock, Busy
<1>4. FilesOK'
  BY DEF IInv, FilesOK, Lock
<1> QED
  BY <1>1, <1>2, <1>3, <1>4 DEF IInv

LEMMA TruncateInv ==
    ASSUME IInv, NEW p \in Procs, Truncate(p)
    PROVE  IInv'
<1>1. /\ ProcsOK' /\ procs'[p].pc = "unlock"
      /\ \A q \in Procs \ {p} : procs'[q] = procs[q]
  BY MovesOn DEF Truncate, Busy, IInv, ProcsOK
<1>2. FilesOK'
  BY DEF IInv, FilesOK, Truncate
<1>3. Opened'
  <2>1. file' = <<>> /\ <<>> \in Seq(Setting)
    BY DEF Truncate
  <2> QED
    BY <2>1 DEF Opened
<1>4. LockOwned'
  BY <1>1 DEF IInv, LockOwned, Truncate, Busy
<1>5. NothingTorn'
  BY <1>1 DEF IInv, NothingTorn, Writing, Truncate, Busy
<1> QED
  BY <1>1, <1>2, <1>3, <1>4, <1>5 DEF IInv

LEMMA UnlockInv ==
    ASSUME IInv, NEW p \in Procs, Unlock(p)
    PROVE  IInv'
<1>1. /\ ProcsOK' /\ procs'[p].pc = "flush"
      /\ \A q \in Procs \ {p} : procs'[q] = procs[q]
  BY MovesOn DEF Unlock, Busy
<1>2. Opened' /\ NothingTorn'
  BY <1>1, FilesStay DEF Unlock, Busy
<1>3. LockOwned'
  BY <1>1, ProcAssumption DEF IInv, LockOwned, Unlock, Busy
<1>4. FilesOK'
  BY DEF IInv, FilesOK, Unlock
<1> QED
  BY <1>1, <1>2, <1>3, <1>4 DEF IInv

\* What is written goes to the begin of the file.
LEMMA OverType ==
    ASSUME NEW new \in Seq(Setting), new # <<>>, NEW old \in Seq(Setting)
    PROVE  Over(new, old) \in Seq(Setting) /\ Over(new, old) # <<>>
<1> DEFINE rest == SubSeq(old, Len(new) + 1, Len(old))
<1>1. rest \in Seq(Setting)
  <2>1. CASE Len(new) + 1 <= Len(old)
    BY <2>1
  <2>2. CASE Len(new) + 1 > Len(old)
    BY <2>2
  <2> QED
    BY <2>1, <2>2
<1> HIDE DEF rest
<1>2. new \o rest \in Seq(Setting) /\ Len(new \o rest) = Len(new) + Len(rest) /\ Len(new) > 0
  BY <1>1
<1>3. new \o rest # <<>>
  BY <1>1, <1>2
<1> QED
  BY <1>2, <1>3 DEF Over, rest

LEMMA OutdatedOK ==
    ASSUME NEW r, ProcOK(r)
    PROVE  ProcOK(Outdated(r)) /\ Outdated(r).pc = r.pc
<1>1. \A b \in BOOLEAN :
        LET n == [r EXCEPT !.stale = b]
        IN  /\ n \in Proc /\ n.pc = r.pc /\ n.call = r.call /\ n.props = r.props
            /\ n.arg = r.arg /\ n.edit = r.edit
  BY DEF ProcOK, Proc
<1> DEFINE b == (disorder = 0 /\ r.props # <<>>)
<1>2. b \in BOOLEAN /\ Outdated(r) = [r EXCEPT !.stale = b]
  BY Zenon DEF Outdated
<1> HIDE DEF b
<1> QED
  BY <1>1, <1>2 DEF ProcOK

LEMMA FlushInv ==
    ASSUME IInv, NEW p \in Procs, Flush(p)
    PROVE  IInv'
<1>1. procs[p] \in Proc /\ procs \in [Procs -> Proc] /\ procs[p].pc = "flush"
  BY DEF IInv, ProcsOK, Flush, Busy
<1>2. file' \in Seq(Setting) /\ file' # <<>>
  <2>1. procs[p].props \in Seq(Setting) /\ procs[p].props # <<>>
    BY <1>1 DEF IInv, ProcsOK, ProcOK, Saving, Proc
  <2>2. file \in Seq(Setting)
    BY <1>1 DEF IInv, Opened
  <2> QED
    BY <2>1, <2>2, OverType DEF Flush
<1>3. last' \in [{"db.type", "limit"} -> Values]
  <2>1. last \in [{"db.type", "limit"} -> Values] /\ procs[p].arg \in Seq(Setting)
    BY <1>1 DEF IInv, FilesOK, Proc
  <2>2. \A n \in {"db.type", "limit"} : Get(procs[p].arg, n, last[n]) \in Values
    BY <2>1, GetType
  <2>3. Defaults \in [{"db.type", "limit"} -> Values]
    BY DEF Defaults, Values
  <2>4. last' = Defaults \/ last' = [n \in DOMAIN last |-> Get(procs[p].arg, n, last[n])]
    BY DEF Flush
  <2> QED
    BY <2>1, <2>2, <2>3, <2>4
<1>4. FilesOK'
  BY <1>2, <1>3 DEF IInv, FilesOK, Flush
<1>5. \A q \in Procs \ {p} : procs'[q] = Outdated(procs[q])
  BY DEF Flush
<1>6. /\ procs' \in [Procs -> Proc]
      /\ \A q \in Procs :
           \/ ProcOK(procs'[q]) /\ procs'[q].pc \notin {"truncate", "unlock", "flush", "write"}
           \/ q # p /\ ProcOK(procs'[q]) /\ procs'[q].pc = procs[q].pc
  <2>1. procs' = [q \in Procs |-> procs'[q]]
    BY DEF Flush
  <2>2. ASSUME NEW q \in Procs \ {p} PROVE ProcOK(procs'[q]) /\ procs'[q].pc = procs[q].pc
    BY <1>5, OutdatedOK DEF IInv, ProcsOK
  <2>3. ProcOK(procs'[p]) /\ procs'[p].pc \in {"conf", "idle"}
    <3>1. procs'[p] = IF procs[p].call = "open"
                      THEN [procs[p] EXCEPT !.pc = "conf", !.edit = EmptyConf]
                      ELSE Ended(procs[p], procs[p].object)
      BY DEF Flush
    <3>2. CASE procs[p].call = "open"
      <4> DEFINE r == [procs[p] EXCEPT !.pc = "conf", !.edit = EmptyConf]
      <4>1. r \in Proc /\ r.pc = "conf" /\ r.edit = EmptyConf
        BY <1>1, EmptyConfOK DEF Proc, Controls
      <4>2. procs'[p] = r
        BY <3>1, <3>2
      <4> HIDE DEF r
      <4> QED
        BY <4>1, <4>2, EmptyConfOK DEF ProcOK, Saving
    <3>3. CASE procs[p].call # "open"
      <4>1. procs[p].object \in {"none", "created", "ready"}
        BY <1>1 DEF Proc
      <4> QED
        BY <1>1, <3>1, <3>3, <4>1, EndedOK
    <3> QED
      BY <3>2, <3>3
  <2>4. \A q \in Procs : procs'[q] \in Proc
    BY <2>2, <2>3 DEF ProcOK
  <2>5. procs' \in [Procs -> Proc]
    BY <2>1, <2>4
  <2> QED
    BY <2>2, <2>3, <2>5
<1>7. ProcsOK'
  BY <1>6 DEF ProcsOK, IInv, Flush
<1>8. Opened'
  BY <1>2 DEF Opened
<1>9. \A q \in Procs : procs'[q].pc \in {"truncate", "unlock"} <=> procs[q].pc \in {"truncate", "unlock"}
  <2>1. \A q \in Procs \ {p} : procs'[q].pc = procs[q].pc
    BY <1>5, OutdatedOK DEF IInv, ProcsOK
  <2> QED
    BY <1>1, <1>6, <2>1
<1>10. LockOwned'
  BY <1>9 DEF IInv, LockOwned, Flush
<1>11. NothingTorn'
  <2>1. ASSUME NEW q \in Procs, procs[q].pc \in {"write", "ended"} PROVE procs'[q].pc = procs[q].pc
    BY <1>1, <1>5, <2>1, OutdatedOK DEF IInv, ProcsOK
  <2>2. conf' = conf
    BY DEF Flush
  <2> QED
    BY <1>2, <2>1, <2>2 DEF IInv, NothingTorn, Writing
<1> QED
  BY <1>4, <1>7, <1>8, <1>10, <1>11 DEF IInv

\* After the writing of attributes.json.
LEMMA AfterConfOK ==
    ASSUME IInv, NEW p \in Procs, procs[p].pc \in {"conf", "write"}, AfterConf(p)
    PROVE  \E r : ProcOK(r) /\ r.pc \in {"attributes", "idle"} /\ procs' = [procs EXCEPT ![p] = r]
<1>1. procs[p] \in Proc /\ procs \in [Procs -> Proc]
  BY DEF IInv, ProcsOK
<1>2. CASE procs[p].call = "open" /\ ~procs[p].create
  <2> DEFINE r == [procs[p] EXCEPT !.pc = "attributes"]
  <2>1. r \in Proc /\ r.pc = "attributes"
    BY <1>1 DEF Proc, Controls
  <2>2. procs' = [procs EXCEPT ![p] = r]
    BY <1>1, <1>2 DEF AfterConf
  <2> HIDE DEF r
  <2>3. ProcOK(r)
    BY <2>1 DEF ProcOK, Saving
  <2> QED
    BY <2>1, <2>2, <2>3
<1>3. CASE ~(procs[p].call = "open" /\ ~procs[p].create)
  <2> DEFINE object == IF procs[p].call = "open" THEN "created" ELSE "none"
             r == Ended(procs[p], object)
  <2>1. ProcOK(r) /\ r.pc = "idle"
    BY <1>1, EndedOK
  <2>2. procs' = [procs EXCEPT ![p] = r]
    BY <1>1, <1>3 DEF AfterConf, Returns
  <2> QED
    BY <2>1, <2>2
<1> QED
  BY <1>2, <1>3

LEMMA BeginConfInv ==
    ASSUME IInv, NEW p \in Procs, BeginConf(p)
    PROVE  IInv'
<1>1. /\ procs[p] \in Proc /\ procs \in [Procs -> Proc] /\ procs[p].pc = "conf"
      /\ UNCHANGED <<file, lock, disorder, last>>
  BY DEF IInv, ProcsOK, BeginConf, Busy
<1>2. CASE AfterConf(p) /\ UNCHANGED conf
  <2>1. PICK r : ProcOK(r) /\ r.pc \in {"attributes", "idle"} /\ procs' = [procs EXCEPT ![p] = r]
    BY <1>1, <1>2, AfterConfOK
  <2>2. disorder' \in 0..MaxDisorder
    BY <1>1 DEF IInv, FilesOK
  <2> QED
    BY <1>1, <1>2, <2>1, <2>2, OutsideStep DEF Outside
<1>3. CASE conf' = TornConf /\ procs' = [procs EXCEPT ![p].pc = "write"]
  <2> DEFINE r == [procs[p] EXCEPT !.pc = "write"]
  <2>1. r \in Proc /\ r.pc = "write" /\ r.edit = procs[p].edit
    BY <1>1 DEF Proc, Controls
  <2>2. procs' = [procs EXCEPT ![p] = r]
    BY <1>1, <1>3
  <2> HIDE DEF r
  <2>3. procs[p].edit.kind = "document"
    BY <1>1 DEF IInv, ProcsOK, ProcOK
  <2>4. ProcOK(r)
    BY <2>1, <2>3 DEF ProcOK, Saving
  <2>5. ProcsOK' /\ procs'[p] = r /\ \A q \in Procs \ {p} : procs'[q] = procs[q]
    BY <1>1, <2>2, <2>4, OneChanges DEF IInv, ProcsOK
  <2>6. FilesOK'
    BY <1>1, <1>3, EmptyConfOK DEF IInv, FilesOK
  <2>7. Opened'
    BY <1>1, <2>1, <2>5 DEF IInv, Opened
  <2>8. LockOwned'
    BY <1>1, <2>1, <2>5 DEF IInv, LockOwned
  <2>9. NothingTorn'
    BY <1>1, <2>1, <2>5 DEF IInv, NothingTorn, Writing
  <2> QED
    BY <2>5, <2>6, <2>7, <2>8, <2>9 DEF IInv
<1> QED
  BY <1>2, <1>3 DEF BeginConf

LEMMA WriteConfInv ==
    ASSUME IInv, NEW p \in Procs, WriteConf(p)
    PROVE  IInv'
<1>1. /\ procs[p] \in Proc /\ procs \in [Procs -> Proc] /\ procs[p].pc = "write"
      /\ UNCHANGED <<file, lock, disorder, last>> /\ conf' = procs[p].edit
  BY DEF IInv, ProcsOK, WriteConf, Busy
<1>2. procs[p].edit.kind = "document" /\ procs[p].edit \in Conf
  BY <1>1 DEF IInv, ProcsOK, ProcOK, Proc
<1>3. PICK r : ProcOK(r) /\ r.pc \in {"attributes", "idle"} /\ procs' = [procs EXCEPT ![p] = r]
  BY <1>1, AfterConfOK DEF WriteConf
<1>4. ProcsOK' /\ procs'[p] = r /\ \A q \in Procs \ {p} : procs'[q] = procs[q]
  BY <1>1, <1>3, OneChanges DEF IInv, ProcsOK
<1>5. FilesOK'
  BY <1>1, <1>2 DEF IInv, FilesOK
<1>6. Opened'
  BY <1>1, <1>3, <1>4 DEF IInv, Opened
<1>7. LockOwned'
  BY <1>1, <1>3, <1>4 DEF IInv, LockOwned
<1>8. NothingTorn'
  BY <1>1, <1>2, <1>3, <1>4 DEF IInv, NothingTorn, Writing
<1> QED
  BY <1>4, <1>5, <1>6, <1>7, <1>8 DEF IInv

LEMMA ReadAttributesInv ==
    ASSUME IInv, NEW p \in Procs, ReadAttributes(p)
    PROVE  IInv'
<1> DEFINE object == IF ValidConf(conf) /\ Get(procs[p].props, "db.type", "") = "sqlite"
                     THEN "ready" ELSE "none"
           r == Ended(procs[p], object)
<1>1. procs[p] \in Proc /\ procs \in [Procs -> Proc] /\ procs[p].pc = "attributes"
  BY DEF IInv, ProcsOK, ReadAttributes, Busy
<1>2. procs' = [procs EXCEPT ![p] = r]
  BY <1>1 DEF ReadAttributes, Returns
<1>3. object \in {"none", "created", "ready"}
  OBVIOUS
<1> HIDE DEF object
<1>4. ProcOK(r) /\ r.pc = "idle"
  BY <1>1, <1>3, EndedOK
<1> HIDE DEF r
<1>5. UNCHANGED <<file, conf, lock, last>> /\ disorder' \in 0..MaxDisorder
  BY DEF ReadAttributes, IInv, FilesOK
<1> QED
  BY <1>1, <1>2, <1>4, <1>5, OutsideStep DEF Outside

LEMMA CrashInv ==
    ASSUME IInv, NEW p \in Procs, Crash(p)
    PROVE  IInv'
<1> DEFINE r == [Idle EXCEPT !.pc = "ended"]
<1>1. Idle \in Proc
  BY IdleOK DEF ProcOK
<1>2. r \in Proc /\ r.pc = "ended"
  BY <1>1 DEF Proc, Controls
<1>3. procs' = [procs EXCEPT ![p] = r] /\ procs[p].pc # "ended" /\ UNCHANGED <<file, conf, last>>
  BY DEF Crash
<1> HIDE DEF r
<1>4. ProcOK(r)
  BY <1>2 DEF ProcOK, Saving
<1>5. lock' \in Procs \cup {NoProc}
  BY DEF Crash, IInv, ProcsOK
<1>6. ProcsOK' /\ procs'[p] = r /\ \A q \in Procs \ {p} : procs'[q] = procs[q]
  BY <1>3, <1>4, <1>5, OneChanges DEF IInv
<1>7. Opened' /\ NothingTorn'
  BY <1>2, <1>3, <1>6, FilesStay
<1>8. LockOwned'
  BY <1>2, <1>6, ProcAssumption DEF Crash, IInv, LockOwned
<1>9. FilesOK'
  BY <1>3, BoundAssumption DEF Crash, IInv, FilesOK
<1> QED
  BY <1>6, <1>7, <1>8, <1>9 DEF IInv

LEMMA StepInv == IInv /\ [Next]_vars => IInv'
<1> SUFFICES ASSUME IInv, [Next]_vars PROVE IInv'
  OBVIOUS
<1>1. CASE UNCHANGED vars
  BY <1>1 DEF vars, IInv, FilesOK, ProcsOK, ProcOK, Opened, LockOwned, NothingTorn, Writing
<1>2. ASSUME NEW p \in Procs, Step(p) PROVE IInv'
  BY <1>2, ReadInv, LockInv, TruncateInv, UnlockInv, FlushInv, BeginConfInv, WriteConfInv,
     ReadAttributesInv DEF Step
<1> QED
  BY <1>1, <1>2, CallInv, CrashInv DEF Next

LEMMA Invariant == Spec => []IInv
  BY InitInv, StepInv, PTL DEF Spec

\* Every reachable state has the declared types, for any processes, fields, settings and
\* versions (property.hpp, named_mutex.hpp, supul.hpp and api.hpp).
THEOREM TypeCorrect == Spec => []TypeOK
<1>1. IInv => TypeOK
  BY DEF IInv, FilesOK, ProcsOK, TypeOK
<1> QED
  BY Invariant, <1>1, PTL

\* The mutex is held by one process at a time, exactly from the lock to the unlock of a
\* save (lock_guard_named_mutex in property.hpp:427).
THEOREM MutexOwned == Spec => []LockOwned
<1>1. IInv => LockOwned
  BY DEF IInv
<1> QED
  BY Invariant, <1>1, PTL

\* For any number of processes, whatever they save at the same time: no file stays empty
\* or half written unless a process ended in a call.
THEOREM FilesWhole == Spec => []NothingTorn
<1>1. IInv => NothingTorn
  BY DEF IInv
<1> QED
  BY Invariant, <1>1, PTL

-----------------------------------------------------------------------------
(* Calls that come one after the other                                       *)

Kept == {"db.type", "limit"}
Ver(s) == Value(s, "ver")

\* The properties of a project: no name twice, and a version.
NoTwins(s) == \A i, j \in DOMAIN s : s[i].name = s[j].name => i = j
Proper(s) ==
    /\ s \in Seq(Setting) /\ NoTwins(s)
    /\ "ver" \in NameAt(s) /\ Ver(s) \in Versions

\* Properties s are what was set last, but for what a call is about to set (arg).
Clean(arg) == arg \in Seq(Setting) /\ NoTwins(arg) /\ NameAt(arg) \subseteq Kept
Means(s, arg) == \A n \in Kept : Get(s, n, Defaults[n]) = Get(arg, n, last[n])
\* No program of process p is older than what properties s say.
Current(s, p) == ~Newer(Ver(s), Version[p])

HasObject(p) == procs[p].object # "none"
Halfway == Writing({"unlock", "flush"})

\* The file while calls come one after the other.
FileOrder ==
    IF Halfway THEN file = <<>>
    ELSE \/ /\ file = Missing /\ last = Defaults
            /\ \A p \in Procs : ~HasObject(p)
         \/ /\ Proper(file) /\ Means(file, <<>>)
            /\ \A p \in Procs : HasObject(p) => Current(file, p)

\* An object between two calls: what it holds is the file and what was set in it.
IdleOrder(p) ==
    (Busy(p, "idle") /\ HasObject(p)) =>
      /\ procs[p].props # <<>>
      /\ ~Halfway /\ ~procs[p].stale =>
           /\ Proper(procs[p].props) /\ Ver(procs[p].props) = Ver(file)
           /\ Clean(procs[p].arg) /\ Means(procs[p].props, procs[p].arg)

ReadOrder(p) ==
    Busy(p, "read") =>
      /\ procs[p].call \in {"open", "set", "reload"}
      /\ procs[p].call = "set" => /\ Clean(procs[p].arg) /\ Len(procs[p].arg) = 1
                                  /\ ~HasObject(p)
      /\ procs[p].call = "reload" => HasObject(p)
      /\ procs[p].call = "open" => procs[p].arg = <<>>

\* What a save is about to write.
SaveOrder(p) ==
    procs[p].pc \in Saving =>
      /\ procs[p].call \in {"open", "set", "save"}
      /\ procs[p].call = "open" => procs[p].arg = <<>>
      /\ HasObject(p) <=> procs[p].call = "save"
      /\ Proper(procs[p].props)
      /\ Clean(procs[p].arg) /\ Means(procs[p].props, procs[p].arg)
      /\ \A q \in Procs : HasObject(q) \/ (q = p /\ procs[p].call = "open") =>
           Current(procs[p].props, q)

\* The rest of an open.
ConfOrder(p) ==
    procs[p].pc \in {"conf", "write", "attributes"} =>
      /\ procs[p].call \in {"open", "edit"} /\ ~HasObject(p)
      /\ procs[p].pc = "attributes" => procs[p].call = "open"
      /\ procs[p].call = "open" => /\ procs[p].props = file /\ Proper(file)
                                   /\ Current(file, p)

OneByOne ==
    /\ \A p, q \in Procs : p # q => Busy(p, "idle") \/ Busy(q, "idle")
    /\ \A p \in Procs : procs[p].pc # "ended"

InOrder ==
    disorder = 0 =>
      /\ OneByOne /\ FileOrder
      /\ \A p \in Procs : IdleOrder(p) /\ ReadOrder(p) /\ SaveOrder(p) /\ ConfOrder(p)

-----------------------------------------------------------------------------
(* What setting, reading and defaults leave of other settings                *)

LEMMA ValueIs ==
    ASSUME NEW s, NoTwins(s), NEW i \in DOMAIN s
    PROVE  s[i].name \in NameAt(s) /\ Value(s, s[i].name) = s[i].value
<1>1. \E j \in DOMAIN s : s[j].name = s[i].name
  OBVIOUS
<1> DEFINE c == CHOOSE j \in DOMAIN s : s[j].name = s[i].name
<1>2. c \in DOMAIN s /\ s[c].name = s[i].name
  BY <1>1
<1>3. Value(s, s[i].name) = s[c].value
  BY DEF Value
<1> HIDE DEF c
<1>4. c = i
  BY <1>2 DEF NoTwins
<1> QED
  BY <1>3, <1>4 DEF NameAt

LEMMA SetKeeps ==
    ASSUME NEW s \in Seq(Setting), NoTwins(s), NEW n \in Names, NEW v \in Values
    PROVE  /\ Set(s, n, v) \in Seq(Setting) /\ NoTwins(Set(s, n, v))
           /\ NameAt(Set(s, n, v)) = NameAt(s) \cup {n}
           /\ Value(Set(s, n, v), n) = v
           /\ \A m \in NameAt(s) \ {n} : Value(Set(s, n, v), m) = Value(s, m)
<1> DEFINE t == Set(s, n, v)
<1>0. t \in Seq(Setting)
  BY SetType
<1>1. DOMAIN s = 1..Len(s) /\ Len(s) \in Nat /\ \A i \in DOMAIN s : s[i] \in Setting
  OBVIOUS
<1>2. /\ \A i \in DOMAIN s :
           /\ i \in DOMAIN t /\ t[i].name = s[i].name
           /\ t[i].value = IF s[i].name = n THEN v ELSE s[i].value
      /\ \A i \in DOMAIN t : i \in DOMAIN s \/ (t[i].name = n /\ n \notin NameAt(s))
      /\ \A i, j \in DOMAIN t : i \in DOMAIN s \/ j \in DOMAIN s \/ i = j
      /\ \E i \in DOMAIN t : t[i].name = n /\ t[i].value = v
  <2>1. CASE n \in NameAt(s)
    <3>1. t = [i \in DOMAIN s |-> IF s[i].name = n THEN [s[i] EXCEPT !.value = v] ELSE s[i]]
      BY <2>1 DEF Set
    <3>2. \A l \in Setting : [l EXCEPT !.value = v].name = l.name
                             /\ [l EXCEPT !.value = v].value = v
      BY DEF Setting
    <3>3. DOMAIN t = DOMAIN s
      BY <3>1
    <3>4. \A i \in DOMAIN s : /\ t[i].name = s[i].name
                              /\ t[i].value = IF s[i].name = n THEN v ELSE s[i].value
      BY <1>1, <3>1, <3>2
    <3>5. \E i \in DOMAIN s : s[i].name = n
      BY <2>1 DEF NameAt
    <3> HIDE DEF t
    <3> QED
      BY <3>3, <3>4, <3>5
  <2>2. CASE n \notin NameAt(s)
    <3> DEFINE l == [name |-> n, value |-> v]
    <3>1. t = Append(s, l) /\ l \in Setting
      BY <2>2 DEF Set, Setting, Names
    <3>2. l.name = n /\ l.value = v
      OBVIOUS
    <3> HIDE DEF t, l
    <3>3. /\ DOMAIN t = 1..Len(s) + 1 /\ t[Len(s) + 1] = l
          /\ \A i \in 1..Len(s) : t[i] = s[i]
      BY <3>1
    <3>4. \A i \in DOMAIN s : s[i].name # n
      BY <2>2 DEF NameAt
    <3>5. \A i \in DOMAIN t : i \in DOMAIN s \/ i = Len(s) + 1
      BY <1>1, <3>3
    <3>6. Len(s) + 1 \in DOMAIN t
      BY <1>1, <3>3
    <3> QED
      BY <1>1, <2>2, <3>2, <3>3, <3>4, <3>5, <3>6
  <2> QED
    BY <2>1, <2>2
<1> HIDE DEF t
<1>3. NoTwins(t)
  <2> SUFFICES ASSUME NEW i \in DOMAIN t, NEW j \in DOMAIN t, t[i].name = t[j].name
               PROVE  i = j
    BY DEF NoTwins
  <2>1. CASE i \in DOMAIN s /\ j \in DOMAIN s
    BY <1>2, <2>1 DEF NoTwins
  <2>2. CASE i \notin DOMAIN s
    BY <1>2, <2>2 DEF NameAt
  <2>3. CASE j \notin DOMAIN s
    BY <1>2, <2>3 DEF NameAt
  <2> QED
    BY <2>1, <2>2, <2>3
<1>4. NameAt(t) = NameAt(s) \cup {n}
  BY <1>2 DEF NameAt
<1>5. Value(t, n) = v
  BY <1>2, <1>3, ValueIs
<1>6. ASSUME NEW m \in NameAt(s) \ {n} PROVE Value(t, m) = Value(s, m)
  <2>1. PICK i \in DOMAIN s : s[i].name = m
    BY DEF NameAt
  <2>2. Value(s, m) = s[i].value
    BY <2>1, ValueIs
  <2>3. i \in DOMAIN t /\ t[i].name = m /\ t[i].value = s[i].value
    BY <1>2, <2>1
  <2>4. Value(t, m) = t[i].value
    BY <1>3, <2>3, ValueIs
  <2> QED
    BY <2>2, <2>3, <2>4
<1> QED
  BY <1>0, <1>3, <1>4, <1>5, <1>6 DEF t

LEMMA GetSet ==
    ASSUME NEW s \in Seq(Setting), NoTwins(s), NEW n \in Names, NEW v \in Values,
           NEW m, NEW d
    PROVE  Get(Set(s, n, v), m, d) = IF m = n THEN v ELSE Get(s, m, d)
  BY SetKeeps DEF Get

\* Properties that were saved are read again as they are.
LEMMA ReadBack ==
    ASSUME NEW s \in Seq(Setting), NoTwins(s)
    PROVE  FromLines(s) = s
<1> DEFINE N == Len(s)
<1>1. N \in Nat
  OBVIOUS
<1>2. PICK g \in [0..N -> Seq(Setting)] : Reads(s, g, N) /\ FromLines(s) = g[N]
  BY FromLinesReads
<1> DEFINE Bad == {n \in 0..N : g[n] # SubSeq(s, 1, n)}
<1>3. Bad = {}
  <2> SUFFICES ASSUME Bad # {} PROVE FALSE
    OBVIOUS
  <2>1. Bad \in SUBSET Nat
    BY <1>1
  <2>2. PICK n \in Bad : \A m \in Bad : n <= m
    <3> HIDE DEF Bad
    <3> QED
      BY <2>1, Least
  <2>3. n \in 0..N /\ g[n] # SubSeq(s, 1, n) /\ n \in Nat
    BY <1>1, <2>2
  <2>4. n # 0
    BY <1>2, <2>3 DEF Reads
  <2>5. n - 1 \in 0..N /\ n - 1 \in Nat /\ n \in 1..N
    BY <1>1, <2>3, <2>4
  <2>6. g[n - 1] = SubSeq(s, 1, n - 1)
    <3>1. n - 1 \notin Bad
      <4> HIDE DEF Bad
      <4> QED
        BY <2>2, <2>5, <2>3
    <3> QED
      BY <2>5, <3>1
  <2>7. g[n] = Line(g[n - 1], s[n])
    BY <1>2, <2>5 DEF Reads
  <2>8. s[n].name \notin NameAt(SubSeq(s, 1, n - 1))
    <3>1. \A i \in DOMAIN SubSeq(s, 1, n - 1) :
            i \in DOMAIN s /\ i # n /\ SubSeq(s, 1, n - 1)[i] = s[i]
      BY <2>5
    <3>2. n \in DOMAIN s
      BY <2>5
    <3> QED
      BY <3>1, <3>2 DEF NameAt, NoTwins
  <2>9. g[n] = Append(SubSeq(s, 1, n - 1), [name |-> s[n].name, value |-> s[n].value])
    BY <2>6, <2>7, <2>8 DEF Line, Set
  <2>10. [name |-> s[n].name, value |-> s[n].value] = s[n]
    <3>1. s[n] \in Setting
      BY <2>5
    <3> QED
      BY <3>1 DEF Setting
  <2>11. Append(SubSeq(s, 1, n - 1), s[n]) = SubSeq(s, 1, n)
    BY <2>5
  <2> QED
    BY <2>3, <2>9, <2>10, <2>11
<1>4. g[N] = SubSeq(s, 1, N)
  BY <1>1, <1>3
<1>5. SubSeq(s, 1, N) = s
  OBVIOUS
<1> QED
  BY <1>2, <1>4, <1>5

LEMMA DefaultKeeps ==
    ASSUME NEW s \in Seq(Setting), NoTwins(s), NEW n \in Kept
    PROVE  LET t == Default(s, n, Defaults[n])
           IN  /\ t \in Seq(Setting) /\ NoTwins(t) /\ NameAt(t) = NameAt(s) \cup {n}
               /\ \A m \in Kept : Get(t, m, Defaults[m]) = Get(s, m, Defaults[m])
               /\ "ver" \in NameAt(s) => Value(t, "ver") = Value(s, "ver")
<1>1. n \in Names /\ Defaults[n] \in Values /\ n # "ver"
  BY DefaultsType DEF Kept, Names
<1>2. CASE n \in NameAt(s)
  BY <1>2 DEF Default
<1>3. CASE n \notin NameAt(s)
  <2>1. Default(s, n, Defaults[n]) = Set(s, n, Defaults[n])
    BY <1>3 DEF Default
  <2>2. Get(s, n, Defaults[n]) = Defaults[n]
    BY <1>3 DEF Get
  <2> QED
    BY <1>1, <2>1, <2>2, SetKeeps, GetSet
<1> QED
  BY <1>2, <1>3

LEMMA WithDefaultsKeeps ==
    ASSUME NEW s \in Seq(Setting), NoTwins(s), NEW v \in Versions
    PROVE  LET t == WithDefaults(s, v)
           IN  /\ Proper(t) /\ Ver(t) = v
               /\ \A m \in Kept : Get(t, m, Defaults[m]) = Get(s, m, Defaults[m])
<1> DEFINE a == Set(s, "ver", v)
           b == Default(a, "db.type", Defaults["db.type"])
           c == Default(b, "limit", Defaults["limit"])
<1>1. "ver" \in Names /\ v \in Values /\ "db.type" \in Kept /\ "limit" \in Kept
      /\ "ver" \notin Kept
  BY DEF Names, Values, Kept
<1>2. /\ a \in Seq(Setting) /\ NoTwins(a) /\ "ver" \in NameAt(a) /\ Value(a, "ver") = v
      /\ \A m \in Kept : Get(a, m, Defaults[m]) = Get(s, m, Defaults[m])
  BY <1>1, SetKeeps, GetSet
<1> HIDE DEF a
<1>3. /\ b \in Seq(Setting) /\ NoTwins(b) /\ "ver" \in NameAt(b) /\ Value(b, "ver") = v
      /\ \A m \in Kept : Get(b, m, Defaults[m]) = Get(a, m, Defaults[m])
  BY <1>1, <1>2, DefaultKeeps
<1> HIDE DEF b
<1>4. /\ c \in Seq(Setting) /\ NoTwins(c) /\ "ver" \in NameAt(c) /\ Value(c, "ver") = v
      /\ \A m \in Kept : Get(c, m, Defaults[m]) = Get(b, m, Defaults[m])
  BY <1>1, <1>3, DefaultKeeps
<1>5. WithDefaults(s, v) = c
  BY DEF WithDefaults, a, b
<1> QED
  BY <1>2, <1>3, <1>4, <1>5 DEF Proper, Ver

\* Into an empty file.
LEMMA OverNothing ==
    ASSUME NEW s \in Seq(Setting)
    PROVE  Over(s, <<>>) = s
<1>1. Len(s) \in Nat /\ Len(<<>>) = 0
  OBVIOUS
<1>2. SubSeq(<<>>, Len(s) + 1, 0) = <<>>
  BY <1>1
<1> QED
  BY <1>1, <1>2 DEF Over

-----------------------------------------------------------------------------
(* Versions                                                                  *)

LEMMA PaddedNumbers ==
    ASSUME NEW v \in Versions, NEW n \in 1..4
    PROVE  Padded(Numbers[v])[n] \in Nat
<1>1. Numbers[v] \in Seq(Nat)
  BY VersionAssumption
<1> QED
  BY <1>1 DEF Padded

\* No version is newer than itself, and being newer carries over.
LEMMA NewerOrder ==
    ASSUME NEW a \in Versions, NEW b \in Versions, NEW c \in Versions
    PROVE  /\ ~Newer(a, a)
           /\ Newer(a, b) /\ Newer(b, c) => Newer(a, c)
<1> DEFINE x == Padded(Numbers[a])
           y == Padded(Numbers[b])
           z == Padded(Numbers[c])
<1>1. \A n \in 1..4 : x[n] \in Nat /\ y[n] \in Nat /\ z[n] \in Nat
  BY PaddedNumbers
<1>2. ~Newer(a, a)
  BY <1>1 DEF Newer
<1>3. ASSUME Newer(a, b), Newer(b, c) PROVE Newer(a, c)
  <2>1. PICK n \in 1..4 : y[n] > x[n] /\ \A m \in 1..(n - 1) : y[m] = x[m]
    BY <1>3 DEF Newer
  <2>2. PICK k \in 1..4 : z[k] > y[k] /\ \A m \in 1..(k - 1) : z[m] = y[m]
    BY <1>3 DEF Newer
  <2> HIDE DEF x, y, z
  <2> DEFINE l == IF n < k THEN n ELSE k
  <2>3. l \in 1..4 /\ z[l] > x[l] /\ \A m \in 1..(l - 1) : z[m] = x[m]
    BY <1>1, <2>1, <2>2
  <2> QED
    BY <2>3 DEF Newer, x, z
<1> QED
  BY <1>2, <1>3

-----------------------------------------------------------------------------
(* The order is kept                                                         *)

LEMMA NothingClean == Clean(<<>>) /\ \A n, d : Get(<<>>, n, d) = d
  BY DEF Clean, NoTwins, NameAt, Get

LEMMA MissingImproper == ~Proper(Missing)
<1> DEFINE l == [name |-> "missing", value |-> ""]
<1>1. l.name = "missing" /\ Missing = <<l>>
  BY DEF Missing
<1> HIDE DEF l
<1>2. DOMAIN Missing = {1} /\ Missing[1] = l
  BY <1>1
<1>3. "ver" \notin NameAt(Missing)
  BY <1>1, <1>2 DEF NameAt
<1> QED
  BY <1>3 DEF Proper

LEMMA InitOrder == Init => InOrder
<1> SUFFICES ASSUME Init PROVE InOrder
  OBVIOUS
<1>1. \A p \in Procs : procs[p] = Idle
  BY DEF Init
<1>2. Idle.pc = "idle" /\ Idle.object = "none"
  BY DEF Idle
<1>3. \A p \in Procs : Busy(p, "idle") /\ ~HasObject(p) /\ procs[p].pc = "idle"
  BY <1>1, <1>2 DEF Busy, HasObject
<1>4. ~Halfway /\ OneByOne
  BY <1>3 DEF Halfway, Writing, OneByOne
<1>5. ASSUME NEW v \in Versions,
             file = <<[name |-> "ver", value |-> v],
                      [name |-> "db.type", value |-> "{choose one}"]>>
      PROVE  Proper(file) /\ Means(file, <<>>)
  <2> DEFINE a == [name |-> "ver", value |-> v]
             b == [name |-> "db.type", value |-> "{choose one}"]
  <2>1. a \in Setting /\ b \in Setting
    BY DEF Setting, Values
  <2>2. /\ a.name = "ver" /\ a.value = v /\ b.name = "db.type"
        /\ b.value = "{choose one}"
    OBVIOUS
  <2> HIDE DEF a, b
  <2>3. file = <<a, b>>
    BY <1>5 DEF a, b
  <2>4. /\ file \in Seq(Setting) /\ DOMAIN file = {1, 2}
        /\ file[1] = a /\ file[2] = b
    BY <2>1, <2>3
  <2>5. NoTwins(file) /\ NameAt(file) = {"ver", "db.type"}
    BY <2>2, <2>4 DEF NoTwins, NameAt
  <2>6. Value(file, "ver") = v /\ Value(file, "db.type") = "{choose one}"
    BY <2>2, <2>4, <2>5, ValueIs
  <2>7. last = Defaults
    BY DEF Init
  <2>8. Defaults["db.type"] = "{choose one}"
    BY DEF Defaults
  <2> QED
    BY <2>4, <2>5, <2>6, <2>7, <2>8, NothingClean DEF Proper, Ver, Means, Kept, Get
<1>6. FileOrder
  BY <1>3, <1>4, <1>5 DEF FileOrder, Init
<1> QED
  BY <1>3, <1>4, <1>6 DEF InOrder, IdleOrder, ReadOrder, SaveOrder, ConfOrder, Busy, Saving

\* A step of one process while the others are between their calls.
LEMMA AloneStep ==
    ASSUME IInv, InOrder, disorder = 0, NEW p \in Procs, NEW r,
           \A q \in Procs \ {p} : Busy(q, "idle"),
           procs' = [procs EXCEPT ![p] = r], r.pc # "ended",
           Halfway' \/ (~Halfway /\ UNCHANGED file), UNCHANGED last,
           FileOrder',
           IdleOrder(p)', ReadOrder(p)', SaveOrder(p)', ConfOrder(p)'
    PROVE  InOrder'
<1>1. procs'[p] = r /\ \A q \in Procs \ {p} : procs'[q] = procs[q] /\ procs'[q].pc = "idle"
  BY DEF IInv, ProcsOK, Busy
<1>2. OneByOne'
  BY <1>1 DEF OneByOne, Busy
<1>3. ASSUME NEW q \in Procs \ {p}
      PROVE  IdleOrder(q)' /\ ReadOrder(q)' /\ SaveOrder(q)' /\ ConfOrder(q)'
  <2>1. IdleOrder(q)
    BY DEF InOrder
  <2>2. IdleOrder(q)'
    BY <1>1, <2>1 DEF IdleOrder, Busy, HasObject, Means
  <2>3. ReadOrder(q)' /\ SaveOrder(q)' /\ ConfOrder(q)'
    BY <1>1 DEF ReadOrder, SaveOrder, ConfOrder, Busy, Saving
  <2> QED
    BY <2>2, <2>3
<1> QED
  BY <1>2, <1>3 DEF InOrder

\* The file is left alone and is still what the objects and the settings say, if a
\* process that gets an object is not older than what it holds.
LEMMA FileLeft ==
    ASSUME IInv, InOrder, disorder = 0, NEW p \in Procs, NEW r,
           \A q \in Procs \ {p} : Busy(q, "idle"),
           procs' = [procs EXCEPT ![p] = r], r.pc # "ended",
           procs[p].pc \notin {"unlock", "flush"}, r.pc \notin {"unlock", "flush"},
           UNCHANGED <<file, last>>,
           r.object = "none" \/ HasObject(p) \/ (Proper(file) /\ Current(file, p)),
           IdleOrder(p)', ReadOrder(p)', SaveOrder(p)', ConfOrder(p)'
    PROVE  InOrder'
<1>1. procs'[p] = r /\ \A q \in Procs \ {p} : procs'[q] = procs[q] /\ procs[q].pc = "idle"
  BY DEF IInv, ProcsOK, Busy
<1>2. ~Halfway /\ ~Halfway'
  BY <1>1 DEF Halfway, Writing
<1>3. FileOrder
  BY DEF InOrder
<1>4. \A q \in Procs : HasObject(q)' => HasObject(q) \/ (Proper(file) /\ Current(file, q))
  BY <1>1 DEF HasObject
<1>5. FileOrder'
  <2>1. CASE file = Missing /\ last = Defaults /\ \A q \in Procs : ~HasObject(q)
    <3>1. \A q \in Procs : ~HasObject(q)'
      BY <1>4, <2>1, MissingImproper
    <3> QED
      BY <1>2, <2>1, <3>1 DEF FileOrder
  <2>2. CASE /\ Proper(file) /\ Means(file, <<>>)
             /\ \A q \in Procs : HasObject(q) => Current(file, q)
    <3>1. \A q \in Procs : HasObject(q)' => Current(file, q)
      BY <1>4, <2>2
    <3>2. Means(file, <<>>)'
      BY <2>2 DEF Means
    <3> QED
      BY <1>2, <2>2, <3>1, <3>2 DEF FileOrder
  <2> QED
    BY <1>2, <1>3, <2>1, <2>2 DEF FileOrder
<1> QED
  BY <1>2, <1>5, AloneStep

\* The begin of a call.
LEMMA BeginsOrder ==
    ASSUME IInv, InOrder, disorder = 0, disorder' = 0,
           NEW p \in Procs, NEW call \in Calls, NEW pc \in {"read", "lock"}, NEW arg,
           Busy(p, "idle"), Begins(p, call, pc, arg),
           ReadOrder(p)', SaveOrder(p)'
    PROVE  InOrder'
<1> DEFINE r == [procs[p] EXCEPT !.call = call, !.pc = pc, !.arg = arg]
<1>1. procs[p] \in Proc /\ procs \in [Procs -> Proc] /\ procs[p].pc = "idle"
  BY DEF IInv, ProcsOK, Busy
<1>2. r.pc = pc /\ r.call = call /\ r.arg = arg /\ r.object = procs[p].object
  BY <1>1 DEF Proc
<1>3. procs' = [procs EXCEPT ![p] = r]
  BY <1>1 DEF Begins
<1> HIDE DEF r
<1>4. procs'[p] = r
  BY <1>1, <1>3
<1>5. \A q \in Procs \ {p} : Busy(q, "idle")
  <2>1. Alone(p)
    BY DEF Begins, Counted
  <2> QED
    BY <2>1 DEF Alone, Busy, InOrder, OneByOne
<1>6. IdleOrder(p)' /\ ConfOrder(p)'
  BY <1>2, <1>4 DEF IdleOrder, ConfOrder, Busy
<1>7. r.object = "none" \/ HasObject(p)
  BY <1>2 DEF HasObject
<1> QED
  BY <1>1, <1>2, <1>3, <1>5, <1>6, <1>7, FileLeft DEF Begins

LEMMA CallsOrder ==
    ASSUME IInv, InOrder, disorder = 0, disorder' = 0, NEW p \in Procs,
           Open(p) \/ Save(p) \/ Reload(p) \/ \E n \in Kept, v \in Values : SetFile(p, n, v)
    PROVE  InOrder'
<1>0. procs[p] \in Proc /\ procs \in [Procs -> Proc]
  BY DEF IInv, ProcsOK
<1>1. ASSUME NEW call \in Calls, NEW pc \in {"read", "lock"}, NEW arg, Begins(p, call, pc, arg)
      PROVE  /\ procs'[p].pc = pc /\ procs'[p].call = call /\ procs'[p].arg = arg
             /\ procs'[p].object = procs[p].object /\ procs'[p].props = procs[p].props
             /\ \A q \in Procs : procs'[q].object = procs[q].object
  BY <1>0, <1>1 DEF Begins, Proc
<1>2. CASE Open(p)
  <2>1. ReadOrder(p)' /\ SaveOrder(p)'
    BY <1>1, <1>2 DEF Open, Calls, ReadOrder, SaveOrder, Busy, Saving
  <2> QED
    BY <1>2, <2>1, BeginsOrder DEF Open, Calls
<1>3. CASE Reload(p)
  <2>1. ReadOrder(p)' /\ SaveOrder(p)'
    BY <1>1, <1>3 DEF Reload, Calls, ReadOrder, SaveOrder, Busy, Saving, HasObject
  <2> QED
    BY <1>3, <2>1, BeginsOrder DEF Reload, Calls
<1>4. ASSUME NEW n \in Kept, NEW v \in Values, SetFile(p, n, v) PROVE InOrder'
  <2> DEFINE l == [name |-> n, value |-> v]
  <2>1. l \in Setting /\ l.name = n
    BY DEF Setting, Kept
  <2> HIDE DEF l
  <2>2. <<l>> \in Seq(Setting) /\ Len(<<l>>) = 1 /\ DOMAIN <<l>> = {1} /\ <<l>>[1] = l
    BY <2>1
  <2>3. Clean(<<l>>)
    BY <2>1, <2>2 DEF Clean, NoTwins, NameAt
  <2>4. Begins(p, "set", "read", <<l>>)
    BY <1>4 DEF SetFile, l
  <2>5. procs'[p].pc = "read" /\ procs'[p].call = "set" /\ procs'[p].arg = <<l>>
        /\ procs'[p].object = "none"
    BY <1>1, <1>4, <2>4 DEF SetFile, Calls
  <2>6. ReadOrder(p)' /\ SaveOrder(p)'
    BY <2>2, <2>3, <2>5 DEF ReadOrder, SaveOrder, Busy, Saving, HasObject
  <2> QED
    BY <1>4, <2>4, <2>6, BeginsOrder DEF SetFile, Calls
<1>5. CASE Save(p)
  <2>1. /\ Busy(p, "idle") /\ HasObject(p) /\ Begins(p, "save", "lock", procs[p].arg)
    BY <1>5 DEF Save, HasObject
  <2>2. Alone(p) /\ ~procs[p].stale
    BY <2>1 DEF Begins, Counted
  <2>3. ~Halfway
    BY <2>1, <2>2 DEF Halfway, Writing, Alone, Busy
  <2>4. /\ Proper(procs[p].props) /\ Ver(procs[p].props) = Ver(file)
        /\ Clean(procs[p].arg) /\ Means(procs[p].props, procs[p].arg)
    BY <2>1, <2>2, <2>3 DEF InOrder, IdleOrder
  <2>5. \A q \in Procs : HasObject(q) => Current(procs[p].props, q)
    BY <2>1, <2>3, <2>4 DEF InOrder, FileOrder, Current
  <2>6. /\ procs'[p].pc = "lock" /\ procs'[p].call = "save" /\ procs'[p].arg = procs[p].arg
        /\ procs'[p].object = procs[p].object /\ procs'[p].props = procs[p].props
        /\ \A q \in Procs : procs'[q].object = procs[q].object
    BY <1>1, <2>1 DEF Calls
  <2>7. last' = last
    BY <2>1 DEF Begins
  <2>8. SaveOrder(p)'
    BY <2>1, <2>4, <2>5, <2>6, <2>7 DEF SaveOrder, HasObject, Means
  <2>9. ReadOrder(p)'
    BY <2>6 DEF ReadOrder, Busy
  <2> QED
    BY <2>1, <2>8, <2>9, BeginsOrder DEF Calls
<1> QED
  BY <1>2, <1>3, <1>4, <1>5

LEMMA SetObjectOrder ==
    ASSUME IInv, InOrder, disorder = 0, NEW p \in Procs, NEW n \in Kept, NEW v \in Values,
           SetObject(p, n, v)
    PROVE  InOrder'
<1> DEFINE props == Set(procs[p].props, n, v)
           arg == Set(procs[p].arg, n, v)
           r == [procs[p] EXCEPT !.props = props, !.arg = arg]
<1>1. procs[p] \in Proc /\ procs \in [Procs -> Proc] /\ procs[p].pc = "idle"
  BY DEF IInv, ProcsOK, SetObject, Busy
<1>2. procs[p].props \in Seq(Setting) /\ procs[p].arg \in Seq(Setting)
  BY <1>1 DEF Proc
<1>3. /\ procs' = [procs EXCEPT ![p] = r] /\ HasObject(p)
      /\ UNCHANGED <<file, conf, lock, disorder, last>>
  BY <1>1 DEF SetObject, HasObject
<1>4. n \in Names /\ n # "ver"
  BY DEF Kept, Names
<1>5. props # <<>>
  BY <1>2, <1>4, SetType
<1>6. r.pc = "idle" /\ r.props = props /\ r.arg = arg /\ r.stale = procs[p].stale
      /\ r.object = procs[p].object
  BY <1>1 DEF Proc
<1>7. procs'[p] = r /\ \A q \in Procs \ {p} : procs'[q] = procs[q]
  BY <1>1, <1>3
<1>8. ASSUME ~Halfway, ~procs[p].stale
      PROVE  /\ Proper(props) /\ Ver(props) = Ver(file) /\ Clean(arg) /\ Means(props, arg)
  <2>1. /\ Proper(procs[p].props) /\ Ver(procs[p].props) = Ver(file)
        /\ Clean(procs[p].arg) /\ Means(procs[p].props, procs[p].arg)
    BY <1>1, <1>3, <1>8 DEF InOrder, IdleOrder, Busy
  <2>2. Proper(props) /\ Ver(props) = Ver(file)
    BY <1>4, <2>1, SetKeeps DEF Proper, Ver
  <2>3. Clean(arg)
    BY <1>4, <2>1, SetKeeps DEF Clean
  <2>4. /\ NoTwins(procs[p].props) /\ NoTwins(procs[p].arg)
    BY <2>1 DEF Proper, Clean
  <2>5. ASSUME NEW m \in Kept
        PROVE  Get(props, m, Defaults[m]) = Get(arg, m, last[m])
    <3>1. Get(props, m, Defaults[m]) = IF m = n THEN v ELSE Get(procs[p].props, m, Defaults[m])
      BY <1>2, <1>4, <2>4, GetSet
    <3>2. Get(arg, m, last[m]) = IF m = n THEN v ELSE Get(procs[p].arg, m, last[m])
      BY <1>2, <1>4, <2>4, GetSet
    <3> QED
      BY <2>1, <3>1, <3>2 DEF Means
  <2> QED
    BY <2>2, <2>3, <2>5 DEF Means
<1> HIDE DEF props, arg, r
<1>9. \A q \in Procs : procs'[q].pc = procs[q].pc /\ procs'[q].object = procs[q].object
  BY <1>1, <1>6, <1>7
<1>10. Halfway' <=> Halfway
  BY <1>9 DEF Halfway, Writing
<1>11. FileOrder'
  BY <1>3, <1>9, <1>10 DEF InOrder, FileOrder, HasObject, Means
<1>12. OneByOne'
  BY <1>9 DEF InOrder, OneByOne, Busy
<1>13. IdleOrder(p)' /\ ReadOrder(p)' /\ SaveOrder(p)' /\ ConfOrder(p)'
  <2>1. IdleOrder(p)'
    BY <1>3, <1>5, <1>6, <1>7, <1>8, <1>10 DEF IdleOrder, Means
  <2>2. ReadOrder(p)' /\ SaveOrder(p)' /\ ConfOrder(p)'
    BY <1>6, <1>7 DEF ReadOrder, SaveOrder, ConfOrder, Busy, Saving
  <2> QED
    BY <2>1, <2>2
<1>14. ASSUME NEW q \in Procs \ {p}
       PROVE  IdleOrder(q)' /\ ReadOrder(q)' /\ SaveOrder(q)' /\ ConfOrder(q)'
  <2>0. IdleOrder(q) /\ ReadOrder(q) /\ SaveOrder(q) /\ ConfOrder(q) /\ procs'[q] = procs[q]
    BY <1>7 DEF InOrder
  <2>1. IdleOrder(q)'
    BY <1>3, <1>10, <2>0 DEF IdleOrder, Busy, HasObject, Means
  <2>2. ReadOrder(q)'
    BY <2>0 DEF ReadOrder, Busy, HasObject
  <2>3. SaveOrder(q)'
    BY <1>3, <1>9, <2>0 DEF SaveOrder, HasObject, Means
  <2>4. ConfOrder(q)'
    BY <1>3, <2>0 DEF ConfOrder, HasObject
  <2> QED
    BY <2>1, <2>2, <2>3, <2>4
<1> QED
  BY <1>11, <1>12, <1>13, <1>14 DEF InOrder

LEMMA EditConfOrder ==
    ASSUME IInv, InOrder, disorder = 0, disorder' = 0, NEW p \in Procs, EditConf(p)
    PROVE  InOrder'
<1>1. PICK c \in Edited(conf) :
        procs' = [procs EXCEPT ![p].call = "edit", ![p].pc = "conf", ![p].edit = c]
  BY DEF EditConf
<1> DEFINE r == [procs[p] EXCEPT !.call = "edit", !.pc = "conf", !.edit = c]
<1>2. procs[p] \in Proc /\ procs \in [Procs -> Proc] /\ procs[p].pc = "idle"
      /\ procs[p].object = "none"
  BY DEF IInv, ProcsOK, EditConf, Busy
<1>3. r.pc = "conf" /\ r.call = "edit" /\ r.object = "none"
  BY <1>2 DEF Proc
<1>4. procs' = [procs EXCEPT ![p] = r]
  BY <1>1, <1>2
<1> HIDE DEF r
<1>5. procs'[p] = r
  BY <1>2, <1>4
<1>6. \A q \in Procs \ {p} : Busy(q, "idle")
  <2>1. Alone(p)
    BY DEF EditConf, Counted
  <2> QED
    BY <2>1 DEF Alone, Busy, InOrder, OneByOne
<1>7. IdleOrder(p)' /\ ReadOrder(p)' /\ SaveOrder(p)' /\ ConfOrder(p)'
  BY <1>3, <1>5 DEF IdleOrder, ReadOrder, SaveOrder, ConfOrder, Busy, Saving, HasObject
<1> QED
  BY <1>2, <1>3, <1>4, <1>6, <1>7, FileLeft DEF EditConf

\* A process in a call is alone.
LEMMA InCall ==
    ASSUME IInv, InOrder, disorder = 0, NEW p \in Procs, procs[p].pc # "idle"
    PROVE  /\ procs[p] \in Proc /\ procs \in [Procs -> Proc]
           /\ \A q \in Procs \ {p} : Busy(q, "idle") /\ procs[q].pc = "idle"
           /\ Halfway <=> procs[p].pc \in {"unlock", "flush"}
<1>1. procs[p] \in Proc /\ procs \in [Procs -> Proc]
  BY DEF IInv, ProcsOK
<1>2. \A q \in Procs \ {p} : Busy(q, "idle") /\ procs[q].pc = "idle"
  BY DEF InOrder, OneByOne, Busy
<1> QED
  BY <1>1, <1>2 DEF Halfway, Writing

LEMMA ReadOrderStep ==
    ASSUME IInv, InOrder, disorder = 0, NEW p \in Procs, Read(p)
    PROVE  InOrder'
<1> DEFINE new == FromLines(IF file = Missing THEN <<>> ELSE file)
           ver == Get(new, "ver", "")
           was == [procs[p] EXCEPT !.props = new, !.stale = FALSE]
           goes(pc, props, create) == [was EXCEPT
             !.pc = pc, !.props = props, !.create = create,
             !.object = IF was.call = "open" THEN "none" ELSE @]
<1>1. procs[p].pc = "read"
  BY DEF Read, Busy
<1>2. /\ procs[p] \in Proc /\ procs \in [Procs -> Proc] /\ ~Halfway
      /\ \A q \in Procs \ {p} : Busy(q, "idle")
  BY <1>1, InCall
<1>3. /\ UNCHANGED <<file, conf, lock, disorder, last>>
      /\ \/ /\ was.call = "open" /\ (ver # "" => Newer(ver, Version[p]))
            /\ procs' = [procs EXCEPT ![p] = goes("lock", WithDefaults(new, Version[p]), ver = "")]
         \/ /\ was.call = "open" /\ ~(ver # "" => Newer(ver, Version[p]))
            /\ procs' = [procs EXCEPT ![p] = goes("attributes", new, FALSE)]
         \/ /\ was.call = "set" /\ new # <<>>
            /\ procs' = [procs EXCEPT ![p] =
                 goes("lock", Set(new, was.arg[1].name, was.arg[1].value), FALSE)]
         \/ /\ was.call = "reload" \/ (was.call = "set" /\ new = <<>>)
            /\ procs' = [procs EXCEPT ![p] = Ended(was, was.object)]
  BY DEF Read, Returns
<1>4. /\ new \in Seq(Setting) /\ NoTwins(new) /\ Means(new, <<>>)
      /\ \/ file = Missing /\ new = <<>> /\ \A q \in Procs : ~HasObject(q)
         \/ Proper(file) /\ new = file /\ \A q \in Procs : HasObject(q) => Current(file, q)
  <2>1. FileOrder
    BY DEF InOrder
  <2>2. CASE file = Missing /\ last = Defaults /\ \A q \in Procs : ~HasObject(q)
    <3>1. <<>> \in Seq(Setting) /\ NoTwins(<<>>)
      BY NothingClean DEF Clean
    <3>2. new = <<>>
      BY <2>2, <3>1, ReadBack
    <3>3. Means(<<>>, <<>>)
      BY <2>2, NothingClean DEF Means
    <3> QED
      BY <2>2, <3>1, <3>2, <3>3
  <2>3. CASE /\ Proper(file) /\ Means(file, <<>>)
             /\ \A q \in Procs : HasObject(q) => Current(file, q)
    <3>1. file # Missing
      BY <2>3, MissingImproper
    <3>2. new = FromLines(file)
      BY <3>1
    <3>3. new = file
      BY <2>3, <3>2, ReadBack DEF Proper
    <3> QED
      BY <2>3, <3>3 DEF Proper
  <2> QED
    BY <1>2, <2>1, <2>2, <2>3 DEF FileOrder
<1>5. ReadOrder(p)
  BY DEF InOrder
<1> HIDE DEF new
<1>6. /\ was \in Proc /\ was.pc = "read" /\ was.call = procs[p].call
      /\ was.arg = procs[p].arg /\ was.object = procs[p].object
      /\ was.props = new /\ was.stale = FALSE
  BY <1>1, <1>2, <1>4 DEF Proc
<1> HIDE DEF was
<1>7. ASSUME NEW r, r.pc # "ended", r.pc \notin {"unlock", "flush"},
             procs' = [procs EXCEPT ![p] = r], r.object = "none" \/ HasObject(p),
             IdleOrder(p)', ReadOrder(p)', SaveOrder(p)', ConfOrder(p)'
      PROVE  InOrder'
  BY <1>1, <1>2, <1>3, <1>7, FileLeft
<1>8. ASSUME NEW pc, NEW props, NEW create
      PROVE  /\ goes(pc, props, create).pc = pc
             /\ goes(pc, props, create).props = props
             /\ goes(pc, props, create).call = procs[p].call
             /\ goes(pc, props, create).arg = procs[p].arg
             /\ goes(pc, props, create).object =
                  IF procs[p].call = "open" THEN "none" ELSE procs[p].object
  BY <1>6 DEF Proc
<1> HIDE DEF goes
\* Proper properties that say what was set, but for arg, may be saved.
<1>9. ASSUME NEW props, NEW create, procs' = [procs EXCEPT ![p] = goes("lock", props, create)],
             Proper(props), Clean(procs[p].arg), Means(props, procs[p].arg),
             procs[p].call \in {"open", "set"},
             procs[p].call = "open" => Current(props, p),
             \A q \in Procs : HasObject(q) => Current(props, q)
      PROVE  InOrder'
  <2> DEFINE r == goes("lock", props, create)
  <2>1. /\ r.pc = "lock" /\ r.props = props /\ r.call = procs[p].call
        /\ r.arg = procs[p].arg /\ r.object = "none"
    BY <1>1, <1>5, <1>8, <1>9 DEF ReadOrder, HasObject, Busy
  <2>2. procs'[p] = r /\ \A q \in Procs \ {p} : procs'[q] = procs[q]
    BY <1>2, <1>9
  <2> HIDE DEF r
  <2>3. \A q \in Procs : HasObject(q)' => HasObject(q)
    BY <2>1, <2>2 DEF HasObject
  <2>4. SaveOrder(p)'
    <3>1. Means(props, procs[p].arg)'
      BY <1>3, <1>9, <2>1, <2>2 DEF Means
    <3>2. ~HasObject(p)'
      BY <2>1, <2>2 DEF HasObject
    <3>3. \A q \in Procs : HasObject(q)' \/ (q = p /\ procs'[p].call = "open") =>
            Current(props, q)
      BY <1>9, <2>1, <2>2, <2>3
    <3>4. procs[p].call = "open" => procs[p].arg = <<>>
      BY <1>1, <1>5 DEF ReadOrder, Busy
    <3>5. Means(procs[p].props, procs[p].arg)'
      BY <1>3, <1>9, <2>1, <2>2 DEF Means
    <3> QED
      BY <1>9, <2>1, <2>2, <3>2, <3>3, <3>4, <3>5 DEF SaveOrder
  <2>5. IdleOrder(p)' /\ ReadOrder(p)' /\ ConfOrder(p)'
    BY <2>1, <2>2 DEF IdleOrder, ReadOrder, ConfOrder, Busy
  <2> QED
    BY <1>7, <1>9, <2>1, <2>4, <2>5 DEF r
<1>10. CASE /\ was.call = "open" /\ (ver # "" => Newer(ver, Version[p]))
            /\ procs' = [procs EXCEPT ![p] = goes("lock", WithDefaults(new, Version[p]), ver = "")]
  <2> DEFINE props == WithDefaults(new, Version[p])
  <2>1. Version[p] \in Versions
    BY VersionAssumption
  <2>2. /\ Proper(props) /\ Ver(props) = Version[p]
        /\ \A m \in Kept : Get(props, m, Defaults[m]) = Get(new, m, Defaults[m])
    BY <1>4, <2>1, WithDefaultsKeeps
  <2> HIDE DEF props
  <2>3. procs[p].call = "open" /\ procs[p].arg = <<>>
    BY <1>1, <1>5, <1>6, <1>10 DEF ReadOrder, Busy
  <2>4. Clean(procs[p].arg) /\ Means(props, procs[p].arg)
    BY <1>4, <2>2, <2>3, NothingClean DEF Means
  <2>5. Current(props, p)
    BY <2>1, <2>2, NewerOrder DEF Current
  <2>6. ASSUME NEW q \in Procs, HasObject(q) PROVE Current(props, q)
    <3>1. Proper(file) /\ new = file /\ Current(file, q)
      BY <1>4, <2>6
    <3>2. ver = Ver(file) /\ ver \in Versions /\ ver # ""
      BY <3>1, VersionAssumption DEF Proper, Ver, Get
    <3>3. Newer(ver, Version[p]) /\ ~Newer(ver, Version[q])
      BY <1>10, <3>1, <3>2 DEF Current
    <3>4. Version[q] \in Versions
      BY VersionAssumption
    <3> QED
      BY <2>1, <2>2, <3>2, <3>3, <3>4, NewerOrder DEF Current
  <2>7. procs' = [procs EXCEPT ![p] = goes("lock", props, ver = "")]
    BY <1>10 DEF props
  <2> QED
    BY <1>9, <2>2, <2>3, <2>4, <2>5, <2>6, <2>7
<1>11. CASE /\ was.call = "open" /\ ~(ver # "" => Newer(ver, Version[p]))
            /\ procs' = [procs EXCEPT ![p] = goes("attributes", new, FALSE)]
  <2> DEFINE r == goes("attributes", new, FALSE)
  <2>0. procs[p].call = "open"
    BY <1>6, <1>11
  <2>1. /\ r.pc = "attributes" /\ r.props = new /\ r.call = "open" /\ r.object = "none"
    BY <1>6, <2>0 DEF goes, Proc
  <2>2. procs'[p] = r
    BY <1>2, <1>11
  <2>3. procs' = [procs EXCEPT ![p] = r]
    BY <1>11
  <2> HIDE DEF r
  <2>4. ver # "" /\ ~Newer(ver, Version[p])
    BY <1>11
  <2>5. new # <<>>
    BY <2>4, NothingClean
  <2>6. Proper(file) /\ new = file
    BY <1>4, <2>5
  <2>7. ver = Ver(file)
    BY <2>6 DEF Proper, Ver, Get
  <2>8. ConfOrder(p)'
    BY <1>3, <2>1, <2>2, <2>4, <2>6, <2>7 DEF ConfOrder, HasObject, Current
  <2>9. IdleOrder(p)' /\ ReadOrder(p)' /\ SaveOrder(p)'
    BY <2>1, <2>2 DEF IdleOrder, ReadOrder, SaveOrder, Busy, Saving
  <2> QED
    BY <1>7, <2>1, <2>3, <2>8, <2>9
<1>12. CASE /\ was.call = "set" /\ new # <<>>
            /\ procs' = [procs EXCEPT ![p] =
                 goes("lock", Set(new, was.arg[1].name, was.arg[1].value), FALSE)]
  <2> DEFINE n == was.arg[1].name
             v == was.arg[1].value
             props == Set(new, n, v)
  <2>1. procs[p].call = "set" /\ Clean(procs[p].arg) /\ Len(procs[p].arg) = 1
    BY <1>1, <1>5, <1>6, <1>12 DEF ReadOrder, Busy
  <2>2. was.arg = procs[p].arg /\ was.arg \in Seq(Setting) /\ DOMAIN was.arg = {1}
    BY <1>6, <2>1 DEF Clean
  <2>3. was.arg[1] \in Setting
    BY <2>2
  <2>4. NameAt(was.arg) = {n} /\ Value(was.arg, n) = v
    BY <2>1, <2>2, ValueIs DEF NameAt, Clean
  <2>5. n \in Kept /\ n \in Names /\ v \in Values /\ n # "ver"
    BY <2>1, <2>2, <2>3, <2>4 DEF Clean, Kept, Names, Setting
  <2>6. Proper(file) /\ new = file
    BY <1>4, <1>12
  <2>7. Proper(props) /\ Ver(props) = Ver(file)
    BY <1>4, <2>5, <2>6, SetKeeps DEF Proper, Ver
  <2>8. Means(props, was.arg)
    <3> SUFFICES ASSUME NEW m \in Kept
                 PROVE  Get(props, m, Defaults[m]) = Get(was.arg, m, last[m])
      BY DEF Means
    <3>1. Get(props, m, Defaults[m]) = IF m = n THEN v ELSE Get(new, m, Defaults[m])
      BY <1>4, <2>5, GetSet
    <3>2. Get(new, m, Defaults[m]) = last[m]
      BY <1>4, NothingClean DEF Means
    <3> QED
      BY <2>4, <3>1, <3>2 DEF Get
  <2>9. \A q \in Procs : HasObject(q) => Current(props, q)
    BY <1>4, <2>6, <2>7, MissingImproper DEF Current
  <2>10. procs' = [procs EXCEPT ![p] = goes("lock", props, FALSE)]
    BY <1>12
  <2> HIDE DEF props
  <2> QED
    BY <1>9, <2>1, <2>2, <2>7, <2>8, <2>9, <2>10
<1>13. CASE /\ was.call = "reload" \/ (was.call = "set" /\ new = <<>>)
            /\ procs' = [procs EXCEPT ![p] = Ended(was, was.object)]
  <2> DEFINE r == Ended(was, was.object)
  <2>1. /\ r.pc = "idle" /\ r.object = procs[p].object /\ r.arg = <<>>
        /\ r.object # "none" => r.props = new
    BY <1>6 DEF Ended, Idle
  <2>2. procs'[p] = r
    BY <1>2, <1>13
  <2>3. procs' = [procs EXCEPT ![p] = r]
    BY <1>13
  <2> HIDE DEF r
  <2>4. r.object = "none" \/ HasObject(p)
    BY <2>1 DEF HasObject
  <2>5. IdleOrder(p)'
    <3> SUFFICES ASSUME r.object # "none" PROVE IdleOrder(p)'
      BY <2>2 DEF IdleOrder, HasObject
    <3>1. Proper(file) /\ new = file
      BY <1>4, <2>4
    <3>2. file # <<>>
      BY <3>1 DEF Proper, NameAt
    <3>3. Means(procs[p].props, procs[p].arg)'
      BY <1>3, <1>4, <2>1, <2>2 DEF Means
    <3> QED
      BY <1>3, <2>1, <2>2, <3>1, <3>2, <3>3, NothingClean DEF IdleOrder
  <2>6. ReadOrder(p)' /\ SaveOrder(p)' /\ ConfOrder(p)'
    BY <2>1, <2>2 DEF ReadOrder, SaveOrder, ConfOrder, Busy, Saving
  <2> QED
    BY <1>7, <2>1, <2>3, <2>4, <2>5, <2>6
<1> QED
  BY <1>3, <1>10, <1>11, <1>12, <1>13

\* A save moves on: what it is about to write stays.
LEMMA SaveMoves ==
    ASSUME IInv, InOrder, disorder = 0, NEW p \in Procs, NEW pc \in Saving,
           procs[p].pc \in Saving, procs' = [procs EXCEPT ![p].pc = pc],
           Halfway' \/ (~Halfway /\ UNCHANGED file), UNCHANGED last, FileOrder'
    PROVE  InOrder'
<1> DEFINE r == [procs[p] EXCEPT !.pc = pc]
<1>1. /\ procs[p] \in Proc /\ procs \in [Procs -> Proc]
      /\ \A q \in Procs \ {p} : Busy(q, "idle")
  BY InCall DEF Saving
<1>2. /\ r.pc = pc /\ r.call = procs[p].call /\ r.props = procs[p].props
      /\ r.arg = procs[p].arg /\ r.object = procs[p].object
  BY <1>1 DEF Proc
<1>3. procs' = [procs EXCEPT ![p] = r]
  BY <1>1
<1> HIDE DEF r
<1>4. procs'[p] = r /\ \A q \in Procs : procs'[q].object = procs[q].object
  BY <1>1, <1>2, <1>3
<1>5. SaveOrder(p)'
  <2>1. SaveOrder(p)
    BY DEF InOrder
  <2> QED
    BY <1>2, <1>4, <2>1 DEF SaveOrder, HasObject, Means
<1>6. IdleOrder(p)' /\ ReadOrder(p)' /\ ConfOrder(p)'
  BY <1>2, <1>4 DEF IdleOrder, ReadOrder, ConfOrder, Busy, Saving
<1>7. r.pc # "ended"
  BY <1>2 DEF Saving
<1> QED
  BY <1>1, <1>3, <1>5, <1>6, <1>7, AloneStep

LEMMA LockOrder ==
    ASSUME IInv, InOrder, disorder = 0, NEW p \in Procs, Lock(p)
    PROVE  InOrder'
<1>1. procs[p].pc = "lock" /\ procs' = [procs EXCEPT ![p].pc = "truncate"]
      /\ UNCHANGED <<file, last>>
  BY DEF Lock, Busy
<1>2. procs[p] \in Proc /\ procs \in [Procs -> Proc] /\ ~Halfway
      /\ \A q \in Procs \ {p} : procs[q].pc = "idle"
  BY <1>1, InCall
<1>3. /\ procs'[p].pc = "truncate" /\ procs'[p].object = procs[p].object
      /\ \A q \in Procs \ {p} : procs'[q] = procs[q]
  BY <1>1, <1>2 DEF Proc
<1>4. ~Halfway'
  BY <1>2, <1>3 DEF Halfway, Writing
<1>5. ASSUME NEW q \in Procs PROVE HasObject(q)' <=> HasObject(q)
  <2>1. procs'[q].object = procs[q].object
    BY <1>3
  <2> QED
    BY <2>1 DEF HasObject
<1>6. FileOrder'
  BY <1>1, <1>2, <1>4, <1>5 DEF InOrder, FileOrder, Means
<1> QED
  BY <1>1, <1>2, <1>4, <1>6, SaveMoves DEF Saving

\* The file is empty from its truncation until it is written.
LEMMA TruncateOrder ==
    ASSUME IInv, InOrder, disorder = 0, NEW p \in Procs, Truncate(p) \/ Unlock(p)
    PROVE  InOrder'
<1>1. /\ procs[p].pc \in {"truncate", "unlock"} /\ last' = last
      /\ \E pc \in {"unlock", "flush"} : procs' = [procs EXCEPT ![p].pc = pc]
  BY DEF Truncate, Unlock, Busy
<1>2. PICK pc \in {"unlock", "flush"} : procs' = [procs EXCEPT ![p].pc = pc]
  BY <1>1
<1>3. procs[p] \in Proc /\ procs \in [Procs -> Proc]
      /\ (Halfway <=> procs[p].pc \in {"unlock", "flush"})
  BY <1>1, InCall
<1>4. procs'[p].pc = pc
  BY <1>2, <1>3 DEF Proc
<1>5. Halfway'
  BY <1>4 DEF Halfway, Writing
<1>6. file' = <<>>
  BY <1>3 DEF Truncate, Unlock, Busy, InOrder, FileOrder
<1>7. FileOrder'
  BY <1>5, <1>6 DEF FileOrder
<1> QED
  BY <1>1, <1>2, <1>5, <1>7, SaveMoves DEF Saving

LEMMA FlushOrder ==
    ASSUME IInv, InOrder, disorder = 0, NEW p \in Procs, Flush(p)
    PROVE  InOrder'
<1> DEFINE props == procs[p].props
           arg == procs[p].arg
<1>1. procs[p].pc = "flush"
  BY DEF Flush, Busy
<1>2. /\ procs[p] \in Proc /\ procs \in [Procs -> Proc] /\ Halfway
      /\ \A q \in Procs \ {p} : Busy(q, "idle") /\ procs[q].pc = "idle"
  BY <1>1, InCall
<1>3. SaveOrder(p)
  BY DEF InOrder
<1>4. /\ procs[p].call \in {"open", "set", "save"}
      /\ procs[p].call = "open" => arg = <<>>
      /\ HasObject(p) <=> procs[p].call = "save"
      /\ Proper(props) /\ Clean(arg) /\ Means(props, arg)
      /\ \A q \in Procs : HasObject(q) \/ (q = p /\ procs[p].call = "open") =>
           Current(props, q)
  BY <1>1, <1>3 DEF SaveOrder, Saving
<1>5. file' = props
  <2>1. file = <<>>
    BY <1>2 DEF InOrder, FileOrder
  <2> QED
    BY <1>4, <2>1, OverNothing DEF Flush, Proper
<1>6. last' = [n \in Kept |-> Get(arg, n, last[n])]
  <2>1. DOMAIN last = Kept
    BY DEF IInv, FilesOK, Kept
  <2> QED
    BY <2>1 DEF Flush
<1>7. props # <<>>
  BY <1>4 DEF Proper, NameAt
<1>8. ASSUME NEW q \in Procs \ {p}
      PROVE  /\ procs'[q].pc = "idle" /\ procs'[q].object = procs[q].object
             /\ procs'[q].props = procs[q].props
             /\ procs[q].props # <<>> => procs'[q].stale
  <2>1. procs'[q] = Outdated(procs[q]) /\ procs[q] \in Proc
    BY <1>2 DEF Flush
  <2> QED
    BY <1>2, <2>1 DEF Outdated, Proc
<1>9. procs'[p] = IF procs[p].call = "open"
                  THEN [procs[p] EXCEPT !.pc = "conf", !.edit = EmptyConf]
                  ELSE Ended(procs[p], procs[p].object)
  BY DEF Flush
<1>10. /\ procs'[p].pc = IF procs[p].call = "open" THEN "conf" ELSE "idle"
       /\ procs'[p].object = procs[p].object
       /\ procs[p].call = "open" => procs'[p].call = "open" /\ procs'[p].props = props
       /\ procs[p].call # "open" /\ HasObject(p) =>
            procs'[p].props = props /\ procs'[p].arg = <<>>
  <2>1. CASE procs[p].call = "open"
    BY <1>2, <1>9, <2>1 DEF Proc
  <2>2. CASE procs[p].call # "open"
    BY <1>9, <2>2 DEF Ended, Idle, HasObject
  <2> QED
    BY <2>1, <2>2
<1>11. \A q \in Procs : HasObject(q)' <=> HasObject(q)
  BY <1>8, <1>10 DEF HasObject
<1>12. ~Halfway' /\ OneByOne'
  <2>1. \A q \in Procs : procs'[q].pc \in {"idle", "conf"} /\ (q # p => procs'[q].pc = "idle")
    BY <1>8, <1>10
  <2> QED
    BY <2>1 DEF Halfway, Writing, OneByOne, Busy
<1> HIDE DEF props, arg
<1>13. Means(file, <<>>)'
  <2> SUFFICES ASSUME NEW n \in Kept
               PROVE  Get(props, n, Defaults[n]) = Get(<<>>, n, last'[n])
    BY <1>5 DEF Means
  <2>1. Get(props, n, Defaults[n]) = Get(arg, n, last[n])
    BY <1>4 DEF Means
  <2> QED
    BY <1>6, <2>1, NothingClean
<1>14. FileOrder'
  <2>1. Proper(file)'
    BY <1>4, <1>5
  <2>2. \A q \in Procs : HasObject(q)' => Current(file', q)
    BY <1>4, <1>5, <1>11
  <2> QED
    BY <1>12, <1>13, <2>1, <2>2 DEF FileOrder
<1>15. ASSUME NEW q \in Procs \ {p}
       PROVE  IdleOrder(q)' /\ ReadOrder(q)' /\ SaveOrder(q)' /\ ConfOrder(q)'
  <2>1. HasObject(q) => procs[q].props # <<>>
    BY <1>2 DEF InOrder, IdleOrder
  <2>2. IdleOrder(q)'
    BY <1>8, <1>11, <2>1 DEF IdleOrder
  <2>3. ReadOrder(q)' /\ SaveOrder(q)' /\ ConfOrder(q)'
    BY <1>8 DEF ReadOrder, SaveOrder, ConfOrder, Busy, Saving
  <2> QED
    BY <2>2, <2>3
<1>16. IdleOrder(p)'
  <2> SUFFICES ASSUME procs'[p].pc = "idle", HasObject(p)' PROVE IdleOrder(p)'
    BY DEF IdleOrder, Busy
  <2>1. procs'[p].props = props /\ procs'[p].arg = <<>>
    BY <1>10, <1>11
  <2>2. Means(procs[p].props, procs[p].arg)'
    BY <1>5, <1>13, <2>1 DEF Means
  <2> QED
    BY <1>4, <1>5, <1>7, <2>1, <2>2, NothingClean DEF IdleOrder
<1>17. ReadOrder(p)' /\ SaveOrder(p)'
  BY <1>10 DEF ReadOrder, SaveOrder, Busy, Saving
<1>18. ConfOrder(p)'
  <2> SUFFICES ASSUME procs'[p].pc = "conf" PROVE ConfOrder(p)'
    BY <1>10 DEF ConfOrder
  <2>1. procs[p].call = "open" /\ procs'[p].call = "open" /\ procs'[p].props = props
    BY <1>10
  <2>2. ~HasObject(p)'
    BY <1>4, <1>11, <2>1
  <2>3. Proper(file)' /\ Current(file', p)
    BY <1>4, <1>5, <2>1
  <2> QED
    BY <1>5, <2>1, <2>2, <2>3 DEF ConfOrder
<1> QED
  BY <1>12, <1>14, <1>15, <1>16, <1>17, <1>18 DEF InOrder

\* An open or a change of the attributes ends.
LEMMA ReturnsOrder ==
    ASSUME IInv, InOrder, disorder = 0, NEW p \in Procs, NEW object,
           procs[p].pc \in {"conf", "write", "attributes"},
           object = "none" \/ procs[p].call = "open",
           Returns(p, procs[p], object), UNCHANGED <<file, last>>
    PROVE  InOrder'
<1> DEFINE r == Ended(procs[p], object)
<1>1. /\ procs[p] \in Proc /\ procs \in [Procs -> Proc] /\ ~Halfway
      /\ \A q \in Procs \ {p} : Busy(q, "idle") /\ procs[q].pc = "idle"
  BY InCall
<1>2. procs' = [procs EXCEPT ![p] = r]
  BY DEF Returns
<1>3. /\ r.pc = "idle" /\ r.object = object /\ r.arg = <<>>
      /\ object # "none" => r.props = procs[p].props
  BY DEF Ended, Idle
<1> HIDE DEF r
<1>4. procs'[p] = r
  BY <1>1, <1>2
<1>5. object # "none" => procs[p].props = file /\ Proper(file) /\ Current(file, p)
  BY DEF InOrder, ConfOrder
<1>6. IdleOrder(p)'
  <2> SUFFICES ASSUME object # "none" PROVE IdleOrder(p)'
    BY <1>3, <1>4 DEF IdleOrder, HasObject
  <2>1. file # <<>>
    BY <1>5 DEF Proper, NameAt
  <2>2. Means(file, <<>>)
    BY <1>1, <1>5, MissingImproper DEF InOrder, FileOrder
  <2>3. Means(procs[p].props, procs[p].arg)'
    BY <1>3, <1>4, <1>5, <2>2 DEF Means
  <2> QED
    BY <1>3, <1>4, <1>5, <2>1, <2>3, NothingClean DEF IdleOrder
<1>7. ReadOrder(p)' /\ SaveOrder(p)' /\ ConfOrder(p)'
  BY <1>3, <1>4 DEF ReadOrder, SaveOrder, ConfOrder, Busy, Saving
<1> QED
  BY <1>1, <1>2, <1>3, <1>5, <1>6, <1>7, FileLeft

\* An open or a change of the attributes goes on.
LEMMA ConfMoves ==
    ASSUME IInv, InOrder, disorder = 0, NEW p \in Procs, NEW pc \in {"write", "attributes"},
           procs[p].pc \in {"conf", "write"}, pc = "attributes" => procs[p].call = "open",
           procs' = [procs EXCEPT ![p].pc = pc], UNCHANGED <<file, last>>
    PROVE  InOrder'
<1> DEFINE r == [procs[p] EXCEPT !.pc = pc]
<1>1. /\ procs[p] \in Proc /\ procs \in [Procs -> Proc]
      /\ \A q \in Procs \ {p} : Busy(q, "idle")
  BY InCall
<1>2. procs' = [procs EXCEPT ![p] = r]
  BY <1>1
<1>3. r.pc = pc /\ r.call = procs[p].call /\ r.props = procs[p].props
      /\ r.object = procs[p].object
  BY <1>1 DEF Proc
<1> HIDE DEF r
<1>4. procs'[p] = r
  BY <1>1, <1>2
<1>5. ConfOrder(p)
  BY DEF InOrder
<1>6. r.object = "none"
  BY <1>3, <1>5 DEF ConfOrder, HasObject
<1>7. ConfOrder(p)'
  BY <1>3, <1>4, <1>5 DEF ConfOrder, HasObject
<1>8. IdleOrder(p)' /\ ReadOrder(p)' /\ SaveOrder(p)'
  BY <1>3, <1>4 DEF IdleOrder, ReadOrder, SaveOrder, Busy, Saving
<1> QED
  BY <1>1, <1>2, <1>3, <1>6, <1>7, <1>8, FileLeft

LEMMA ConfSteps ==
    ASSUME IInv, InOrder, disorder = 0, NEW p \in Procs,
           BeginConf(p) \/ WriteConf(p) \/ ReadAttributes(p)
    PROVE  InOrder'
<1>1. ASSUME AfterConf(p), UNCHANGED <<file, last>>, procs[p].pc \in {"conf", "write"}
      PROVE  InOrder'
  BY <1>1, ConfMoves, ReturnsOrder DEF AfterConf
<1>2. CASE BeginConf(p)
  BY <1>1, <1>2, ConfMoves DEF BeginConf, Busy
<1>3. CASE WriteConf(p)
  BY <1>1, <1>3 DEF WriteConf, Busy
<1>4. CASE ReadAttributes(p)
  <2>1. procs[p].pc = "attributes" /\ UNCHANGED <<file, last>>
    BY <1>4 DEF ReadAttributes, Busy
  <2>2. procs[p].call = "open"
    BY <2>1 DEF InOrder, ConfOrder
  <2> DEFINE object == IF ValidConf(conf) /\ Get(procs[p].props, "db.type", "") = "sqlite"
                       THEN "ready" ELSE "none"
  <2>3. Returns(p, procs[p], object)
    BY <1>4 DEF ReadAttributes
  <2> HIDE DEF object
  <2> QED
    BY <2>1, <2>2, <2>3, ReturnsOrder
<1> QED
  BY <1>2, <1>3, <1>4

LEMMA StepOrder == IInv /\ InOrder /\ [Next]_vars => InOrder'
<1> SUFFICES ASSUME IInv, InOrder, [Next]_vars, disorder' = 0 PROVE InOrder'
  BY DEF InOrder
<1>1. CASE UNCHANGED vars
  BY <1>1 DEF vars, InOrder, OneByOne, FileOrder, IdleOrder, ReadOrder, SaveOrder, ConfOrder,
     Busy, HasObject, Halfway, Writing, Means
<1>2. disorder \in Nat
  BY BoundAssumption DEF IInv, FilesOK
<1>3. ASSUME NEW ordered, Counted(ordered) PROVE disorder = 0
  BY <1>2, <1>3 DEF Counted
<1>4. ASSUME NEW p \in Procs, Call(p) PROVE InOrder'
  <2>1. ASSUME NEW n \in Kept, NEW v \in Values, SetFile(p, n, v) \/ SetObject(p, n, v)
        PROVE  InOrder'
    <3>1. CASE SetFile(p, n, v)
      <4>1. disorder = 0
        BY <1>3, <3>1 DEF SetFile, Begins
      <4> QED
        BY <3>1, <4>1, CallsOrder
    <3>2. CASE SetObject(p, n, v)
      <4>1. disorder = 0
        BY <3>2 DEF SetObject
      <4> QED
        BY <3>2, <4>1, SetObjectOrder
    <3> QED
      BY <2>1, <3>1, <3>2
  <2>2. CASE Open(p) \/ Save(p) \/ Reload(p)
    <3>1. disorder = 0
      BY <1>3, <2>2 DEF Open, Save, Reload, Begins
    <3> QED
      BY <2>2, <3>1, CallsOrder
  <2>3. CASE EditConf(p)
    <3>1. disorder = 0
      BY <1>3, <2>3 DEF EditConf
    <3> QED
      BY <2>3, <3>1, EditConfOrder
  <2>4. Settings \subseteq Values /\ Types \subseteq Values /\ {"limit", "db.type"} = Kept
    BY DEF Values, Kept
  <2> QED
    BY <1>4, <2>1, <2>2, <2>3, <2>4 DEF Call
<1>5. ASSUME NEW p \in Procs, Step(p) PROVE InOrder'
  <2>1. disorder = 0
    BY <1>5 DEF Step, Read, Lock, Truncate, Unlock, Flush, BeginConf, WriteConf, ReadAttributes
  <2> QED
    BY <1>5, <2>1, ReadOrderStep, LockOrder, TruncateOrder, FlushOrder, ConfSteps DEF Step
<1>6. ASSUME NEW p \in Procs, Crash(p) PROVE FALSE
  BY <1>2, <1>6 DEF Crash
<1> QED
  BY <1>1, <1>4, <1>5, <1>6 DEF Next

LEMMA OrderStays == Spec => []InOrder
  BY Invariant, InitOrder, StepOrder, PTL DEF Spec

LEMMA QuietFile ==
    ASSUME IInv, InOrder, disorder = 0, Quiet, file # Missing
    PROVE  /\ Proper(file) /\ Means(file, <<>>)
           /\ \A p \in Procs : HasObject(p) => Current(file, p)
<1>1. ~Halfway
  BY DEF Quiet, Halfway, Writing
<1> QED
  BY <1>1 DEF InOrder, FileOrder

\* However the calls of any number of processes follow one another: what the file holds
\* between two of them is what was set last, or the default (property.hpp:417,
\* supul.hpp:157, api.hpp).
THEOREM SettingsStay == Spec => []SettingsSurvive
<1>1. IInv /\ InOrder => SettingsSurvive
  <2> SUFFICES ASSUME IInv, InOrder, disorder = 0, Quiet, file # Missing,
                      NEW n \in DOMAIN last
               PROVE  Get(file, n, Defaults[n]) = last[n]
    BY DEF SettingsSurvive
  <2>1. n \in Kept
    BY DEF IInv, FilesOK, Kept
  <2>2. Means(file, <<>>)
    BY QuietFile
  <2> QED
    BY <2>1, <2>2, NothingClean DEF Means
<1> QED
  BY Invariant, OrderStays, <1>1, PTL

\* For any versions and whoever opens the project in which order: a process with an open
\* object finds no version in the file that is older than its own program
\* (is_version_update in supul.hpp).
THEOREM VersionNeverFallsBack == Spec => []VersionStays
<1>1. IInv /\ InOrder => VersionStays
  <2> SUFFICES ASSUME IInv, InOrder, disorder = 0, Quiet, file # Missing,
                      NEW p \in Procs, procs[p].object # "none"
               PROVE  ~Newer(Get(file, "ver", ""), Version[p])
    BY DEF VersionStays
  <2>1. Proper(file) /\ Current(file, p)
    BY QuietFile DEF HasObject
  <2> QED
    BY <2>1 DEF Proper, Current, Get, Ver
<1> QED
  BY Invariant, OrderStays, <1>1, PTL

=============================================================================
