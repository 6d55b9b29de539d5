------------------------------- MODULE Project -------------------------------
(***************************************************************************)
(* The files of a supul project outside the database: property.txt         *)
(* (gaenari/common/property.hpp), read and saved under a named mutex       *)
(* (gaenari/common/named_mutex.hpp: flock of a file in /tmp), and          *)
(* conf/attributes.json, without a mutex.  Several processes open the      *)
(* project (supul/supul/impl/supul.hpp) and call the property and project  *)
(* api (supul/supul/impl/api.hpp); each may end at any point of a call.    *)
(*                                                                         *)
(* A save truncates the file in place.  What it writes stays in the buffer *)
(* of the stream, and the stream is closed after the mutex is unlocked: it *)
(* is declared before the lock guard.                                      *)
(***************************************************************************)
EXTENDS Integers, Sequences, FiniteSets, SequencesExt

CONSTANTS
    Procs,      \* processes
    NoProc,     \* nobody
    Fields,     \* names of fields, strings
    Settings,   \* values that are set for the setting "limit"
    Types,      \* values that are set for "db.type"
    Versions,   \* version strings
    Numbers,    \* version -> its numbers
    Version,    \* process -> the version of its program
    MaxX,       \* bound: x fields in attributes.json
    MaxDisorder \* bound: calls after they no longer come one after the other

ASSUME ProcAssumption == NoProc \notin Procs
ASSUME VersionAssumption ==
    /\ Numbers \in [Versions -> Seq(Nat)] /\ Version \in [Procs -> Versions]
    /\ \A v \in Versions : Len(Numbers[v]) \in 2..4
    /\ "" \notin Versions
ASSUME BoundAssumption == MaxX \in Nat /\ MaxDisorder \in Nat \ {0}

VARIABLES
    file,     \* property.txt: its lines, a setting each
    conf,     \* attributes.json
    lock,     \* who has the mutex
    procs,    \* the state of every process
    disorder, \* calls from the first that did not come after the end of all others
    last      \* the value set last for each name

vars == <<file, conf, lock, procs, disorder, last>>

Missing == <<[name |-> "missing", value |-> ""]>>
NoConf == [kind |-> "missing", fields |-> {}, x |-> <<>>, y |-> ""]
EmptyConf == [NoConf EXCEPT !.kind = "document"]
TornConf == [NoConf EXCEPT !.kind = "torn"]

Values == Settings \cup Types \cup Versions \cup {"false", "{choose one}"}
Setting == [name : {"ver", "db.type", "limit"}, value : Values]
Conf == [kind : {"missing", "torn", "document"}, fields : SUBSET Fields,
         x : Seq(Fields), y : Fields \cup {""}]
Calls == {"open", "set", "save", "reload", "edit"}
Controls == {"idle", "read", "lock", "truncate", "unlock", "flush", "conf", "write", "attributes",
             "ended"}
\* `props' is the prop object, `object' what became of the supul_t, `create' create_mode,
\* `edit' the document that is to be written.
Proc == [pc : Controls, call : Calls, props : Seq(Setting), arg : Seq(Setting),
         object : {"none", "created", "ready"}, create : BOOLEAN, edit : Conf,
         stale : BOOLEAN]
Idle == [pc |-> "idle", call |-> "open", props |-> <<>>, arg |-> <<>>, object |-> "none",
         create |-> FALSE, edit |-> NoConf, stale |-> FALSE]

-----------------------------------------------------------------------------
(* Properties of a prop object                                               *)

NameAt(s) == {s[i].name : i \in DOMAIN s}
Value(s, n) == LET i == CHOOSE i \in DOMAIN s : s[i].name = n IN s[i].value
Get(s, n, default) == IF n \in NameAt(s) THEN Value(s, n) ELSE default

\* A name keeps its place; a new one comes last.
Set(s, n, v) ==
    IF n \in NameAt(s)
    THEN [i \in DOMAIN s |-> IF s[i].name = n THEN [s[i] EXCEPT !.value = v] ELSE s[i]]
    ELSE Append(s, [name |-> n, value |-> v])
\* The lines of the file are set one after the other: the last one of a name counts.
FromLines(lines) ==
    LET read[n \in 0..Len(lines)] ==
          IF n = 0 THEN <<>> ELSE Set(read[n - 1], lines[n].name, lines[n].value)
    IN  read[Len(lines)]

Defaults == [n \in {"db.type", "limit"} |-> IF n = "limit" THEN "false" ELSE "{choose one}"]

\* Mutant: a default replaces what is there.
DefaultMutant(s, n, v) == Set(s, n, v)
\* set_default.
Default(s, n, v) == IF n \in NameAt(s) THEN s ELSE Set(s, n, v)
WithDefaults(s, v) ==
    Default(Default(Set(s, "ver", v), "db.type", Defaults["db.type"]), "limit", Defaults["limit"])

\* is_version_update: two or three numbers are filled up with zeros.
Padded(s) == [n \in 1..4 |-> IF n \in DOMAIN s THEN s[n] ELSE 0]
\* Mutant: any number that is larger makes a version newer.
NewerMutant(cur, next) == \E n \in 1..4 : Padded(Numbers[next])[n] > Padded(Numbers[cur])[n]
Newer(cur, next) ==
    LET c == Padded(Numbers[cur])
        d == Padded(Numbers[next])
    IN  \E n \in 1..4 : d[n] > c[n] /\ \A m \in 1..(n - 1) : d[m] = c[m]

\* read_attributes accepts these only.  (revision is never changed; x may repeat.)
ValidConf(c) ==
    /\ c.kind = "document" /\ c.y # "" /\ c.y \in c.fields
    /\ ToSet(c.x) \subseteq c.fields /\ c.y \notin ToSet(c.x)

-----------------------------------------------------------------------------

\* A new project, or one that an older program left.
Init ==
    /\ \/ file = Missing /\ conf = NoConf
       \/ \E v \in Versions :
            /\ file = <<[name |-> "ver", value |-> v],
                        [name |-> "db.type", value |-> "{choose one}"]>>
            /\ conf = EmptyConf
    /\ lock = NoProc /\ procs = [p \in Procs |-> Idle]
    /\ disorder = 0 /\ last = Defaults

Alone(p) == \A q \in Procs \ {p} : procs[q].pc \in {"idle", "ended"}
Busy(p, pc) == procs[p].pc = pc
\* Calls that overlap, and saves of properties that another process has changed
\* since they were read, are not orderly.
Counted(ordered) ==
    /\ disorder < MaxDisorder
    /\ disorder' = IF disorder = 0 /\ ordered THEN 0 ELSE disorder + 1
Begins(p, call, pc, arg) ==
    /\ procs' = [procs EXCEPT ![p].call = call, ![p].pc = pc, ![p].arg = arg]
    /\ Counted(Alone(p) /\ (call = "save" => ~procs[p].stale))
    /\ UNCHANGED <<file, conf, lock, last>>

(* The api                                                                   *)

\* lifetime::open, after a close if there was an object.
Open(p) == Busy(p, "idle") /\ Begins(p, "open", "read", <<>>)

\* project::set_property, by a process that has no object of its own (a bound).
SetFile(p, n, v) ==
    /\ Busy(p, "idle") /\ procs[p].object = "none"
    /\ Begins(p, "set", "read", <<[name |-> n, value |-> v]>>)

\* property::set_property changes the object, property::save writes it.
SetObject(p, n, v) ==
    /\ Busy(p, "idle") /\ procs[p].object # "none"
    /\ procs' = [procs EXCEPT ![p].props = Set(@, n, v), ![p].arg = Set(@, n, v)]
    /\ UNCHANGED <<file, conf, lock, disorder, last>>

\* Mutant: an object without properties is saved as well.
CanSaveMutant(s) == TRUE
CanSave(s) == s # <<>>
Save(p) ==
    /\ Busy(p, "idle") /\ procs[p].object # "none" /\ CanSave(procs[p].props)
    /\ Begins(p, "save", "lock", procs[p].arg)

Reload(p) ==
    /\ Busy(p, "idle") /\ procs[p].object # "none"
    /\ Begins(p, "reload", "read", <<>>)

\* Mutant: x takes the field that is y.
EditedMutant(c) == {[c EXCEPT !.x = Append(@, c.y)]}
\* project::add_field, x and y read the document; what is no document fails.
Edited(c) ==
    {[c EXCEPT !.fields = @ \cup {f}] : f \in Fields}
      \cup {[c EXCEPT !.x = Append(@, f)] : f \in {g \in Fields : Len(c.x) < MaxX}}
      \cup {[c EXCEPT !.y = f] : f \in Fields}
EditConf(p) ==
    /\ Busy(p, "idle") /\ procs[p].object = "none" /\ conf.kind = "document"
    /\ \E c \in Edited(conf) :
         procs' = [procs EXCEPT ![p].call = "edit", ![p].pc = "conf", ![p].edit = c]
    /\ Counted(Alone(p))
    /\ UNCHANGED <<file, conf, lock, last>>

(* The steps of a call                                                       *)

\* A process without an object gives up its properties (a bound: after an open that
\* threw the object can still be saved).
Ended(r, object) ==
    [Idle EXCEPT !.object = object, !.props = IF object = "none" THEN <<>> ELSE r.props,
                 !.stale = object # "none" /\ r.stale]
Returns(p, r, object) == procs' = [procs EXCEPT ![p] = Ended(r, object)]

\* prop::read: under the mutex from begin to end, so one step.  Then what the call does
\* with it: open creates or updates the properties or goes on to the attributes.
Read(p) ==
    LET new  == FromLines(IF file = Missing THEN <<>> ELSE file)
        ver  == Get(new, "ver", "")
        was  == [procs[p] EXCEPT !.props = new, !.stale = FALSE]
        goes(pc, props, create) ==
          procs' = [procs EXCEPT ![p] = [was EXCEPT
                      !.pc = pc, !.props = props, !.create = create,
                      !.object = IF was.call = "open" THEN "none" ELSE @]]
        writes == ver # "" => Newer(ver, Version[p])
    IN  /\ Busy(p, "read") /\ lock = NoProc
        /\ \/ /\ was.call = "open" /\ writes
              /\ goes("lock", WithDefaults(new, Version[p]), ver = "")
           \/ /\ was.call = "open" /\ ~writes
              /\ goes("attributes", new, FALSE)
           \/ /\ was.call = "set" /\ new # <<>>
              /\ goes("lock", Set(new, was.arg[1].name, was.arg[1].value), FALSE)
           \/ /\ was.call = "reload" \/ (was.call = "set" /\ new = <<>>)
              /\ Returns(p, was, was.object)
        /\ UNCHANGED <<file, conf, lock, disorder, last>>

\* lock_guard_named_mutex waits for the flock.
Lock(p) ==
    /\ Busy(p, "lock") /\ lock = NoProc
    /\ lock' = p /\ procs' = [procs EXCEPT ![p].pc = "truncate"]
    /\ UNCHANGED <<file, conf, disorder, last>>

\* Opening the stream truncates the file.
Truncate(p) ==
    /\ Busy(p, "truncate")
    /\ file' = <<>> /\ procs' = [procs EXCEPT ![p].pc = "unlock"]
    /\ UNCHANGED <<conf, lock, disorder, last>>

Unlock(p) ==
    /\ Busy(p, "unlock")
    /\ lock' = NoProc /\ procs' = [procs EXCEPT ![p].pc = "flush"]
    /\ UNCHANGED <<file, conf, disorder, last>>

\* The stream is closed: the lines go to the begin of the file, and what another
\* process has written beyond them meanwhile stays.
Over(new, old) == new \o SubSeq(old, Len(new) + 1, Len(old))
\* Other objects hold what was in the file before (kept while it is of use).
Outdated(r) == [r EXCEPT !.stale = (disorder = 0 /\ r.props # <<>>)]
Flush(p) ==
    /\ Busy(p, "flush")
    /\ file' = Over(procs[p].props, file)
    /\ procs' = [q \in Procs |->
         IF q # p THEN Outdated(procs[q])
         ELSE IF procs[p].call = "open" THEN [procs[p] EXCEPT !.pc = "conf", !.edit = EmptyConf]
         ELSE Ended(procs[p], procs[p].object)]
    /\ last' = IF disorder = 0 THEN [n \in DOMAIN last |-> Get(procs[p].arg, n, last[n])] ELSE Defaults
    /\ UNCHANGED <<conf, lock, disorder>>

\* save_to_file truncates, then writes and closes.  open writes an empty document
\* where there is none, and goes on to read it unless the project is new.
AfterConf(p) ==
    IF procs[p].call = "open" /\ ~procs[p].create
    THEN procs' = [procs EXCEPT ![p].pc = "attributes"]
    ELSE Returns(p, procs[p], IF procs[p].call = "open" THEN "created" ELSE "none")
BeginConf(p) ==
    /\ Busy(p, "conf")
    /\ IF procs[p].call = "open" /\ conf.kind # "missing"
       THEN AfterConf(p) /\ UNCHANGED conf
       ELSE conf' = TornConf /\ procs' = [procs EXCEPT ![p].pc = "write"]
    /\ UNCHANGED <<file, lock, disorder, last>>
WriteConf(p) ==
    /\ Busy(p, "write")
    /\ conf' = procs[p].edit /\ AfterConf(p)
    /\ UNCHANGED <<file, lock, disorder, last>>

\* read_attributes and the database type; open throws or ends well.
ReadAttributes(p) ==
    /\ Busy(p, "attributes")
    /\ Returns(p, procs[p], IF ValidConf(conf) /\ Get(procs[p].props, "db.type", "") = "sqlite"
                  THEN "ready" ELSE "none")
    /\ UNCHANGED <<file, conf, lock, disorder, last>>

\* A process ends in a call; the system unlocks the mutex.
Crash(p) ==
    /\ procs[p].pc \notin {"idle", "ended"}
    /\ procs' = [procs EXCEPT ![p] = [Idle EXCEPT !.pc = "ended"]]
    /\ lock' = IF lock = p THEN NoProc ELSE lock
    /\ disorder' = IF disorder = 0 THEN 1 ELSE disorder
    /\ UNCHANGED <<file, conf, last>>

Step(p) ==
    \/ Read(p) \/ Lock(p) \/ Truncate(p) \/ Unlock(p) \/ Flush(p)
    \/ BeginConf(p) \/ WriteConf(p) \/ ReadAttributes(p)
Call(p) ==
    \/ Open(p) \/ Save(p) \/ Reload(p) \/ EditConf(p)
    \/ \E v \in Settings : SetFile(p, "limit", v) \/ SetObject(p, "limit", v)
    \/ \E t \in Types : SetFile(p, "db.type", t) \/ SetObject(p, "db.type", t)

Next == \E p \in Procs : Call(p) \/ Step(p) \/ Crash(p)

Spec == Init /\ [][Next]_vars

-----------------------------------------------------------------------------
(* Properties                                                                *)

\* The type of every variable.
TypeOK ==
    /\ file \in Seq(Setting) \cup {Missing} /\ conf \in Conf
    /\ lock \in Procs \cup {NoProc} /\ procs \in [Procs -> Proc]
    /\ disorder \in 0..MaxDisorder
    /\ last \in [{"db.type", "limit"} -> Values]

\* The mutex has one owner at a time, and it is held exactly from the lock to the
\* unlock of a save.
LockOwned ==
    \A p \in Procs : lock = p <=> procs[p].pc \in {"truncate", "unlock"}

\* Neither file is left empty or half written but by a process that ended in a call:
\* as long as none did, some process is about to write it.  (An object that has read
\* such a property file is empty, and save refuses it.)
Writing(pcs) == \E p \in Procs : procs[p].pc \in pcs
NothingTorn ==
    (\A p \in Procs : procs[p].pc # "ended") =>
                /\ file = <<>> => Writing({"unlock", "flush"})
                /\ conf.kind = "torn" => Writing({"write"})

\* Between calls that came one after the other, the file holds the value set last for
\* every setting, or its default: neither an update to a newer version nor the
\* defaults nor a reload nor a save of other settings brings back another one.
Quiet == \A p \in Procs : procs[p].pc = "idle"
SettingsSurvive ==
    (disorder = 0 /\ Quiet /\ file # Missing) =>
      \A n \in DOMAIN last :
        Get(file, n, Defaults[n]) = last[n]

\* Nor does an older program take the project back: while it is open somewhere, its
\* version is that of the newest program that opened it.
VersionStays ==
    (disorder = 0 /\ Quiet /\ file # Missing) =>
      \A p \in Procs : procs[p].object # "none" =>
        ~Newer(Get(file, "ver", ""), Version[p])

=============================================================================
