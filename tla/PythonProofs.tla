---------------------------- MODULE PythonProofs ----------------------------
(***************************************************************************)
(* Theorems about the Python object, for any number of interpreters, any   *)
(* sequence of methods and any faults, on rings that are not filled.       *)
(***************************************************************************)
EXTENDS PythonObject, LifecycleProofs

Objects == {"none", "init", "create"}
Methods == {"none", "init", "create", "read", "iternext", "write", "close"}
Results == {"none", "object", "IOError", "MemoryError", "string", "None", "StopIteration"}

Py ==
  [object : Objects, method : Methods, size : Int, result : Results, closed : BOOLEAN,
   seen : Nat, last : Int, present : Int]

Readers == {"read", "iternext"}

Busy(g) == g.method # "none" /\ g.result = "none"

(* A call x of Open or Create, before there is a Python object g. *)
Makes(g, x) ==
  /\ g.method \in {"init", "create"}
  /\ g.method = "create" => g.size \in CreateSizes
  /\ g.seen = 0 /\ g.last = 0 /\ ~g.closed
  /\ x.pc \in Making \cup {"idle", "dead"}
  /\ x.call \in {"none", IF g.method = "init" THEN "Open" ELSE "Create"}
  /\ x.pc = "idle" /\ x.call # "none" /\ x.ret = "true" =>
       x.header = "mapped" /\ (x.call = "Open" => x.at = 0)

(* The file is a header alone, and stays one. *)
Bare(f, ev) == f.magic /\ ev.created = HeaderSize

(* An object and its handle: the call that the method is in. *)
Works(g, x, f, ev) ==
  /\ x.pc # "dead" => x.header = IF g.closed THEN "null" ELSE "mapped"
  /\ x.pc \in Using \cup {"idle", "dead"}
  /\ x.pc = "dead" => g.closed \/ (g.object = "create" /\ Bare(f, ev))
  /\ ~Busy(g) => x.pc = "idle"
  /\ Busy(g) =>
       /\ g.method \in Readers \cup {"write"}
       /\ g.method = "write" => x.call = "Write" /\ x.pc \in {"write", "idle", "dead"}
       /\ g.method \in Readers =>
            /\ x.call \in {"EndOfFile", "NextRecordSize", "Read"}
            /\ x.pc # "write"
            /\ x.pc = "eof" => x.call = "EndOfFile"
            /\ x.pc = "size" => x.call = "NextRecordSize"
            /\ x.pc = "read" => x.call = "Read"
            /\ g.closed => x.pc \in {"eof", "dead"}

(* Where an object that was opened and not closed is in the file: behind    *)
(* the records that it has given, or the one that it gives now.             *)
Gives(g, x) == Busy(g) /\ x.pc = "idle" /\ x.call = "Read" /\ x.ret = "true"

ReadOK(g, x, ev) ==
  /\ g.last = g.seen
  /\ g.present <= ev.published
  /\ g.method \in Readers /\ g.result \in {"None", "StopIteration"} => g.present <= g.seen
  /\ ~g.closed =>
       /\ x.at <= ev.published
       /\ IF Gives(g, x) THEN x.at = g.seen + 1 /\ x.arg = g.seen + 1 ELSE x.at = g.seen
       /\ Busy(g) /\ x.pc \in {"size", "read"} => x.at < ev.published
       /\ Busy(g) /\ x.pc = "idle" /\ x.call = "EndOfFile" =>
            IF x.ret = "true" THEN g.present <= x.at ELSE x.at < ev.published
       /\ Busy(g) /\ x.pc = "idle" /\ x.call = "NextRecordSize" /\ x.ret = "true" =>
            x.at < ev.published

PyOK(g, x, f, ev) ==
  /\ g.object = "none" /\ Busy(g) => Makes(g, x)
  /\ g.object # "none" => Works(g, x, f, ev)
  /\ g.object = "init" => ReadOK(g, x, ev)

PyInv ==
  /\ FileInv
  /\ py \in [Procs -> Py]
  /\ \A p \in Procs : PyOK(py[p], h[p], file, events)

(***************************************************************************)
(* The uses the class is right for: one process writes or creates at a     *)
(* time, and no file is created with a size that bytes_max() cannot hold.  *)
(***************************************************************************)
SoundPython == Careful /\ CreateSizes \subseteq SoundSizes

-----------------------------------------------------------------------------
LEMMA PyFields ==
  ASSUME NEW g \in Py
  PROVE  /\ DOMAIN g = {"object", "method", "size", "result", "closed", "seen", "last", "present"}
         /\ g.object \in Objects /\ g.method \in Methods /\ g.size \in Int /\ g.result \in Results
         /\ g.closed \in BOOLEAN /\ g.seen \in Nat /\ g.last \in Int /\ g.present \in Int
BY DEF Py

LEMMA PyNames ==
  /\ "none" \in Objects /\ "init" \in Objects /\ "create" \in Objects
  /\ "none" \in Methods /\ "init" \in Methods /\ "create" \in Methods /\ "read" \in Methods
  /\ "iternext" \in Methods /\ "write" \in Methods /\ "close" \in Methods
  /\ \A r \in {"none", "object", "IOError", "MemoryError", "string", "None", "StopIteration"} :
       r \in Results
BY DEF Objects, Methods, Results

LEMMA NoPythonIs ==
  /\ NoPython \in Py
  /\ NoPython.object = "none" /\ NoPython.method = "none" /\ NoPython.result = "none"
  /\ NoPython.seen = 0 /\ NoPython.last = 0 /\ ~NoPython.closed
<1>1. PICK z \in Nat : z = 0
  OBVIOUS
<1>2. [object |-> "none", method |-> "none", size |-> z, result |-> "none", closed |-> FALSE,
       seen |-> z, last |-> z, present |-> z] \in Py
  BY PyNames DEF Py
<1> QED
  BY <1>1, <1>2 DEF NoPython

LEMMA PyOf ==
  ASSUME PyInv, NEW p \in Procs
  PROVE  /\ FileInv /\ HeldInv /\ h[p] \in Handle /\ Staged(h[p]) /\ py[p] \in Py
         /\ PyOK(py[p], h[p], file, events)
         /\ FileOK(file, events) /\ KnowsFile(h[p], file, events)
         /\ [py EXCEPT ![p] = py[p]] = py
         /\ events.published \in Nat /\ file.end = events.published
BY FileOf, HandleIs DEF PyInv, FileOK

(* No step of a method undoes what another process knows. *)
LEMMA PyReplaced ==
  ASSUME PyInv, FileInv', Bare(file, events) => Bare(file', events'),
         NEW p \in Procs, NEW y, h' = [h EXCEPT ![p] = y],
         NEW g \in Py, py' = [py EXCEPT ![p] = g],
         events.published <= events'.published,
         PyOK(g, y, file', events')
  PROVE  PyInv'
<1>1. /\ py' \in [Procs -> Py] /\ h'[p] = y /\ py'[p] = g
      /\ \A q \in Procs : q # p => h'[q] = h[q] /\ py'[q] = py[q]
  BY DEF PyInv, FileInv, HeldInv, LTypeOK
<1>2. events.published \in Nat /\ events'.published \in Nat
  BY DEF PyInv, FileInv, HeldInv, LTypeOK
<1>3. ASSUME NEW b \in Py, NEW x \in Handle, PyOK(b, x, file, events)
      PROVE  PyOK(b, x, file', events')
  <2>1. b.present \in Int /\ b.seen \in Nat /\ x.at \in Int
    BY PyFields, HandleFields
  <2>2. ReadOK(b, x, events) => ReadOK(b, x, events')
    BY <1>2, <2>1 DEF ReadOK
  <2>3. Works(b, x, file, events) => Works(b, x, file', events')
    BY DEF Works
  <2> QED
    BY <1>3, <2>2, <2>3 DEF PyOK
<1>4. ASSUME NEW q \in Procs
      PROVE  PyOK(py'[q], h'[q], file', events')
  <2>1. CASE q = p
    BY <1>1, <2>1
  <2>2. CASE q # p
    BY <1>1, <1>3, <2>2, PyOf
  <2> QED
    BY <2>1, <2>2
<1> QED
  BY <1>1, <1>4 DEF PyInv

LEMMA YStepIs ==
  ASSUME PyInv, YNext
  PROVE  UNCHANGED lvars \/ \E p \in Procs : ObjectStep(p, CreateSizes)
<1>1. PICK p \in Procs :
        \/ init(p)
        \/ \E n \in CreateSizes : create(p, n)
        \/ CallImpl(p) \/ Made(p) \/ NotMade(p)
        \/ read(p, "read") \/ read(p, "iternext")
        \/ ReadsOn(p) \/ ReadEnds(p) \/ ReadRaises(p) \/ ReadHasNoMemory(p) \/ ReadGives(p)
        \/ write(p) \/ Wrote(p) \/ close(p) \/ dealloc(p)
        \/ (HandleStep(p) \/ SystemCallFails(p)) /\ UNCHANGED py
        \/ InterpreterDies(p)
  BY DEF YNext
<1>2. CASE CallImpl(p)
  <2>1. PyOK(py[p], h[p], file, events) /\ h[p] \in Handle
    BY PyOf
  <2>2. h[p].call = "none" /\ Busy(py[p])
    BY <1>2 DEF CallImpl, InMethod, Busy
  <2>3. py[p].method = "create" => py[p].size \in CreateSizes
    <3>1. PICK g : g = py[p] /\ PyOK(g, h[p], file, events) /\ Busy(g)
      BY <2>1, <2>2
    <3>2. g.object = "none" \/ g.method # "create"
      BY <3>1 DEF PyOK, Works, Readers
    <3> QED
      BY <3>1, <3>2 DEF PyOK, Makes
  <2> QED
    BY <1>2, <2>3, LifecycleAssumption DEF CallImpl, ObjectStep
<1>3. CASE ~CallImpl(p)
  BY <1>1, <1>3 DEF init, create, Made, NotMade, read, ReadsOn, ReadEnds, ReadRaises,
    ReadHasNoMemory, ReadGives, write, Wrote, close, dealloc, InterpreterDies, ObjectStep
<1> QED
  BY <1>2, <1>3

LEMMA YStepFile ==
  ASSUME SoundPython, PyInv, YNext
  PROVE  FileInv' /\ (Bare(file, events) => Bare(file', events')) /\ events.published <= events'.published
<1>1. FileInv /\ HeldInv
  BY DEF PyInv, FileInv
<1>2. CASE UNCHANGED lvars
  <2>1. events.published \in Nat
    BY <1>1 DEF HeldInv, LTypeOK
  <2> QED
    BY <1>1, <1>2, <2>1, IdleFile DEF lvars, Bare
<1>3. ASSUME NEW p \in Procs, ObjectStep(p, CreateSizes)
      PROVE  FileInv' /\ (Bare(file, events) => Bare(file', events')) /\ events.published <= events'.published
  <2>1. ObjectStep(p, Int)
    BY <1>3, LifecycleAssumption DEF ObjectStep
  <2>2. ObjectStep(p, SoundSizes)
    BY <1>3 DEF SoundPython, ObjectStep
  <2>3. Bare(file, events) => Bare(file', events')
    BY <1>1, <2>1, MagicStays DEF Bare
  <2> QED
    BY <1>1, <2>1, <2>2, <2>3, StepFile, PublishedGrows DEF SoundPython
<1> QED
  BY <1>2, <1>3, YStepIs

(* A step of the method that is none of the handle's. *)
LEMMA PyAlone ==
  ASSUME SoundPython, PyInv, YNext, NEW p \in Procs, UNCHANGED lvars,
         NEW g \in Py, py' = [py EXCEPT ![p] = g], PyOK(g, h[p], file, events)
  PROVE  PyInv'
<1>1. FileInv' /\ (Bare(file, events) => Bare(file', events')) /\ events.published <= events'.published
  BY YStepFile
<1>2. h' = [h EXCEPT ![p] = h[p]] /\ UNCHANGED events
  BY DEF lvars, PyInv, FileInv, HeldInv, LTypeOK
<1>3. UNCHANGED file
  BY DEF lvars
<1> QED
  BY <1>1, <1>2, <1>3, PyReplaced

LEMMA InitPy == SoundPython /\ YInit => PyInv
<1> SUFFICES ASSUME SoundPython, YInit PROVE PyInv
  OBVIOUS
<1>1. FileInv
  BY InitFile DEF YInit
<1>2. PyOK(NoPython, NoObject, file, events)
  BY NoPythonIs DEF PyOK, Busy
<1>3. \A p \in Procs : h[p] = NoObject
  BY DEF YInit, LInit
<1> QED
  BY <1>1, <1>2, <1>3, NoPythonIs DEF YInit, PyInv

(* The result of a method. *)
LEMMA ResultIs ==
  ASSUME PyInv, NEW p \in Procs, NEW r \in Results, Result(p, r)
  PROVE  \E g \in Py :
           /\ py' = [py EXCEPT ![p] = g] /\ g.result = r
           /\ g.object = py[p].object /\ g.method = py[p].method /\ g.size = py[p].size
           /\ g.closed = py[p].closed /\ g.seen = py[p].seen /\ g.last = py[p].last
           /\ g.present = py[p].present
<1>1. PICK b \in Py : b = py[p]
  BY PyOf
<1> DEFINE g == [b EXCEPT !.result = r]
<1>2. g \in Py
  BY DEF Py
<1>3. /\ g.result = r /\ g.object = b.object /\ g.method = b.method /\ g.size = b.size
      /\ g.closed = b.closed /\ g.seen = b.seen /\ g.last = b.last /\ g.present = b.present
  BY PyFields
<1>4. py' = [py EXCEPT ![p] = g]
  BY <1>1 DEF Result, PyInv
<1> QED
  BY <1>1, <1>2, <1>3, <1>4

-----------------------------------------------------------------------------
(* __new__ and create, until there is an object or an IOError. *)
LEMMA MakeKeeps ==
  ASSUME SoundPython, PyInv, YNext, NEW p \in Procs,
         \/ init(p)
         \/ \E n \in CreateSizes : create(p, n)
         \/ CallImpl(p) \/ Made(p) \/ NotMade(p)
  PROVE  PyInv'
<1>0. FileInv' /\ (Bare(file, events) => Bare(file', events')) /\ events.published <= events'.published /\ HeldInv
  BY YStepFile, PyOf
<1>1. PICK x \in Handle : x = h[p]
  BY PyOf
<1>2. PICK b \in Py : b = py[p] /\ PyOK(b, x, file, events)
  BY <1>1, PyOf
<1>3. ASSUME init(p) \/ \E n \in CreateSizes : create(p, n)
      PROVE  PyInv'
  <2>1. PICK g \in Py :
          /\ py' = [py EXCEPT ![p] = g]
          /\ g.method \in {"init", "create"}
          /\ g.method = "create" => g.size \in CreateSizes
          /\ g.object = "none" /\ g.seen = 0 /\ g.last = 0 /\ ~g.closed
    <3>1. CASE init(p)
      <4> DEFINE g == [NoPython EXCEPT !.method = "init"]
      <4>1. g \in Py
        BY NoPythonIs, PyNames DEF Py
      <4>2. g.method = "init" /\ g.object = "none" /\ g.seen = 0 /\ g.last = 0 /\ ~g.closed
        BY DEF NoPython
      <4> QED
        BY <3>1, <4>1, <4>2 DEF init
    <3>2. ASSUME NEW n \in CreateSizes, create(p, n)
          PROVE  \E g \in Py :
                   /\ py' = [py EXCEPT ![p] = g] /\ g.method = "create" /\ g.size \in CreateSizes
                   /\ g.object = "none" /\ g.seen = 0 /\ g.last = 0 /\ ~g.closed
      <4> DEFINE g == [NoPython EXCEPT !.method = "create", !.size = n]
      <4>1. g \in Py
        BY NoPythonIs, PyNames, LifecycleAssumption DEF Py
      <4>2. /\ g.method = "create" /\ g.size = n /\ g.object = "none" /\ g.seen = 0
            /\ g.last = 0 /\ ~g.closed
        BY DEF NoPython
      <4> QED
        BY <3>2, <4>1, <4>2 DEF create
    <3> QED
      BY <1>3, <3>1, <3>2
  <2>2. PICK y \in Handle : h' = [h EXCEPT ![p] = y] /\ y.pc = "idle" /\ y.call = "none"
    BY <1>0, <1>3, NewObjectIs DEF init, create
  <2>3. PyOK(g, y, file', events')
    BY <2>1, <2>2 DEF PyOK, Makes
  <2> QED
    BY <1>0, <2>1, <2>2, <2>3, PyReplaced
<1>4. CASE CallImpl(p)
  <2>1. Busy(b) /\ x.call = "none" /\ UNCHANGED py
    BY <1>1, <1>2, <1>4 DEF CallImpl, InMethod, Busy
  <2>2. b.object = "none" /\ Makes(b, x)
    BY <1>2, <2>1 DEF PyOK, Works, Readers
  <2>3. CASE b.method = "init" /\ \E mode \in OpenModes : CallOpen(p, mode)
    <3>1. PICK mode \in Modes : CallOpen(p, mode)
      BY <2>3, LifecycleAssumption DEF Modes
    <3>2. PICK y \in Handle : h' = [h EXCEPT ![p] = y] /\ y.pc = "open" /\ y.call = "Open"
      BY <1>0, <3>1, OpenCallIs
    <3>3. PyOK(b, y, file', events')
      BY <2>2, <2>3, <3>2 DEF PyOK, Makes, Making
    <3> QED
      BY <1>0, <1>2, <2>1, <3>2, <3>3, PyOf, PyReplaced
  <2>4. CASE b.method = "create" /\ CallCreate(p, b.size)
    <3>1. b.size \in Int
      BY <2>2, <2>4, LifecycleAssumption DEF Makes
    <3>2. PICK y \in Handle :
            h' = [h EXCEPT ![p] = y] /\ y.pc = "creat" /\ y.call = "Create"
      BY <1>0, <2>4, <3>1, CreateCallIs
    <3>3. PyOK(b, y, file', events')
      BY <2>2, <2>4, <3>2 DEF PyOK, Makes, Making
    <3> QED
      BY <1>0, <1>2, <2>1, <3>2, <3>3, PyOf, PyReplaced
  <2> QED
    BY <1>2, <1>4, <2>3, <2>4 DEF CallImpl
<1>5. CASE Made(p)
  <2>1. /\ Busy(b) /\ x.pc = "idle" /\ x.call \in {"Open", "Create"} /\ x.ret = "true"
        /\ UNCHANGED lvars
    BY <1>1, <1>2, <1>5 DEF Made, Opened, ImplReturned, InMethod, Busy
  <2>2. b.object = "none" /\ Makes(b, x)
    BY <1>2, <2>1 DEF PyOK, Works, Readers
  <2>3. PICK n \in Int : n = file.end /\ n = events.published
    BY PyOf
  <2>4. PICK o \in Objects : o = b.method /\ o \in {"init", "create"}
    BY <2>2, PyNames DEF Makes
  <2> DEFINE g == [b EXCEPT !.object = o, !.result = "object", !.present = n]
  <2>5. g \in Py
    BY PyNames DEF Py
  <2>6. /\ g.object = o /\ g.result = "object" /\ g.present = n /\ g.method = b.method
        /\ g.closed = b.closed /\ g.seen = b.seen /\ g.last = b.last
    BY PyFields
  <2>7. py' = [py EXCEPT ![p] = g]
    BY <1>2, <1>5, <2>3, <2>4 DEF Made, PyInv
  <2> HIDE DEF g
  <2>8. Works(g, x, file, events)
    BY <2>1, <2>2, <2>6 DEF Works, Busy, Makes
  <2>9. g.object = "init" => ReadOK(g, x, events)
    BY <2>1, <2>2, <2>3, <2>4, <2>6, PyOf DEF ReadOK, Gives, Busy, Makes, Readers
  <2>10. PyOK(g, h[p], file, events)
    BY <1>1, <2>4, <2>6, <2>8, <2>9 DEF PyOK
  <2> QED
    BY <2>1, <2>5, <2>7, <2>10, PyAlone
<1>6. CASE NotMade(p)
  <2>1. /\ Busy(b) /\ x.call \in {"Open", "Create"} /\ Destroy(p) /\ Result(p, "IOError")
    BY <1>1, <1>2, <1>6 DEF NotMade, ImplReturned, InMethod, Busy
  <2>2. b.object = "none"
    BY <1>2, <2>1 DEF PyOK, Works, Readers
  <2>3. PICK g \in Py : py' = [py EXCEPT ![p] = g] /\ g.result = "IOError" /\ g.object = b.object
    BY <1>2, <2>1, PyNames, ResultIs
  <2>4. h' = [h EXCEPT ![p] = NoObject] /\ NoObject.pc = "none"
    BY <2>1 DEF Destroy, NoObject
  <2>5. PyOK(g, NoObject, file', events')
    BY <2>2, <2>3 DEF PyOK, Busy
  <2> QED
    BY <1>0, <2>3, <2>4, <2>5, PyReplaced
<1> QED
  BY <1>3, <1>4, <1>5, <1>6

(* The methods of an object, which begin, go on to the next call, or end. *)
LEMMA ReadKeeps ==
  ASSUME SoundPython, PyInv, YNext, NEW p \in Procs,
         \/ read(p, "read") \/ read(p, "iternext")
         \/ ReadsOn(p) \/ ReadEnds(p) \/ ReadRaises(p) \/ ReadHasNoMemory(p) \/ ReadGives(p)
  PROVE  PyInv'
<1>0. /\ FileInv' /\ (Bare(file, events) => Bare(file', events')) /\ events.published <= events'.published /\ HeldInv
      /\ events.published \in Nat
  BY YStepFile, PyOf
<1>1. PICK x \in Handle : x = h[p]
  BY PyOf
<1>2. PICK b \in Py : b = py[p] /\ PyOK(b, x, file, events) /\ py = [py EXCEPT ![p] = b]
  BY <1>1, PyOf
<1>3. /\ "EndOfFile" \in CallNames /\ "NextRecordSize" \in CallNames /\ "Read" \in CallNames
      /\ "eof" \in Steps /\ "size" \in Steps /\ "read" \in Steps
  BY DEF CallNames, Steps
<1> USE DEF CreateSteps
<1>4. ASSUME NEW m \in Readers, read(p, m)
      PROVE  PyInv'
  <2>1. b.object # "none" /\ ~Busy(b) /\ Call(p, "EndOfFile", "eof")
    BY <1>2, <1>4 DEF read, HasObject, InMethod, Busy
  <2>2. PICK y \in Handle :
          /\ h' = [h EXCEPT ![p] = y]
          /\ y.pc = "eof" /\ y.call = "EndOfFile" /\ y.header = x.header /\ y.at = x.at
          /\ UNCHANGED events
    BY <1>0, <1>1, <1>3, <2>1, CallIs
  <2>3. m \in Methods
    BY PyNames DEF Readers
  <2> DEFINE g == [b EXCEPT !.method = m, !.result = "none"]
  <2>8. g \in Py
    BY <1>2, <2>3, PyNames DEF Py
  <2>4. /\ g.result = "none" /\ g.method = m /\ g.object = b.object /\ g.closed = b.closed
        /\ g.seen = b.seen /\ g.last = b.last /\ g.present = b.present
    BY <1>2, PyFields
  <2>9. py' = [py EXCEPT ![p] = g]
    BY <1>2, <1>4 DEF read, Enter
  <2> HIDE DEF g
  <2>5. Works(g, y, file', events')
    BY <1>2, <2>1, <2>2, <2>4 DEF PyOK, Works, Busy, Using, Readers
  <2>6. g.object = "init" => ReadOK(g, y, events')
    BY <1>2, <2>1, <2>2, <2>4 DEF PyOK, ReadOK, Gives, Busy
  <2>7. PyOK(g, y, file', events')
    BY <2>1, <2>4, <2>5, <2>6 DEF PyOK
  <2> QED
    BY <1>0, <2>2, <2>4, <2>7, <2>8, <2>9, PyReplaced
<1>5. ASSUME Busy(b), x.pc = "idle", x.call \in {"EndOfFile", "NextRecordSize", "Read"}
      PROVE  /\ b.object # "none" /\ b.method \in Readers /\ ~b.closed /\ x.header = "mapped"
             /\ Works(b, x, file, events) /\ (b.object = "init" => ReadOK(b, x, events))
  BY <1>2, <1>5 DEF PyOK, Makes, Works, Readers
<1>6. CASE ReadsOn(p)
  <2>1. /\ Busy(b) /\ x.pc = "idle" /\ UNCHANGED py
        /\ \/ x.call = "EndOfFile" /\ x.ret = "false" /\ Call(p, "NextRecordSize", "size")
           \/ x.call = "NextRecordSize" /\ x.ret = "true" /\ Call(p, "Read", "read")
    BY <1>1, <1>2, <1>6 DEF ReadsOn, ImplReturned, InMethod, Busy
  <2>2. PICK y \in Handle :
          /\ h' = [h EXCEPT ![p] = y]
          /\ y.header = x.header /\ y.at = x.at /\ UNCHANGED events
          /\ \/ y.pc = "size" /\ y.call = "NextRecordSize"
             \/ y.pc = "read" /\ y.call = "Read"
    BY <1>0, <1>1, <1>3, <2>1, CallIs
  <2>3. Works(b, y, file', events')
    BY <1>5, <2>1, <2>2 DEF Works, Using, Readers
  <2>4. b.object = "init" => ReadOK(b, y, events')
    BY <1>5, <2>1, <2>2 DEF ReadOK, Gives
  <2>5. PyOK(b, y, file', events')
    BY <1>5, <2>1, <2>3, <2>4 DEF PyOK
  <2> QED
    BY <1>0, <1>2, <2>1, <2>2, <2>5, PyReplaced
<1>7. CASE ReadEnds(p)
  <2>1. /\ Busy(b) /\ x.pc = "idle" /\ x.call = "EndOfFile" /\ x.ret = "true"
        /\ (Result(p, "None") \/ Result(p, "StopIteration")) /\ UNCHANGED lvars
    BY <1>1, <1>2, <1>7 DEF ReadEnds, ImplReturned, InMethod, Busy
  <2>2. PICK g \in Py :
          /\ py' = [py EXCEPT ![p] = g] /\ g.result \in {"None", "StopIteration"}
          /\ g.method = b.method /\ g.object = b.object /\ g.closed = b.closed
          /\ g.seen = b.seen /\ g.last = b.last /\ g.present = b.present
    BY <1>2, <2>1, PyNames, ResultIs
  <2>3. Works(g, x, file, events)
    BY <1>5, <2>1, <2>2 DEF Works, Busy
  <2>4. g.object = "init" => ReadOK(g, x, events)
    BY <1>5, <2>1, <2>2 DEF ReadOK, Gives, Busy
  <2>5. PyOK(g, h[p], file, events)
    BY <1>1, <1>5, <2>1, <2>2, <2>3, <2>4 DEF PyOK
  <2> QED
    BY <2>1, <2>2, <2>5, PyAlone
<1>8. CASE ReadRaises(p) \/ ReadHasNoMemory(p)
  <2>1. /\ Busy(b) /\ x.pc = "idle"
        /\ \/ x.call = "NextRecordSize"
           \/ x.call = "Read" /\ x.ret = "false"
        /\ (Result(p, "IOError") \/ Result(p, "MemoryError")) /\ UNCHANGED lvars
    BY <1>1, <1>2, <1>8 DEF ReadRaises, ReadHasNoMemory, ImplReturned, InMethod, Busy
  <2>2. PICK g \in Py :
          /\ py' = [py EXCEPT ![p] = g] /\ g.result \in {"IOError", "MemoryError"}
          /\ g.method = b.method /\ g.object = b.object /\ g.closed = b.closed
          /\ g.seen = b.seen /\ g.last = b.last /\ g.present = b.present
    BY <1>2, <2>1, PyNames, ResultIs
  <2>3. Works(g, x, file, events)
    BY <1>5, <2>1, <2>2 DEF Works, Busy
  <2>4. g.object = "init" => ReadOK(g, x, events)
    BY <1>5, <2>1, <2>2 DEF ReadOK, Gives, Busy
  <2>5. PyOK(g, h[p], file, events)
    BY <1>1, <1>5, <2>1, <2>2, <2>3, <2>4 DEF PyOK
  <2> QED
    BY <2>1, <2>2, <2>5, PyAlone
<1>9. CASE ReadGives(p)
  <2>1. /\ Busy(b) /\ x.pc = "idle" /\ x.call = "Read" /\ x.ret = "true" /\ UNCHANGED lvars
    BY <1>1, <1>2, <1>9 DEF ReadGives, ImplReturned, InMethod, Busy
  <2>2. PICK n \in Nat, m \in Int : n = b.seen + 1 /\ m = x.arg
    BY PyFields, HandleFields
  <2> DEFINE g == [b EXCEPT !.result = "string", !.seen = n, !.last = m]
  <2>3. g \in Py
    BY PyNames DEF Py
  <2>4. /\ g.result = "string" /\ g.seen = n /\ g.last = m /\ g.object = b.object
        /\ g.method = b.method /\ g.closed = b.closed /\ g.present = b.present
    BY PyFields
  <2>5. py' = [py EXCEPT ![p] = g]
    BY <1>1, <1>2, <1>9, <2>2 DEF ReadGives, PyInv
  <2> HIDE DEF g
  <2>6. Works(g, x, file, events)
    BY <1>5, <2>1, <2>4 DEF Works, Busy
  <2>7. g.object = "init" => ReadOK(g, x, events)
    BY <1>5, <2>1, <2>2, <2>4 DEF ReadOK, Gives, Busy
  <2>8. PyOK(g, h[p], file, events)
    BY <1>1, <1>5, <2>1, <2>4, <2>6, <2>7 DEF PyOK
  <2> QED
    BY <2>1, <2>3, <2>5, <2>8, PyAlone
<1> QED
  BY <1>4, <1>6, <1>7, <1>8, <1>9 DEF Readers

LEMMA OtherKeeps ==
  ASSUME SoundPython, PyInv, YNext, NEW p \in Procs,
         write(p) \/ Wrote(p) \/ close(p) \/ dealloc(p) \/ InterpreterDies(p)
  PROVE  PyInv'
<1>0. /\ FileInv' /\ (Bare(file, events) => Bare(file', events')) /\ events.published <= events'.published /\ HeldInv
      /\ events.published \in Nat
  BY YStepFile, PyOf
<1>1. PICK x \in Handle : x = h[p]
  BY PyOf
<1>2. PICK b \in Py : b = py[p] /\ PyOK(b, x, file, events)
  BY <1>1, PyOf
<1> USE DEF CreateSteps
<1>3. CASE write(p)
  <2>1. b.object # "none" /\ ~Busy(b) /\ Call(p, "Write", "write")
    BY <1>2, <1>3 DEF write, CallWrite, HasObject, InMethod, Busy
  <2>2. "Write" \in CallNames /\ "write" \in Steps
    BY DEF CallNames, Steps
  <2>3. PICK y \in Handle :
          /\ h' = [h EXCEPT ![p] = y]
          /\ y.pc = "write" /\ y.call = "Write" /\ y.header = x.header /\ y.at = x.at
          /\ UNCHANGED events
    BY <1>0, <1>1, <2>1, <2>2, CallIs
  <2> DEFINE g == [b EXCEPT !.method = "write", !.result = "none"]
  <2>8. g \in Py
    BY <1>2, PyNames DEF Py
  <2>4. /\ g.result = "none" /\ g.method = "write" /\ g.object = b.object /\ g.closed = b.closed
        /\ g.seen = b.seen /\ g.last = b.last /\ g.present = b.present
    BY <1>2, PyFields
  <2>9. py' = [py EXCEPT ![p] = g]
    BY <1>2, <1>3 DEF write, Enter
  <2> HIDE DEF g
  <2>5. Works(g, y, file', events')
    BY <1>2, <2>1, <2>3, <2>4 DEF PyOK, Works, Busy, Using, Readers
  <2>6. g.object = "init" => ReadOK(g, y, events')
    BY <1>2, <2>1, <2>3, <2>4 DEF PyOK, ReadOK, Gives, Busy, Readers
  <2>7. PyOK(g, y, file', events')
    BY <2>1, <2>4, <2>5, <2>6 DEF PyOK
  <2> QED
    BY <1>0, <2>3, <2>4, <2>7, <2>8, <2>9, PyReplaced
<1>4. CASE Wrote(p)
  <2>1. /\ Busy(b) /\ x.pc = "idle" /\ x.call = "Write"
        /\ (Result(p, "None") \/ Result(p, "IOError")) /\ UNCHANGED lvars
    BY <1>1, <1>2, <1>4 DEF Wrote, ImplReturned, InMethod, Busy
  <2>2. PICK g \in Py :
          /\ py' = [py EXCEPT ![p] = g] /\ g.result \in {"None", "IOError"}
          /\ g.method = b.method /\ g.object = b.object /\ g.closed = b.closed
          /\ g.seen = b.seen /\ g.last = b.last /\ g.present = b.present
    BY <1>2, <2>1, PyNames, ResultIs
  <2>3. b.object # "none" /\ b.method = "write" /\ Works(b, x, file, events)
    BY <1>2, <2>1 DEF PyOK, Makes, Works, Readers
  <2>4. Works(g, x, file, events)
    BY <2>1, <2>2, <2>3 DEF Works, Busy
  <2>5. g.object = "init" => ReadOK(g, x, events)
    BY <1>2, <2>1, <2>2, <2>3 DEF PyOK, ReadOK, Gives, Busy, Readers
  <2>6. PyOK(g, h[p], file, events)
    BY <1>1, <2>2, <2>3, <2>4, <2>5 DEF PyOK
  <2> QED
    BY <2>1, <2>2, <2>6, PyAlone
<1>5. CASE close(p)
  <2>1. b.object # "none" /\ ~Busy(b) /\ Close(p)
    BY <1>2, <1>5 DEF close, HasObject, InMethod, Busy
  <2>2. PICK y \in Handle :
          h' = [h EXCEPT ![p] = y] /\ y.pc = "idle" /\ y.header = "null" /\ UNCHANGED events
    BY <1>0, <2>1, CloseIs
  <2> DEFINE g == [b EXCEPT !.method = "close", !.result = "None", !.closed = TRUE]
  <2>3. g \in Py
    BY PyNames DEF Py
  <2>4. /\ g.method = "close" /\ g.result = "None" /\ g.closed /\ g.object = b.object
        /\ g.seen = b.seen /\ g.last = b.last /\ g.present = b.present
    BY PyFields
  <2>5. py' = [py EXCEPT ![p] = g]
    BY <1>2, <1>5 DEF close, PyInv
  <2> HIDE DEF g
  <2>6. Works(g, y, file', events')
    BY <2>2, <2>4 DEF Works, Busy
  <2>7. g.object = "init" => ReadOK(g, y, events')
    BY <1>2, <2>2, <2>4 DEF PyOK, ReadOK, Readers
  <2>8. PyOK(g, y, file', events')
    BY <2>1, <2>4, <2>6, <2>7 DEF PyOK
  <2> QED
    BY <1>0, <2>2, <2>3, <2>5, <2>8, PyReplaced
<1>6. CASE dealloc(p) \/ InterpreterDies(p)
  <2>1. h' = [h EXCEPT ![p] = NoObject] /\ NoObject.pc = "none" /\ py' = [py EXCEPT ![p] = NoPython]
    BY <1>6 DEF dealloc, InterpreterDies, Destroy, Crash, NoObject
  <2>2. PyOK(NoPython, NoObject, file', events')
    BY NoPythonIs DEF PyOK, Busy
  <2> QED
    BY <1>0, <2>1, <2>2, NoPythonIs, PyReplaced
<1> QED
  BY <1>3, <1>4, <1>5, <1>6

-----------------------------------------------------------------------------
(* A ring that some handle stands in has bytes, so that no remainder        *)
(* divides by 0, but for the header alone.                                 *)
LEMMA RingHasBytes ==
  ASSUME PyInv, NEW p \in Procs, h[p].header = "mapped", h[p].pc \in Using, BytesMax(h[p]) = 0
  PROVE  Bare(file, events) /\ events.published = 0
<1>1. PICK x \in Handle : x = h[p] /\ KnowsFile(x, file, events)
  BY PyOf
<1>2. file.magic /\ x.size = file.size
  BY <1>1 DEF KnowsFile, Using
<1>3. /\ file.size \in Int /\ file.size > 0 /\ SoundSize(file.size) /\ file.size = events.created
      /\ events.published > 0 => MaxRecords < file.size - HeaderSize
      /\ events.published \in Nat
  BY <1>2, PyOf, HandleIs DEF FileOK
<1>4. x.size - HeaderSize \in 0 .. Word - 1
  BY <1>2, <1>3, LifecycleAssumption DEF SoundSize
<1>5. x.size - HeaderSize = 0
  BY <1>1, <1>4, BytesMaxIs
<1> QED
  BY <1>2, <1>3, <1>5, LifecycleAssumption DEF Bare

(* The steps of the calls themselves. *)
LEMMA HandleKeeps ==
  ASSUME SoundPython, PyInv, YNext, NEW p \in Procs,
         HandleStep(p) \/ SystemCallFails(p), UNCHANGED py
  PROVE  PyInv'
<1>0. /\ FileInv' /\ (Bare(file, events) => Bare(file', events')) /\ events.published <= events'.published /\ HeldInv
      /\ events.published \in Nat /\ events'.published \in Nat
      /\ FileInv /\ file.end = events.published
  BY YStepFile, PyOf DEF FileInv, HeldInv, LTypeOK
<1>1. PICK x \in Handle : x = h[p] /\ Staged(x)
  BY PyOf
<1>2. PICK b \in Py : b = py[p] /\ PyOK(b, x, file, events) /\ py' = [py EXCEPT ![p] = b]
  BY <1>1, PyOf
<1>3. x.pc \notin {"none", "idle", "dead"}
  BY <1>1 DEF HandleStep, Creat, Truncate, StoreMagic, StoreEndOffset, OpenPath, StatFile,
    Map, CheckMagic, WriteRecord, NextRecordSize, ReadRecord, EndOfFile, SystemCallFails
<1>4. ASSUME NEW y, h' = [h EXCEPT ![p] = y], PyOK(b, y, file', events')
      PROVE  PyInv'
  BY <1>0, <1>2, <1>4, PyReplaced
<1>5. CASE b.object = "none" /\ ~Busy(b)
  <2>1. PICK y : h' = [h EXCEPT ![p] = y]
    BY <1>0, OneHandle
  <2>2. PyOK(b, y, file', events')
    BY <1>5 DEF PyOK
  <2> QED
    BY <1>4, <2>1, <2>2
<1>6. CASE b.object = "none" /\ Busy(b)
  <2>1. Makes(b, x) /\ x.pc \in Making
    BY <1>2, <1>3, <1>6 DEF PyOK, Makes
  <2>2. PICK y \in Handle :
          /\ h' = [h EXCEPT ![p] = y]
          /\ y.pc \in Making \cup {"idle", "dead"}
          /\ y.call = x.call
          /\ y.pc = "idle" /\ y.ret = "true" =>
               y.header = "mapped" /\ (x.call = "Open" => y.at = 0)
    <3>1. CASE x.pc = "open" /\ x.mode = "other"
      BY <1>0, <1>1, <3>1, UnknownMode
    <3>2. CASE ~(x.pc = "open" /\ x.mode = "other")
      BY <1>0, <1>1, <2>1, <3>2, MakingStep
    <3> QED
      BY <3>1, <3>2
  <2>3. PyOK(b, y, file', events')
    BY <1>6, <2>1, <2>2 DEF PyOK, Makes
  <2> QED
    BY <1>4, <2>2, <2>3
<1>7. ASSUME b.object # "none"
      PROVE  /\ Busy(b) /\ Works(b, x, file, events) /\ x.pc \in Using
             /\ b.object = "init" => ReadOK(b, x, events)
  BY <1>2, <1>3, <1>7 DEF PyOK, Works
<1>8. CASE b.object # "none" /\ b.closed
  <2>1. x.header = "null" /\ x.pc \in {"write", "eof"}
    BY <1>3, <1>7, <1>8 DEF Works, Readers
  <2>2. PICK y \in Handle :
          /\ h' = [h EXCEPT ![p] = y] /\ y.call = x.call /\ y.header = "null"
          /\ y.pc = "dead" \/ (x.pc = "write" /\ y.pc = "idle")
    BY <1>0, <1>1, <2>1, UnusableStep
  <2>3. Works(b, y, file', events')
    BY <1>3, <1>7, <1>8, <2>1, <2>2 DEF Works, Readers
  <2>4. b.object = "init" => ReadOK(b, y, events')
    <3>1. b.present \in Int /\ b.seen \in Nat
      BY PyFields
    <3> QED
      BY <1>0, <1>7, <1>8, <3>1 DEF ReadOK
  <2>5. PyOK(b, y, file', events')
    BY <1>8, <2>3, <2>4 DEF PyOK
  <2> QED
    BY <1>4, <2>2, <2>5
<1>9. CASE b.object # "none" /\ ~b.closed
  <2>1. Busy(b) /\ Works(b, x, file, events) /\ x.header = "mapped" /\ x.pc \in Using
    BY <1>3, <1>7, <1>9 DEF Works
  <2>2. PICK y \in Handle :
          /\ h' = [h EXCEPT ![p] = y] /\ y.call = x.call
          /\ \/ y.pc = "dead" /\ x.pc \in {"size", "read"} /\ BytesMax(x) = 0
             \/ UsedFrom(x, y, file)
    BY <1>0, <1>1, <2>1, UsingStep
  <2>3. CASE UsedFrom(x, y, file)
    <3>1. y.pc = "idle" /\ y.call = x.call /\ y.header = "mapped" /\ y.ret \in {"true", "false"}
      BY <2>3 DEF UsedFrom
    <3>2. Works(b, y, file', events')
      BY <1>3, <1>9, <2>1, <3>1 DEF Works
    <3>3. ASSUME b.object = "init"
          PROVE  ReadOK(b, y, events')
      <4>1. /\ ReadOK(b, x, events) /\ x.at = b.seen /\ x.at <= events.published
            /\ x.pc \in {"size", "read"} => x.at < events.published
        BY <1>3, <1>7, <1>9, <2>1, <3>3 DEF ReadOK, Gives
      <4>2. b.present \in Int /\ b.seen \in Nat /\ b.last \in Int
        BY PyFields
      <4>3. CASE x.pc = "read"
        <5>1. x.call = "Read"
          BY <2>1, <4>3 DEF Works
        <5>2. x.at \in 0 .. file.end - 1
          BY <1>0, <4>1, <4>2, <4>3
        <5> QED
          BY <1>0, <1>9, <2>1, <2>3, <3>1, <4>1, <4>2, <4>3, <5>1, <5>2 DEF UsedFrom, ReadOK, Gives
      <4>4. CASE x.pc = "size"
        <5>1. x.call = "NextRecordSize"
          BY <2>1, <4>4 DEF Works
        <5> QED
          BY <1>0, <1>9, <2>1, <2>3, <3>1, <4>1, <4>2, <4>4, <5>1 DEF UsedFrom, ReadOK, Gives
      <4>5. CASE x.pc = "eof"
        <5>1. x.call = "EndOfFile"
          BY <2>1, <4>5 DEF Works
        <5> QED
          BY <1>0, <1>9, <2>1, <2>3, <3>1, <4>1, <4>2, <4>5, <5>1 DEF UsedFrom, ReadOK, Gives
      <4>6. CASE x.pc = "write"
        <5>1. x.call = "Write"
          BY <2>1, <4>6 DEF Works
        <5> QED
          BY <1>0, <1>9, <2>1, <2>3, <3>1, <4>1, <4>2, <4>6, <5>1 DEF UsedFrom, ReadOK, Gives
      <4> QED
        BY <2>1, <4>3, <4>4, <4>5, <4>6 DEF Using
    <3>4. PyOK(b, y, file', events')
      BY <1>9, <3>2, <3>3 DEF PyOK
    <3> QED
      BY <1>4, <2>2, <3>4
  <2>4. CASE y.pc = "dead" /\ x.pc \in {"size", "read"} /\ BytesMax(x) = 0
    <3>1. Bare(file', events') /\ events.published = 0
      BY <1>0, <1>1, <2>1, <2>4, RingHasBytes
    <3>2. b.object # "init"
      <4>1. b.seen \in Nat
        BY PyFields
      <4> QED
        BY <1>7, <1>9, <2>1, <2>4, <3>1, <4>1 DEF ReadOK, Gives
    <3>3. Works(b, y, file', events')
      BY <1>9, <2>2, <2>1, <2>4, <3>1, <3>2, PyFields DEF Works, Objects
    <3>4. PyOK(b, y, file', events')
      BY <1>9, <3>2, <3>3 DEF PyOK
    <3> QED
      BY <1>4, <2>2, <3>4
  <2> QED
    BY <2>2, <2>3, <2>4
<1> QED
  BY <1>5, <1>6, <1>8, <1>9

LEMMA StepPy ==
  ASSUME SoundPython, PyInv, [YNext]_yvars
  PROVE  PyInv'
<1>1. CASE YNext
  BY <1>1, MakeKeeps, ReadKeeps, OtherKeeps, HandleKeeps DEF YNext
<1>2. CASE UNCHANGED yvars
  <2>1. FileInv'
    BY <1>2, IdleFile DEF PyInv, yvars, lvars
  <2> QED
    BY <1>2, <2>1 DEF PyInv, yvars
<1> QED
  BY <1>1, <1>2

-----------------------------------------------------------------------------
(* The invariant of the objects, their handles and the file. *)
THEOREM PythonInvariant == SoundPython => (YSpec => []PyInv)
<1> SUFFICES ASSUME SoundPython PROVE YSpec => []PyInv
  OBVIOUS
<1>1. PyInv /\ [YNext]_yvars => PyInv'
  BY StepPy
<1> QED
  BY <1>1, InitPy, PTL DEF YSpec

(***************************************************************************)
(* read() and the iterator give the records of the file, each once, in     *)
(* order and from the first on, whatever is raised in between, and end     *)
(* when all that were there at the opening have been given.                *)
(***************************************************************************)
THEOREM IterationStaysWhole == SoundPython => (YSpec => []IterationIsWhole)
<1> SUFFICES ASSUME SoundPython PROVE YSpec => []IterationIsWhole
  OBVIOUS
<1>1. ASSUME PyInv, NEW p \in Procs, py[p].object = "init"
      PROVE  /\ py[p].last = py[p].seen
             /\ py[p].method \in {"read", "iternext"} /\ py[p].result \in {"None", "StopIteration"} =>
                  py[p].seen >= py[p].present
  <2>1. PICK b \in Py : b = py[p] /\ ReadOK(b, h[p], events)
    BY <1>1, PyOf DEF PyOK
  <2> QED
    BY <2>1, PyFields DEF ReadOK, Readers
<1>2. PyInv => IterationIsWhole
  BY <1>1 DEF IterationIsWhole
<1> QED
  BY <1>2, PythonInvariant, PTL

(***************************************************************************)
(* Whatever fails, a method of an object that has not been closed returns  *)
(* or raises; only one that came from create, of a file that is a header   *)
(* alone, can kill the interpreter.                                        *)
(***************************************************************************)
THEOREM OpenObjectsAlwaysAnswer == SoundPython => (YSpec => []OpenObjectsAnswer)
<1> SUFFICES ASSUME SoundPython PROVE YSpec => []OpenObjectsAnswer
  OBVIOUS
<1>1. ASSUME PyInv, NEW p \in Procs, py[p].object # "none", ~py[p].closed, h[p].pc = "dead"
      PROVE  py[p].object = "create" /\ file.size = HeaderSize
  BY <1>1, PyOf DEF PyOK, Works, Bare, FileOK
<1>2. PyInv => OpenObjectsAnswer
  BY <1>1 DEF OpenObjectsAnswer
<1> QED
  BY <1>2, PythonInvariant, PTL
=============================================================================
