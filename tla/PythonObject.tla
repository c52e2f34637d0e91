---------------------------- MODULE PythonObject ----------------------------
(***************************************************************************)
(* The class Ringfile of the Python module (src/python/module.cc): an      *)
(* object around a handle, from __new__ or create to its deallocation.     *)
(* The interpreter runs one call at a time; other processes write to the   *)
(* file between any two steps of it.                                       *)
(***************************************************************************)
EXTENDS Lifecycle

VARIABLE py

yvars == <<file, h, kernel, events, py>>

NoPython ==
  [object |-> "none",   \* "none", "init" or "create": how it was made
   method |-> "none",   \* the method it is in, or was in last
   size |-> 0,          \* the size create was given
   result |-> "none",   \* what the method returned or raised
   closed |-> FALSE,    \* auxiliary: close has been called
   seen |-> 0,          \* auxiliary: values read from the object
   last |-> 0,          \* auxiliary: the record the last of them was
   present |-> 0]       \* auxiliary: records in the file when it was opened

YInit == LInit /\ py = [p \in Procs |-> NoPython]

InMethod(p) == py[p].method # "none" /\ py[p].result = "none"

HasObject(p) == py[p].object # "none" /\ ~InMethod(p)

Enter(p, method) == [py[p] EXCEPT !.method = method, !.result = "none"]

Result(p, value) == py' = [py EXCEPT ![p].result = value]

-----------------------------------------------------------------------------
(* Ringfile(path, mode) and create up to new Ringfile(). *)
init(p) ==
  /\ ~InMethod(p) /\ py[p].object = "none"
  /\ NewObject(p)
  /\ py' = [py EXCEPT ![p] = [NoPython EXCEPT !.method = "init"]]

create(p, n) ==
  /\ ~InMethod(p) /\ py[p].object = "none"
  /\ NewObject(p)
  /\ py' = [py EXCEPT ![p] = [NoPython EXCEPT !.method = "create", !.size = n]]

(* Their calls of Open and Create on the new handle. *)
CallImpl(p) ==
  /\ InMethod(p) /\ h[p].call = "none"
  /\ \/ py[p].method = "init" /\ \E mode \in OpenModes : CallOpen(p, mode)
     \/ py[p].method = "create" /\ CallCreate(p, py[p].size)
  /\ UNCHANGED py

ImplReturned(p, call, value) ==
  InMethod(p) /\ h[p].pc = "idle" /\ h[p].call = call /\ h[p].ret = value

(* Bug: what Open returns is not looked at. *)
Opened_Anyway(p) == ImplReturned(p, "Open", "true") \/ ImplReturned(p, "Open", "false")

Opened(p) == ImplReturned(p, "Open", "true")

Made(p) ==
  /\ \/ Opened(p)
     \/ ImplReturned(p, "Create", "true")
  /\ py' = [py EXCEPT ![p].object = py[p].method, ![p].result = "object",
                      ![p].present = file.end]
  /\ UNCHANGED lvars

(* IOError: nothing refers to the object any more, and it is deallocated. *)
NotMade(p) ==
  /\ \/ ImplReturned(p, "Open", "false")
     \/ ImplReturned(p, "Create", "false")
  /\ Destroy(p)
  /\ Result(p, "IOError")

-----------------------------------------------------------------------------
(* read and iternext, which begin with EndOfFile; also of an object that is *)
(* closed, or comes from create.                                           *)
read(p, method) ==
  /\ HasObject(p)
  /\ Call(p, "EndOfFile", "eof")
  /\ py' = [py EXCEPT ![p] = Enter(p, method)]

ReadsOn(p) ==
  \/ ImplReturned(p, "EndOfFile", "false") /\ Call(p, "NextRecordSize", "size") /\ UNCHANGED py
  \/ ImplReturned(p, "NextRecordSize", "true") /\ Call(p, "Read", "read") /\ UNCHANGED py

(* None, which iternext turns into StopIteration. *)
ReadEnds(p) ==
  /\ ImplReturned(p, "EndOfFile", "true")
  /\ Result(p, IF py[p].method = "iternext" THEN "StopIteration" ELSE "None")
  /\ UNCHANGED lvars

ReadRaises(p) ==
  /\ \/ ImplReturned(p, "NextRecordSize", "false")
     \/ ImplReturned(p, "Read", "false")
  /\ Result(p, "IOError")
  /\ UNCHANGED lvars

(* There is no memory for a string of the size. *)
ReadHasNoMemory(p) ==
  /\ "io" \in Faults
  /\ ImplReturned(p, "NextRecordSize", "true")
  /\ Result(p, "MemoryError")
  /\ UNCHANGED lvars

ReadGives(p) ==
  /\ ImplReturned(p, "Read", "true")
  /\ py' = [py EXCEPT ![p].result = "string", ![p].seen = @ + 1, ![p].last = h[p].arg]
  /\ UNCHANGED lvars

write(p) ==
  /\ HasObject(p)
  /\ CallWrite(p)
  /\ py' = [py EXCEPT ![p] = Enter(p, "write")]

Wrote(p) ==
  /\ \/ ImplReturned(p, "Write", "true") /\ Result(p, "None")
     \/ ImplReturned(p, "Write", "false") /\ Result(p, "IOError")
  /\ UNCHANGED lvars

close(p) ==
  /\ HasObject(p)
  /\ Close(p)
  /\ py' = [py EXCEPT ![p].method = "close", ![p].result = "None", ![p].closed = TRUE]

dealloc(p) ==
  /\ HasObject(p)
  /\ Destroy(p)
  /\ py' = [py EXCEPT ![p] = NoPython]

InterpreterDies(p) == Crash(p) /\ py' = [py EXCEPT ![p] = NoPython]

YNext == \E p \in Procs :
  \/ init(p)
  \/ \E n \in CreateSizes : create(p, n)
  \/ CallImpl(p) \/ Made(p) \/ NotMade(p)
  \/ read(p, "read") \/ read(p, "iternext")
  \/ ReadsOn(p) \/ ReadEnds(p) \/ ReadRaises(p) \/ ReadHasNoMemory(p) \/ ReadGives(p)
  \/ write(p) \/ Wrote(p) \/ close(p) \/ dealloc(p)
  \/ (HandleStep(p) \/ SystemCallFails(p)) /\ UNCHANGED py
  \/ InterpreterDies(p)

YSpec == YInit /\ [][YNext]_yvars

-----------------------------------------------------------------------------
(***************************************************************************)
(* The strings read from an object that was opened are the records of the  *)
(* file, each once, in order and from the first one, whatever raised       *)
(* IOError or MemoryError in between and whoever appends meanwhile; None   *)
(* and StopIteration come when all records that were there at the opening  *)
(* have been read.                                                         *)
(***************************************************************************)
IterationIsWhole ==
  \A p \in Procs : py[p].object = "init" =>
    /\ py[p].last = py[p].seen
    /\ py[p].method \in {"read", "iternext"} /\ py[p].result \in {"None", "StopIteration"} =>
         py[p].seen >= py[p].present

(***************************************************************************)
(* Whatever the client does with an object that it has not closed, and     *)
(* whatever fails, a method answers: it returns or raises.  One case is    *)
(* left in which it kills the interpreter: create of a file that is a      *)
(* header alone, whose object stands at an offset nobody has set and reads *)
(* on from there, with a remainder by 0.  (After close, read and write do: *)
(* EndOfFile and Write do not look whether there is a header.)             *)
(***************************************************************************)
OpenObjectsAnswer ==
  \A p \in Procs :
    py[p].object # "none" /\ ~py[p].closed /\ h[p].pc = "dead" =>
      py[p].object = "create" /\ file.size = HeaderSize
=============================================================================
