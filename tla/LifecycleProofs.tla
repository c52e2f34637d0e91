--------------------------- MODULE LifecycleProofs ---------------------------
(***************************************************************************)
(* What every step of a Ringfile object keeps, whichever program takes it: *)
(* the C functions, the Python class and the command are made of these     *)
(* steps, and their proofs start from the lemmas of this module.           *)
(***************************************************************************)
EXTENDS Lifecycle, TLAPS

Steps ==
  {"none", "idle", "dead", "creat", "truncate", "mapnew", "magic", "end",
   "open", "stat", "map", "check", "write", "size", "read", "eof"}
CallNames ==
  {"none", "Create", "Open", "Write", "NextRecordSize", "Read", "EndOfFile", "Close"}
Modes == {"none", "read", "append", "other"}
Values == {"none", "true", "false"}
Errors == {"junk", "stale", "EEXIST", "ENOENT", "EINVAL", "EIO"}
Descriptors == {"none", "read", "append"}
Headers == {"null", "mapped", "failed"}

Handle ==
  [pc : Steps, call : CallNames, mode : Modes, arg : Int, ret : Values, error : Errors,
   fd : Descriptors, header : Headers, size : Int, at : Int]

LTypeOK ==
  /\ file \in [dir : BOOLEAN, exists : BOOLEAN, size : Int, magic : BOOLEAN, end : Int]
  /\ h \in [Procs -> Handle]
  /\ kernel \in [Procs -> [fds : Int, maps : Int]]
  /\ events \in [published : Nat, created : Int]

(* What a handle has at each of its steps. *)
Staged(hd) ==
  /\ hd.pc \in {"none", "dead", "creat", "open"} => hd.fd = "none" /\ hd.header = "null"
  /\ hd.pc \in {"truncate", "mapnew", "stat", "map"} => hd.fd # "none" /\ hd.header = "null"
  /\ hd.pc \in {"magic", "check"} => hd.header # "null"
  /\ hd.pc = "end" => hd.header = "mapped"
  /\ hd.header = "failed" => hd.pc \in {"magic", "check"}
  /\ hd.header # "null" => hd.fd # "none"
  /\ hd.pc \in CreateSteps => hd.fd = "append"
  /\ hd.pc = "creat" \/ hd.pc \in CreateSteps => hd.call = "Create"
  /\ hd.pc \in {"open", "stat", "map", "check"} => hd.call = "Open"
  /\ hd.pc = "open" => hd.mode # "none"

(* What the kernel holds for it. *)
Holds(hd) ==
  [fds |-> IF hd.fd = "none" THEN 0 ELSE 1, maps |-> IF hd.header = "mapped" THEN 1 ELSE 0]

(* The invariant of the resources, under no premise. *)
HeldInv ==
  /\ LTypeOK
  /\ \A p \in Procs : Staged(h[p]) /\ kernel[p] = Holds(h[p])

(***************************************************************************)
(* The sizes the code is right about: refused, an empty file, a header, or *)
(* a header and a ring that MaxRecords records do not fill.  (For a size   *)
(* between 0 and the header's, bytes_max() is negative and wraps.)         *)
(***************************************************************************)
SoundSize(n) ==
  \/ n <= 0
  \/ /\ HeaderSize <= n /\ n - HeaderSize < Word
     /\ n - HeaderSize < 2 \/ MaxRecords < n - HeaderSize

SoundSizes == {n \in Int : SoundSize(n)}

(* The steps of one object, created with a size from S. *)
ObjectStep(p, S) ==
  \/ NewObject(p)
  \/ \E n \in S : CallCreate(p, n)
  \/ \E mode \in {"read", "append", "other"} : CallOpen(p, mode)
  \/ CallWrite(p)
  \/ Call(p, "NextRecordSize", "size") \/ Call(p, "Read", "read") \/ Call(p, "EndOfFile", "eof")
  \/ HandleStep(p) \/ SystemCallFails(p)
  \/ Close(p) \/ Destroy(p) \/ Crash(p)

(***************************************************************************)
(* The invariant of the file, when one process writes or creates at a      *)
(* time: the file is as Create made it and as long, every record published *)
(* is counted by the end offset, and a handle knows the file's size from   *)
(* the time it looks for it on.                                            *)
(***************************************************************************)
FileOK(f, ev) ==
  /\ f.end = ev.published
  /\ f.size = ev.created
  /\ SoundSize(f.size)
  /\ ~f.exists => f.size = 0
  /\ f.magic => f.exists /\ f.size > 0
  /\ ev.published > 0 => f.magic /\ MaxRecords < f.size - HeaderSize
  /\ ev.published <= MaxRecords

KnowsFile(x, f, ev) ==
  /\ x.fd # "none" => f.exists
  /\ x.header # "null" \/ x.pc \in {"map", "mapnew"} => x.size = f.size
  /\ x.header = "mapped" /\ x.pc \notin {"magic", "check"} => f.magic
  /\ x.pc = "creat" \/ x.pc \in CreateSteps => SoundSize(x.arg)
  /\ x.pc \in {"truncate", "mapnew"} => ~f.magic
  /\ x.pc \in CreateSteps => ev.published = 0
  /\ x.pc = "write" /\ x.fd = "append" => ev.published < MaxRecords

Alone(x, y) ==
  /\ x.pc \in CreateSteps => y.fd = "none"
  /\ x.fd = "append" => y.fd # "append"

FileInv ==
  /\ HeldInv
  /\ FileOK(file, events)
  /\ \A p \in Procs : KnowsFile(h[p], file, events)
  /\ \A p, q \in Procs : p # q => Alone(h[p], h[q])

-----------------------------------------------------------------------------
(* A step that replaces one handle by a sound one keeps the invariant. *)
LEMMA Replaced ==
  ASSUME HeldInv, NEW p \in Procs, NEW hd \in Handle,
         h' = [h EXCEPT ![p] = hd], Staged(hd),
         kernel' = [kernel EXCEPT ![p] = Holds(hd)],
         file' \in [dir : BOOLEAN, exists : BOOLEAN, size : Int, magic : BOOLEAN, end : Int],
         events' \in [published : Nat, created : Int]
  PROVE  HeldInv'
<1>1. h' \in [Procs -> Handle] /\ h'[p] = hd /\ \A q \in Procs : q # p => h'[q] = h[q]
  BY DEF HeldInv, LTypeOK
<1>2. Holds(hd) \in [fds : Int, maps : Int]
  BY DEF Holds
<1>3. /\ kernel' \in [Procs -> [fds : Int, maps : Int]] /\ kernel'[p] = Holds(hd)
      /\ \A q \in Procs : q # p => kernel'[q] = kernel[q]
  BY <1>2 DEF HeldInv, LTypeOK
<1>4. ASSUME NEW q \in Procs
      PROVE  Staged(h'[q]) /\ kernel'[q] = Holds(h'[q])
  <2>1. CASE q = p
    BY <1>1, <1>3, <2>1
  <2>2. CASE q # p
    BY <1>1, <1>3, <2>2 DEF HeldInv
  <2> QED
    BY <2>1, <2>2
<1> QED
  BY <1>1, <1>3, <1>4 DEF HeldInv, LTypeOK, Staged, Holds

(* The same for a step that leaves descriptors and mappings alone. *)
LEMMA ReplacedAlike ==
  ASSUME HeldInv, NEW p \in Procs, NEW hd \in Handle,
         h' = [h EXCEPT ![p] = hd], Staged(hd),
         hd.fd = "none" <=> h[p].fd = "none",
         hd.header = "mapped" <=> h[p].header = "mapped",
         UNCHANGED kernel,
         file' \in [dir : BOOLEAN, exists : BOOLEAN, size : Int, magic : BOOLEAN, end : Int],
         events' \in [published : Nat, created : Int]
  PROVE  HeldInv'
<1>1. kernel[p] = Holds(hd)
  BY DEF HeldInv, Holds
<1>2. kernel' = [kernel EXCEPT ![p] = Holds(hd)]
  BY <1>1 DEF HeldInv, LTypeOK
<1> QED
  BY <1>2, Replaced

(* The handle and what it holds, when nothing is known but the invariant. *)
LEMMA HandleIs ==
  ASSUME HeldInv, NEW p \in Procs
  PROVE  /\ h[p] \in Handle /\ Staged(h[p])
         /\ kernel[p] = Holds(h[p])
         /\ file \in [dir : BOOLEAN, exists : BOOLEAN, size : Int, magic : BOOLEAN, end : Int]
         /\ events \in [published : Nat, created : Int]
BY DEF HeldInv, LTypeOK

-----------------------------------------------------------------------------
(* What becomes of a handle: the shapes that steps have in common. *)
LEMMA HandleFields ==
  ASSUME NEW x \in Handle
  PROVE  /\ DOMAIN x = {"pc", "call", "mode", "arg", "ret", "error", "fd", "header", "size", "at"}
         /\ x.pc \in Steps /\ x.call \in CallNames /\ x.mode \in Modes /\ x.arg \in Int
         /\ x.ret \in Values /\ x.error \in Errors /\ x.fd \in Descriptors
         /\ x.header \in Headers /\ x.size \in Int /\ x.at \in Int
BY DEF Handle

LEMMA Literals ==
  /\ "none" \in Steps /\ "idle" \in Steps /\ "dead" \in Steps
  /\ "none" \in Modes /\ "none" \in Values /\ "true" \in Values /\ "false" \in Values
  /\ "none" \in Descriptors /\ "append" \in Descriptors
  /\ "null" \in Headers /\ "mapped" \in Headers /\ "failed" \in Headers
  /\ "none" \in CallNames /\ "Close" \in CallNames /\ "junk" \in Errors
BY DEF Steps, Modes, Values, Descriptors, Headers, CallNames, Errors

LEMMA NoObjectIs == NoObject \in Handle /\ Staged(NoObject) /\ HeldByNone = Holds(NoObject)
BY Literals DEF NoObject, Handle, Staged, CreateSteps, HeldByNone, Holds

(* y is x after its call has returned. *)
ReturnedFrom(x, y) ==
  /\ y.pc = "idle" /\ y.mode = "none" /\ y.arg = 0
  /\ y.call = x.call /\ y.fd = x.fd /\ y.header = x.header /\ y.size = x.size

LEMMA ReturnedIs ==
  ASSUME NEW x \in Handle, NEW v \in Values
  PROVE  /\ Returned(x, v) \in Handle /\ ReturnedFrom(x, Returned(x, v))
         /\ Returned(x, v).ret = v /\ Returned(x, v).error = x.error
         /\ Returned(x, v).at = x.at
<1>0. PICK a \in Int : a = 0
  OBVIOUS
<1>1. Returned(x, v) \in Handle
  <2>1. [x EXCEPT !.pc = "idle", !.mode = "none", !.arg = a, !.ret = v] \in Handle
    BY Literals DEF Handle
  <2> QED
    BY <1>0, <2>1 DEF Returned
<1> QED
  BY <1>1, HandleFields DEF Returned, ReturnedFrom

LEMMA FailedIs ==
  ASSUME NEW x \in Handle, NEW e \in Errors
  PROVE  /\ Failed(x, e) \in Handle /\ ReturnedFrom(x, Failed(x, e))
         /\ Failed(x, e).ret = "false" /\ Failed(x, e).error = e
         /\ Failed(x, e).at = x.at
<1>0. PICK a \in Int : a = 0
  OBVIOUS
<1>1. Failed(x, e) \in Handle
  <2>1. [x EXCEPT !.pc = "idle", !.mode = "none", !.arg = a, !.ret = "false", !.error = e] \in Handle
    BY Literals DEF Handle
  <2> QED
    BY <1>0, <2>1 DEF Returned, Failed
<1> QED
  BY <1>1, HandleFields DEF Returned, Failed, ReturnedFrom

LEMMA BegunIs ==
  ASSUME NEW x \in Handle,
         NEW call \in CallNames, NEW step \in Steps
  PROVE  /\ Begun(x, call, step) \in Handle
         /\ Begun(x, call, step).pc = step /\ Begun(x, call, step).call = call
         /\ Begun(x, call, step).mode = "none" /\ Begun(x, call, step).ret = "none"
         /\ Begun(x, call, step).error = x.error
         /\ Begun(x, call, step).fd = x.fd /\ Begun(x, call, step).header = x.header
         /\ Begun(x, call, step).size = x.size /\ Begun(x, call, step).at = x.at
<1>0. PICK a \in Int : a = 0
  OBVIOUS
<1>1. Begun(x, call, step) \in Handle
  <2>1. [x EXCEPT !.pc = step, !.call = call, !.arg = a, !.mode = "none", !.ret = "none"] \in Handle
    BY Literals DEF Handle
  <2> QED
    BY <1>0, <2>1 DEF Begun
<1> QED
  BY <1>1, HandleFields DEF Begun

LEMMA ClosedIs ==
  ASSUME NEW x \in Handle
  PROVE  /\ Closed(x) \in Handle
         /\ Closed(x).fd = "none" /\ Closed(x).header = "null"
         /\ Closed(x).pc = x.pc /\ Closed(x).call = x.call /\ Closed(x).size = x.size
         /\ Closed(x).error = x.error
<1>1. Closed(x) \in Handle
  BY Literals DEF Closed, Handle
<1> QED
  BY <1>1, HandleFields DEF Closed

(* A signal leaves a handle without anything, but for the call it was in. *)
LEMMA KilledIs ==
  ASSUME HeldInv, NEW p \in Procs, Killed(p)
  PROVE  \E y \in Handle :
           /\ h' = [h EXCEPT ![p] = y]
           /\ y.pc = "dead" /\ y.call = h[p].call /\ y.fd = "none" /\ y.header = "null"
           /\ Staged(y) /\ HeldByNone = Holds(y)
<1>1. PICK c \in CallNames : c = h[p].call
  BY HandleIs DEF Handle
<1> DEFINE y == [NoObject EXCEPT !.pc = "dead", !.call = c]
<1>2. y \in Handle
  BY NoObjectIs, Literals DEF Handle
<1>3. y.pc = "dead" /\ y.call = c /\ y.fd = "none" /\ y.header = "null"
  BY DEF NoObject
<1>4. Staged(y) /\ HeldByNone = Holds(y)
  BY <1>3 DEF Staged, CreateSteps, HeldByNone, Holds
<1> QED
  BY <1>1, <1>2, <1>3, <1>4 DEF Killed

(* Releasing what a handle has leaves nothing. *)
LEMMA ReleasedIsNothing ==
  ASSUME HeldInv, NEW p \in Procs, h[p].header # "failed"
  PROVE  Released(p) = HeldByNone
<1>1. PICK x \in Handle : x = h[p] /\ kernel[p] = Holds(x) /\ x.header # "failed"
  BY HandleIs
<1> QED
  BY <1>1, HandleFields DEF Released, HeldByNone, Holds, Headers

LEMMA InitHeld == LInit => HeldInv
<1> SUFFICES ASSUME LInit PROVE HeldInv
  OBVIOUS
<1>1. file \in [dir : BOOLEAN, exists : BOOLEAN, size : Int, magic : BOOLEAN, end : Int]
  <2>1. PICK z \in Int : z = 0
    OBVIOUS
  <2>2. PICK none \in [dir : BOOLEAN, exists : BOOLEAN, size : Int, magic : BOOLEAN, end : Int] :
          none = NoFile
    <3>1. [dir |-> TRUE, exists |-> FALSE, size |-> z, magic |-> FALSE, end |-> z]
            \in [dir : BOOLEAN, exists : BOOLEAN, size : Int, magic : BOOLEAN, end : Int]
      OBVIOUS
    <3> QED
      BY <2>1, <3>1 DEF NoFile
  <2>3. PICK d \in BOOLEAN : d = FALSE
    OBVIOUS
  <2>4. [none EXCEPT !.dir = d]
          \in [dir : BOOLEAN, exists : BOOLEAN, size : Int, magic : BOOLEAN, end : Int]
    OBVIOUS
  <2> QED
    BY <2>2, <2>3, <2>4 DEF LInit
<1> QED
  BY <1>1, NoObjectIs DEF LInit, HeldInv, LTypeOK, HeldByNone

-----------------------------------------------------------------------------
(* The steps.  First what each makes of the handle x: the handle y. *)
LEMMA NewObjectIs ==
  ASSUME HeldInv, NEW p \in Procs, NewObject(p)
  PROVE  \E y \in Handle :
           /\ h' = [h EXCEPT ![p] = y]
           /\ y.pc = "idle" /\ y.call = "none" /\ y.ret = "none" /\ y.error = "junk"
           /\ y.fd = "none" /\ y.header = "null"
           /\ h[p].pc = "none" /\ UNCHANGED <<file, kernel, events>>
<1>1. PICK at \in Junk : h' = [h EXCEPT ![p] = [NoObject EXCEPT !.pc = "idle", !.at = at]]
  BY DEF NewObject
<1> DEFINE y == [NoObject EXCEPT !.pc = "idle", !.at = at]
<1>2. at \in Int
  BY LifecycleAssumption
<1>3. y \in Handle
  BY <1>2, NoObjectIs, Literals DEF Handle
<1>4. /\ y.pc = "idle" /\ y.call = "none" /\ y.ret = "none" /\ y.error = "junk"
      /\ y.fd = "none" /\ y.header = "null"
  BY DEF NoObject
<1> QED
  BY <1>1, <1>3, <1>4 DEF NewObject

LEMMA CreateCallIs ==
  ASSUME HeldInv, NEW p \in Procs, NEW n \in Int, CallCreate(p, n)
  PROVE  \E y \in Handle :
           /\ h' = [h EXCEPT ![p] = y]
           /\ y.pc = "creat" /\ y.call = "Create" /\ y.arg = n /\ y.ret = "none"
           /\ y.fd = "none" /\ y.header = "null" /\ y.error = h[p].error
           /\ Unused(p) /\ UNCHANGED <<file, kernel, events>>
<1>1. PICK x \in Handle : x = h[p]
  BY HandleIs
<1>2. "creat" \in Steps /\ "Create" \in CallNames
  BY DEF Steps, CallNames
<1>3. PICK b \in Handle : b = Begun(x, "Create", "creat")
  BY <1>2, BegunIs
<1> DEFINE y == [b EXCEPT !.arg = n]
<1>4. /\ b.pc = "creat" /\ b.call = "Create" /\ b.ret = "none"
      /\ b.fd = x.fd /\ b.header = x.header /\ b.error = x.error
  BY <1>2, <1>3, BegunIs
<1>5. y \in Handle
  BY DEF Handle
<1>6. y.arg = n /\ y.pc = b.pc /\ y.call = b.call /\ y.ret = b.ret /\ y.fd = b.fd
      /\ y.header = b.header /\ y.error = b.error
  BY HandleFields
<1>7. h' = [h EXCEPT ![p] = y]
  BY <1>1, <1>3 DEF CallCreate
<1> QED
  BY <1>1, <1>4, <1>5, <1>6, <1>7 DEF CallCreate, Unused

LEMMA OpenCallIs ==
  ASSUME HeldInv, NEW p \in Procs, NEW mode \in Modes, CallOpen(p, mode)
  PROVE  \E y \in Handle :
           /\ h' = [h EXCEPT ![p] = y]
           /\ y.pc = "open" /\ y.call = "Open" /\ y.mode = mode /\ y.ret = "none"
           /\ y.fd = "none" /\ y.header = "null" /\ y.error = h[p].error
           /\ Unused(p) /\ UNCHANGED <<file, kernel, events>>
<1>1. PICK x \in Handle : x = h[p]
  BY HandleIs
<1>2. "open" \in Steps /\ "Open" \in CallNames
  BY DEF Steps, CallNames
<1>3. PICK b \in Handle : b = Begun(x, "Open", "open")
  BY <1>2, BegunIs
<1> DEFINE y == [b EXCEPT !.mode = mode]
<1>4. /\ b.pc = "open" /\ b.call = "Open" /\ b.ret = "none"
      /\ b.fd = x.fd /\ b.header = x.header /\ b.error = x.error
  BY <1>2, <1>3, BegunIs
<1>5. y \in Handle
  BY DEF Handle
<1>6. y.mode = mode /\ y.pc = b.pc /\ y.call = b.call /\ y.ret = b.ret /\ y.fd = b.fd
      /\ y.header = b.header /\ y.error = b.error
  BY HandleFields
<1>7. h' = [h EXCEPT ![p] = y]
  BY <1>1, <1>3 DEF CallOpen
<1> QED
  BY <1>1, <1>4, <1>5, <1>6, <1>7 DEF CallOpen, Unused

LEMMA CallIs ==
  ASSUME HeldInv, NEW p \in Procs, NEW call \in CallNames, NEW step \in Steps,
         Call(p, call, step)
  PROVE  \E y \in Handle :
           /\ h' = [h EXCEPT ![p] = y]
           /\ y.pc = step /\ y.call = call /\ y.ret = "none" /\ y.error = h[p].error
           /\ y.fd = h[p].fd /\ y.header = h[p].header /\ y.size = h[p].size
           /\ y.at = h[p].at
           /\ h[p].pc = "idle" /\ UNCHANGED <<file, kernel, events>>
<1>1. PICK x \in Handle : x = h[p]
  BY HandleIs
<1>2. PICK y \in Handle : y = Begun(x, call, step)
  BY BegunIs
<1>3. h' = [h EXCEPT ![p] = y]
  BY <1>1, <1>2 DEF Call
<1>4. /\ y.pc = step /\ y.call = call /\ y.ret = "none" /\ y.error = x.error
      /\ y.fd = x.fd /\ y.header = x.header /\ y.size = x.size /\ y.at = x.at
  BY <1>2, BegunIs
<1> QED
  BY <1>1, <1>3, <1>4 DEF Call

LEMMA ReturnIs ==
  ASSUME HeldInv, NEW p \in Procs, NEW v \in Values, Return(p, v)
  PROVE  \E y \in Handle :
           /\ h' = [h EXCEPT ![p] = y]
           /\ ReturnedFrom(h[p], y) /\ y.ret = v /\ y.error = h[p].error /\ y.at = h[p].at
<1>1. PICK x \in Handle : x = h[p]
  BY HandleIs
<1>2. PICK y \in Handle : y = Returned(x, v)
  BY ReturnedIs
<1>3. h' = [h EXCEPT ![p] = y]
  BY <1>1, <1>2 DEF Return
<1>4. ReturnedFrom(x, y) /\ y.ret = v /\ y.error = x.error /\ y.at = x.at
  BY <1>2, ReturnedIs
<1> QED
  BY <1>1, <1>3, <1>4

LEMMA FailIs ==
  ASSUME HeldInv, NEW p \in Procs, NEW e \in Errors, Fail(p, e)
  PROVE  \E y \in Handle :
           /\ h' = [h EXCEPT ![p] = y]
           /\ ReturnedFrom(h[p], y) /\ y.ret = "false" /\ y.error = e
<1>1. PICK x \in Handle : x = h[p]
  BY HandleIs
<1>2. PICK y \in Handle : y = Failed(x, e)
  BY FailedIs
<1>3. h' = [h EXCEPT ![p] = y]
  BY <1>1, <1>2 DEF Fail
<1>4. ReturnedFrom(x, y) /\ y.ret = "false" /\ y.error = e
  BY <1>2, FailedIs
<1> QED
  BY <1>1, <1>3, <1>4

-----------------------------------------------------------------------------
(* The steps of Create and Open that go on to the next one. *)
LEMMA CreatIs ==
  ASSUME HeldInv, NEW p \in Procs, Creat(p), file.dir, ~file.exists
  PROVE  \E y \in Handle :
           /\ h' = [h EXCEPT ![p] = y]
           /\ kernel' = [kernel EXCEPT ![p] = Holds(y)]
           /\ y.pc = "truncate" /\ y.call = h[p].call /\ y.fd = "append" /\ y.header = "null"
           /\ y.arg = h[p].arg
           /\ file' = [NoFile EXCEPT !.exists = TRUE] /\ UNCHANGED events
<1>1. PICK x \in Handle : x = h[p] /\ Staged(x) /\ kernel[p] = Holds(x)
  BY HandleIs
<1> DEFINE y == [x EXCEPT !.pc = "truncate", !.fd = "append"]
<1>2. h' = [h EXCEPT ![p] = y]
  BY <1>1 DEF Creat, Taken, HeldInv, LTypeOK
<1>3. "truncate" \in Steps
  BY DEF Steps
<1>4. y \in Handle
  BY <1>3, Literals DEF Handle
<1>5. /\ y.pc = "truncate" /\ y.call = x.call /\ y.fd = "append" /\ y.header = x.header
      /\ y.arg = x.arg
  BY HandleFields
<1>6. x.fd = "none" /\ x.header = "null"
  BY <1>1 DEF Creat, Staged
<1>7. kernel' = [kernel EXCEPT ![p].fds = @ + 1]
  BY DEF Creat, Taken
<1>8. Holds(x) = [fds |-> 0, maps |-> 0] /\ Holds(y) = [fds |-> 1, maps |-> 0]
  BY <1>5, <1>6 DEF Holds
<1>9. kernel' = [kernel EXCEPT ![p] = Holds(y)]
  <2>1. PICK k : k = [fds |-> 0, maps |-> 0] /\ kernel[p] = k
    BY <1>1, <1>8
  <2>2. kernel' = [kernel EXCEPT ![p] = [k EXCEPT !.fds = @ + 1]]
    BY <1>7, <2>1
  <2>3. [k EXCEPT !.fds = @ + 1] = [fds |-> 1, maps |-> 0]
    BY <2>1
  <2> QED
    BY <1>8, <2>2, <2>3
<1> QED
  BY <1>1, <1>2, <1>4, <1>5, <1>6, <1>9 DEF Creat, Taken

LEMMA TruncateIs ==
  ASSUME HeldInv, NEW p \in Procs, Truncate(p), ~(h[p].arg < 0)
  PROVE  \E y \in Handle :
           /\ h' = [h EXCEPT ![p] = y]
           /\ y.pc = "mapnew" /\ y.call = h[p].call /\ y.fd = h[p].fd /\ y.header = h[p].header
           /\ y.arg = h[p].arg /\ y.size = h[p].arg
           /\ file' = [file EXCEPT !.size = h[p].arg]
           /\ events' = [events EXCEPT !.created = h[p].arg]
           /\ UNCHANGED kernel
<1>1. PICK x \in Handle : x = h[p]
  BY HandleIs
<1> DEFINE y == [x EXCEPT !.pc = "mapnew", !.size = x.arg]
<1>2. h' = [h EXCEPT ![p] = y]
  BY <1>1 DEF Truncate, AfterTruncate
<1>3. "mapnew" \in Steps
  BY DEF Steps
<1>4. y \in Handle
  BY <1>3, HandleFields DEF Handle
<1>5. /\ y.pc = "mapnew" /\ y.call = x.call /\ y.fd = x.fd /\ y.header = x.header
      /\ y.arg = x.arg /\ y.size = x.arg
  BY HandleFields
<1> QED
  BY <1>1, <1>2, <1>4, <1>5 DEF Truncate

LEMMA MapIs ==
  ASSUME HeldInv, NEW p \in Procs, Map(p)
  PROVE  \E y \in Handle :
           /\ h' = [h EXCEPT ![p] = y]
           /\ kernel' = [kernel EXCEPT ![p] = Holds(y)]
           /\ h[p].pc = "map" => y.pc = "check"
           /\ h[p].pc = "mapnew" => y.pc = "magic"
           /\ y.call = h[p].call /\ y.fd = h[p].fd /\ y.header \in {"mapped", "failed"}
           /\ y.arg = h[p].arg /\ y.size = h[p].size
           /\ h[p].pc \in {"map", "mapnew"} /\ UNCHANGED <<file, events>>
<1>1. PICK x \in Handle : x = h[p] /\ Staged(x) /\ kernel[p] = Holds(x)
  BY HandleIs
<1>2. x.fd # "none" /\ x.header = "null"
  BY <1>1 DEF Map, Staged
<1>3. PICK to \in Headers : /\ to \in {"mapped", "failed"}
                            /\ h' = [h EXCEPT ![p].header = to,
                                              ![p].pc = IF x.pc = "map" THEN "check" ELSE "magic"]
                            /\ to = "mapped" => kernel' = [kernel EXCEPT ![p].maps = @ + 1]
                            /\ to = "failed" => UNCHANGED kernel
  <2>1. "mapped" \in Headers /\ "failed" \in Headers /\ "mapped" # "failed"
    BY Literals
  <2> QED
    BY <1>1, <2>1 DEF Map
<1>4. PICK step \in Steps : step = IF x.pc = "map" THEN "check" ELSE "magic"
  BY DEF Steps
<1> DEFINE y == [x EXCEPT !.header = to, !.pc = step]
<1>5. h' = [h EXCEPT ![p] = y]
  BY <1>1, <1>3, <1>4 DEF HeldInv, LTypeOK
<1>6. y \in Handle
  BY DEF Handle
<1>7. /\ y.pc = step /\ y.call = x.call /\ y.fd = x.fd /\ y.header = to
      /\ y.arg = x.arg /\ y.size = x.size
  BY HandleFields
<1>8. /\ Holds(x) = [fds |-> 1, maps |-> 0]
      /\ Holds(y) = [fds |-> 1, maps |-> IF to = "mapped" THEN 1 ELSE 0]
  BY <1>2, <1>7 DEF Holds
<1>9. kernel' = [kernel EXCEPT ![p] = Holds(y)]
  <2>1. CASE to = "mapped"
    BY <1>1, <1>3, <1>8, <2>1 DEF HeldInv, LTypeOK
  <2>2. CASE to = "failed"
    BY <1>1, <1>3, <1>8, <2>2 DEF HeldInv, LTypeOK
  <2> QED
    BY <1>3, <2>1, <2>2
<1> QED
  BY <1>1, <1>3, <1>4, <1>5, <1>6, <1>7, <1>9 DEF Map

LEMMA StoreMagicIs ==
  ASSUME HeldInv, NEW p \in Procs, StoreMagic(p), CanTouch(p)
  PROVE  \E y \in Handle :
           /\ h' = [h EXCEPT ![p] = y]
           /\ y.pc = "end" /\ y.call = h[p].call /\ y.fd = h[p].fd /\ y.header = h[p].header
           /\ y.arg = h[p].arg /\ y.size = h[p].size
           /\ file' = [file EXCEPT !.magic = TRUE]
           /\ h[p].pc = "magic" /\ UNCHANGED <<kernel, events>>
<1>1. PICK x \in Handle : x = h[p]
  BY HandleIs
<1> DEFINE y == [x EXCEPT !.pc = "end"]
<1>2. h' = [h EXCEPT ![p] = y]
  BY <1>1 DEF StoreMagic, HeldInv, LTypeOK
<1>3. "end" \in Steps
  BY DEF Steps
<1>4. y \in Handle
  BY <1>3 DEF Handle
<1>5. /\ y.pc = "end" /\ y.call = x.call /\ y.fd = x.fd /\ y.header = x.header
      /\ y.arg = x.arg /\ y.size = x.size
  BY HandleFields
<1> QED
  BY <1>1, <1>2, <1>4, <1>5 DEF StoreMagic

LEMMA OpenPathIs ==
  ASSUME HeldInv, NEW p \in Procs, OpenPath(p), h[p].mode # "other", file.exists
  PROVE  \E y \in Handle :
           /\ h' = [h EXCEPT ![p] = y]
           /\ kernel' = [kernel EXCEPT ![p] = Holds(y)]
           /\ y.pc = "stat" /\ y.call = h[p].call /\ y.header = "null"
           /\ y.fd = h[p].mode /\ y.fd # "none"
           /\ h[p].pc = "open" /\ UNCHANGED <<file, events>>
<1>1. PICK x \in Handle : x = h[p] /\ Staged(x) /\ kernel[p] = Holds(x)
  BY HandleIs
<1>2. x.fd = "none" /\ x.header = "null" /\ x.mode # "none" /\ x.mode # "other"
  BY <1>1 DEF OpenPath, Staged
<1>3. x.mode \in Descriptors
  BY <1>2, HandleFields DEF Modes, Descriptors
<1> DEFINE y == [x EXCEPT !.pc = "stat", !.fd = x.mode]
<1>4. h' = [h EXCEPT ![p].pc = "stat", ![p].fd = h[p].mode]
  BY DEF OpenPath
<1>5. h' = [h EXCEPT ![p] = y]
  BY <1>1, <1>4 DEF HeldInv, LTypeOK
<1>6. "stat" \in Steps
  BY DEF Steps
<1>7. y \in Handle
  BY <1>3, <1>6 DEF Handle
<1>8. y.pc = "stat" /\ y.call = x.call /\ y.header = x.header /\ y.fd = x.mode
  BY HandleFields
<1>9. Holds(x) = [fds |-> 0, maps |-> 0] /\ Holds(y) = [fds |-> 1, maps |-> 0]
  BY <1>2, <1>8 DEF Holds
<1>10. kernel' = [kernel EXCEPT ![p] = Holds(y)]
  <2>1. PICK k : k = [fds |-> 0, maps |-> 0] /\ kernel[p] = k
    BY <1>1, <1>9
  <2>2. kernel' = [kernel EXCEPT ![p].fds = @ + 1]
    BY DEF OpenPath
  <2>3. kernel' = [kernel EXCEPT ![p] = [k EXCEPT !.fds = @ + 1]]
    BY <2>1, <2>2
  <2>4. [k EXCEPT !.fds = @ + 1] = [fds |-> 1, maps |-> 0]
    BY <2>1
  <2> QED
    BY <1>9, <2>3, <2>4
<1> QED
  BY <1>1, <1>2, <1>5, <1>7, <1>8, <1>10 DEF OpenPath

LEMMA StatFileIs ==
  ASSUME HeldInv, NEW p \in Procs, StatFile(p)
  PROVE  \E y \in Handle :
           /\ h' = [h EXCEPT ![p] = y]
           /\ y.pc = "map" /\ y.call = h[p].call /\ y.fd = h[p].fd /\ y.header = h[p].header
           /\ y.size = file.size
           /\ h[p].pc = "stat" /\ UNCHANGED <<file, kernel, events>>
<1>1. PICK x \in Handle : x = h[p]
  BY HandleIs
<1>2. PICK n \in Int : n = file.size
  BY HandleIs
<1> DEFINE y == [x EXCEPT !.pc = "map", !.size = n]
<1>3. h' = [h EXCEPT ![p] = y]
  BY <1>1, <1>2 DEF StatFile, HeldInv, LTypeOK
<1>4. "map" \in Steps
  BY DEF Steps
<1>5. y \in Handle
  BY <1>4 DEF Handle
<1>6. /\ y.pc = "map" /\ y.call = x.call /\ y.fd = x.fd /\ y.header = x.header
      /\ y.size = n
  BY HandleFields
<1> QED
  BY <1>1, <1>2, <1>3, <1>5, <1>6 DEF StatFile

(* The check of the magic number: Open succeeds, or closes what it opened. *)
LEMMA CheckMagicIs ==
  ASSUME HeldInv, NEW p \in Procs, CheckMagic(p), CanTouch(p)
  PROVE  \E y \in Handle :
           /\ h' = [h EXCEPT ![p] = y]
           /\ kernel' = [kernel EXCEPT ![p] = Holds(y)]
           /\ \/ /\ file.magic /\ ReturnedFrom(h[p], y) /\ y.ret = "true" /\ y.at = 0
              \/ /\ ~file.magic /\ y.pc = "idle" /\ y.call = h[p].call
                 /\ y.ret = "false" /\ y.error = "EINVAL" /\ y.fd = "none" /\ y.header = "null"
           /\ h[p].pc = "check" /\ UNCHANGED <<file, events>>
<1>1. PICK x \in Handle : x = h[p] /\ kernel[p] = Holds(x)
  BY HandleIs
<1>2. CASE file.magic
  <2>1. PICK b \in Handle : b = Returned(x, "true")
    BY Literals, ReturnedIs
  <2>2. ReturnedFrom(x, b) /\ b.ret = "true"
    BY <2>1, Literals, ReturnedIs
  <2>3. PICK n \in Int : n = 0
    OBVIOUS
  <2> DEFINE y == [b EXCEPT !.at = n]
  <2>4. h' = [h EXCEPT ![p] = y] /\ UNCHANGED kernel
    BY <1>1, <1>2, <2>1, <2>3 DEF CheckMagic, IsRing
  <2>5. y \in Handle
    BY DEF Handle
  <2>6. /\ y.pc = b.pc /\ y.mode = b.mode /\ y.arg = b.arg /\ y.call = b.call
        /\ y.fd = b.fd /\ y.header = b.header /\ y.size = b.size /\ y.ret = b.ret /\ y.at = n
    BY HandleFields
  <2>7. ReturnedFrom(x, y) /\ y.ret = "true" /\ y.at = 0
    BY <2>2, <2>3, <2>6 DEF ReturnedFrom
  <2>8. Holds(y) = Holds(x)
    BY <2>7 DEF ReturnedFrom, Holds
  <2>9. kernel' = [kernel EXCEPT ![p] = Holds(y)]
    BY <1>1, <2>4, <2>8 DEF HeldInv, LTypeOK
  <2> QED
    BY <1>1, <1>2, <2>4, <2>5, <2>7, <2>9 DEF CheckMagic
<1>3. CASE ~file.magic
  <2>1. PICK b \in Handle : b = Closed(x)
    BY ClosedIs
  <2>2. b.fd = "none" /\ b.header = "null" /\ b.call = x.call
    BY <2>1, ClosedIs
  <2>3. "EINVAL" \in Errors
    BY DEF Errors
  <2>4. PICK y \in Handle : y = Failed(b, "EINVAL")
    BY <2>3, FailedIs
  <2>5. ReturnedFrom(b, y) /\ y.ret = "false" /\ y.error = "EINVAL"
    BY <2>3, <2>4, FailedIs
  <2>6. h' = [h EXCEPT ![p] = y] /\ kernel' = [kernel EXCEPT ![p] = Released(p)]
    BY <1>1, <1>3, <2>1, <2>4 DEF CheckMagic, IsRing
  <2>7. Released(p) = HeldByNone
    BY ReleasedIsNothing DEF CanTouch
  <2>8. Holds(y) = HeldByNone
    BY <2>2, <2>5 DEF ReturnedFrom, Holds, HeldByNone
  <2> QED
    BY <1>1, <1>3, <2>2, <2>5, <2>6, <2>7, <2>8 DEF CheckMagic, ReturnedFrom
<1> QED
  BY <1>2, <1>3

(* bytes_max() is unsigned. *)
LEMMA BytesMaxIs ==
  ASSUME NEW x \in Handle
  PROVE  /\ BytesMax(x) \in 0 .. Word - 1
         /\ x.size - HeaderSize \in 0 .. Word - 1 => BytesMax(x) = x.size - HeaderSize
<1>1. x.size - HeaderSize \in Int /\ Word \in Nat \ {0}
  BY LifecycleAssumption, HandleFields
<1> QED
  BY <1>1 DEF BytesMax

LEMMA ReadRecordIs ==
  ASSUME HeldInv, NEW p \in Procs, ReadRecord(p), Usable(p), BytesMax(h[p]) # 0
  PROVE  \E y \in Handle :
           /\ h' = [h EXCEPT ![p] = y]
           /\ y.pc = "idle" /\ y.mode = "none" /\ y.call = h[p].call /\ y.fd = h[p].fd
           /\ y.header = h[p].header /\ y.size = h[p].size /\ y.error = h[p].error
           /\ \/ /\ y.ret = "true" /\ y.at = NextOffset(h[p])
                 /\ y.arg = IF AtRecord(p) THEN h[p].at + 1 ELSE 0
              \/ y.ret = "false" /\ y.at = h[p].at
           /\ h[p].pc = "read" /\ UNCHANGED <<file, kernel, events>>
<1>1. PICK x \in Handle : x = h[p]
  BY HandleIs
<1>2. CASE Return(p, "false")
  <2>1. PICK y \in Handle : /\ h' = [h EXCEPT ![p] = y]
                            /\ ReturnedFrom(h[p], y) /\ y.ret = "false"
                            /\ y.error = h[p].error /\ y.at = h[p].at
    BY <1>2, Literals, ReturnIs
  <2> QED
    BY <1>2, <2>1 DEF ReadRecord, ReturnedFrom
<1>3. CASE h' = [h EXCEPT ![p] = [Returned(@, "true") EXCEPT
                    !.at = NextOffset(h[p]), !.arg = IF AtRecord(p) THEN h[p].at + 1 ELSE 0]]
  <2>1. PICK at \in Int : at = NextOffset(x)
    <3>1. BytesMax(x) \in Nat \ {0} /\ x.at + 1 \in Int
      BY <1>1, BytesMaxIs, HandleFields, LifecycleAssumption
    <3> QED
      BY <3>1 DEF NextOffset
  <2>2. PICK arg \in Int : arg = IF AtRecord(p) THEN x.at + 1 ELSE 0
    BY HandleFields
  <2>3. PICK b \in Handle : b = Returned(x, "true")
    BY Literals, ReturnedIs
  <2>4. ReturnedFrom(x, b) /\ b.ret = "true" /\ b.error = x.error
    BY <2>3, Literals, ReturnedIs
  <2> DEFINE y == [b EXCEPT !.at = at, !.arg = arg]
  <2>5. y \in Handle
    BY DEF Handle
  <2>6. /\ y.pc = b.pc /\ y.mode = b.mode /\ y.call = b.call /\ y.fd = b.fd
        /\ y.header = b.header /\ y.size = b.size /\ y.error = b.error /\ y.ret = b.ret
        /\ y.at = at /\ y.arg = arg
    BY HandleFields
  <2>7. h' = [h EXCEPT ![p] = y]
    BY <1>1, <1>3, <2>1, <2>2, <2>3
  <2> QED
    BY <1>1, <2>1, <2>2, <2>4, <2>5, <2>6, <2>7 DEF ReadRecord, ReturnedFrom
<1> QED
  BY <1>2, <1>3 DEF ReadRecord

LEMMA CloseIs ==
  ASSUME HeldInv, NEW p \in Procs, Close(p)
  PROVE  \E y \in Handle :
           /\ h' = [h EXCEPT ![p] = y]
           /\ kernel' = [kernel EXCEPT ![p] = Holds(y)]
           /\ y.pc = "idle" /\ y.call = "Close" /\ y.ret = "true"
           /\ y.fd = "none" /\ y.header = "null"
           /\ h[p].pc = "idle" /\ UNCHANGED <<file, events>>
<1>1. PICK x \in Handle : x = h[p] /\ Staged(x) /\ x.pc = "idle"
  BY HandleIs DEF Close
<1>2. PICK b \in Handle : b = Closed(x)
  BY ClosedIs
<1>3. b.fd = "none" /\ b.header = "null" /\ b.pc = "idle"
  BY <1>1, <1>2, ClosedIs
<1> DEFINE y == [b EXCEPT !.call = "Close", !.ret = "true"]
<1>4. y \in Handle
  BY Literals DEF Handle
<1>5. y.pc = b.pc /\ y.call = "Close" /\ y.ret = "true" /\ y.fd = b.fd /\ y.header = b.header
  BY HandleFields
<1>6. h' = [h EXCEPT ![p] = y] /\ kernel' = [kernel EXCEPT ![p] = Released(p)]
  BY <1>1, <1>2 DEF Close
<1>7. Released(p) = HeldByNone
  BY <1>1, ReleasedIsNothing DEF Staged
<1>8. Holds(y) = HeldByNone
  BY <1>3, <1>5 DEF Holds, HeldByNone
<1>9. h[p].pc = "idle" /\ UNCHANGED <<file, events>>
  BY DEF Close
<1> HIDE DEF y
<1> QED
  BY <1>3, <1>4, <1>5, <1>6, <1>7, <1>8, <1>9

(* The object is gone, by its destructor or with its process. *)
LEMMA GoneIs ==
  ASSUME HeldInv, NEW p \in Procs, Destroy(p) \/ Crash(p)
  PROVE  /\ h' = [h EXCEPT ![p] = NoObject]
         /\ kernel' = [kernel EXCEPT ![p] = Holds(NoObject)]
         /\ UNCHANGED <<file, events>>
<1>1. CASE Destroy(p)
  <2>1. h[p].header # "failed"
    BY <1>1, HandleIs DEF Destroy, Staged
  <2> QED
    BY <1>1, <2>1, NoObjectIs, ReleasedIsNothing DEF Destroy
<1>2. CASE Crash(p)
  BY <1>2, NoObjectIs DEF Crash
<1> QED
  BY <1>1, <1>2

-----------------------------------------------------------------------------
(* No step of an object makes it forget what it holds. *)
LEMMA EntryHeld ==
  ASSUME HeldInv, NEW p \in Procs,
         \/ NewObject(p)
         \/ \E n \in Int : CallCreate(p, n)
         \/ \E mode \in Modes \ {"none"} : CallOpen(p, mode)
         \/ CallWrite(p)
         \/ Call(p, "NextRecordSize", "size") \/ Call(p, "Read", "read")
         \/ Call(p, "EndOfFile", "eof")
         \/ Close(p) \/ Destroy(p) \/ Crash(p)
  PROVE  HeldInv'
<1>0. PICK x \in Handle : x = h[p] /\ Staged(x)
  BY HandleIs
<1>1. CASE NewObject(p)
  <2>1. PICK y \in Handle :
          /\ h' = [h EXCEPT ![p] = y]
          /\ y.pc = "idle" /\ y.fd = "none" /\ y.header = "null"
          /\ h[p].pc = "none" /\ UNCHANGED <<file, kernel, events>>
    BY <1>1, NewObjectIs
  <2>2. Staged(y) /\ x.fd = "none" /\ x.header = "null"
    BY <1>0, <2>1 DEF Staged, CreateSteps
  <2> QED
    BY <1>0, <2>1, <2>2, HandleIs, ReplacedAlike
<1>2. ASSUME NEW n \in Int, CallCreate(p, n)
      PROVE  HeldInv'
  <2>1. PICK y \in Handle :
          /\ h' = [h EXCEPT ![p] = y]
          /\ y.pc = "creat" /\ y.call = "Create" /\ y.fd = "none" /\ y.header = "null"
          /\ Unused(p) /\ UNCHANGED <<file, kernel, events>>
    BY <1>2, CreateCallIs
  <2>2. Staged(y)
    BY <2>1 DEF Staged, CreateSteps
  <2> QED
    BY <2>1, <2>2, HandleIs, ReplacedAlike DEF Unused
<1>3. ASSUME NEW mode \in Modes \ {"none"}, CallOpen(p, mode)
      PROVE  HeldInv'
  <2>1. PICK y \in Handle :
          /\ h' = [h EXCEPT ![p] = y]
          /\ y.pc = "open" /\ y.call = "Open" /\ y.fd = "none" /\ y.header = "null" /\ y.mode = mode
          /\ Unused(p) /\ UNCHANGED <<file, kernel, events>>
    BY <1>3, OpenCallIs
  <2>2. Staged(y)
    BY <2>1 DEF Staged, CreateSteps
  <2> QED
    BY <2>1, <2>2, HandleIs, ReplacedAlike DEF Unused
<1>4. ASSUME NEW call \in CallNames, NEW step \in {"write", "size", "read", "eof"},
             Call(p, call, step)
      PROVE  HeldInv'
  <2>1. step \in Steps
    BY DEF Steps
  <2>2. PICK y \in Handle :
          /\ h' = [h EXCEPT ![p] = y]
          /\ y.pc = step /\ y.fd = h[p].fd /\ y.header = h[p].header
          /\ h[p].pc = "idle" /\ UNCHANGED <<file, kernel, events>>
    BY <1>4, <2>1, CallIs
  <2>3. Staged(y)
    BY <1>0, <2>2 DEF Staged, CreateSteps
  <2> QED
    BY <2>2, <2>3, HandleIs, ReplacedAlike
<1>5. CASE Close(p)
  <2>1. PICK y \in Handle :
          /\ h' = [h EXCEPT ![p] = y]
          /\ kernel' = [kernel EXCEPT ![p] = Holds(y)]
          /\ y.pc = "idle" /\ y.fd = "none" /\ y.header = "null"
          /\ UNCHANGED <<file, events>>
    BY <1>5, CloseIs
  <2>2. Staged(y)
    BY <2>1 DEF Staged, CreateSteps
  <2> QED
    BY <2>1, <2>2, HandleIs, Replaced
<1>6. CASE Destroy(p) \/ Crash(p)
  BY <1>6, GoneIs, NoObjectIs, HandleIs, Replaced
<1>7. "Write" \in CallNames /\ "NextRecordSize" \in CallNames /\ "Read" \in CallNames
      /\ "EndOfFile" \in CallNames
  BY DEF CallNames
<1> QED
  BY <1>1, <1>2, <1>3, <1>4, <1>5, <1>6, <1>7 DEF CallWrite

LEMMA KilledHeld ==
  ASSUME HeldInv, NEW p \in Procs, Killed(p)
  PROVE  HeldInv'
<1>1. PICK y \in Handle :
        h' = [h EXCEPT ![p] = y] /\ Staged(y) /\ HeldByNone = Holds(y)
  BY KilledIs
<1> QED
  BY <1>1, HandleIs, Replaced DEF Killed

LEMMA ReturnHeld ==
  ASSUME HeldInv, NEW p \in Procs,
         \/ \E v \in Values : Return(p, v)
         \/ \E e \in Errors : Fail(p, e),
         h[p].pc \notin {"magic", "check"},
         UNCHANGED kernel,
         file' \in [dir : BOOLEAN, exists : BOOLEAN, size : Int, magic : BOOLEAN, end : Int],
         events' \in [published : Nat, created : Int]
  PROVE  HeldInv'
<1>1. PICK x \in Handle : x = h[p] /\ Staged(x)
  BY HandleIs
<1>2. PICK y \in Handle : h' = [h EXCEPT ![p] = y] /\ ReturnedFrom(h[p], y)
  BY ReturnIs, FailIs
<1>3. Staged(y)
  BY <1>1, <1>2 DEF Staged, CreateSteps, ReturnedFrom
<1>4. y.fd = h[p].fd /\ y.header = h[p].header
  BY <1>2 DEF ReturnedFrom
<1> QED
  BY <1>2, <1>3, <1>4, ReplacedAlike

LEMMA CreateHeld ==
  ASSUME HeldInv, NEW p \in Procs,
         Creat(p) \/ Truncate(p) \/ StoreMagic(p) \/ StoreEndOffset(p)
  PROVE  HeldInv'
<1>0. PICK x \in Handle : x = h[p] /\ Staged(x)
  BY HandleIs
<1>1. "EEXIST" \in Errors /\ "ENOENT" \in Errors /\ "EINVAL" \in Errors
  BY DEF Errors
<1>2. CASE Creat(p) /\ (~file.dir \/ file.exists)
  BY <1>1, <1>2, HandleIs, ReturnHeld DEF Creat, Taken
<1>3. CASE Creat(p) /\ file.dir /\ ~file.exists
  <2>1. PICK y \in Handle :
          /\ h' = [h EXCEPT ![p] = y]
          /\ kernel' = [kernel EXCEPT ![p] = Holds(y)]
          /\ y.pc = "truncate" /\ y.call = h[p].call /\ y.fd = "append" /\ y.header = "null"
          /\ file' = [NoFile EXCEPT !.exists = TRUE] /\ UNCHANGED events
    BY <1>3, CreatIs
  <2>2. x.call = "Create"
    BY <1>0, <1>3 DEF Creat, Staged
  <2>3. Staged(y)
    BY <1>0, <2>1, <2>2 DEF Staged, CreateSteps
  <2>4. NoFile \in [dir : BOOLEAN, exists : BOOLEAN, size : Int, magic : BOOLEAN, end : Int]
    BY DEF NoFile
  <2>5. file' \in [dir : BOOLEAN, exists : BOOLEAN, size : Int, magic : BOOLEAN, end : Int]
    BY <2>1, <2>4
  <2> QED
    BY <2>1, <2>3, <2>5, HandleIs, Replaced
<1>4. CASE Truncate(p) /\ h[p].arg < 0
  BY <1>1, <1>4, HandleIs, ReturnHeld DEF Truncate
<1>5. CASE Truncate(p) /\ ~(h[p].arg < 0)
  <2>1. PICK y \in Handle :
          /\ h' = [h EXCEPT ![p] = y]
          /\ y.pc = "mapnew" /\ y.call = h[p].call /\ y.fd = h[p].fd /\ y.header = h[p].header
          /\ file' = [file EXCEPT !.size = h[p].arg]
          /\ events' = [events EXCEPT !.created = h[p].arg]
          /\ UNCHANGED kernel
    BY <1>5, TruncateIs
  <2>2. Staged(y)
    BY <1>0, <1>5, <2>1 DEF Truncate, Staged, CreateSteps
  <2>3. PICK n \in Int : n = h[p].arg
    BY <1>0, HandleFields
  <2>4. /\ file' \in [dir : BOOLEAN, exists : BOOLEAN, size : Int, magic : BOOLEAN, end : Int]
        /\ events' \in [published : Nat, created : Int]
    BY <2>1, <2>3, HandleIs
  <2> QED
    BY <2>1, <2>2, <2>4, ReplacedAlike
<1>6. CASE StoreMagic(p) /\ CanTouch(p)
  <2>1. PICK y \in Handle :
          /\ h' = [h EXCEPT ![p] = y]
          /\ y.pc = "end" /\ y.call = h[p].call /\ y.fd = h[p].fd /\ y.header = h[p].header
          /\ file' = [file EXCEPT !.magic = TRUE]
          /\ h[p].pc = "magic" /\ UNCHANGED <<kernel, events>>
    BY <1>6, StoreMagicIs
  <2>2. Staged(y)
    BY <1>0, <1>6, <2>1 DEF CanTouch, Staged, CreateSteps
  <2>3. file' \in [dir : BOOLEAN, exists : BOOLEAN, size : Int, magic : BOOLEAN, end : Int]
    BY <2>1, HandleIs
  <2> QED
    BY <2>1, <2>2, <2>3, HandleIs, ReplacedAlike
<1>7. CASE StoreMagic(p) /\ ~CanTouch(p)
  BY <1>7, KilledHeld DEF StoreMagic
<1>8. CASE StoreEndOffset(p)
  <2>1. PICK n \in Int : n = 0
    OBVIOUS
  <2>2. file' = [file EXCEPT !.end = n]
    BY <1>8, <2>1 DEF StoreEndOffset
  <2>3. file' \in [dir : BOOLEAN, exists : BOOLEAN, size : Int, magic : BOOLEAN, end : Int]
    BY <2>2, HandleIs
  <2> QED
    BY <1>8, <2>3, HandleIs, Literals, ReturnHeld DEF StoreEndOffset
<1> QED
  BY <1>2, <1>3, <1>4, <1>5, <1>6, <1>7, <1>8

LEMMA OpenHeld ==
  ASSUME HeldInv, NEW p \in Procs,
         OpenPath(p) \/ StatFile(p) \/ Map(p) \/ CheckMagic(p)
  PROVE  HeldInv'
<1>0. PICK x \in Handle : x = h[p] /\ Staged(x)
  BY HandleIs
<1>1. "stale" \in Errors /\ "ENOENT" \in Errors
  BY DEF Errors
<1>2. CASE OpenPath(p) /\ (h[p].mode = "other" \/ ~file.exists)
  BY <1>1, <1>2, HandleIs, ReturnHeld DEF OpenPath
<1>3. CASE OpenPath(p) /\ h[p].mode # "other" /\ file.exists
  <2>1. PICK y \in Handle :
          /\ h' = [h EXCEPT ![p] = y]
          /\ kernel' = [kernel EXCEPT ![p] = Holds(y)]
          /\ y.pc = "stat" /\ y.call = h[p].call /\ y.fd # "none" /\ y.header = "null"
          /\ UNCHANGED <<file, events>>
    BY <1>3, OpenPathIs
  <2>2. Staged(y)
    BY <1>0, <1>3, <2>1 DEF OpenPath, Staged, CreateSteps
  <2> QED
    BY <2>1, <2>2, HandleIs, Replaced
<1>4. CASE StatFile(p)
  <2>1. PICK y \in Handle :
          /\ h' = [h EXCEPT ![p] = y]
          /\ y.pc = "map" /\ y.call = h[p].call /\ y.fd = h[p].fd /\ y.header = h[p].header
          /\ h[p].pc = "stat" /\ UNCHANGED <<file, kernel, events>>
    BY <1>4, StatFileIs
  <2>2. Staged(y)
    BY <1>0, <2>1 DEF Staged, CreateSteps
  <2> QED
    BY <2>1, <2>2, HandleIs, ReplacedAlike
<1>5. CASE Map(p)
  <2>1. PICK y \in Handle :
          /\ h' = [h EXCEPT ![p] = y]
          /\ kernel' = [kernel EXCEPT ![p] = Holds(y)]
          /\ h[p].pc = "map" => y.pc = "check"
          /\ h[p].pc = "mapnew" => y.pc = "magic"
          /\ y.call = h[p].call /\ y.fd = h[p].fd /\ y.header \in {"mapped", "failed"}
          /\ h[p].pc \in {"map", "mapnew"} /\ UNCHANGED <<file, events>>
    BY <1>5, MapIs
  <2>2. Staged(y)
    BY <1>0, <2>1 DEF Staged, CreateSteps
  <2> QED
    BY <2>1, <2>2, HandleIs, Replaced
<1>6. CASE CheckMagic(p) /\ CanTouch(p)
  <2>1. PICK y \in Handle :
          /\ h' = [h EXCEPT ![p] = y]
          /\ kernel' = [kernel EXCEPT ![p] = Holds(y)]
          /\ \/ ReturnedFrom(h[p], y)
             \/ y.pc = "idle" /\ y.fd = "none" /\ y.header = "null"
          /\ UNCHANGED <<file, events>>
    BY <1>6, CheckMagicIs
  <2>2. Staged(y)
    BY <1>0, <1>6, <2>1 DEF CanTouch, Staged, CreateSteps, ReturnedFrom
  <2> QED
    BY <2>1, <2>2, HandleIs, Replaced
<1>7. CASE CheckMagic(p) /\ ~CanTouch(p)
  BY <1>7, KilledHeld DEF CheckMagic
<1> QED
  BY <1>2, <1>3, <1>4, <1>5, <1>6, <1>7

(* The file after a record is written. *)
LEMMA AppendedIs ==
  ASSUME HeldInv, NEW bm \in Nat, bm >= 2
  PROVE  /\ Appended(bm) \in [dir : BOOLEAN, exists : BOOLEAN, size : Int, magic : BOOLEAN, end : Int]
         /\ Appended(bm).exists = file.exists /\ Appended(bm).magic = file.magic
         /\ file.end \in 0 .. bm - 2 =>
              /\ Appended(bm).end = file.end + 1
              /\ Appended(bm).size = Larger(file.size, HeaderSize + file.end + 1)
<1>1. PICK f \in [dir : BOOLEAN, exists : BOOLEAN, size : Int, magic : BOOLEAN, end : Int] : f = file
  BY DEF HeldInv, LTypeOK
<1>2. PICK e \in Int : e = (f.end + 1) % bm
  OBVIOUS
<1>3. PICK n \in Int : n = Larger(f.size, HeaderSize + (f.end % bm) + 1)
  BY LifecycleAssumption DEF Larger
<1>4. Appended(bm) = [f EXCEPT !.size = n, !.end = e]
  BY <1>1, <1>2, <1>3 DEF Appended
<1>5. f.end \in 0 .. bm - 2 => f.end % bm = f.end /\ (f.end + 1) % bm = f.end + 1
  OBVIOUS
<1> QED
  BY <1>1, <1>2, <1>3, <1>4, <1>5

LEMMA UseHeld ==
  ASSUME HeldInv, NEW p \in Procs,
         \/ WriteRecord(p) \/ NextRecordSize(p) \/ ReadRecord(p) \/ EndOfFile(p)
         \/ SystemCallFails(p)
  PROVE  HeldInv'
<1>0. PICK x \in Handle : x = h[p] /\ Staged(x)
  BY HandleIs
<1>1. "EIO" \in Errors
  BY DEF Errors
<1>2. CASE WriteRecord(p)
  <2>1. CASE UNCHANGED <<file, kernel, events>> /\ Return(p, "false")
    BY <1>2, <2>1, HandleIs, Literals, ReturnHeld DEF WriteRecord
  <2>2. CASE Killed(p)
    BY <2>2, KilledHeld
  <2>3. CASE /\ BytesMax(h[p]) >= 2 /\ file' = Appended(BytesMax(h[p])) /\ Return(p, "true")
             /\ events' = [events EXCEPT !.published = @ + 1] /\ UNCHANGED kernel
    <3>1. BytesMax(h[p]) \in Nat
      BY <1>0, BytesMaxIs, LifecycleAssumption
    <3>2. file' \in [dir : BOOLEAN, exists : BOOLEAN, size : Int, magic : BOOLEAN, end : Int]
      BY <2>3, <3>1, AppendedIs
    <3>3. events' \in [published : Nat, created : Int]
      BY <2>3, HandleIs
    <3> QED
      BY <1>2, <2>3, <3>2, <3>3, Literals, ReturnHeld DEF WriteRecord
  <2>4. BytesMax(h[p]) \in Int
    BY <1>0, BytesMaxIs, LifecycleAssumption
  <2> QED
    BY <1>2, <2>1, <2>2, <2>3, <2>4 DEF WriteRecord
<1>3. CASE NextRecordSize(p)
  <2>1. CASE UNCHANGED <<file, kernel, events>> /\ \E v \in Values : Return(p, v)
    BY <1>3, <2>1, HandleIs, ReturnHeld DEF NextRecordSize
  <2>2. CASE Killed(p)
    BY <2>2, KilledHeld
  <2> QED
    BY <1>3, <2>1, <2>2, Literals DEF NextRecordSize
<1>4. CASE ReadRecord(p)
  <2>1. CASE ~Usable(p)
    BY <1>4, <2>1, HandleIs, Literals, ReturnHeld DEF ReadRecord
  <2>2. CASE Usable(p) /\ BytesMax(h[p]) = 0
    BY <1>4, <2>2, KilledHeld DEF ReadRecord
  <2>3. CASE Usable(p) /\ BytesMax(h[p]) # 0
    <3>1. PICK y \in Handle :
            /\ h' = [h EXCEPT ![p] = y]
            /\ y.pc = "idle" /\ y.fd = h[p].fd /\ y.header = h[p].header
            /\ h[p].pc = "read" /\ UNCHANGED <<file, kernel, events>>
      BY <1>4, <2>3, ReadRecordIs
    <3>2. Staged(y)
      BY <1>0, <3>1 DEF Staged, CreateSteps
    <3> QED
      BY <3>1, <3>2, HandleIs, ReplacedAlike
  <2> QED
    BY <2>1, <2>2, <2>3
<1>5. CASE EndOfFile(p)
  <2>1. CASE CanTouch(p)
    BY <1>5, <2>1, HandleIs, Literals, ReturnHeld DEF EndOfFile
  <2>2. CASE ~CanTouch(p)
    BY <1>5, <2>2, KilledHeld DEF EndOfFile
  <2> QED
    BY <2>1, <2>2
<1>6. CASE SystemCallFails(p)
  BY <1>1, <1>6, HandleIs, Literals, ReturnHeld DEF SystemCallFails
<1> QED
  BY <1>2, <1>3, <1>4, <1>5, <1>6

LEMMA StepHeld ==
  ASSUME HeldInv, NEW p \in Procs, ObjectStep(p, Int)
  PROVE  HeldInv'
BY EntryHeld, CreateHeld, OpenHeld, UseHeld DEF ObjectStep, HandleStep, Modes

(* A step of the program around the object. *)
LEMMA IdleHeld ==
  ASSUME HeldInv, UNCHANGED lvars
  PROVE  HeldInv'
BY DEF lvars, HeldInv, LTypeOK, Staged, Holds

(***************************************************************************)
(* The kernel holds what the handle knows it has: the premise of giving    *)
(* back everything, in whatever program.                                   *)
(***************************************************************************)
LEMMA HeldHolds == HeldInv => NothingLeaks
<1> SUFFICES ASSUME HeldInv, NEW p \in Procs
             PROVE  /\ kernel[p].fds = IF h[p].fd = "none" THEN 0 ELSE 1
                    /\ kernel[p].maps = IF h[p].header = "mapped" THEN 1 ELSE 0
  BY DEF NothingLeaks
<1>1. PICK x : x = h[p] /\ kernel[p] = Holds(x)
  BY HandleIs
<1> QED
  BY <1>1 DEF Holds

-----------------------------------------------------------------------------
(* What a step of one object does to the file, to it and to the others. *)
LEMMA FileReplaced ==
  ASSUME FileInv, HeldInv', NEW p \in Procs, NEW y,
         h' = [h EXCEPT ![p] = y],
         FileOK(file', events'),
         KnowsFile(y, file', events'),
         \A q \in Procs \ {p} :
           KnowsFile(h[q], file', events') /\ Alone(y, h[q]) /\ Alone(h[q], y)
  PROVE  FileInv'
<1>1. h'[p] = y /\ \A q \in Procs : q # p => h'[q] = h[q]
  BY DEF FileInv, HeldInv, LTypeOK
<1>2. ASSUME NEW q \in Procs
      PROVE  KnowsFile(h'[q], file', events')
  BY <1>1
<1>3. ASSUME NEW q \in Procs, NEW s \in Procs, q # s
      PROVE  Alone(h'[q], h'[s])
  <2>1. CASE q = p
    BY <1>1, <1>3, <2>1
  <2>2. CASE s = p
    BY <1>1, <1>3, <2>2
  <2>3. CASE q # p /\ s # p
    BY <1>1, <1>3, <2>3 DEF FileInv
  <2> QED
    BY <2>1, <2>2, <2>3
<1> QED
  BY <1>2, <1>3 DEF FileInv

(* Most steps leave the file, and give the handle nothing it had not. *)
LEMMA QuietStep ==
  ASSUME FileInv, HeldInv', NEW p \in Procs, NEW y,
         h' = [h EXCEPT ![p] = y],
         UNCHANGED <<file, events>>,
         y.pc \in CreateSteps => h[p].pc \in CreateSteps,
         y.fd = "none" \/ y.fd = h[p].fd,
         KnowsFile(y, file, events)
  PROVE  FileInv'
<1>1. ASSUME NEW q \in Procs \ {p}
      PROVE  KnowsFile(h[q], file', events') /\ Alone(y, h[q]) /\ Alone(h[q], y)
  <2>1. KnowsFile(h[q], file, events) /\ Alone(h[p], h[q]) /\ Alone(h[q], h[p])
    BY DEF FileInv
  <2> QED
    BY <2>1 DEF Alone
<1>2. FileOK(file', events') /\ KnowsFile(y, file', events')
  BY DEF FileInv
<1> QED
  BY <1>1, <1>2, FileReplaced

LEMMA FileOf ==
  ASSUME FileInv, NEW p \in Procs
  PROVE  /\ HeldInv /\ FileOK(file, events) /\ KnowsFile(h[p], file, events)
         /\ \A q \in Procs \ {p} :
              /\ KnowsFile(h[q], file, events) /\ Staged(h[q])
              /\ Alone(h[p], h[q]) /\ Alone(h[q], h[p])
BY DEF FileInv, HeldInv

LEMMA InitFile == LInit => FileInv
<1> SUFFICES ASSUME LInit PROVE FileInv
  OBVIOUS
<1>1. HeldInv
  BY InitHeld
<1>2. FileOK(file, events)
  BY LifecycleAssumption DEF LInit, FileOK, NoFile, SoundSize
<1>3. KnowsFile(NoObject, file, events) /\ Alone(NoObject, NoObject)
  BY DEF NoObject, KnowsFile, Alone, CreateSteps
<1>4. \A p \in Procs : h[p] = NoObject
  BY DEF LInit
<1> QED
  BY <1>1, <1>2, <1>3, <1>4 DEF FileInv

LEMMA KilledFile ==
  ASSUME FileInv, NEW p \in Procs, Killed(p)
  PROVE  FileInv'
<1>1. HeldInv /\ HeldInv'
  BY FileOf, KilledHeld
<1>2. PICK y \in Handle :
        h' = [h EXCEPT ![p] = y] /\ y.pc = "dead" /\ y.fd = "none" /\ y.header = "null"
  BY <1>1, KilledIs
<1>3. KnowsFile(y, file, events)
  BY <1>2 DEF KnowsFile, CreateSteps
<1> QED
  BY <1>1, <1>2, <1>3, QuietStep DEF Killed, CreateSteps

LEMMA ReturnFile ==
  ASSUME FileInv, HeldInv', NEW p \in Procs,
         \/ \E v \in Values : Return(p, v)
         \/ \E e \in Errors : Fail(p, e),
         h[p].pc \notin {"magic", "check"},
         UNCHANGED <<file, events>>
  PROVE  FileInv'
<1>1. HeldInv /\ KnowsFile(h[p], file, events)
  BY FileOf
<1>2. PICK y \in Handle : h' = [h EXCEPT ![p] = y] /\ ReturnedFrom(h[p], y)
  BY <1>1, ReturnIs, FailIs
<1>3. KnowsFile(y, file, events) /\ y.pc \notin CreateSteps /\ y.fd = h[p].fd
  BY <1>1, <1>2 DEF KnowsFile, CreateSteps, ReturnedFrom
<1> QED
  BY <1>2, <1>3, QuietStep

LEMMA EntryFile ==
  ASSUME FileInv, NEW p \in Procs,
         \/ NewObject(p)
         \/ \E n \in SoundSizes : CallCreate(p, n)
         \/ \E mode \in Modes \ {"none"} : CallOpen(p, mode)
         \/ CallWrite(p)
         \/ Call(p, "NextRecordSize", "size") \/ Call(p, "Read", "read")
         \/ Call(p, "EndOfFile", "eof")
         \/ Close(p) \/ Destroy(p) \/ Crash(p)
  PROVE  FileInv'
<1>0. HeldInv /\ KnowsFile(h[p], file, events)
  BY FileOf
<1>1. HeldInv'
  BY <1>0, EntryHeld DEF SoundSizes
<1> USE DEF CreateSteps
<1>2. CASE NewObject(p)
  <2>1. PICK y \in Handle :
          /\ h' = [h EXCEPT ![p] = y]
          /\ y.pc = "idle" /\ y.fd = "none" /\ y.header = "null"
          /\ UNCHANGED <<file, kernel, events>>
    BY <1>0, <1>2, NewObjectIs
  <2> QED
    BY <1>1, <2>1, QuietStep DEF KnowsFile
<1>3. ASSUME NEW n \in SoundSizes, CallCreate(p, n)
      PROVE  FileInv'
  <2>1. n \in Int /\ SoundSize(n)
    BY DEF SoundSizes
  <2>2. PICK y \in Handle :
          /\ h' = [h EXCEPT ![p] = y]
          /\ y.pc = "creat" /\ y.fd = "none" /\ y.header = "null" /\ y.arg = n
          /\ UNCHANGED <<file, kernel, events>>
    BY <1>0, <1>3, <2>1, CreateCallIs
  <2>3. KnowsFile(y, file, events)
    BY <2>1, <2>2 DEF KnowsFile
  <2> QED
    BY <1>1, <2>2, <2>3, QuietStep
<1>4. ASSUME NEW mode \in Modes, CallOpen(p, mode)
      PROVE  FileInv'
  <2>1. PICK y \in Handle :
          /\ h' = [h EXCEPT ![p] = y]
          /\ y.pc = "open" /\ y.fd = "none" /\ y.header = "null"
          /\ UNCHANGED <<file, kernel, events>>
    BY <1>0, <1>4, OpenCallIs
  <2> QED
    BY <1>1, <2>1, QuietStep DEF KnowsFile
<1>5. ASSUME NEW call \in CallNames, NEW step \in {"write", "size", "read", "eof"},
             Call(p, call, step), step = "write" => events.published < MaxRecords
      PROVE  FileInv'
  <2>1. step \in Steps
    BY DEF Steps
  <2>2. PICK y \in Handle :
          /\ h' = [h EXCEPT ![p] = y]
          /\ y.pc = step /\ y.fd = h[p].fd /\ y.header = h[p].header /\ y.size = h[p].size
          /\ h[p].pc = "idle" /\ UNCHANGED <<file, kernel, events>>
    BY <1>0, <1>5, <2>1, CallIs
  <2>3. KnowsFile(y, file, events)
    BY <1>0, <1>5, <2>2 DEF KnowsFile
  <2> QED
    BY <1>1, <2>2, <2>3, QuietStep
<1>6. CASE Close(p)
  <2>1. PICK y \in Handle :
          /\ h' = [h EXCEPT ![p] = y]
          /\ y.pc = "idle" /\ y.fd = "none" /\ y.header = "null"
          /\ UNCHANGED <<file, events>>
    BY <1>0, <1>6, CloseIs
  <2> QED
    BY <1>1, <2>1, QuietStep DEF KnowsFile
<1>7. CASE Destroy(p) \/ Crash(p)
  <2>1. h' = [h EXCEPT ![p] = NoObject] /\ UNCHANGED <<file, events>>
    BY <1>0, <1>7, GoneIs
  <2>2. KnowsFile(NoObject, file, events) /\ NoObject.pc = "none" /\ NoObject.fd = "none"
    BY DEF NoObject, KnowsFile
  <2> QED
    BY <1>1, <2>1, <2>2, QuietStep
<1>8. "Write" \in CallNames /\ "NextRecordSize" \in CallNames /\ "Read" \in CallNames
      /\ "EndOfFile" \in CallNames
  BY DEF CallNames
<1> QED
  BY <1>2, <1>3, <1>4, <1>5, <1>6, <1>7, <1>8 DEF CallWrite

(* Create, in a file that nobody else has and nobody has written to. *)
LEMMA CreateFile ==
  ASSUME FileInv, NEW p \in Procs,
         Creat(p) \/ Truncate(p) \/ StoreMagic(p) \/ StoreEndOffset(p)
  PROVE  FileInv'
<1>0. /\ HeldInv /\ FileOK(file, events) /\ KnowsFile(h[p], file, events)
      /\ \A q \in Procs \ {p} :
           /\ KnowsFile(h[q], file, events) /\ Staged(h[q])
           /\ Alone(h[p], h[q]) /\ Alone(h[q], h[p])
  BY FileOf
<1>1. HeldInv'
  BY <1>0, CreateHeld
<1>2. PICK x \in Handle : x = h[p] /\ Staged(x)
  BY <1>0, HandleIs
<1>3. "EEXIST" \in Errors /\ "ENOENT" \in Errors /\ "EINVAL" \in Errors
  BY DEF Errors
<1>4. CASE Creat(p) /\ (~file.dir \/ file.exists)
  BY <1>1, <1>3, <1>4, ReturnFile DEF Creat, Taken
<1>5. CASE Creat(p) /\ file.dir /\ ~file.exists
  <2>1. PICK y \in Handle :
          /\ h' = [h EXCEPT ![p] = y]
          /\ y.pc = "truncate" /\ y.fd = "append" /\ y.header = "null" /\ y.arg = x.arg
          /\ file' = [NoFile EXCEPT !.exists = TRUE] /\ UNCHANGED events
    BY <1>0, <1>2, <1>5, CreatIs
  <2>2. file'.exists = TRUE /\ file'.size = 0 /\ file'.magic = FALSE /\ file'.end = 0
    BY <2>1 DEF NoFile
  <2>3. events.published = 0 /\ file.size = 0 /\ ~file.magic
    BY <1>0, <1>5, HandleIs DEF FileOK
  <2>4. FileOK(file', events')
    BY <1>0, <2>1, <2>2, <2>3 DEF FileOK
  <2>5. KnowsFile(y, file', events')
    BY <1>0, <1>2, <1>5, <2>1, <2>2, <2>3 DEF KnowsFile, CreateSteps, Creat
  <2>6. ASSUME NEW q \in Procs \ {p}
        PROVE  KnowsFile(h[q], file', events') /\ Alone(y, h[q]) /\ Alone(h[q], y)
    <3>1. PICK z : z = h[q] /\ KnowsFile(z, file, events) /\ Staged(z)
      BY <1>0
    <3>2. z.fd = "none" /\ z.header = "null" /\ z.pc \notin CreateSteps /\ z.pc # "map"
      BY <1>5, <3>1 DEF KnowsFile, Staged, CreateSteps
    <3>3. KnowsFile(z, file', events') /\ Alone(y, z) /\ Alone(z, y)
      BY <2>1, <3>1, <3>2 DEF KnowsFile, Alone, CreateSteps
    <3> QED
      BY <3>1, <3>3
  <2> QED
    BY <1>1, <2>1, <2>4, <2>5, <2>6, FileReplaced
<1>6. CASE Truncate(p) /\ x.arg < 0
  BY <1>1, <1>2, <1>3, <1>6, ReturnFile DEF Truncate
<1>7. CASE Truncate(p) /\ ~(x.arg < 0)
  <2>1. PICK y \in Handle :
          /\ h' = [h EXCEPT ![p] = y]
          /\ y.pc = "mapnew" /\ y.fd = x.fd /\ y.header = x.header
          /\ y.arg = x.arg /\ y.size = x.arg
          /\ file' = [file EXCEPT !.size = x.arg]
          /\ events' = [events EXCEPT !.created = x.arg]
    BY <1>0, <1>2, <1>7, TruncateIs
  <2>2. /\ x.pc = "truncate" /\ x.fd = "append" /\ x.header = "null"
        /\ SoundSize(x.arg) /\ ~file.magic /\ events.published = 0 /\ file.exists
    BY <1>0, <1>2, <1>7 DEF Truncate, Staged, CreateSteps, KnowsFile
  <2>3. /\ file'.exists = file.exists /\ file'.size = x.arg /\ file'.magic = file.magic
        /\ file'.end = file.end
        /\ events'.published = events.published /\ events'.created = x.arg
    BY <1>0, <2>1, HandleIs
  <2>4. FileOK(file', events')
    BY <1>0, <2>2, <2>3 DEF FileOK
  <2>5. KnowsFile(y, file', events')
    BY <2>1, <2>2, <2>3 DEF KnowsFile, CreateSteps
  <2>6. ASSUME NEW q \in Procs \ {p}
        PROVE  KnowsFile(h[q], file', events') /\ Alone(y, h[q]) /\ Alone(h[q], y)
    <3>1. PICK z : /\ z = h[q] /\ KnowsFile(z, file, events) /\ Staged(z)
                   /\ Alone(x, z) /\ Alone(z, x)
      BY <1>0, <1>2
    <3>2. z.fd = "none" /\ z.header = "null" /\ z.pc \notin CreateSteps /\ z.pc # "map"
      BY <2>2, <3>1 DEF Alone, Staged, CreateSteps
    <3>3. KnowsFile(z, file', events') /\ Alone(y, z) /\ Alone(z, y)
      BY <2>1, <2>3, <3>1, <3>2 DEF KnowsFile, Alone, CreateSteps
    <3> QED
      BY <3>1, <3>3
  <2> QED
    BY <1>1, <2>1, <2>4, <2>5, <2>6, FileReplaced
<1>8. CASE StoreMagic(p) /\ CanTouch(p)
  <2>1. PICK y \in Handle :
          /\ h' = [h EXCEPT ![p] = y]
          /\ y.pc = "end" /\ y.fd = x.fd /\ y.header = x.header
          /\ y.arg = x.arg /\ y.size = x.size
          /\ file' = [file EXCEPT !.magic = TRUE]
          /\ x.pc = "magic" /\ UNCHANGED events
    BY <1>0, <1>2, <1>8, StoreMagicIs
  <2>2. x.fd = "append" /\ x.header = "mapped" /\ file.size > 0 /\ file.exists
    BY <1>0, <1>2, <1>8, <2>1 DEF CanTouch, Staged, CreateSteps, KnowsFile
  <2>3. /\ file'.exists = file.exists /\ file'.size = file.size /\ file'.magic = TRUE
        /\ file'.end = file.end
    BY <1>0, <2>1, HandleIs
  <2>4. FileOK(file', events')
    BY <1>0, <2>1, <2>2, <2>3 DEF FileOK
  <2>5. KnowsFile(y, file', events')
    BY <1>0, <1>2, <2>1, <2>2, <2>3 DEF KnowsFile, CreateSteps
  <2>6. ASSUME NEW q \in Procs \ {p}
        PROVE  KnowsFile(h[q], file', events') /\ Alone(y, h[q]) /\ Alone(h[q], y)
    <3>1. PICK z : /\ z = h[q] /\ KnowsFile(z, file, events) /\ Staged(z)
                   /\ Alone(x, z) /\ Alone(z, x)
      BY <1>0, <1>2
    <3>2. z.fd = "none" /\ z.header = "null" /\ z.pc \notin CreateSteps /\ z.pc # "map"
      BY <2>1, <3>1 DEF Alone, Staged, CreateSteps
    <3>3. KnowsFile(z, file', events') /\ Alone(y, z) /\ Alone(z, y)
      BY <2>1, <2>3, <3>1, <3>2 DEF KnowsFile, Alone, CreateSteps
    <3> QED
      BY <3>1, <3>3
  <2> QED
    BY <1>1, <2>1, <2>4, <2>5, <2>6, FileReplaced
<1>9. CASE StoreMagic(p) /\ ~CanTouch(p)
  BY <1>9, KilledFile DEF StoreMagic
<1>10. CASE StoreEndOffset(p)
  <2>1. x.pc = "end" /\ events.published = 0 /\ file.end = 0
    BY <1>0, <1>2, <1>10 DEF StoreEndOffset, KnowsFile, CreateSteps, FileOK
  <2>2. file' = [file EXCEPT !.end = 0] /\ UNCHANGED events
    BY <1>10 DEF StoreEndOffset
  <2>3. PICK f \in [dir : BOOLEAN, exists : BOOLEAN, size : Int, magic : BOOLEAN, end : Int] : f = file
    BY <1>0, HandleIs
  <2>4. [f EXCEPT !.end = 0] = f
    BY <2>1, <2>3
  <2>5. UNCHANGED <<file, events>>
    BY <2>2, <2>3, <2>4
  <2> QED
    BY <1>1, <1>2, <1>10, <2>1, <2>5, Literals, ReturnFile DEF StoreEndOffset
<1> QED
  BY <1>2, <1>4, <1>5, <1>6, <1>7, <1>8, <1>9, <1>10
(* Open, when no other process creates and none writes that is not alone. *)
LEMMA OpenFile ==
  ASSUME FileInv, Careful, NEW p \in Procs,
         OpenPath(p) \/ StatFile(p) \/ Map(p) \/ CheckMagic(p)
  PROVE  FileInv'
<1>0. /\ HeldInv /\ FileOK(file, events) /\ KnowsFile(h[p], file, events)
      /\ \A q \in Procs \ {p} :
           /\ KnowsFile(h[q], file, events) /\ Staged(h[q])
           /\ Alone(h[p], h[q]) /\ Alone(h[q], h[p])
  BY FileOf
<1>1. HeldInv'
  BY <1>0, OpenHeld
<1>2. PICK x \in Handle : x = h[p] /\ Staged(x)
  BY <1>0, HandleIs
<1>3. "stale" \in Errors /\ "ENOENT" \in Errors
  BY DEF Errors
<1>4. CASE OpenPath(p) /\ (h[p].mode = "other" \/ ~file.exists)
  BY <1>1, <1>3, <1>4, ReturnFile DEF OpenPath
<1>5. CASE OpenPath(p) /\ h[p].mode # "other" /\ file.exists
  <2>1. PICK y \in Handle :
          /\ h' = [h EXCEPT ![p] = y]
          /\ y.pc = "stat" /\ y.header = "null" /\ y.fd = x.mode
          /\ UNCHANGED <<file, events>>
    BY <1>0, <1>2, <1>5, OpenPathIs
  <2>2. KnowsFile(y, file, events)
    BY <1>5, <2>1 DEF KnowsFile, CreateSteps
  <2>3. ASSUME NEW q \in Procs \ {p}
        PROVE  KnowsFile(h[q], file', events') /\ Alone(y, h[q]) /\ Alone(h[q], y)
    <3>1. PICK z : z = h[q] /\ KnowsFile(z, file, events)
      BY <1>0
    <3>2. z.pc \notin CreateSteps /\ (x.mode = "append" => z.fd # "append")
      BY <1>2, <1>5, <3>1 DEF OpenPath, Calm, InCreate, MayWrite
    <3>3. Alone(y, z) /\ Alone(z, y)
      BY <2>1, <3>2 DEF Alone, CreateSteps
    <3> QED
      BY <2>1, <3>1, <3>3
  <2> QED
    BY <1>0, <1>1, <2>1, <2>2, <2>3, FileReplaced
<1>6. CASE StatFile(p)
  <2>1. PICK y \in Handle :
          /\ h' = [h EXCEPT ![p] = y]
          /\ y.pc = "map" /\ y.fd = x.fd /\ y.header = x.header /\ y.size = file.size
          /\ x.pc = "stat" /\ UNCHANGED <<file, events>>
    BY <1>0, <1>2, <1>6, StatFileIs
  <2>2. KnowsFile(y, file, events)
    BY <1>0, <1>2, <2>1 DEF KnowsFile, Staged, CreateSteps
  <2> QED
    BY <1>1, <1>2, <2>1, <2>2, QuietStep DEF CreateSteps
<1>7. CASE Map(p)
  <2>1. PICK y \in Handle :
          /\ h' = [h EXCEPT ![p] = y]
          /\ x.pc = "map" => y.pc = "check"
          /\ x.pc = "mapnew" => y.pc = "magic"
          /\ y.fd = x.fd /\ y.arg = x.arg /\ y.size = x.size
          /\ x.pc \in {"map", "mapnew"} /\ UNCHANGED <<file, events>>
    BY <1>0, <1>2, <1>7, MapIs
  <2>2. KnowsFile(y, file, events)
    BY <1>0, <1>2, <2>1 DEF KnowsFile, CreateSteps
  <2> QED
    BY <1>1, <1>2, <2>1, <2>2, QuietStep DEF CreateSteps
<1>8. CASE CheckMagic(p) /\ CanTouch(p)
  <2>1. PICK y \in Handle :
          /\ h' = [h EXCEPT ![p] = y]
          /\ \/ file.magic /\ ReturnedFrom(x, y)
             \/ y.pc = "idle" /\ y.fd = "none" /\ y.header = "null"
          /\ x.pc = "check" /\ UNCHANGED <<file, events>>
    BY <1>0, <1>2, <1>8, CheckMagicIs
  <2>2. KnowsFile(y, file, events) /\ y.pc = "idle" /\ (y.fd = "none" \/ y.fd = x.fd)
    BY <1>0, <1>2, <2>1 DEF KnowsFile, ReturnedFrom, CreateSteps
  <2> QED
    BY <1>1, <1>2, <2>1, <2>2, QuietStep DEF CreateSteps
<1>9. CASE CheckMagic(p) /\ ~CanTouch(p)
  BY <1>9, KilledFile DEF CheckMagic
<1> QED
  BY <1>4, <1>5, <1>6, <1>7, <1>8, <1>9

(***************************************************************************)
(* Write: the handle of the one process that may write knows the size of   *)
(* the ring, where the record fits before the end of the file.             *)
(***************************************************************************)
LEMMA WriteFile ==
  ASSUME FileInv, NEW p \in Procs, h[p].pc = "write", CanTouch(p), MayWrite(p),
         BytesMax(h[p]) >= 2, file' = Appended(BytesMax(h[p])), Return(p, "true"),
         events' = [events EXCEPT !.published = @ + 1], UNCHANGED kernel
  PROVE  FileInv'
<1>0. /\ HeldInv /\ FileOK(file, events) /\ KnowsFile(h[p], file, events)
      /\ \A q \in Procs \ {p} :
           /\ KnowsFile(h[q], file, events) /\ Staged(h[q])
           /\ Alone(h[p], h[q]) /\ Alone(h[q], h[p])
  BY FileOf
<1>1. PICK x \in Handle : x = h[p] /\ Staged(x)
  BY <1>0, HandleIs
<1>2. PICK y \in Handle : h' = [h EXCEPT ![p] = y] /\ ReturnedFrom(x, y)
  BY <1>0, <1>1, Literals, ReturnIs
<1>3. /\ x.pc = "write" /\ x.fd = "append" /\ x.header = "mapped" /\ x.size = file.size
      /\ file.size > 0 /\ file.magic /\ file.exists /\ events.published < MaxRecords
  BY <1>0, <1>1 DEF CanTouch, MayWrite, KnowsFile, CreateSteps
<1>4. /\ file.size \in Int /\ file.end \in Int /\ events.published \in Nat
      /\ file.end = events.published /\ SoundSize(file.size)
      /\ HeaderSize \in Nat \ {0} /\ Word \in Nat \ {0} /\ MaxRecords \in Nat
  BY <1>0, HandleIs, LifecycleAssumption DEF FileOK
<1>5. PICK bm \in Nat : /\ bm = BytesMax(x) /\ bm >= 2 /\ bm = file.size - HeaderSize
                        /\ MaxRecords < bm
  <2>1. file.size - HeaderSize \in 0 .. Word - 1
    BY <1>3, <1>4 DEF SoundSize
  <2>2. BytesMax(x) = file.size - HeaderSize
    BY <1>3, <2>1, BytesMaxIs
  <2> QED
    BY <1>1, <1>3, <1>4, <2>1, <2>2 DEF SoundSize
<1>6. file.end \in 0 .. bm - 2
  BY <1>3, <1>4, <1>5
<1>7. /\ file' = Appended(bm) /\ file'.exists = file.exists /\ file'.magic = file.magic
      /\ file'.end = file.end + 1 /\ file'.size = file.size
  BY <1>0, <1>1, <1>4, <1>5, <1>6, AppendedIs DEF Larger
<1>8. events'.published = events.published + 1 /\ events'.created = events.created
  BY <1>0, HandleIs
<1>9. HeldInv'
  <2>1. file' \in [dir : BOOLEAN, exists : BOOLEAN, size : Int, magic : BOOLEAN, end : Int]
    BY <1>0, <1>5, <1>7, AppendedIs
  <2>2. events' \in [published : Nat, created : Int]
    BY <1>0, HandleIs
  <2> QED
    BY <1>0, <1>1, <1>3, <2>1, <2>2, Literals, ReturnHeld
<1>10. FileOK(file', events')
  <2>1. MaxRecords < file'.size - HeaderSize
    BY <1>5, <1>7
  <2> QED
    BY <1>0, <1>3, <1>4, <1>7, <1>8, <2>1 DEF FileOK
<1>11. KnowsFile(y, file', events')
  BY <1>0, <1>2, <1>3, <1>7 DEF KnowsFile, ReturnedFrom, CreateSteps
<1>12. ASSUME NEW q \in Procs \ {p}
       PROVE  KnowsFile(h[q], file', events') /\ Alone(y, h[q]) /\ Alone(h[q], y)
  <2>1. PICK z : /\ z = h[q] /\ KnowsFile(z, file, events) /\ Staged(z)
                 /\ Alone(x, z) /\ Alone(z, x)
    BY <1>0, <1>1
  <2>2. z.fd # "append" /\ z.pc \notin CreateSteps
    BY <1>3, <2>1 DEF Alone
  <2>3. KnowsFile(z, file', events')
    BY <1>7, <2>1, <2>2 DEF KnowsFile, CreateSteps
  <2>4. Alone(y, z) /\ Alone(z, y)
    BY <1>2, <1>3, <2>2 DEF Alone, ReturnedFrom, CreateSteps
  <2> QED
    BY <2>1, <2>3, <2>4
<1> QED
  BY <1>2, <1>9, <1>10, <1>11, <1>12, FileReplaced

LEMMA UseFile ==
  ASSUME FileInv, NEW p \in Procs,
         \/ WriteRecord(p) \/ NextRecordSize(p) \/ ReadRecord(p) \/ EndOfFile(p)
         \/ SystemCallFails(p)
  PROVE  FileInv'
<1>0. HeldInv /\ KnowsFile(h[p], file, events)
  BY FileOf
<1>1. HeldInv'
  BY <1>0, UseHeld
<1>2. CASE WriteRecord(p)
  <2>1. CASE UNCHANGED <<file, kernel, events>> /\ Return(p, "false")
    BY <1>1, <1>2, <2>1, Literals, ReturnFile DEF WriteRecord
  <2>2. CASE Killed(p)
    BY <2>2, KilledFile
  <2>3. CASE /\ CanTouch(p) /\ MayWrite(p) /\ BytesMax(h[p]) >= 2
             /\ file' = Appended(BytesMax(h[p])) /\ Return(p, "true")
             /\ events' = [events EXCEPT !.published = @ + 1] /\ UNCHANGED kernel
    BY <1>2, <2>3, WriteFile DEF WriteRecord
  <2>4. BytesMax(h[p]) \in Int
    BY <1>0, HandleIs, BytesMaxIs, LifecycleAssumption
  <2> QED
    BY <1>2, <2>1, <2>2, <2>3, <2>4 DEF WriteRecord
<1>3. CASE NextRecordSize(p)
  <2>1. CASE UNCHANGED <<file, kernel, events>> /\ \E v \in Values : Return(p, v)
    BY <1>1, <1>3, <2>1, ReturnFile DEF NextRecordSize
  <2>2. CASE Killed(p)
    BY <2>2, KilledFile
  <2> QED
    BY <1>3, <2>1, <2>2, Literals DEF NextRecordSize
<1>4. CASE ReadRecord(p)
  <2>1. CASE ~Usable(p)
    BY <1>1, <1>4, <2>1, Literals, ReturnFile DEF ReadRecord
  <2>2. CASE Usable(p) /\ BytesMax(h[p]) = 0
    BY <1>4, <2>2, KilledFile DEF ReadRecord
  <2>3. CASE Usable(p) /\ BytesMax(h[p]) # 0
    <3>1. PICK y \in Handle :
            /\ h' = [h EXCEPT ![p] = y]
            /\ y.pc = "idle" /\ y.fd = h[p].fd /\ y.header = h[p].header
            /\ y.size = h[p].size
            /\ h[p].pc = "read" /\ UNCHANGED <<file, kernel, events>>
      BY <1>0, <1>4, <2>3, ReadRecordIs
    <3>2. KnowsFile(y, file, events)
      BY <1>0, <3>1 DEF KnowsFile, CreateSteps
    <3> QED
      BY <1>1, <3>1, <3>2, QuietStep DEF CreateSteps
  <2> QED
    BY <2>1, <2>2, <2>3
<1>5. CASE EndOfFile(p)
  <2>1. CASE CanTouch(p)
    BY <1>1, <1>5, <2>1, Literals, ReturnFile DEF EndOfFile
  <2>2. CASE ~CanTouch(p)
    BY <1>5, <2>2, KilledFile DEF EndOfFile
  <2> QED
    BY <2>1, <2>2
<1>6. CASE SystemCallFails(p)
  <2>1. "EIO" \in Errors
    BY DEF Errors
  <2> QED
    BY <1>1, <1>6, <2>1, Literals, ReturnFile DEF SystemCallFails
<1> QED
  BY <1>2, <1>3, <1>4, <1>5, <1>6

LEMMA StepFile ==
  ASSUME FileInv, Careful, NEW p \in Procs, ObjectStep(p, SoundSizes)
  PROVE  FileInv'
BY EntryFile, CreateFile, OpenFile, UseFile DEF ObjectStep, HandleStep, Modes

LEMMA IdleFile ==
  ASSUME FileInv, UNCHANGED lvars
  PROVE  FileInv'
<1>1. HeldInv'
  BY IdleHeld DEF FileInv
<1> QED
  BY <1>1 DEF FileInv, lvars

(***************************************************************************)
(* What is published stays, and a handle is on a whole ring: the premises  *)
(* of every program that uses the file with care.                          *)
(***************************************************************************)
LEMMA FileIsKept == FileInv => PublishedIsKept /\ HandleIsWhole
<1> SUFFICES ASSUME FileInv PROVE PublishedIsKept /\ HandleIsWhole
  OBVIOUS
<1>1. FileOK(file, events)
  BY DEF FileInv
<1>2. PublishedIsKept
  BY <1>1 DEF FileOK, PublishedIsKept
<1>3. ASSUME NEW p \in Procs, h[p].pc = "idle", h[p].header = "mapped"
      PROVE  file.magic /\ h[p].size = file.size /\ file.size = events.created
  <2>1. PICK x : x = h[p] /\ KnowsFile(x, file, events) /\ x.pc = "idle" /\ x.header = "mapped"
    BY <1>3, FileOf
  <2> QED
    BY <1>1, <2>1 DEF FileOK, KnowsFile
<1> QED
  BY <1>2, <1>3 DEF HandleIsWhole
-----------------------------------------------------------------------------
(* No step undoes a file, or touches another process' handle, and no step   *)
(* changes whether there is a directory.                                   *)
LEMMA FileStays ==
  ASSUME HeldInv, NEW p \in Procs, ObjectStep(p, Int)
  PROVE  file'.dir = file.dir /\ (file.exists => file'.exists)
<1>1. PICK f \in [dir : BOOLEAN, exists : BOOLEAN, size : Int, magic : BOOLEAN, end : Int] : f = file
  BY HandleIs
<1>2. CASE WriteRecord(p)
  <2>1. PICK bm \in Nat : bm = BytesMax(h[p])
    BY HandleIs, BytesMaxIs, LifecycleAssumption
  <2>2. bm >= 2 => Appended(bm).exists = f.exists /\ Appended(bm).dir = f.dir
    BY <1>1 DEF Appended
  <2>3. UNCHANGED file \/ (bm >= 2 /\ file' = Appended(bm))
    BY <1>2, <2>1 DEF WriteRecord, Killed
  <2> QED
    BY <1>1, <2>2, <2>3
<1>3. CASE HandleStep(p) /\ ~WriteRecord(p)
  <2>1. CASE Creat(p)
    <3>1. \/ UNCHANGED file
          \/ file.dir /\ file' = [NoFile EXCEPT !.exists = TRUE]
          \/ file.exists /\ UNCHANGED file
      BY <2>1 DEF Creat, Taken
    <3> QED
      BY <1>1, <3>1 DEF NoFile
  <2>2. CASE Truncate(p) \/ StoreMagic(p) \/ StoreEndOffset(p)
    BY <1>1, <2>2 DEF Truncate, StoreMagic, StoreEndOffset, Killed
  <2>3. CASE UNCHANGED file
    BY <2>3
  <2> QED
    BY <1>3, <2>1, <2>2, <2>3 DEF HandleStep, OpenPath, StatFile, Map, CheckMagic,
      NextRecordSize, ReadRecord, EndOfFile, Killed
<1>4. CASE UNCHANGED file
  BY <1>4
<1> QED
  BY <1>2, <1>3, <1>4 DEF ObjectStep, NewObject, CallCreate, CallOpen, CallWrite, Call,
    SystemCallFails, Close, Destroy, Crash

(* A magic number stays, with the size of the file, and only Create makes a *)
(* file.                                                                   *)
LEMMA MagicStays ==
  ASSUME FileInv, NEW p \in Procs, ObjectStep(p, Int)
  PROVE  /\ file.magic => file'.magic /\ events'.created = events.created
         /\ file'.exists => file.exists \/ InCreate(p)'
<1>0. HeldInv /\ (file.magic => file.exists)
  BY FileOf DEF FileOK
<1>1. PICK f \in [dir : BOOLEAN, exists : BOOLEAN, size : Int, magic : BOOLEAN, end : Int] : f = file
  BY <1>0, HandleIs
<1>2. CASE WriteRecord(p)
  <2>1. PICK bm \in Nat : bm = BytesMax(h[p])
    BY <1>0, HandleIs, BytesMaxIs, LifecycleAssumption
  <2>2. bm >= 2 => Appended(bm).exists = f.exists /\ Appended(bm).magic = f.magic
    BY <1>1 DEF Appended
  <2>3. UNCHANGED file \/ (bm >= 2 /\ file' = Appended(bm))
    BY <1>2, <2>1 DEF WriteRecord, Killed
  <2>4. PICK ev \in [published : Nat, created : Int] : ev = events
    BY <1>0, HandleIs
  <2>5. events' = ev \/ events' = [ev EXCEPT !.published = @ + 1]
    BY <1>2, <2>4 DEF WriteRecord, Killed
  <2> QED
    BY <1>1, <2>2, <2>3, <2>4, <2>5
<1>3. CASE Creat(p) /\ file.dir /\ ~file.exists
  <2>1. PICK y : h' = [h EXCEPT ![p] = y] /\ y.pc = "truncate"
    BY <1>0, <1>3, CreatIs
  <2>2. h'[p] = y
    BY <1>0, <2>1 DEF HeldInv, LTypeOK
  <2>3. InCreate(p)'
    BY <2>1, <2>2 DEF InCreate, CreateSteps
  <2> QED
    BY <1>0, <1>3, <2>3
<1>4. CASE StoreMagic(p) \/ StoreEndOffset(p)
  BY <1>1, <1>4 DEF StoreMagic, StoreEndOffset, Killed
<1>5. CASE UNCHANGED <<file, events>>
  BY <1>5
<1>6. CASE Truncate(p)
  <2>1. ~file.magic
    BY <1>6, FileOf DEF Truncate, KnowsFile
  <2> QED
    BY <1>1, <1>6, <2>1 DEF Truncate
<1> QED
  BY <1>2, <1>3, <1>4, <1>5, <1>6 DEF ObjectStep, NewObject, CallCreate, CallOpen, CallWrite, Call,
    SystemCallFails, Close, Destroy, Crash, HandleStep, Creat, Taken, OpenPath, StatFile, Map,
    CheckMagic, NextRecordSize, ReadRecord, EndOfFile, Killed

(* Without a directory there is no file, and no handle has one. *)
DirInv == ~file.dir => ~file.exists /\ \A p \in Procs : h[p].fd = "none"

LEMMA InitDir == LInit => DirInv
BY DEF LInit, DirInv, NoFile, NoObject

LEMMA DirStays ==
  ASSUME HeldInv, DirInv, NEW p \in Procs, ObjectStep(p, Int)
  PROVE  DirInv'
<1>1. CASE file.dir
  BY <1>1, FileStays DEF DirInv
<1>2. CASE ~file.dir
  <2> DEFINE Stays == ~file'.exists /\ \E y : h' = [h EXCEPT ![p] = y] /\ y.fd = "none"
  <2>0. ~file.exists /\ \A q \in Procs : h[q].fd = "none"
    BY <1>2 DEF DirInv
  <2> SUFFICES Stays
    <3>1. ASSUME Stays PROVE \A q \in Procs : h'[q].fd = "none"
      BY <2>0, <3>1 DEF HeldInv, LTypeOK
    <3> QED
      BY <3>1 DEF DirInv
  <2>1. PICK x \in Handle : x = h[p] /\ Staged(x) /\ x.fd = "none" /\ x.header = "null"
    BY <2>0, HandleIs DEF Staged
  <2>2. ~CanTouch(p) /\ ~Usable(p) /\ ~MayWrite(p)
    BY <2>1 DEF CanTouch, Usable, MayWrite
  <2>3. ASSUME NEW v \in Values, Return(p, v), UNCHANGED file PROVE Stays
    <3>1. PICK y : h' = [h EXCEPT ![p] = y] /\ y.fd = x.fd
      BY <2>1, <2>3, ReturnIs DEF ReturnedFrom
    <3> QED
      BY <2>0, <2>1, <2>3, <3>1
  <2>4. ASSUME NEW e \in Errors, Fail(p, e), UNCHANGED file PROVE Stays
    <3>1. PICK y : h' = [h EXCEPT ![p] = y] /\ y.fd = x.fd
      BY <2>1, <2>4, FailIs DEF ReturnedFrom
    <3> QED
      BY <2>0, <2>1, <2>4, <3>1
  <2>5. CASE Killed(p)
    <3>1. PICK y : h' = [h EXCEPT ![p] = y] /\ y.fd = "none"
      BY <2>5, KilledIs
    <3> QED
      BY <2>0, <2>5, <3>1 DEF Killed
  <2>6. /\ "ENOENT" \in Errors /\ "EIO" \in Errors /\ "stale" \in Errors
        /\ "true" \in Values /\ "false" \in Values
    BY DEF Errors, Values
  <2>7. CASE NewObject(p)
    BY <2>0, <2>7, NewObjectIs
  <2>8. CASE \E n \in Int : CallCreate(p, n)
    BY <2>0, <2>8, CreateCallIs
  <2>9. CASE \E mode \in {"read", "append", "other"} : CallOpen(p, mode)
    <3>1. {"read", "append", "other"} \subseteq Modes
      BY DEF Modes
    <3> QED
      BY <2>0, <2>9, <3>1, OpenCallIs
  <2>10. CASE \/ CallWrite(p) \/ Call(p, "NextRecordSize", "size")
              \/ Call(p, "Read", "read") \/ Call(p, "EndOfFile", "eof")
    <3>1. /\ {"Write", "NextRecordSize", "Read", "EndOfFile"} \subseteq CallNames
          /\ {"write", "size", "read", "eof"} \subseteq Steps
      BY DEF CallNames, Steps
    <3>2. \E call \in CallNames, step \in Steps : Call(p, call, step)
      BY <2>10, <3>1 DEF CallWrite
    <3> QED
      BY <2>0, <2>1, <3>2, CallIs
  <2>11. CASE HandleStep(p)
    <3>1. CASE Creat(p)
      BY <1>2, <2>4, <2>6, <3>1 DEF Creat
    <3>2. CASE OpenPath(p)
      BY <2>0, <2>4, <2>6, <3>2 DEF OpenPath
    <3>3. CASE StoreMagic(p) \/ CheckMagic(p) \/ EndOfFile(p)
      BY <2>2, <2>5, <3>3 DEF StoreMagic, CheckMagic, EndOfFile
    <3>4. CASE WriteRecord(p) \/ NextRecordSize(p) \/ ReadRecord(p)
      BY <2>2, <2>3, <2>5, <2>6, <3>4 DEF WriteRecord, NextRecordSize, ReadRecord
    <3>5. ~Truncate(p) /\ ~StatFile(p) /\ ~Map(p) /\ ~StoreEndOffset(p)
      BY <2>1 DEF Truncate, StatFile, Map, StoreEndOffset, Staged
    <3> HIDE DEF Stays
    <3> QED
      BY <2>11, <3>1, <3>2, <3>3, <3>4, <3>5 DEF HandleStep
  <2>12. CASE SystemCallFails(p)
    BY <2>3, <2>4, <2>6, <2>12 DEF SystemCallFails
  <2>13. CASE Close(p)
    BY <2>0, <2>13, CloseIs
  <2>14. CASE Destroy(p) \/ Crash(p)
    BY <2>0, <2>14, GoneIs DEF NoObject
  <2> HIDE DEF Stays
  <2> QED
    BY <2>7, <2>8, <2>9, <2>10, <2>11, <2>12, <2>13, <2>14 DEF ObjectStep
<1> QED
  BY <1>1, <1>2

LEMMA OneHandle ==
  ASSUME HeldInv, NEW p \in Procs, HandleStep(p) \/ SystemCallFails(p)
  PROVE  \E y : /\ h' = [h EXCEPT ![p] = y]
                /\ y.pc \in CreateSteps \cup {"creat"} =>
                     h[p].pc \in CreateSteps \cup {"creat"} /\ y.arg = h[p].arg
<1> DEFINE One == \E y : /\ h' = [h EXCEPT ![p] = y]
                         /\ y.pc \in CreateSteps \cup {"creat"} =>
                              h[p].pc \in CreateSteps \cup {"creat"} /\ y.arg = h[p].arg
<1> USE DEF CreateSteps
<1>1. ASSUME NEW y, h' = [h EXCEPT ![p] = y], y.pc \notin CreateSteps \cup {"creat"}
      PROVE  One
  BY <1>1
<1>2. ASSUME NEW v \in Values, Return(p, v) PROVE One
  <2>1. PICK y : h' = [h EXCEPT ![p] = y] /\ y.pc = "idle"
    BY <1>2, ReturnIs DEF ReturnedFrom
  <2> QED
    BY <1>1, <2>1
<1>3. ASSUME NEW e \in Errors, Fail(p, e) PROVE One
  <2>1. PICK y : h' = [h EXCEPT ![p] = y] /\ y.pc = "idle"
    BY <1>3, FailIs DEF ReturnedFrom
  <2> QED
    BY <1>1, <2>1
<1>4. ASSUME Killed(p) PROVE One
  <2>1. PICK y : h' = [h EXCEPT ![p] = y] /\ y.pc = "dead"
    BY <1>4, KilledIs
  <2> QED
    BY <1>1, <2>1
<1>5. /\ "EEXIST" \in Errors /\ "ENOENT" \in Errors /\ "EINVAL" \in Errors /\ "EIO" \in Errors
      /\ "stale" \in Errors /\ "true" \in Values /\ "false" \in Values
  BY DEF Errors, Values
<1>6. CASE Creat(p)
  BY <1>3, <1>5, <1>6, CreatIs DEF Creat, Taken
<1>7. CASE Truncate(p)
  BY <1>3, <1>5, <1>7, TruncateIs DEF Truncate
<1>8. CASE StoreMagic(p)
  BY <1>4, <1>8, StoreMagicIs DEF StoreMagic
<1>9. CASE OpenPath(p)
  BY <1>1, <1>3, <1>5, <1>9, OpenPathIs DEF OpenPath
<1>10. CASE StatFile(p)
  BY <1>1, <1>10, StatFileIs
<1>11. CASE Map(p)
  <2>1. PICK y \in Handle :
          /\ h' = [h EXCEPT ![p] = y]
          /\ h[p].pc = "map" => y.pc = "check"
          /\ h[p].pc = "mapnew" => y.pc = "magic"
          /\ y.arg = h[p].arg /\ h[p].pc \in {"map", "mapnew"}
    BY <1>11, MapIs
  <2> QED
    BY <2>1
<1>12. CASE CheckMagic(p)
  <2>1. CASE CanTouch(p)
    <3>1. PICK y : h' = [h EXCEPT ![p] = y] /\ y.pc = "idle"
      BY <1>12, <2>1, CheckMagicIs DEF ReturnedFrom
    <3> QED
      BY <1>1, <3>1
  <2> QED
    BY <1>4, <1>12, <2>1 DEF CheckMagic
<1>13. CASE ReadRecord(p)
  <2>1. CASE Usable(p) /\ BytesMax(h[p]) # 0
    <3>1. PICK y : h' = [h EXCEPT ![p] = y] /\ y.pc = "idle"
      BY <1>13, <2>1, ReadRecordIs
    <3> QED
      BY <1>1, <3>1
  <2> QED
    BY <1>2, <1>4, <1>5, <1>13, <2>1 DEF ReadRecord
<1>14. CASE WriteRecord(p) \/ NextRecordSize(p) \/ EndOfFile(p) \/ StoreEndOffset(p)
  BY <1>2, <1>4, <1>5, <1>14 DEF WriteRecord, NextRecordSize, EndOfFile, StoreEndOffset
<1>15. CASE SystemCallFails(p)
  BY <1>2, <1>3, <1>5, <1>15 DEF SystemCallFails
<1> QED
  BY <1>6, <1>7, <1>8, <1>9, <1>10, <1>11, <1>12, <1>13, <1>14, <1>15 DEF HandleStep

(* An Open in a mode that it does not know fails. *)
LEMMA UnknownMode ==
  ASSUME HeldInv, NEW p \in Procs, HandleStep(p) \/ SystemCallFails(p),
         h[p].pc = "open", h[p].mode = "other"
  PROVE  \E y \in Handle :
           h' = [h EXCEPT ![p] = y] /\ y.pc = "idle" /\ y.call = h[p].call /\ y.ret = "false"
<1>1. "stale" \in Errors
  BY DEF Errors
<1>2. Fail(p, "stale")
  BY DEF HandleStep, Creat, Truncate, StoreMagic, StoreEndOffset, OpenPath, StatFile, Map,
    CheckMagic, WriteRecord, NextRecordSize, ReadRecord, EndOfFile, SystemCallFails
<1> QED
  BY <1>1, <1>2, FailIs DEF ReturnedFrom

(***************************************************************************)
(* The steps of Create and Open, and why they fail: each but the last goes *)
(* on to another, the last returns, and every one that fails has set       *)
(* error_, but for the mode that Open does not know.                       *)
(***************************************************************************)
Making == CreateSteps \cup {"creat", "open", "stat", "map", "check"}

Reason(e, call, f) ==
  /\ e \in {"EEXIST", "ENOENT", "EINVAL", "EIO"}
  /\ e = "EEXIST" => call = "Create" /\ f.exists
  /\ e = "ENOENT" => call = "Open" \/ ~f.dir

LEMMA MakingStep ==
  ASSUME HeldInv, NEW p \in Procs, HandleStep(p) \/ SystemCallFails(p),
         h[p].pc \in Making, h[p].pc = "open" => h[p].mode # "other"
  PROVE  \E y \in Handle :
           /\ h' = [h EXCEPT ![p] = y]
           /\ y.pc \in (Making \ {"creat", "open"}) \cup {"idle", "dead"}
           /\ y.call = h[p].call
           /\ y.pc = "idle" /\ y.ret = "false" =>
                /\ Reason(y.error, h[p].call, file)
                /\ y.error = "EINVAL" => h[p].fd # "none"
                /\ y.error = "EIO" => ~HandleStep(p)
           /\ y.pc = "idle" /\ y.ret = "true" =>
                y.header = "mapped" /\ (h[p].call = "Open" => y.at = 0)
<1>0. PICK x \in Handle : x = h[p] /\ Staged(x)
  BY HandleIs
<1> USE DEF Making, CreateSteps
<1>1. ASSUME NEW e \in Errors, Fail(p, e), Reason(e, x.call, file)
      PROVE  \E y \in Handle :
               /\ h' = [h EXCEPT ![p] = y]
               /\ y.pc = "idle" /\ y.call = x.call /\ y.ret = "false" /\ y.error = e
  <2>1. PICK y \in Handle :
          h' = [h EXCEPT ![p] = y] /\ ReturnedFrom(h[p], y) /\ y.ret = "false" /\ y.error = e
    BY <1>1, FailIs
  <2> QED
    BY <1>0, <1>1, <2>1 DEF ReturnedFrom
<1>2. CASE Killed(p)
  BY <1>0, <1>2, KilledIs
<1>3. /\ "EEXIST" \in Errors /\ "ENOENT" \in Errors /\ "EINVAL" \in Errors /\ "EIO" \in Errors
      /\ Reason("EINVAL", x.call, file) /\ Reason("EIO", x.call, file)
  BY DEF Errors, Reason
<1>4. CASE Creat(p) /\ (~file.dir \/ file.exists)
  <2>1. x.call = "Create"
    BY <1>0, <1>4 DEF Creat, Staged
  <2>2. CASE ~file.dir
    <3>1. Fail(p, "ENOENT") /\ Reason("ENOENT", x.call, file)
      BY <1>4, <2>2 DEF Creat, Reason
    <3> QED
      BY <1>0, <1>1, <1>3, <3>1
  <2>3. CASE file.dir /\ file.exists
    <3>1. Fail(p, "EEXIST") /\ Reason("EEXIST", x.call, file)
      BY <1>4, <2>1, <2>3 DEF Creat, Taken, Reason
    <3> QED
      BY <1>0, <1>1, <1>3, <3>1
  <2> QED
    BY <1>4, <2>2, <2>3
<1>5. CASE Creat(p) /\ file.dir /\ ~file.exists
  BY <1>5, CreatIs
<1>6. CASE Truncate(p) /\ h[p].arg < 0
  <2>1. Fail(p, "EINVAL") /\ x.fd # "none"
    BY <1>0, <1>6 DEF Truncate, Staged
  <2> QED
    BY <1>0, <1>1, <1>3, <2>1
<1>7. CASE Truncate(p) /\ ~(h[p].arg < 0)
  BY <1>7, TruncateIs
<1>8. CASE StoreMagic(p)
  BY <1>2, <1>8, StoreMagicIs DEF StoreMagic
<1>9. CASE StoreEndOffset(p)
  <2>1. Return(p, "true")
    BY <1>9 DEF StoreEndOffset
  <2>2. PICK y \in Handle :
          h' = [h EXCEPT ![p] = y] /\ ReturnedFrom(x, y) /\ y.ret = "true"
    BY <1>0, <2>1, Literals, ReturnIs
  <2>3. x.header = "mapped" /\ x.call = "Create"
    BY <1>0, <1>9 DEF StoreEndOffset, Staged
  <2> QED
    BY <1>0, <2>2, <2>3 DEF ReturnedFrom
<1>10. CASE OpenPath(p) /\ ~file.exists
  <2>1. x.call = "Open" /\ Fail(p, "ENOENT")
    BY <1>0, <1>10 DEF OpenPath, Staged
  <2>2. Reason("ENOENT", x.call, file)
    BY <2>1 DEF Reason
  <2> QED
    BY <1>0, <1>1, <1>3, <2>1, <2>2
<1>11. CASE OpenPath(p) /\ file.exists
  <2>1. h[p].mode # "other"
    BY <1>11 DEF OpenPath
  <2> QED
    BY <1>11, <2>1, OpenPathIs
<1>12. CASE StatFile(p)
  BY <1>12, StatFileIs
<1>13. CASE Map(p)
  <2>1. PICK y \in Handle :
          /\ h' = [h EXCEPT ![p] = y]
          /\ h[p].pc = "map" => y.pc = "check"
          /\ h[p].pc = "mapnew" => y.pc = "magic"
          /\ y.call = h[p].call /\ h[p].pc \in {"map", "mapnew"}
    BY <1>13, MapIs
  <2> QED
    BY <2>1
<1>14. CASE CheckMagic(p) /\ CanTouch(p)
  <2>1. PICK y \in Handle :
          /\ h' = [h EXCEPT ![p] = y]
          /\ \/ ReturnedFrom(x, y) /\ y.ret = "true" /\ y.at = 0
             \/ /\ y.pc = "idle" /\ y.call = x.call
                /\ y.ret = "false" /\ y.error = "EINVAL"
    BY <1>0, <1>14, CheckMagicIs
  <2>2. x.header = "mapped" /\ x.fd # "none"
    BY <1>0, <1>14 DEF CanTouch, Staged
  <2> QED
    BY <1>0, <1>3, <2>1, <2>2 DEF ReturnedFrom
<1>15. CASE CheckMagic(p) /\ ~CanTouch(p)
  BY <1>2, <1>15 DEF CheckMagic
<1>16. CASE WriteRecord(p) \/ NextRecordSize(p) \/ ReadRecord(p) \/ EndOfFile(p)
  BY <1>16 DEF WriteRecord, NextRecordSize, ReadRecord, EndOfFile
<1>17. CASE SystemCallFails(p) /\ ~HandleStep(p)
  <2>1. Fail(p, "EIO")
    BY <1>17 DEF SystemCallFails
  <2> QED
    BY <1>0, <1>1, <1>3, <1>17, <2>1
<1> QED
  BY <1>4, <1>5, <1>6, <1>7, <1>8, <1>9, <1>10, <1>11, <1>12, <1>13, <1>14, <1>15, <1>16, <1>17
     DEF HandleStep

(***************************************************************************)
(* The steps of a handle on a whole ring: none but that of a division by 0 *)
(* kills, every answer is about the records at and behind read_offset_.    *)
(***************************************************************************)
Using == {"write", "size", "read", "eof"}

UsedFrom(x, y, f) ==
  /\ y.pc = "idle" /\ y.call = x.call /\ y.fd = x.fd /\ y.header = "mapped"
  /\ y.ret \in {"true", "false"}
  /\ x.pc = "eof" => (y.ret = "true" <=> x.at = f.end)
  /\ x.pc = "size" /\ y.ret = "true" => x.at # f.end
  /\ x.pc = "read" /\ y.ret = "true" /\ x.at \in 0 .. f.end - 1 =>
       y.at = x.at + 1 /\ y.arg = x.at + 1
  /\ x.pc # "read" \/ y.ret = "false" => y.at = x.at

LEMMA UsingStep ==
  ASSUME FileInv, NEW p \in Procs, HandleStep(p) \/ SystemCallFails(p),
         h[p].pc \in Using, h[p].header = "mapped"
  PROVE  \E y \in Handle :
           /\ h' = [h EXCEPT ![p] = y] /\ y.call = h[p].call
           /\ \/ y.pc = "dead" /\ h[p].pc \in {"size", "read"} /\ BytesMax(h[p]) = 0
              \/ /\ UsedFrom(h[p], y, file)
                 /\ h[p].pc = "size" /\ y.ret = "false" /\ h[p].at < file.end => ~HandleStep(p)
                 /\ h[p].pc = "write" /\ y.ret = "true" =>
                      events'.published = events.published + 1
<1>0. HeldInv /\ FileOK(file, events) /\ KnowsFile(h[p], file, events)
  BY FileOf
<1>1. PICK x \in Handle : x = h[p] /\ Staged(x)
  BY <1>0, HandleIs
<1>2. CanTouch(p) /\ x.size = file.size /\ Usable(p)
  BY <1>0, <1>1 DEF Using, CreateSteps, KnowsFile, FileOK, CanTouch, Usable, Staged
<1>3. ASSUME NEW v \in {"true", "false"}, Return(p, v)
      PROVE  \E y \in Handle :
               h' = [h EXCEPT ![p] = y] /\ ReturnedFrom(x, y) /\ y.ret = v /\ y.at = x.at
  <2>1. v \in Values
    BY Literals
  <2> QED
    BY <1>0, <1>1, <1>3, <2>1, ReturnIs
<1>4. CASE WriteRecord(p)
  <2>1. CASE Return(p, "false")
    BY <1>1, <1>3, <1>4, <2>1 DEF WriteRecord, UsedFrom, ReturnedFrom
  <2>2. CASE Return(p, "true") /\ events' = [events EXCEPT !.published = @ + 1]
    <3>1. events'.published = events.published + 1
      BY <1>0, <2>2, HandleIs
    <3> QED
      BY <1>1, <1>3, <1>4, <2>2, <3>1 DEF WriteRecord, UsedFrom, ReturnedFrom
  <2> QED
    BY <1>2, <1>4, <2>1, <2>2 DEF WriteRecord
<1>5. CASE NextRecordSize(p)
  <2>1. CASE x.at = file.end /\ Return(p, "false")
    <3>1. ~(x.at < file.end)
      BY <1>0, <2>1, HandleIs
    <3> QED
      BY <1>1, <1>3, <1>5, <2>1, <3>1 DEF NextRecordSize, UsedFrom, ReturnedFrom
  <2>2. CASE x.at # file.end /\ BytesMax(h[p]) = 0
    BY <1>0, <1>1, <1>2, <1>5, <2>2, KilledIs DEF NextRecordSize
  <2>3. CASE x.at # file.end /\ BytesMax(h[p]) # 0
    <3>1. Return(p, "true") \/ (~AtRecord(p) /\ Return(p, "false"))
      BY <1>1, <1>2, <1>5, <2>3 DEF NextRecordSize
    <3>2. AtRecord(p) <=> x.at < file.end
      BY <1>1, <1>2 DEF AtRecord
    <3> QED
      BY <1>1, <1>3, <1>5, <2>3, <3>1, <3>2 DEF NextRecordSize, UsedFrom, ReturnedFrom
  <2> QED
    BY <1>1, <1>2, <1>5, <2>1, <2>2, <2>3 DEF NextRecordSize
<1>6. CASE ReadRecord(p)
  <2>1. CASE BytesMax(h[p]) = 0
    BY <1>0, <1>1, <1>2, <1>6, <2>1, KilledIs DEF ReadRecord
  <2>2. CASE BytesMax(h[p]) # 0
    <3>1. PICK y \in Handle :
            /\ h' = [h EXCEPT ![p] = y]
            /\ y.pc = "idle" /\ y.call = x.call /\ y.fd = x.fd /\ y.header = x.header
            /\ \/ /\ y.ret = "true" /\ y.at = NextOffset(x)
                  /\ y.arg = IF AtRecord(p) THEN x.at + 1 ELSE 0
               \/ y.ret = "false" /\ y.at = x.at
            /\ x.pc = "read"
      BY <1>0, <1>1, <1>2, <1>6, <2>2, ReadRecordIs
    <3>2. ASSUME x.at \in 0 .. file.end - 1
          PROVE  NextOffset(x) = x.at + 1 /\ AtRecord(p)
      <4>1. /\ file.size \in Int /\ file.end \in Int /\ events.published \in Nat
            /\ file.end = events.published /\ file.end <= MaxRecords /\ SoundSize(file.size)
            /\ file.size > 0
            /\ HeaderSize \in Nat \ {0} /\ Word \in Nat \ {0} /\ MaxRecords \in Nat
        BY <1>0, <1>2, HandleIs, LifecycleAssumption DEF FileOK, CanTouch
      <4>2. PICK bm \in Nat : bm = BytesMax(x) /\ bm = file.size - HeaderSize /\ bm # 0
        <5>1. file.size - HeaderSize \in 0 .. Word - 1
          BY <4>1 DEF SoundSize
        <5> QED
          BY <1>1, <1>2, <2>2, <5>1, BytesMaxIs
      <4>3. x.at \in Int /\ x.at + 1 \in 0 .. bm - 1
        BY <1>0, <3>2, <4>1, <4>2, HandleFields DEF FileOK
      <4>4. (x.at + 1) % bm = x.at + 1
        BY <4>2, <4>3
      <4> QED
        BY <1>1, <1>2, <3>2, <4>1, <4>2, <4>3, <4>4 DEF NextOffset, AtRecord
    <3> QED
      BY <1>1, <3>1, <3>2 DEF UsedFrom
  <2> QED
    BY <2>1, <2>2
<1>7. CASE EndOfFile(p)
  BY <1>1, <1>2, <1>3, <1>7 DEF EndOfFile, UsedFrom, ReturnedFrom
<1>8. CASE SystemCallFails(p) /\ ~HandleStep(p)
  <2>1. Return(p, "false") /\ x.pc # "eof"
    BY <1>1, <1>8 DEF SystemCallFails, Using
  <2> QED
    BY <1>1, <1>3, <1>8, <2>1 DEF UsedFrom, ReturnedFrom
<1> QED
  BY <1>4, <1>5, <1>6, <1>7, <1>8 DEF Using, HandleStep, Creat, Truncate, StoreMagic,
    StoreEndOffset, OpenPath, StatFile, Map, CheckMagic

(* Of a handle that is closed, EndOfFile kills, and Write answers at most. *)
LEMMA UnusableStep ==
  ASSUME HeldInv, NEW p \in Procs, HandleStep(p) \/ SystemCallFails(p),
         h[p].pc \in {"write", "eof"}, h[p].header = "null"
  PROVE  \E y \in Handle :
           /\ h' = [h EXCEPT ![p] = y] /\ y.call = h[p].call /\ y.header = "null"
           /\ y.pc = "dead" \/ (h[p].pc = "write" /\ y.pc = "idle")
<1>1. ~CanTouch(p)
  BY DEF CanTouch
<1>2. CASE Killed(p)
  BY <1>2, KilledIs
<1>3. CASE Return(p, "false") /\ h[p].pc = "write"
  <2>1. PICK y \in Handle : h' = [h EXCEPT ![p] = y] /\ ReturnedFrom(h[p], y)
    BY <1>3, Literals, ReturnIs
  <2> QED
    BY <1>3, <2>1 DEF ReturnedFrom
<1> QED
  BY <1>1, <1>2, <1>3 DEF HandleStep, Creat, Truncate, StoreMagic, StoreEndOffset, OpenPath,
    StatFile, Map, CheckMagic, WriteRecord, NextRecordSize, ReadRecord, EndOfFile,
    SystemCallFails

(* Records are only added. *)
LEMMA PublishedGrows ==
  ASSUME HeldInv, NEW p \in Procs, ObjectStep(p, Int)
  PROVE  events.published <= events'.published
<1>1. PICK ev \in [published : Nat, created : Int] : ev = events
  BY HandleIs
<1>2. CASE UNCHANGED events
  BY <1>1, <1>2
<1>3. CASE events' = [events EXCEPT !.published = @ + 1]
  BY <1>1, <1>3
<1>4. CASE events' = [events EXCEPT !.created = h[p].arg]
  BY <1>1, <1>4
<1> QED
  BY <1>2, <1>3, <1>4 DEF ObjectStep, HandleStep, NewObject, CallCreate, CallOpen, CallWrite,
    Call, SystemCallFails, Close, Destroy, Crash, Creat, Truncate, StoreMagic, StoreEndOffset,
    OpenPath, StatFile, Map, CheckMagic, WriteRecord, NextRecordSize, ReadRecord, EndOfFile,
    Killed
==============================================================================
