--------------------------- MODULE InterfaceProofs ---------------------------
(***************************************************************************)
(* Theorems about the C interface, for any number of processes, any sizes  *)
(* and any faults: every function is made of the steps that module         *)
(* LifecycleProofs is about.                                               *)
(***************************************************************************)
EXTENDS PublicInterface, LifecycleProofs

Functions ==
  {"none", "ringfile_create", "ringfile_open", "ringfile_write", "ringfile_read",
   "ringfile_next_record_size", "ringfile_close"}
Answers == {"none", "NULL", "stream", "void", "0", "-1"}

Fn == [name : Functions, size : Int, mode : Modes, answer : Answers]

Errnos == Errors \cup {"none"}

Givers == {"ringfile_create", "ringfile_open"}

CallOf(name) == IF name = "ringfile_create" THEN "Create" ELSE "Open"

(* The reason of a failure: without a directory it is ENOENT, or EIO. *)
Why(e, call, f) ==
  /\ Reason(e, call, f)
  /\ e \in {"EEXIST", "EINVAL"} => f.dir

(***************************************************************************)
(* The function g of a process and its object x: one that gives a stream   *)
(* is on its way through the call it makes, or has the reason of its       *)
(* failure, which is in errno once it has answered.                        *)
(***************************************************************************)
OnItsWay(g, x, f) ==
  /\ g.mode # "other"
  /\ x.pc \in Making \cup {"idle", "dead"}
  /\ x.call \in {"none", CallOf(g.name)}
  /\ x.call = "none" => x.ret = "none"
  /\ x.pc = "open" => x.mode = g.mode
  /\ x.pc = "idle" /\ x.ret = "false" => Why(x.error, x.call, f)

FnOK(g, x, e, f) ==
  /\ g.name = "ringfile_create" => g.size \in CreateSizes
  /\ g.name = "ringfile_open" => g.mode \in {"read", "append", "other"}
  /\ g.answer = "NULL" =>
       /\ x.pc = "none" /\ g.name \in Givers
       /\ g.mode # "other" => Why(e, CallOf(g.name), f)
  /\ g.name \in Givers /\ g.answer = "none" => OnItsWay(g, x, f)

PInv ==
  /\ HeldInv /\ DirInv
  /\ fn \in [Procs -> Fn] /\ errno \in [Procs -> Errnos]
  /\ \A p \in Procs : FnOK(fn[p], h[p], errno[p], file)

-----------------------------------------------------------------------------
LEMMA FnFields ==
  ASSUME NEW g \in Fn
  PROVE  /\ DOMAIN g = {"name", "size", "mode", "answer"}
         /\ g.name \in Functions /\ g.size \in Int /\ g.mode \in Modes /\ g.answer \in Answers
BY DEF Fn

LEMMA FnNames ==
  /\ "none" \in Functions /\ "ringfile_create" \in Functions /\ "ringfile_open" \in Functions
  /\ "ringfile_write" \in Functions /\ "ringfile_read" \in Functions
  /\ "ringfile_next_record_size" \in Functions /\ "ringfile_close" \in Functions
  /\ "none" \in Answers /\ "NULL" \in Answers /\ "stream" \in Answers /\ "void" \in Answers
  /\ "0" \in Answers /\ "-1" \in Answers
  /\ "none" \in Modes /\ Errors \subseteq Errnos /\ "none" \in Errnos
BY DEF Functions, Answers, Modes, Errnos

LEMMA NoFunctionIs ==
  /\ NoFunction \in Fn
  /\ NoFunction.name = "none" /\ NoFunction.mode = "none" /\ NoFunction.answer = "none"
BY FnNames DEF NoFunction, Fn

(* A function that gives no stream asks nothing of the object. *)
LEMMA NoGiver ==
  ASSUME NEW g, NEW x, NEW e, NEW f, g.name \notin Givers, g.answer # "NULL"
  PROVE  FnOK(g, x, e, f)
BY DEF FnOK, Givers

LEMMA EnterIs ==
  ASSUME NEW name \in Functions
  PROVE  /\ [NoFunction EXCEPT !.name = name] \in Fn
         /\ [NoFunction EXCEPT !.name = name].name = name
         /\ [NoFunction EXCEPT !.name = name].answer = "none"
BY FnNames DEF NoFunction, Fn

(* The answer leaves the rest. *)
LEMMA AnswerIs ==
  ASSUME PInv, NEW p \in Procs, NEW a \in Answers, Answer(p, a)
  PROVE  \E g \in Fn :
           /\ fn' = [fn EXCEPT ![p] = g]
           /\ g.name = fn[p].name /\ g.size = fn[p].size /\ g.mode = fn[p].mode /\ g.answer = a
<1>1. PICK b \in Fn : b = fn[p]
  BY DEF PInv
<1> DEFINE g == [b EXCEPT !.answer = a]
<1>2. g \in Fn
  BY DEF Fn
<1>3. g.name = b.name /\ g.size = b.size /\ g.mode = b.mode /\ g.answer = a
  BY FnFields
<1>4. fn' = [fn EXCEPT ![p] = g]
  BY <1>1 DEF Answer, PInv
<1> QED
  BY <1>1, <1>2, <1>3, <1>4

(* What a process does is nothing to the others, but that a file exists,    *)
(* where there is a directory.                                             *)
LEMMA FnReplaced ==
  ASSUME PInv, HeldInv', DirInv', NEW p \in Procs, NEW y, h' = [h EXCEPT ![p] = y],
         NEW g \in Fn, fn' = [fn EXCEPT ![p] = g],
         NEW e \in Errnos, errno' = [errno EXCEPT ![p] = e],
         file'.dir = file.dir /\ (file.exists => file'.exists),
         FnOK(g, y, e, file')
  PROVE  PInv'
<1>1. /\ fn' \in [Procs -> Fn] /\ errno' \in [Procs -> Errnos]
      /\ h'[p] = y /\ fn'[p] = g /\ errno'[p] = e
      /\ \A q \in Procs : q # p => h'[q] = h[q] /\ fn'[q] = fn[q] /\ errno'[q] = errno[q]
  BY DEF PInv, HeldInv, LTypeOK
<1>2. ASSUME NEW b, NEW x, NEW c, FnOK(b, x, c, file)
      PROVE  FnOK(b, x, c, file')
  BY <1>2 DEF FnOK, OnItsWay, Why, Reason
<1>3. ASSUME NEW q \in Procs
      PROVE  FnOK(fn'[q], h'[q], errno'[q], file')
  <2>1. CASE q = p
    BY <1>1, <2>1
  <2>2. CASE q # p
    BY <1>1, <1>2, <2>2 DEF PInv
  <2> QED
    BY <2>1, <2>2
<1> QED
  BY <1>1, <1>3 DEF PInv

(* The same for a step of the program that is none of the object's. *)
LEMMA FnAlone ==
  ASSUME PInv, NEW p \in Procs, UNCHANGED <<file, h, kernel, events>>,
         NEW g \in Fn, fn' = [fn EXCEPT ![p] = g],
         NEW e \in Errnos, errno' = [errno EXCEPT ![p] = e],
         FnOK(g, h[p], e, file)
  PROVE  PInv'
<1>1. HeldInv' /\ DirInv'
  BY IdleHeld DEF PInv, lvars, DirInv
<1>2. h' = [h EXCEPT ![p] = h[p]]
  BY DEF PInv, HeldInv, LTypeOK
<1> QED
  BY <1>1, <1>2, FnReplaced

LEMMA Errno ==
  ASSUME PInv, NEW p \in Procs
  PROVE  /\ errno[p] \in Errnos /\ [errno EXCEPT ![p] = errno[p]] = errno
         /\ fn[p] \in Fn /\ [fn EXCEPT ![p] = fn[p]] = fn
         /\ HeldInv /\ FnOK(fn[p], h[p], errno[p], file)
BY DEF PInv

-----------------------------------------------------------------------------
(* Every function takes only steps of the object, or none. *)
LEMMA PStepIs ==
  ASSUME PInv, PNext
  PROVE  UNCHANGED lvars \/ \E p \in Procs : ObjectStep(p, CreateSizes)
<1>1. PICK p \in Procs :
        \/ \E n \in CreateSizes : ringfile_create(p, n)
        \/ \E mode \in OpenModes : ringfile_open(p, mode)
        \/ CallImpl(p) \/ ImplStep(p) \/ Succeeds(p) \/ Fails(p)
        \/ ringfile_write(p) \/ ringfile_read(p) \/ ringfile_next_record_size(p)
        \/ ringfile_close(p)
        \/ ProcessDies(p)
  BY DEF PNext
<1>2. CASE CallImpl(p)
  <2>1. FnOK(fn[p], h[p], errno[p], file)
    BY Errno
  <2>2. \/ fn[p].size \in CreateSizes /\ CallCreate(p, fn[p].size)
        \/ fn[p].mode \in {"read", "append", "other"} /\ CallOpen(p, fn[p].mode)
    BY <1>2, <2>1 DEF CallImpl, FnOK
  <2> QED
    BY <2>2 DEF ObjectStep
<1>3. CASE ~CallImpl(p)
  BY <1>1, <1>3 DEF ringfile_create, ringfile_open, ImplStep, Succeeds, Fails, Delete,
    ringfile_write, ringfile_read, ringfile_next_record_size, ringfile_close, ProcessDies,
    ObjectStep, lvars
<1> QED
  BY <1>2, <1>3

LEMMA PStepHeld ==
  ASSUME PInv, PNext
  PROVE  HeldInv' /\ DirInv' /\ file'.dir = file.dir /\ (file.exists => file'.exists)
<1>1. HeldInv /\ DirInv
  BY DEF PInv
<1>2. CASE UNCHANGED lvars
  BY <1>1, <1>2, IdleHeld DEF lvars, DirInv
<1>3. ASSUME NEW p \in Procs, ObjectStep(p, CreateSizes)
      PROVE  HeldInv' /\ DirInv' /\ file'.dir = file.dir /\ (file.exists => file'.exists)
  <2>1. ObjectStep(p, Int)
    BY <1>3, LifecycleAssumption DEF ObjectStep
  <2> QED
    BY <1>1, <2>1, StepHeld, FileStays, DirStays
<1> QED
  BY <1>2, <1>3, PStepIs

LEMMA InitPInv == PInit => PInv
<1> SUFFICES ASSUME PInit PROVE PInv
  OBVIOUS
<1>1. HeldInv /\ DirInv
  BY InitHeld, InitDir DEF PInit
<1>2. FnOK(NoFunction, NoObject, "none", file)
  BY NoFunctionIs, NoGiver DEF Givers
<1> QED
  BY <1>1, <1>2, NoFunctionIs, FnNames DEF PInit, LInit, PInv

-----------------------------------------------------------------------------
LEMMA EnteredPInv ==
  ASSUME PInv, PNext, NEW p \in Procs,
         \/ \E n \in CreateSizes : ringfile_create(p, n)
         \/ \E mode \in OpenModes : ringfile_open(p, mode)
         \/ ringfile_write(p) \/ ringfile_read(p) \/ ringfile_next_record_size(p)
         \/ ringfile_close(p)
  PROVE  PInv'
<1>0. HeldInv /\ HeldInv' /\ DirInv' /\ file'.dir = file.dir /\ (file.exists => file'.exists)
  BY PStepHeld DEF PInv
<1> USE DEF Givers
<1>1. ASSUME NEW n \in CreateSizes, ringfile_create(p, n)
      PROVE  PInv'
  <2>1. PICK m \in Int : m = n
    BY LifecycleAssumption
  <2> DEFINE g == [NoFunction EXCEPT !.name = "ringfile_create", !.size = m]
  <2>2. g \in Fn /\ g.name = "ringfile_create" /\ g.size = m /\ g.mode = "none" /\ g.answer = "none"
    BY FnNames DEF NoFunction, Fn
  <2>3. fn' = [fn EXCEPT ![p] = g] /\ errno' = [errno EXCEPT ![p] = errno[p]]
    BY <1>1, <2>1, Errno DEF ringfile_create
  <2>4. PICK y \in Handle :
          h' = [h EXCEPT ![p] = y] /\ y.pc = "idle" /\ y.call = "none" /\ y.ret = "none"
    BY <1>0, <1>1, NewObjectIs DEF ringfile_create
  <2> HIDE DEF g
  <2>5. FnOK(g, y, errno[p], file')
    BY <2>1, <2>2, <2>4 DEF FnOK, OnItsWay
  <2> QED
    BY <1>0, <2>2, <2>3, <2>4, <2>5, Errno, FnReplaced
<1>2. ASSUME NEW mode \in OpenModes, ringfile_open(p, mode), mode # "other"
      PROVE  PInv'
  <2>1. PICK m \in Modes : m = mode /\ m \in {"read", "append"}
    BY <1>2, LifecycleAssumption DEF Modes
  <2> DEFINE g == [NoFunction EXCEPT !.name = "ringfile_open", !.mode = m]
  <2>2. g \in Fn
    BY NoFunctionIs, FnNames DEF Fn
  <2>3. g.name = "ringfile_open" /\ g.mode = m /\ g.answer = "none"
    BY DEF NoFunction
  <2>4. fn' = [fn EXCEPT ![p] = g] /\ errno' = [errno EXCEPT ![p] = errno[p]] /\ NewObject(p)
    BY <1>2, <2>1, Errno DEF ringfile_open
  <2>5. PICK y \in Handle :
          h' = [h EXCEPT ![p] = y] /\ y.pc = "idle" /\ y.call = "none" /\ y.ret = "none"
    BY <1>0, <2>4, NewObjectIs
  <2> HIDE DEF g
  <2>6. FnOK(g, y, errno[p], file')
    BY <2>1, <2>2, <2>3, <2>5 DEF FnOK, OnItsWay
  <2> QED
    BY <1>0, <2>2, <2>3, <2>4, <2>5, <2>6, Errno, FnReplaced
<1>3. ASSUME ringfile_open(p, "other")
      PROVE  PInv'
  <2> DEFINE g == [name |-> "ringfile_open", size |-> 0, mode |-> "other", answer |-> "NULL"]
  <2>1. g \in Fn
    BY FnNames DEF Fn, Modes
  <2>2. g.name = "ringfile_open" /\ g.mode = "other" /\ g.answer = "NULL"
    OBVIOUS
  <2>3. /\ fn' = [fn EXCEPT ![p] = g] /\ errno' = [errno EXCEPT ![p] = errno[p]]
        /\ h[p].pc = "none" /\ UNCHANGED <<file, h, kernel, events>>
    BY <1>3, Errno DEF ringfile_open
  <2> HIDE DEF g
  <2>4. FnOK(g, h[p], errno[p], file)
    BY <2>2, <2>3 DEF FnOK
  <2> QED
    BY <2>1, <2>3, <2>4, Errno, FnAlone
<1>4. ASSUME NEW g \in Fn, fn' = [fn EXCEPT ![p] = g], UNCHANGED errno,
             g.name \notin Givers, g.answer # "NULL", NEW y, h' = [h EXCEPT ![p] = y]
      PROVE  PInv'
  <2>1. errno' = [errno EXCEPT ![p] = errno[p]]
    BY <1>4, Errno
  <2>2. FnOK(g, y, errno[p], file')
    BY <1>4, NoGiver
  <2> QED
    BY <1>0, <1>4, <2>1, <2>2, Errno, FnReplaced
<1>5. ASSUME NEW name \in Functions, name \notin Givers, Enter(p, name), UNCHANGED errno,
             NEW call, NEW step, Call(p, call, step)
      PROVE  PInv'
  <2>1. PICK g \in Fn : fn' = [fn EXCEPT ![p] = g] /\ g.name = name /\ g.answer = "none"
    BY <1>5, EnterIs DEF Enter
  <2>2. PICK y : h' = [h EXCEPT ![p] = y]
    BY <1>5 DEF Call
  <2> QED
    BY <1>4, <1>5, <2>1, <2>2
<1>6. CASE ringfile_write(p) \/ ringfile_read(p) \/ ringfile_next_record_size(p)
  BY <1>5, <1>6, FnNames DEF ringfile_write, ringfile_read, ringfile_next_record_size, CallWrite
<1>7. CASE ringfile_close(p)
  <2> DEFINE g == [NoFunction EXCEPT !.name = "ringfile_close", !.answer = "void"]
  <2>1. g \in Fn
    BY NoFunctionIs, FnNames DEF Fn
  <2>2. g.name = "ringfile_close" /\ g.answer = "void"
    BY DEF NoFunction
  <2>3. fn' = [fn EXCEPT ![p] = g] /\ UNCHANGED errno /\ h' = [h EXCEPT ![p] = NoObject]
    BY <1>7 DEF ringfile_close, Destroy
  <2> HIDE DEF g
  <2> QED
    BY <1>4, <2>1, <2>2, <2>3
<1> QED
  BY <1>1, <1>2, <1>3, <1>6, <1>7

LEMMA WorkedPInv ==
  ASSUME PInv, PNext, NEW p \in Procs,
         CallImpl(p) \/ ImplStep(p) \/ Succeeds(p) \/ Fails(p) \/ ProcessDies(p)
  PROVE  PInv'
<1>0. HeldInv /\ HeldInv' /\ DirInv' /\ file'.dir = file.dir /\ (file.exists => file'.exists)
  BY PStepHeld DEF PInv
<1>1. PICK x \in Handle : x = h[p] /\ Staged(x)
  BY <1>0, HandleIs
<1>2. PICK g \in Fn : g = fn[p] /\ FnOK(g, x, errno[p], file) /\ fn = [fn EXCEPT ![p] = g]
  BY <1>1, Errno
<1> USE DEF Givers
<1>3. CASE CallImpl(p)
  <2>1. UNCHANGED <<fn, errno>> /\ InFunction(p)
    BY <1>3 DEF CallImpl
  <2>2. OnItsWay(g, x, file) /\ g.answer = "none"
    BY <1>2, <1>3, <2>1 DEF FnOK, CallImpl, InFunction
  <2>3. CASE g.name = "ringfile_create" /\ CallCreate(p, g.size)
    <3>1. g.size \in Int
      BY FnFields
    <3>2. PICK y \in Handle : h' = [h EXCEPT ![p] = y] /\ y.pc = "creat" /\ y.call = "Create"
      BY <1>0, <2>3, <3>1, CreateCallIs
    <3>3. FnOK(g, y, errno[p], file')
      BY <1>2, <2>2, <2>3, <3>2 DEF FnOK, OnItsWay, CallOf, Making
    <3> QED
      BY <1>0, <1>2, <2>1, <3>2, <3>3, Errno, FnReplaced
  <2>4. CASE g.name = "ringfile_open" /\ CallOpen(p, g.mode)
    <3>1. g.mode \in Modes
      BY FnFields
    <3>2. PICK y \in Handle :
            h' = [h EXCEPT ![p] = y] /\ y.pc = "open" /\ y.call = "Open" /\ y.mode = g.mode
      BY <1>0, <2>4, <3>1, OpenCallIs
    <3>3. FnOK(g, y, errno[p], file')
      BY <1>2, <2>2, <2>4, <3>2 DEF FnOK, OnItsWay, CallOf, Making
    <3> QED
      BY <1>0, <1>2, <2>1, <3>2, <3>3, Errno, FnReplaced
  <2> QED
    BY <1>2, <1>3, <2>3, <2>4 DEF CallImpl
<1>4. CASE ImplStep(p)
  <2>1. UNCHANGED <<fn, errno>> /\ (HandleStep(p) \/ SystemCallFails(p))
    BY <1>4 DEF ImplStep
  <2>2. x.pc \notin {"none", "idle", "dead"}
    BY <1>1, <2>1 DEF HandleStep, SystemCallFails, Creat, Truncate, StoreMagic, StoreEndOffset,
      OpenPath, StatFile, Map, CheckMagic, WriteRecord, NextRecordSize, ReadRecord, EndOfFile
  <2>3. CASE g.name \in Givers /\ g.answer = "none"
    <3>1. OnItsWay(g, x, file)
      BY <1>2, <2>3 DEF FnOK
    <3>2. x.pc \in Making /\ (x.pc = "open" => x.mode # "other")
      BY <2>2, <3>1 DEF OnItsWay
    <3>3. PICK y \in Handle :
            /\ h' = [h EXCEPT ![p] = y]
            /\ y.pc \in (Making \ {"creat", "open"}) \cup {"idle", "dead"}
            /\ y.call = x.call
            /\ y.pc = "idle" /\ y.ret = "false" => Why(y.error, x.call, file)
      <4>1. PICK y \in Handle :
              /\ h' = [h EXCEPT ![p] = y]
              /\ y.pc \in (Making \ {"creat", "open"}) \cup {"idle", "dead"}
              /\ y.call = x.call
              /\ y.pc = "idle" /\ y.ret = "false" =>
                   Reason(y.error, x.call, file) /\ (y.error = "EINVAL" => x.fd # "none")
        BY <1>0, <1>1, <2>1, <3>2, MakingStep
      <4>2. (file.exists \/ x.fd # "none") => file.dir
        BY <1>1 DEF PInv, DirInv
      <4> QED
        BY <4>1, <4>2 DEF Why, Reason
    <3>4. x.call # "none"
      BY <1>1, <3>2 DEF Making, CreateSteps, Staged
    <3>5. FnOK(g, y, errno[p], file')
      BY <1>0, <1>2, <2>3, <3>1, <3>3, <3>4 DEF FnOK, OnItsWay, Why, Reason
    <3> QED
      BY <1>0, <1>2, <2>1, <3>3, <3>5, Errno, FnReplaced
  <2>4. CASE ~(g.name \in Givers /\ g.answer = "none")
    <3>1. PICK y : h' = [h EXCEPT ![p] = y]
      BY <1>0, <2>1, OneHandle
    <3>2. FnOK(g, y, errno[p], file')
      BY <1>2, <2>2, <2>4 DEF FnOK
    <3> QED
      BY <1>0, <1>2, <2>1, <3>1, <3>2, Errno, FnReplaced
  <2> QED
    BY <2>3, <2>4
<1>5. CASE Succeeds(p)
  <2>1. PICK b \in Fn :
          /\ fn' = [fn EXCEPT ![p] = b] /\ b.name = g.name /\ b.size = g.size /\ b.mode = g.mode
          /\ b.answer \in {"stream", "0"}
    BY <1>2, <1>5, FnNames, AnswerIs DEF Succeeds
  <2>2. FnOK(b, h[p], errno[p], file)
    BY <1>2, <2>1 DEF FnOK
  <2> QED
    BY <1>5, <2>1, <2>2, Errno, FnAlone DEF Succeeds
<1>6. CASE Fails(p) /\ Gives(p)
  <2>1. /\ InFunction(p) /\ x.pc = "idle" /\ x.ret = "false" /\ Destroy(p) /\ Answer(p, "NULL")
        /\ errno' = [errno EXCEPT ![p] = x.error]
    BY <1>1, <1>6 DEF Fails, ImplReturned, Delete
  <2>2. OnItsWay(g, x, file) /\ g.name \in Givers
    BY <1>2, <1>6, <2>1 DEF FnOK, InFunction, Gives
  <2>3. Why(x.error, CallOf(g.name), file)
    BY <2>1, <2>2 DEF OnItsWay
  <2>4. PICK b \in Fn :
          /\ fn' = [fn EXCEPT ![p] = b] /\ b.name = g.name /\ b.size = g.size /\ b.mode = g.mode
          /\ b.answer = "NULL"
    BY <1>2, <2>1, FnNames, AnswerIs
  <2>5. h' = [h EXCEPT ![p] = NoObject] /\ NoObject.pc = "none" /\ UNCHANGED file
    BY <2>1 DEF Destroy, NoObject
  <2>6. FnOK(b, NoObject, x.error, file')
    BY <1>2, <2>2, <2>3, <2>4, <2>5 DEF FnOK
  <2>7. x.error \in Errnos
    BY HandleFields, FnNames
  <2> QED
    BY <1>0, <2>1, <2>4, <2>5, <2>6, <2>7, FnReplaced
<1>7. CASE Fails(p) /\ ~Gives(p)
  <2>1. /\ Answer(p, "-1") /\ errno' = [errno EXCEPT ![p] = x.error]
        /\ UNCHANGED <<file, h, kernel, events>>
    BY <1>1, <1>7 DEF Fails
  <2>2. PICK b \in Fn : fn' = [fn EXCEPT ![p] = b] /\ b.name = g.name /\ b.answer = "-1"
    BY <1>2, <2>1, FnNames, AnswerIs
  <2>3. FnOK(b, h[p], x.error, file)
    BY <1>2, <1>7, <2>2, NoGiver DEF Gives
  <2>4. x.error \in Errnos
    BY HandleFields, FnNames
  <2> QED
    BY <2>1, <2>2, <2>3, <2>4, FnAlone
<1>8. CASE ProcessDies(p)
  <2>1. /\ h' = [h EXCEPT ![p] = NoObject] /\ fn' = [fn EXCEPT ![p] = NoFunction]
        /\ errno' = [errno EXCEPT ![p] = "none"]
    BY <1>8 DEF ProcessDies, Crash
  <2>2. FnOK(NoFunction, NoObject, "none", file')
    BY NoFunctionIs, NoGiver
  <2> QED
    BY <1>0, <2>1, <2>2, NoFunctionIs, FnNames, FnReplaced
<1> QED
  BY <1>3, <1>4, <1>5, <1>6, <1>7, <1>8

LEMMA StepPInv ==
  ASSUME PInv, [PNext]_pvars
  PROVE  PInv'
<1>1. CASE PNext
  BY <1>1, EnteredPInv, WorkedPInv DEF PNext
<1>2. CASE UNCHANGED pvars
  <2>1. HeldInv' /\ DirInv'
    BY <1>2, IdleHeld DEF PInv, pvars, lvars, DirInv
  <2> QED
    BY <1>2, <2>1 DEF PInv, pvars
<1> QED
  BY <1>1, <1>2

-----------------------------------------------------------------------------
(* The invariant of the functions, the objects and what the kernel holds. *)
THEOREM InterfaceInvariant == PSpec => []PInv
BY InitPInv, StepPInv, PTL DEF PSpec

(***************************************************************************)
(* Whatever fails, is closed, dies or is killed, and however the processes *)
(* race for the path: the kernel holds for a process what its stream knows *)
(* it has, which ringfile_close gives back.                                *)
(***************************************************************************)
THEOREM InterfaceLeaksNothing == PSpec => []NothingLeaks
<1>1. PInv => NothingLeaks
  BY HeldHolds DEF PInv
<1> QED
  BY <1>1, InterfaceInvariant, PTL

(***************************************************************************)
(* A create or open that answers NULL leaves the process no object, no     *)
(* descriptor and no mapping, at whichever of its steps it failed.         *)
(***************************************************************************)
THEOREM FailureLeavesNothing == PSpec => []NullLeavesNothing
<1>1. ASSUME PInv, NEW p \in Procs, fn[p].answer = "NULL"
      PROVE  h[p].pc = "none" /\ kernel[p] = HeldByNone
  <2>1. FnOK(fn[p], h[p], errno[p], file) /\ HeldInv
    BY <1>1, Errno
  <2>2. PICK x : x = h[p] /\ Staged(x) /\ kernel[p] = Holds(x) /\ x.pc = "none"
    BY <1>1, <2>1, HandleIs DEF FnOK
  <2> QED
    BY <2>2 DEF Staged, Holds, HeldByNone
<1>2. PInv => NullLeavesNothing
  BY <1>1 DEF NullLeavesNothing
<1> QED
  BY <1>2, InterfaceInvariant, PTL

(***************************************************************************)
(* And errno is the reason: EEXIST says that there is a file to be opened, *)
(* ENOENT that there was none to open, or no directory to create one in.   *)
(* Without a directory no process is told anything else, other failures of *)
(* the system calls apart.                                                 *)
(***************************************************************************)
THEOREM FailureSaysWhy == PSpec => []NullSaysWhy
<1>1. ASSUME PInv, NEW p \in Procs, fn[p].answer = "NULL", fn[p].mode # "other"
      PROVE  /\ errno[p] \in {"EEXIST", "ENOENT", "EINVAL", "EIO"}
             /\ errno[p] = "EEXIST" => fn[p].name = "ringfile_create" /\ file.exists
             /\ errno[p] = "ENOENT" => fn[p].name = "ringfile_open" \/ ~file.dir
             /\ ~file.dir => errno[p] \in {"ENOENT", "EIO"}
  <2>1. FnOK(fn[p], h[p], errno[p], file)
    BY <1>1, Errno
  <2>2. fn[p].name \in Givers /\ Why(errno[p], CallOf(fn[p].name), file)
    BY <1>1, <2>1 DEF FnOK
  <2> QED
    BY <2>2 DEF Givers, Why, Reason, CallOf
<1>2. PInv => NullSaysWhy
  BY <1>1 DEF NullSaysWhy
<1> QED
  BY <1>2, InterfaceInvariant, PTL

(***************************************************************************)
(* The clients the code is right for: one that writes or creates at a time *)
(* and no size that bytes_max() cannot hold.                               *)
(***************************************************************************)
SoundUse == Careful /\ CreateSizes \subseteq SoundSizes

LEMMA StepFileInv ==
  ASSUME SoundUse, PInv, FileInv, [PNext]_pvars
  PROVE  FileInv'
<1>1. CASE UNCHANGED lvars
  BY <1>1, IdleFile
<1>2. ASSUME NEW p \in Procs, ObjectStep(p, CreateSizes)
      PROVE  FileInv'
  <2>1. ObjectStep(p, SoundSizes)
    BY <1>2 DEF SoundUse, ObjectStep
  <2> QED
    BY <2>1, StepFile DEF SoundUse
<1> QED
  BY <1>1, <1>2, PStepIs DEF pvars, lvars

THEOREM FileInvariant == SoundUse => (PSpec => []FileInv)
<1> SUFFICES ASSUME SoundUse PROVE PSpec => []FileInv
  OBVIOUS
<1>1. PInit => FileInv
  BY InitFile DEF PInit
<1>2. PInv /\ FileInv /\ [PNext]_pvars => FileInv'
  BY StepFileInv
<1> QED
  BY <1>1, <1>2, InterfaceInvariant, PTL DEF PSpec

(***************************************************************************)
(* What has been published stays, through every create, open, close, fault *)
(* and death of any number of processes.                                   *)
(***************************************************************************)
THEOREM PublishedStays == SoundUse => (PSpec => []PublishedIsKept)
<1> SUFFICES ASSUME SoundUse PROVE PSpec => []PublishedIsKept
  OBVIOUS
<1>1. FileInv => PublishedIsKept
  BY FileIsKept
<1> QED
  BY <1>1, FileInvariant, PTL

(***************************************************************************)
(* A stream is given on a whole ring only, and knows its size as long as   *)
(* it lives.                                                               *)
(***************************************************************************)
THEOREM StreamsAreWhole == SoundUse => (PSpec => []HandleIsWhole)
<1> SUFFICES ASSUME SoundUse PROVE PSpec => []HandleIsWhole
  OBVIOUS
<1>1. FileInv => HandleIsWhole
  BY FileIsKept
<1> QED
  BY <1>1, FileInvariant, PTL
==============================================================================
