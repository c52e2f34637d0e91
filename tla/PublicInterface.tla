--------------------------- MODULE PublicInterface ---------------------------
(***************************************************************************)
(* The C functions of include/ringfile.h around a Ringfile object          *)
(* (src/src/public_interface.cc): what they return, what they leave in     *)
(* errno, and when the object is made and destroyed.  Each process has one *)
(* thread, which uses one stream at a time and none that it has closed.    *)
(*                                                                         *)
(* Every function that fails stores to errno last, so what the system      *)
(* calls before leave there is not kept.                                   *)
(***************************************************************************)
EXTENDS Lifecycle

VARIABLES
  errno,   \* errno of each process
  fn       \* the function each process is in, or was in last, and its answer

pvars == <<file, h, kernel, events, errno, fn>>

NoFunction == [name |-> "none", size |-> 0, mode |-> "none", answer |-> "none"]

PInit ==
  /\ LInit
  /\ errno = [p \in Procs |-> "none"]
  /\ fn = [p \in Procs |-> NoFunction]

InFunction(p) == fn[p].name # "none" /\ fn[p].answer = "none"

Free(p) == ~InFunction(p)

HasStream(p) == Free(p) /\ h[p].pc = "idle"

Enter(p, name) == fn' = [fn EXCEPT ![p] = [NoFunction EXCEPT !.name = name]]

Answer(p, value) == fn' = [fn EXCEPT ![p].answer = value]

-----------------------------------------------------------------------------
(* ringfile_create and ringfile_open up to new RINGFILE(). *)
ringfile_create(p, n) ==
  /\ Free(p) /\ NewObject(p)
  /\ fn' = [fn EXCEPT ![p] = [NoFunction EXCEPT !.name = "ringfile_create", !.size = n]]
  /\ UNCHANGED errno

(* A mode that is neither "r" nor "a" is refused before. *)
ringfile_open(p, mode) ==
  /\ Free(p) /\ h[p].pc = "none"
  /\ IF mode = "other"
       THEN /\ fn' = [fn EXCEPT ![p] = [name |-> "ringfile_open", size |-> 0, mode |-> mode,
                                        answer |-> "NULL"]]
            /\ UNCHANGED <<file, h, kernel, events>>
       ELSE /\ NewObject(p)
            /\ fn' = [fn EXCEPT ![p] = [NoFunction EXCEPT !.name = "ringfile_open", !.mode = mode]]
  /\ UNCHANGED errno

(* Their calls of Create and Open on the new object. *)
CallImpl(p) ==
  /\ InFunction(p) /\ h[p].call = "none"
  /\ \/ fn[p].name = "ringfile_create" /\ CallCreate(p, fn[p].size)
     \/ fn[p].name = "ringfile_open" /\ CallOpen(p, fn[p].mode)
  /\ UNCHANGED <<errno, fn>>

ringfile_write(p) ==
  HasStream(p) /\ CallWrite(p) /\ Enter(p, "ringfile_write") /\ UNCHANGED errno

ringfile_read(p) ==
  /\ HasStream(p) /\ Call(p, "Read", "read")
  /\ Enter(p, "ringfile_read") /\ UNCHANGED errno

ringfile_next_record_size(p) ==
  /\ HasStream(p) /\ Call(p, "NextRecordSize", "size")
  /\ Enter(p, "ringfile_next_record_size") /\ UNCHANGED errno

ringfile_close(p) ==
  /\ HasStream(p) /\ Destroy(p)
  /\ fn' = [fn EXCEPT ![p] = [NoFunction EXCEPT !.name = "ringfile_close", !.answer = "void"]]
  /\ UNCHANGED errno

ImplStep(p) == (HandleStep(p) \/ SystemCallFails(p)) /\ UNCHANGED <<errno, fn>>

Gives(p) == fn[p].name \in {"ringfile_create", "ringfile_open"}

ImplReturned(p, value) == InFunction(p) /\ h[p].pc = "idle" /\ h[p].ret = value

(* The call of the object has succeeded. *)
Succeeds(p) ==
  /\ ImplReturned(p, "true")
  /\ Answer(p, IF Gives(p) THEN "stream" ELSE "0")
  /\ UNCHANGED <<file, h, kernel, events, errno>>

(* Bug: the object is not deleted. *)
Delete_Forgotten(p) == UNCHANGED <<file, h, kernel, events>>

Delete(p) == Destroy(p)

(* It has failed: error_ goes to errno, and an object that was to become a *)
(* stream is deleted.                                                      *)
Fails(p) ==
  /\ ImplReturned(p, "false")
  /\ errno' = [errno EXCEPT ![p] = h[p].error]
  /\ \/ Gives(p) /\ Delete(p) /\ Answer(p, "NULL")
     \/ ~Gives(p) /\ Answer(p, "-1") /\ UNCHANGED <<file, h, kernel, events>>

ProcessDies(p) ==
  /\ Crash(p)
  /\ fn' = [fn EXCEPT ![p] = NoFunction]
  /\ errno' = [errno EXCEPT ![p] = "none"]

PNext == \E p \in Procs :
  \/ \E n \in CreateSizes : ringfile_create(p, n)
  \/ \E mode \in OpenModes : ringfile_open(p, mode)
  \/ CallImpl(p) \/ ImplStep(p) \/ Succeeds(p) \/ Fails(p)
  \/ ringfile_write(p) \/ ringfile_read(p) \/ ringfile_next_record_size(p)
  \/ ringfile_close(p)
  \/ ProcessDies(p)

PSpec == PInit /\ [][PNext]_pvars

-----------------------------------------------------------------------------
(***************************************************************************)
(* A create or an open that fails, at whichever of its steps, leaves the   *)
(* process with what it had: no object, no descriptor and no mapping.      *)
(***************************************************************************)
NullLeavesNothing ==
  \A p \in Procs :
    fn[p].answer = "NULL" => h[p].pc = "none" /\ kernel[p] = HeldByNone

(***************************************************************************)
(* errno then tells the client what to do next: it is the number of an     *)
(* error, EEXIST only if create found a file, which is still there to be   *)
(* opened.  ENOENT comes from an open that found no file, and from a       *)
(* create only for the directory it lacks, as the tests of both layers     *)
(* have it (ringfile_test.cc:13-14, public_interface_test.cc:12): where    *)
(* the directory is there, a creator is never told that its path is not.   *)
(* (A refused mode leaves errno alone.)                                    *)
(***************************************************************************)
NullSaysWhy ==
  \A p \in Procs :
    fn[p].answer = "NULL" /\ fn[p].mode # "other" =>
      /\ errno[p] \in {"EEXIST", "ENOENT", "EINVAL", "EIO"}
      /\ errno[p] = "EEXIST" => fn[p].name = "ringfile_create" /\ file.exists
      /\ errno[p] = "ENOENT" => fn[p].name = "ringfile_open" \/ ~file.dir
      /\ ~file.dir => errno[p] \in {"ENOENT", "EIO"}
==============================================================================
