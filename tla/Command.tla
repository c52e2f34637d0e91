------------------------------- MODULE Command -------------------------------
(***************************************************************************)
(* The command ringfile on one path: Command::Write, which opens the file  *)
(* or creates it and appends the lines of its input, and Command::Read,    *)
(* which prints the records (src/src/command.cc), with their exit status.  *)
(* The options are CommandLine's matter; Command::Stat reads and prints.   *)
(***************************************************************************)
EXTENDS Lifecycle

CONSTANTS
  Inputs,      \* numbers of lines on the standard input of appending commands
  SizeOptions  \* the sizes given with --size, -1 for none

ASSUME CommandAssumption == Inputs \subseteq Nat /\ SizeOptions \subseteq Int

VARIABLES
  cmd,   \* the command each process runs
  cut    \* auxiliary: a Create ended before the file had its magic number

cvars == <<file, h, kernel, events, cmd, cut>>

NoCommand ==
  [mode |-> "none",
   size |-> -1,        \* --size
   given |-> 0,        \* auxiliary: lines of its input
   lines |-> 0,        \* lines still to read
   exit |-> "none",    \* the exit status
   done |-> 0,         \* auxiliary: records written, or printed
   present |-> 0,      \* auxiliary: records in the file when it was opened
   failed |-> FALSE,   \* auxiliary: a system call of it has failed
   good |-> TRUE]      \* auxiliary: the records printed were those, in order

CInit == LInit /\ cmd = [p \in Procs |-> NoCommand] /\ cut = FALSE

Runs(p, mode) == cmd[p].mode = mode /\ cmd[p].exit = "none"

ImplReturned(p, call, value) == h[p].pc = "idle" /\ h[p].call = call /\ h[p].ret = value

(* A command is started, whose input leaves the ring short of full. *)
Start(p, mode, size, lines) ==
  /\ Runs(p, "none") /\ events.published + lines <= MaxRecords
  /\ NewObject(p)
  /\ cmd' = [cmd EXCEPT ![p] = [NoCommand EXCEPT !.mode = mode, !.size = size,
                                                !.given = lines, !.lines = lines]]

(* The destructor closes the file; main returns the status. *)
Exit(p, status) ==
  /\ Destroy(p)
  /\ cmd' = [cmd EXCEPT ![p].exit = status]

Collected(p) ==
  cmd[p].exit # "none" /\ cmd' = [cmd EXCEPT ![p] = NoCommand] /\ UNCHANGED lvars

-----------------------------------------------------------------------------
(* Open has found no file, and there is a size for a new one. *)
MayCreate(p) == h[p].error = "ENOENT" /\ cmd[p].size # -1

(* Command::Write: the file is opened, or else created if --size says so. *)
OpenOrCreate(p) ==
  /\ Runs(p, "append")
  /\ \/ h[p].call = "none" /\ CallOpen(p, "append") /\ UNCHANGED cmd
     \/ /\ ImplReturned(p, "Open", "false") /\ MayCreate(p)
        /\ CallCreate(p, cmd[p].size) /\ UNCHANGED cmd

CannotOpen(p) ==
  /\ Runs(p, "append")
  /\ \/ ImplReturned(p, "Open", "false") /\ ~MayCreate(p)
     \/ ImplReturned(p, "Create", "false")
  /\ Exit(p, "1")

LineWritten(p) == ImplReturned(p, "Write", "true")

(* Bug: the return value of Write is not looked at. *)
ReadyForLine_Unchecked(p) ==
  \/ ImplReturned(p, "Open", "true") \/ ImplReturned(p, "Create", "true")
  \/ LineWritten(p) \/ ImplReturned(p, "Write", "false")

ReadyForLine(p) ==
  \/ ImplReturned(p, "Open", "true") \/ ImplReturned(p, "Create", "true")
  \/ LineWritten(p)

Counted(p) == cmd[p].done + (IF LineWritten(p) THEN 1 ELSE 0)

(* getline, and Write of the line; or the end of the input. *)
NextLine(p) ==
  /\ Runs(p, "append") /\ ReadyForLine(p)
  /\ \/ /\ cmd[p].lines > 0 /\ CallWrite(p)
        /\ cmd' = [cmd EXCEPT ![p].lines = @ - 1, ![p].done = Counted(p)]
     \/ /\ cmd[p].lines = 0
        /\ Destroy(p)
        /\ cmd' = [cmd EXCEPT ![p].exit = "0", ![p].done = Counted(p)]

CannotWrite(p) ==
  Runs(p, "append") /\ ImplReturned(p, "Write", "false") /\ Exit(p, "1")

-----------------------------------------------------------------------------
(* Command::Read. *)
OpenToRead(p) ==
  Runs(p, "read") /\ h[p].call = "none" /\ CallOpen(p, "read") /\ UNCHANGED cmd

(* The loop: the next size, until there is none; the record; its output. *)
LookAhead(p) ==
  /\ Runs(p, "read")
  /\ \/ /\ ImplReturned(p, "Open", "true")
        /\ cmd' = [cmd EXCEPT ![p].present = file.end]
     \/ /\ ImplReturned(p, "Read", "true")
        /\ cmd' = [cmd EXCEPT ![p].done = @ + 1, ![p].good = @ /\ h[p].arg = cmd[p].done + 1]
  /\ Call(p, "NextRecordSize", "size")

ReadNext(p) ==
  /\ Runs(p, "read") /\ ImplReturned(p, "NextRecordSize", "true")
  /\ Call(p, "Read", "read") /\ UNCHANGED cmd

LoopIsOver(p) ==
  Runs(p, "read") /\ ImplReturned(p, "NextRecordSize", "false") /\ Exit(p, "0")

CannotRead(p) ==
  /\ Runs(p, "read")
  /\ \/ ImplReturned(p, "Open", "false")
     \/ ImplReturned(p, "Read", "false")
  /\ Exit(p, "1")

(* The process is killed: there is no exit status of the command. *)
CommandDies(p) ==
  /\ Crash(p)
  /\ cmd' = [cmd EXCEPT ![p] = NoCommand]

CommandStep(p) ==
  \/ OpenOrCreate(p) \/ CannotOpen(p) \/ NextLine(p) \/ CannotWrite(p)
  \/ OpenToRead(p) \/ LookAhead(p) \/ ReadNext(p) \/ LoopIsOver(p) \/ CannotRead(p)
  \/ HandleStep(p) /\ UNCHANGED cmd
  \/ SystemCallFails(p) /\ cmd' = [cmd EXCEPT ![p].failed = TRUE]

(* Create fails, or its process dies, with the file made and not marked. *)
CreationCut == \E p \in Procs : InCreate(p) /\ ~InCreate(p)' /\ ~file'.magic

CommandNext == \E p \in Procs :
  \/ \E size \in SizeOptions, lines \in Inputs : Start(p, "append", size, lines)
  \/ Start(p, "read", -1, 0)
  \/ CommandStep(p) \/ Collected(p) \/ CommandDies(p)

CNext == CommandNext /\ cut' = (cut \/ CreationCut)

CSpec == CInit /\ [][CNext]_cvars

-----------------------------------------------------------------------------
(***************************************************************************)
(* The exit status 0 of an appending command means that it has written     *)
(* every line of its input, and that they are in the file with those of    *)
(* all commands before, whichever of them found no file, failed to create  *)
(* one, failed to write or died.                                           *)
(***************************************************************************)
LinesAreKept ==
  \A p \in Procs : cmd[p].mode = "append" /\ cmd[p].exit = "0" =>
    cmd[p].done = cmd[p].given /\ cmd[p].given <= file.end /\ file.end = events.published

(***************************************************************************)
(* README.md, "Read all records from a file": the exit status 0 of a       *)
(* reading command means that it has printed, in order, records from the   *)
(* first one on, and all that were there when it opened the file, unless a *)
(* read() failed: NextRecordSize says "false" to that as to the end.       *)
(***************************************************************************)
AllIsPrinted ==
  \A p \in Procs : cmd[p].mode = "read" /\ cmd[p].exit = "0" =>
    cmd[p].good /\ (~cmd[p].failed => cmd[p].done >= cmd[p].present)

(***************************************************************************)
(* An appending command that may create its file never fails just because  *)
(* others run beside it: if it does, a system call of its own has failed,  *)
(* or there is no directory, or the file is a ring that the next command   *)
(* can open, or another one is about to make it one, or a Create was cut   *)
(* short.  The last is the code's: the file it leaves has no magic number, *)
(* can be neither opened nor created again, and fails every append after.  *)
(***************************************************************************)
FailureHasAReason ==
  \A p \in Procs : cmd[p].mode = "append" /\ cmd[p].exit = "1" /\ cmd[p].size # -1 =>
    cmd[p].failed \/ ~file.dir \/ file.magic \/ (\E q \in Procs : InCreate(q)) \/ cut
=============================================================================
