---------------------------- MODULE CommandProofs ----------------------------
(***************************************************************************)
(* Theorems about the command, for any number of commands at a time, any   *)
(* input and any faults, on rings that their lines do not fill; and about  *)
(* the options of one, for any command line.                               *)
(***************************************************************************)
EXTENDS Command, CommandLine, LifecycleProofs, FiniteSetTheorems

Statuses == {"none", "0", "1"}
CommandModes == {"none", "append", "read"}

Cmd ==
  [mode : CommandModes, size : Int, given : Nat, lines : Nat, exit : Statuses,
   done : Nat, present : Int, failed : BOOLEAN, good : BOOLEAN]

(* An appending command c and its handle x: which call it is in, what is    *)
(* known of its outcome, and where each of its lines is.                    *)
AppendCalls(c, x, f) ==
  /\ x.pc \in Making \cup {"idle", "dead", "write"}
  /\ x.call \in {"none", "Open", "Create", "Write"}
  /\ x.pc = "open" => x.mode = "append"
  /\ x.pc = "idle" /\ x.call \in {"Open", "Create"} /\ x.ret = "false" =>
       /\ Reason(x.error, x.call, f)
       /\ x.error = "EINVAL" => f.exists
       /\ x.error = "EIO" => c.failed
  /\ x.pc = "idle" /\ x.call \in {"Open", "Create"} /\ x.ret = "true" => x.header = "mapped"
  /\ x.pc = "write" => x.call = "Write"
  /\ x.call = "Write" => x.pc \in {"write", "idle", "dead"}
  /\ x.call = "Write" /\ x.pc # "dead" => x.header = "mapped"

AppendLines(c, x, ev) ==
  /\ x.call # "Write" => c.done + c.lines = c.given /\ c.done <= ev.published
  /\ x.pc = "write" => c.done + 1 + c.lines = c.given /\ c.done <= ev.published
  /\ x.pc = "idle" /\ x.call = "Write" /\ x.ret = "true" =>
       c.done + 1 + c.lines = c.given /\ c.done + 1 <= ev.published

Appends(c, x, f, ev) == AppendCalls(c, x, f) /\ AppendLines(c, x, ev)

(* A reading command c and its handle x, whose offset is at the record      *)
(* that is to be printed next.                                              *)
ReadCalls(x) ==
  /\ x.pc \in Making \cup {"idle", "dead", "size", "read"}
  /\ x.call \in {"none", "Open", "NextRecordSize", "Read"}
  /\ x.pc = "open" => x.mode = "read"
  /\ x.pc = "idle" /\ x.call = "Open" /\ x.ret = "true" => x.header = "mapped" /\ x.at = 0
  /\ x.pc = "size" => x.call = "NextRecordSize"
  /\ x.pc = "read" => x.call = "Read"
  /\ x.call = "NextRecordSize" => x.pc \in {"size", "idle", "dead"}
  /\ x.call = "Read" => x.pc \in {"read", "idle", "dead"}
  /\ x.call \in {"NextRecordSize", "Read"} /\ x.pc # "dead" => x.header = "mapped"

ReadRecords(c, x, ev) ==
  /\ c.good /\ c.present <= ev.published
  /\ x.call \in {"none", "Open"} => c.done = 0
  /\ x.pc \in {"size", "read"} \/ (x.pc = "idle" /\ x.call = "NextRecordSize") =>
       x.at = c.done /\ x.at <= ev.published
  /\ x.pc = "read" \/ (x.pc = "idle" /\ x.call = "NextRecordSize" /\ x.ret = "true") =>
       x.at < ev.published
  /\ x.pc = "idle" /\ x.call = "NextRecordSize" /\ x.ret = "false" =>
       c.failed \/ c.present <= x.at
  /\ x.pc = "idle" /\ x.call = "Read" /\ x.ret = "true" =>
       x.at = c.done + 1 /\ x.arg = c.done + 1 /\ x.at <= ev.published

Reads(c, x, ev) == ReadCalls(x) /\ ReadRecords(c, x, ev)

CmdOK(c, x, f, ev) ==
  /\ c.mode = "append" => c.size \in SizeOptions
  /\ c.mode = "append" /\ c.exit = "none" => Appends(c, x, f, ev)
  /\ c.mode = "append" /\ c.exit = "0" => c.done = c.given /\ c.done <= ev.published
  /\ c.mode = "append" /\ c.exit = "1" /\ c.size # -1 => c.failed \/ ~f.dir \/ f.exists
  /\ c.mode = "read" /\ c.exit = "none" => Reads(c, x, ev)
  /\ c.mode = "read" /\ c.exit = "0" => c.good /\ (c.failed \/ c.present <= c.done)

CmdInv ==
  /\ FileInv
  /\ cmd \in [Procs -> Cmd]
  /\ \A p \in Procs : CmdOK(cmd[p], h[p], file, events)

(***************************************************************************)
(* The uses the command is right for: one command writes or creates at a   *)
(* time, and --size is no size that bytes_max() cannot hold.               *)
(***************************************************************************)
SoundCommands == Careful /\ SizeOptions \subseteq SoundSizes

-----------------------------------------------------------------------------
LEMMA CmdFields ==
  ASSUME NEW c \in Cmd
  PROVE  /\ DOMAIN c = {"mode", "size", "given", "lines", "exit", "done", "present", "failed", "good"}
         /\ c.mode \in CommandModes /\ c.size \in Int /\ c.given \in Nat /\ c.lines \in Nat
         /\ c.exit \in Statuses /\ c.done \in Nat /\ c.present \in Int
         /\ c.failed \in BOOLEAN /\ c.good \in BOOLEAN
BY DEF Cmd

LEMMA CmdNames ==
  /\ "none" \in CommandModes /\ "append" \in CommandModes /\ "read" \in CommandModes
  /\ "none" \in Statuses /\ "0" \in Statuses /\ "1" \in Statuses
BY DEF CommandModes, Statuses

LEMMA NoCommandIs ==
  /\ NoCommand \in Cmd
  /\ NoCommand.mode = "none" /\ NoCommand.exit = "none"
  /\ NoCommand.done = 0 /\ NoCommand.present = 0 /\ NoCommand.good = TRUE
<1>1. PICK z \in Nat : z = 0
  OBVIOUS
<1>2. PICK m \in Int : m = -1
  OBVIOUS
<1>3. [mode |-> "none", size |-> m, given |-> z, lines |-> z, exit |-> "none", done |-> z,
       present |-> z, failed |-> FALSE, good |-> TRUE] \in Cmd
  BY CmdNames DEF Cmd
<1> QED
  BY <1>1, <1>2, <1>3 DEF NoCommand

LEMMA CmdOf ==
  ASSUME CmdInv, NEW p \in Procs
  PROVE  /\ FileInv /\ HeldInv /\ h[p] \in Handle /\ Staged(h[p]) /\ cmd[p] \in Cmd
         /\ CmdOK(cmd[p], h[p], file, events)
         /\ FileOK(file, events) /\ KnowsFile(h[p], file, events)
         /\ [cmd EXCEPT ![p] = cmd[p]] = cmd
         /\ events.published \in Nat /\ file.end = events.published
BY FileOf, HandleIs DEF CmdInv, FileOK

(* No step of a command undoes what another one knows. *)
LEMMA CmdReplaced ==
  ASSUME CmdInv, FileInv', NEW p \in Procs, NEW y, h' = [h EXCEPT ![p] = y],
         NEW c \in Cmd, cmd' = [cmd EXCEPT ![p] = c],
         file'.dir = file.dir, file.exists => file'.exists, events.published <= events'.published,
         CmdOK(c, y, file', events')
  PROVE  CmdInv'
<1>1. /\ cmd' \in [Procs -> Cmd] /\ h'[p] = y /\ cmd'[p] = c
      /\ \A q \in Procs : q # p => h'[q] = h[q] /\ cmd'[q] = cmd[q]
  BY DEF CmdInv, FileInv, HeldInv, LTypeOK
<1>2. events.published \in Nat /\ events'.published \in Nat
  BY DEF CmdInv, FileInv, HeldInv, LTypeOK
<1>3. ASSUME NEW b \in Cmd, NEW x \in Handle, CmdOK(b, x, file, events)
      PROVE  CmdOK(b, x, file', events')
  <2>1. b.done \in Nat /\ b.present \in Int /\ x.at \in Int
    BY CmdFields, HandleFields
  <2>2. Appends(b, x, file, events) => Appends(b, x, file', events')
    BY <1>2, <2>1 DEF Appends, AppendCalls, AppendLines, Reason
  <2>3. Reads(b, x, events) => Reads(b, x, events')
    BY <1>2, <2>1 DEF Reads, ReadRecords
  <2> QED
    BY <1>2, <1>3, <2>1, <2>2, <2>3 DEF CmdOK
<1>4. ASSUME NEW q \in Procs
      PROVE  CmdOK(cmd'[q], h'[q], file', events')
  <2>1. CASE q = p
    BY <1>1, <2>1
  <2>2. CASE q # p
    BY <1>1, <1>3, <2>2, CmdOf
  <2> QED
    BY <2>1, <2>2
<1> QED
  BY <1>1, <1>4 DEF CmdInv

LEMMA CStepIs ==
  ASSUME CmdInv, CommandNext
  PROVE  UNCHANGED lvars \/ \E p \in Procs : ObjectStep(p, SizeOptions)
<1>1. PICK p \in Procs :
        \/ \E space \in SizeOptions, lines \in Inputs : Start(p, "append", space, lines)
        \/ Start(p, "read", -1, 0)
        \/ CommandStep(p) \/ Collected(p) \/ CommandDies(p)
  BY DEF CommandNext
<1>2. CASE OpenOrCreate(p)
  <2>1. CmdOK(cmd[p], h[p], file, events)
    BY CmdOf
  <2>2. cmd[p].size \in SizeOptions
    BY <1>2, <2>1 DEF OpenOrCreate, Runs, CmdOK
  <2> QED
    BY <1>2, <2>2 DEF OpenOrCreate, ObjectStep
<1>3. CASE ~OpenOrCreate(p)
  BY <1>1, <1>3 DEF Start, CommandStep, Collected, CommandDies, CannotOpen, NextLine,
    CannotWrite, Exit, OpenToRead, LookAhead, ReadNext, LoopIsOver, CannotRead, ObjectStep
<1> QED
  BY <1>2, <1>3

LEMMA CStepFile ==
  ASSUME SoundCommands, CmdInv, CommandNext
  PROVE  /\ FileInv'
         /\ file'.dir = file.dir
         /\ file.exists => file'.exists
         /\ events.published <= events'.published
<1>1. FileInv /\ HeldInv
  BY DEF CmdInv, FileInv
<1>2. CASE UNCHANGED lvars
  <2>1. events.published \in Nat
    BY <1>1 DEF HeldInv, LTypeOK
  <2> QED
    BY <1>1, <1>2, <2>1, IdleFile DEF lvars
<1>3. ASSUME NEW p \in Procs, ObjectStep(p, SizeOptions)
      PROVE  /\ FileInv'
             /\ file'.dir = file.dir
             /\ file.exists => file'.exists
             /\ events.published <= events'.published
  <2>1. ObjectStep(p, Int)
    BY <1>3, CommandAssumption DEF ObjectStep
  <2>2. ObjectStep(p, SoundSizes)
    BY <1>3 DEF SoundCommands, ObjectStep
  <2> QED
    BY <1>1, <2>1, <2>2, StepFile, FileStays, PublishedGrows DEF SoundCommands
<1> QED
  BY <1>2, <1>3, CStepIs

LEMMA InitCmd == CInit => CmdInv
<1> SUFFICES ASSUME CInit PROVE CmdInv
  OBVIOUS
<1>1. FileInv
  BY InitFile DEF CInit
<1>2. CmdOK(NoCommand, NoObject, file, events)
  BY NoCommandIs DEF CmdOK
<1> QED
  BY <1>1, <1>2, NoCommandIs DEF CInit, LInit, CmdInv

-----------------------------------------------------------------------------
LEMMA StartCmd ==
  ASSUME SoundCommands, CmdInv, CommandNext, NEW p \in Procs,
         \/ \E space \in SizeOptions, lines \in Inputs : Start(p, "append", space, lines)
         \/ Start(p, "read", -1, 0)
  PROVE  CmdInv'
<1>0. /\ FileInv' /\ file'.dir = file.dir /\ (file.exists => file'.exists) /\ events.published <= events'.published
      /\ HeldInv /\ events.published \in Nat
  BY CStepFile, CmdOf
<1>1. PICK way \in {"append", "read"}, space \in Int, lines \in Nat :
        Start(p, way, space, lines) /\ (way = "append" => space \in SizeOptions)
  BY CommandAssumption
<1>2. PICK y \in Handle : /\ h' = [h EXCEPT ![p] = y]
                          /\ y.pc = "idle" /\ y.call = "none" /\ UNCHANGED events
  BY <1>0, <1>1, NewObjectIs DEF Start
<1> DEFINE c == [NoCommand EXCEPT !.mode = way, !.size = space, !.given = lines, !.lines = lines]
<1>3. c \in Cmd
  BY NoCommandIs, CmdNames DEF Cmd
<1>4. /\ c.mode = way /\ c.size = space /\ c.given = lines /\ c.lines = lines
      /\ c.exit = "none" /\ c.done = 0 /\ c.present = 0 /\ c.good
  BY DEF NoCommand
<1>5. cmd' = [cmd EXCEPT ![p] = c]
  BY <1>1 DEF Start
<1> HIDE DEF c
<1>6. CASE way = "append"
  <2>1. Appends(c, y, file', events')
    BY <1>0, <1>2, <1>4 DEF Appends, AppendCalls, AppendLines
  <2>2. CmdOK(c, y, file', events')
    BY <1>1, <1>4, <1>6, <2>1 DEF CmdOK
  <2> QED
    BY <1>0, <1>2, <1>3, <1>5, <2>2, CmdReplaced
<1>7. CASE way = "read"
  <2>1. Reads(c, y, events')
    BY <1>0, <1>2, <1>4 DEF Reads, ReadCalls, ReadRecords
  <2>2. CmdOK(c, y, file', events')
    BY <1>4, <1>7, <2>1 DEF CmdOK
  <2> QED
    BY <1>0, <1>2, <1>3, <1>5, <2>2, CmdReplaced
<1> QED
  BY <1>6, <1>7

(* A command that is not running asks nothing of the handle. *)
LEMMA ExitCmd ==
  ASSUME SoundCommands, CmdInv, CommandNext, NEW p \in Procs,
         NEW c \in Cmd, cmd' = [cmd EXCEPT ![p] = c], NEW y, h' = [h EXCEPT ![p] = y],
         UNCHANGED <<file, events>>, c.exit # "none",
         c.mode = "append" => c.size \in SizeOptions,
         c.mode = "append" /\ c.exit = "0" => c.done = c.given /\ c.done <= events.published,
         c.mode = "append" /\ c.exit = "1" /\ c.size # -1 => c.failed \/ ~file.dir \/ file.exists,
         c.mode = "read" /\ c.exit = "0" => c.good /\ (c.failed \/ c.present <= c.done)
  PROVE  CmdInv'
<1>1. FileInv' /\ file'.dir = file.dir /\ (file.exists => file'.exists) /\ events.published <= events'.published
  BY CStepFile
<1>2. CmdOK(c, y, file', events')
  BY DEF CmdOK
<1> QED
  BY <1>1, <1>2, CmdReplaced

LEMMA ExitIs ==
  ASSUME CmdInv, NEW p \in Procs, NEW s \in Statuses, Exit(p, s)
  PROVE  \E c \in Cmd :
           /\ cmd' = [cmd EXCEPT ![p] = c] /\ h' = [h EXCEPT ![p] = NoObject]
           /\ c.exit = s /\ c.mode = cmd[p].mode /\ c.size = cmd[p].size
           /\ c.given = cmd[p].given /\ c.done = cmd[p].done /\ c.present = cmd[p].present
           /\ c.failed = cmd[p].failed /\ c.good = cmd[p].good
           /\ UNCHANGED <<file, events>>
<1>1. PICK b \in Cmd : b = cmd[p]
  BY CmdOf
<1> DEFINE c == [b EXCEPT !.exit = s]
<1>2. c \in Cmd
  BY DEF Cmd
<1>3. /\ c.exit = s /\ c.mode = b.mode /\ c.size = b.size /\ c.given = b.given /\ c.done = b.done
      /\ c.present = b.present /\ c.failed = b.failed /\ c.good = b.good
  BY CmdFields
<1>4. cmd' = [cmd EXCEPT ![p] = c] /\ h' = [h EXCEPT ![p] = NoObject] /\ UNCHANGED <<file, events>>
  BY <1>1 DEF Exit, Destroy, CmdInv
<1> QED
  BY <1>1, <1>2, <1>3, <1>4

LEMMA OpenCmd ==
  ASSUME SoundCommands, CmdInv, CommandNext, NEW p \in Procs, OpenOrCreate(p) \/ CannotOpen(p)
  PROVE  CmdInv'
<1>0. /\ FileInv' /\ file'.dir = file.dir /\ (file.exists => file'.exists) /\ events.published <= events'.published
      /\ HeldInv /\ events.published \in Nat
  BY CStepFile, CmdOf
<1>1. PICK x \in Handle : x = h[p]
  BY CmdOf
<1>2. PICK c \in Cmd : /\ c = cmd[p] /\ CmdOK(c, x, file, events)
                       /\ cmd = [cmd EXCEPT ![p] = c]
  BY <1>1, CmdOf
<1>3. c.mode = "append" /\ c.exit = "none" /\ c.size \in SizeOptions /\ Appends(c, x, file, events)
  BY <1>2 DEF OpenOrCreate, CannotOpen, Runs, CmdOK
<1>4. CASE OpenOrCreate(p)
  <2>1. UNCHANGED cmd /\ x.call # "Write"
    BY <1>1, <1>4 DEF OpenOrCreate, ImplReturned
  <2>2. PICK y \in Handle :
          /\ h' = [h EXCEPT ![p] = y]
          /\ \/ y.pc = "open" /\ y.call = "Open" /\ y.mode = "append"
             \/ y.pc = "creat" /\ y.call = "Create"
          /\ UNCHANGED events
    <3>1. "append" \in Modes /\ c.size \in Int
      BY CmdFields DEF Modes
    <3>2. CallOpen(p, "append") \/ CallCreate(p, c.size)
      BY <1>2, <1>4 DEF OpenOrCreate
    <3> QED
      BY <1>0, <3>1, <3>2, OpenCallIs, CreateCallIs
  <2>3. Appends(c, y, file', events')
    BY <1>3, <2>1, <2>2 DEF Appends, AppendCalls, AppendLines, Making
  <2>4. CmdOK(c, y, file', events')
    BY <1>3, <2>3 DEF CmdOK
  <2> QED
    BY <1>0, <1>2, <2>1, <2>2, <2>4, CmdReplaced
<1>5. CASE CannotOpen(p)
  <2>1. /\ x.pc = "idle" /\ x.call \in {"Open", "Create"} /\ x.ret = "false"
        /\ x.call = "Open" => ~(x.error = "ENOENT" /\ c.size # -1)
        /\ Exit(p, "1")
    BY <1>1, <1>2, <1>5 DEF CannotOpen, ImplReturned, MayCreate
  <2>2. c.size # -1 => c.failed \/ ~file.dir \/ file.exists
    BY <1>3, <2>1 DEF Appends, AppendCalls, Reason
  <2>3. PICK b \in Cmd :
          /\ cmd' = [cmd EXCEPT ![p] = b] /\ h' = [h EXCEPT ![p] = NoObject]
          /\ b.exit = "1" /\ b.mode = c.mode /\ b.size = c.size /\ b.failed = c.failed
          /\ UNCHANGED <<file, events>>
    BY <1>2, <2>1, CmdNames, ExitIs
  <2> QED
    BY <1>3, <2>2, <2>3, ExitCmd
<1> QED
  BY <1>4, <1>5

LEMMA LineCmd ==
  ASSUME SoundCommands, CmdInv, CommandNext, NEW p \in Procs, NextLine(p) \/ CannotWrite(p)
  PROVE  CmdInv'
<1>0. /\ FileInv' /\ file'.dir = file.dir /\ (file.exists => file'.exists) /\ events.published <= events'.published
      /\ HeldInv /\ events.published \in Nat
  BY CStepFile, CmdOf
<1>1. PICK x \in Handle : x = h[p] /\ Staged(x) /\ KnowsFile(x, file, events)
  BY CmdOf
<1>2. PICK c \in Cmd : /\ c = cmd[p] /\ CmdOK(c, x, file, events)
  BY <1>1, CmdOf
<1>3. c.mode = "append" /\ c.exit = "none" /\ c.size \in SizeOptions /\ Appends(c, x, file, events)
  BY <1>2 DEF NextLine, CannotWrite, Runs, CmdOK
<1>4. CASE NextLine(p)
  <2>1. /\ x.pc = "idle" /\ x.call \in {"Open", "Create", "Write"} /\ x.ret = "true"
    BY <1>1, <1>4 DEF NextLine, ReadyForLine, LineWritten, ImplReturned
  <2>2. x.header = "mapped"
    BY <1>3, <2>1 DEF Appends, AppendCalls
  <2>3. PICK n \in Nat : n = Counted(p) /\ n + c.lines = c.given /\ n <= events.published
    <3>1. c.done \in Nat /\ c.lines \in Nat
      BY CmdFields
    <3>2. Counted(p) = c.done + (IF x.call = "Write" THEN 1 ELSE 0)
      BY <1>1, <1>2, <2>1 DEF Counted, LineWritten, ImplReturned
    <3>3. Counted(p) + c.lines = c.given /\ Counted(p) <= events.published
      BY <1>3, <2>1, <3>1, <3>2 DEF Appends, AppendLines
    <3> QED
      BY <3>1, <3>2, <3>3
  <2>4. CASE c.lines > 0 /\ CallWrite(p) /\ cmd' = [cmd EXCEPT ![p].lines = @ - 1, ![p].done = Counted(p)]
    <3>1. PICK m \in Nat : m = c.lines - 1
      BY <2>4, CmdFields
    <3> DEFINE b == [c EXCEPT !.lines = m, !.done = n]
    <3>2. b \in Cmd
      BY DEF Cmd
    <3>3. /\ b.lines = m /\ b.done = n /\ b.mode = c.mode /\ b.exit = c.exit /\ b.size = c.size
          /\ b.given = c.given
      BY CmdFields
    <3>4. cmd' = [cmd EXCEPT ![p] = b]
      BY <1>2, <2>3, <2>4, <3>1 DEF CmdInv
    <3> HIDE DEF b
    <3>5. "Write" \in CallNames /\ "write" \in Steps
      BY DEF CallNames, Steps
    <3>6. PICK y \in Handle :
            /\ h' = [h EXCEPT ![p] = y]
            /\ y.pc = "write" /\ y.call = "Write" /\ y.header = x.header /\ UNCHANGED events
      BY <1>0, <1>1, <2>4, <3>5, CallIs DEF CallWrite
    <3>7. b.done + 1 + b.lines = b.given /\ b.done <= events.published
      BY <2>3, <3>1, <3>3, CmdFields
    <3>8. Appends(b, y, file', events')
      BY <2>2, <3>6, <3>7 DEF Appends, AppendCalls, AppendLines
    <3>9. CmdOK(b, y, file', events')
      BY <1>3, <3>3, <3>8 DEF CmdOK
    <3> QED
      BY <1>0, <3>2, <3>4, <3>6, <3>9, CmdReplaced
  <2>5. CASE c.lines = 0 /\ Destroy(p) /\ cmd' = [cmd EXCEPT ![p].exit = "0", ![p].done = Counted(p)]
    <3> DEFINE b == [c EXCEPT !.exit = "0", !.done = n]
    <3>1. b \in Cmd
      BY CmdNames DEF Cmd
    <3>2. /\ b.exit = "0" /\ b.done = n /\ b.mode = c.mode /\ b.size = c.size
          /\ b.given = c.given
      BY CmdFields
    <3>3. cmd' = [cmd EXCEPT ![p] = b]
      BY <1>2, <2>3, <2>5 DEF CmdInv
    <3> HIDE DEF b
    <3>4. b.done = b.given /\ b.done <= events.published
      BY <2>3, <2>5, <3>2
    <3>5. h' = [h EXCEPT ![p] = NoObject] /\ UNCHANGED <<file, events>>
      BY <2>5 DEF Destroy
    <3> QED
      BY <1>3, <3>1, <3>2, <3>3, <3>4, <3>5, ExitCmd
  <2> QED
    BY <1>2, <1>4, <2>4, <2>5 DEF NextLine
<1>5. CASE CannotWrite(p)
  <2>1. x.pc = "idle" /\ x.call = "Write" /\ Exit(p, "1")
    BY <1>1, <1>5 DEF CannotWrite, ImplReturned
  <2>2. x.header = "mapped"
    BY <1>3, <2>1 DEF Appends, AppendCalls
  <2>3. file.exists
    BY <1>1, <2>2 DEF Staged, KnowsFile
  <2>4. PICK b \in Cmd :
          /\ cmd' = [cmd EXCEPT ![p] = b] /\ h' = [h EXCEPT ![p] = NoObject]
          /\ b.exit = "1" /\ b.mode = c.mode /\ b.size = c.size
          /\ UNCHANGED <<file, events>>
    BY <1>2, <2>1, CmdNames, ExitIs
  <2> QED
    BY <1>3, <2>3, <2>4, ExitCmd
<1> QED
  BY <1>4, <1>5

-----------------------------------------------------------------------------
LEMMA ReadCmd ==
  ASSUME SoundCommands, CmdInv, CommandNext, NEW p \in Procs,
         OpenToRead(p) \/ LookAhead(p) \/ ReadNext(p) \/ LoopIsOver(p) \/ CannotRead(p)
  PROVE  CmdInv'
<1>0. /\ FileInv' /\ file'.dir = file.dir /\ (file.exists => file'.exists) /\ events.published <= events'.published
      /\ HeldInv /\ events.published \in Nat /\ file.end = events.published
  BY CStepFile, CmdOf
<1>1. PICK x \in Handle : x = h[p]
  BY CmdOf
<1>2. PICK c \in Cmd : /\ c = cmd[p] /\ CmdOK(c, x, file, events)
                       /\ cmd = [cmd EXCEPT ![p] = c]
  BY <1>1, CmdOf
<1>3. c.mode = "read" /\ c.exit = "none" /\ Reads(c, x, events) /\ c.done \in Nat
  BY <1>2, CmdFields DEF OpenToRead, LookAhead, ReadNext, LoopIsOver, CannotRead, Runs, CmdOK
<1>4. "NextRecordSize" \in CallNames /\ "Read" \in CallNames /\ "size" \in Steps /\ "read" \in Steps
  BY DEF CallNames, Steps
<1>5. CASE OpenToRead(p)
  <2>1. "read" \in Modes
    BY DEF Modes
  <2>2. PICK y \in Handle :
          /\ h' = [h EXCEPT ![p] = y]
          /\ y.pc = "open" /\ y.call = "Open" /\ y.mode = "read" /\ UNCHANGED events
    BY <1>0, <1>5, <2>1, OpenCallIs DEF OpenToRead
  <2>3. x.call = "none" /\ UNCHANGED cmd
    BY <1>1, <1>5 DEF OpenToRead
  <2>4. Reads(c, y, events')
    BY <1>3, <2>2, <2>3 DEF Reads, ReadCalls, ReadRecords, Making
  <2>5. CmdOK(c, y, file', events')
    BY <1>3, <2>4 DEF CmdOK
  <2> QED
    BY <1>0, <1>2, <2>2, <2>3, <2>5, CmdReplaced
<1>6. CASE LookAhead(p)
  <2>1. PICK y \in Handle :
          /\ h' = [h EXCEPT ![p] = y]
          /\ y.pc = "size" /\ y.call = "NextRecordSize" /\ y.header = x.header /\ y.at = x.at
          /\ UNCHANGED <<file, events>>
    BY <1>0, <1>1, <1>4, <1>6, CallIs DEF LookAhead
  <2>2. CASE ImplReturned(p, "Open", "true") /\ cmd' = [cmd EXCEPT ![p].present = file.end]
    <3>1. PICK n \in Int : n = file.end
      BY <1>0
    <3> DEFINE b == [c EXCEPT !.present = n]
    <3>2. b \in Cmd
      BY DEF Cmd
    <3>3. /\ b.present = n /\ b.mode = c.mode /\ b.exit = c.exit /\ b.done = c.done
          /\ b.good = c.good
      BY CmdFields
    <3>4. cmd' = [cmd EXCEPT ![p] = b]
      BY <1>2, <2>2, <3>1 DEF CmdInv
    <3> HIDE DEF b
    <3>5. x.header = "mapped" /\ x.at = 0 /\ c.done = 0 /\ c.good
      BY <1>1, <1>3, <2>2 DEF ImplReturned, Reads, ReadCalls, ReadRecords
    <3>6. Reads(b, y, events')
      BY <1>0, <2>1, <3>1, <3>3, <3>5 DEF Reads, ReadCalls, ReadRecords
    <3>7. CmdOK(b, y, file', events')
      BY <1>3, <3>3, <3>6 DEF CmdOK
    <3> QED
      BY <1>0, <2>1, <3>2, <3>4, <3>7, CmdReplaced
  <2>3. CASE /\ ImplReturned(p, "Read", "true")
             /\ cmd' = [cmd EXCEPT ![p].done = @ + 1, ![p].good = @ /\ h[p].arg = cmd[p].done + 1]
    <3>1. PICK n \in Nat : n = c.done + 1
      BY <1>3
    <3>2. /\ x.header = "mapped" /\ x.at = n /\ x.arg = n /\ x.at <= events.published /\ c.good
          /\ c.present <= events.published
      BY <1>1, <1>3, <2>3, <3>1 DEF ImplReturned, Reads, ReadCalls, ReadRecords
    <3> DEFINE b == [c EXCEPT !.done = n, !.good = TRUE]
    <3>3. b \in Cmd
      BY DEF Cmd
    <3>4. /\ b.present = c.present /\ b.mode = c.mode /\ b.exit = c.exit /\ b.done = n
          /\ b.good
      BY CmdFields
    <3>5. (c.good /\ h[p].arg = cmd[p].done + 1) = TRUE
      BY <1>1, <1>2, <3>1, <3>2, CmdFields
    <3>6. cmd' = [cmd EXCEPT ![p].done = n, ![p].good = TRUE]
      BY <1>2, <2>3, <3>1, <3>5
    <3>7. cmd' = [cmd EXCEPT ![p] = b]
      BY <1>2, <3>6 DEF CmdInv
    <3> HIDE DEF b
    <3>8. Reads(b, y, events')
      BY <1>0, <2>1, <3>2, <3>4 DEF Reads, ReadCalls, ReadRecords
    <3>9. CmdOK(b, y, file', events')
      BY <1>3, <3>4, <3>8 DEF CmdOK
    <3> QED
      BY <1>0, <2>1, <3>3, <3>7, <3>9, CmdReplaced
  <2> QED
    BY <1>6, <2>2, <2>3 DEF LookAhead
<1>7. CASE ReadNext(p)
  <2>1. PICK y \in Handle :
          /\ h' = [h EXCEPT ![p] = y]
          /\ y.pc = "read" /\ y.call = "Read" /\ y.header = x.header /\ y.at = x.at
          /\ UNCHANGED <<file, events>>
    BY <1>0, <1>1, <1>4, <1>7, CallIs DEF ReadNext
  <2>2. x.pc = "idle" /\ x.call = "NextRecordSize" /\ x.ret = "true" /\ UNCHANGED cmd
    BY <1>1, <1>7 DEF ReadNext, ImplReturned
  <2>3. Reads(c, y, events')
    BY <1>3, <2>1, <2>2 DEF Reads, ReadCalls, ReadRecords
  <2>4. CmdOK(c, y, file', events')
    BY <1>3, <2>3 DEF CmdOK
  <2> QED
    BY <1>0, <1>2, <2>1, <2>2, <2>4, CmdReplaced
<1>8. CASE LoopIsOver(p)
  <2>1. /\ x.pc = "idle" /\ x.call = "NextRecordSize" /\ x.ret = "false" /\ Exit(p, "0")
    BY <1>1, <1>8 DEF LoopIsOver, ImplReturned
  <2>2. c.good /\ (c.failed \/ c.present <= c.done)
    BY <1>3, <2>1 DEF Reads, ReadRecords
  <2>3. PICK b \in Cmd :
          /\ cmd' = [cmd EXCEPT ![p] = b] /\ h' = [h EXCEPT ![p] = NoObject]
          /\ b.exit = "0" /\ b.mode = c.mode /\ b.failed = c.failed /\ b.good = c.good
          /\ b.present = c.present /\ b.done = c.done
          /\ UNCHANGED <<file, events>>
    BY <1>2, <2>1, CmdNames, ExitIs
  <2> QED
    BY <1>3, <2>2, <2>3, ExitCmd
<1>9. CASE CannotRead(p)
  <2>1. PICK b \in Cmd :
          /\ cmd' = [cmd EXCEPT ![p] = b] /\ h' = [h EXCEPT ![p] = NoObject]
          /\ b.exit = "1" /\ b.mode = c.mode
          /\ UNCHANGED <<file, events>>
    BY <1>2, <1>9, CmdNames, ExitIs DEF CannotRead
  <2> QED
    BY <1>3, <2>1, ExitCmd
<1> QED
  BY <1>5, <1>6, <1>7, <1>8, <1>9

(***************************************************************************)
(* A step of the handle: what the call of the command comes to.            *)
(***************************************************************************)
LEMMA HandleCmd ==
  ASSUME SoundCommands, CmdInv, CommandNext, NEW p \in Procs,
         HandleStep(p) \/ SystemCallFails(p),
         NEW b \in Cmd, cmd' = [cmd EXCEPT ![p] = b],
         /\ b.mode = cmd[p].mode /\ b.size = cmd[p].size /\ b.exit = cmd[p].exit
         /\ b.given = cmd[p].given /\ b.lines = cmd[p].lines /\ b.done = cmd[p].done
         /\ b.present = cmd[p].present /\ b.good = cmd[p].good,
         cmd[p].failed => b.failed,
         b.failed \/ HandleStep(p)
  PROVE  CmdInv'
<1>0. /\ FileInv' /\ file'.dir = file.dir /\ (file.exists => file'.exists) /\ events.published <= events'.published
      /\ HeldInv /\ FileInv /\ events.published \in Nat /\ file.end = events.published
      /\ events'.published \in Nat
  <2>1. HeldInv'
    BY CStepFile DEF FileInv
  <2> QED
    BY <2>1, CStepFile, CmdOf DEF HeldInv, LTypeOK
<1>1. PICK x \in Handle : x = h[p] /\ Staged(x) /\ KnowsFile(x, file, events)
  BY CmdOf
<1>2. PICK c \in Cmd : c = cmd[p] /\ CmdOK(c, x, file, events) /\ c.done \in Nat /\ c.present \in Int
  BY <1>1, CmdOf, CmdFields
<1>3. x.pc \notin {"none", "idle", "dead"}
  BY <1>1 DEF HandleStep, SystemCallFails, Creat, Truncate, StoreMagic, StoreEndOffset,
    OpenPath, StatFile, Map, CheckMagic, WriteRecord, NextRecordSize, ReadRecord, EndOfFile
<1>4. CASE c.mode = "append" /\ c.exit = "none" /\ x.pc \in Making
  <2>1. Appends(c, x, file, events)
    BY <1>2, <1>4 DEF CmdOK
  <2>2. x.pc = "open" => x.mode # "other"
    BY <2>1 DEF Appends, AppendCalls
  <2>3. PICK y \in Handle :
          /\ h' = [h EXCEPT ![p] = y]
          /\ y.pc \in (Making \ {"creat", "open"}) \cup {"idle", "dead"}
          /\ y.call = x.call
          /\ y.pc = "idle" /\ y.ret = "false" =>
               /\ Reason(y.error, x.call, file)
               /\ y.error = "EINVAL" => x.fd # "none"
               /\ y.error = "EIO" => ~HandleStep(p)
          /\ y.pc = "idle" /\ y.ret = "true" => y.header = "mapped"
    BY <1>0, <1>1, <1>4, <2>2, MakingStep
  <2>4. x.call \in {"Open", "Create"} /\ (x.fd # "none" => file.exists)
    BY <1>1, <1>4 DEF Making, CreateSteps, Staged, KnowsFile
  <2>5. AppendCalls(b, y, file')
    BY <1>0, <2>3, <2>4 DEF AppendCalls, Reason, Making, CreateSteps
  <2>6. AppendLines(b, y, events')
    BY <1>0, <1>2, <2>1, <2>3, <2>4 DEF Appends, AppendLines, Making, CreateSteps
  <2>7. CmdOK(b, y, file', events')
    BY <1>2, <1>4, <2>5, <2>6 DEF CmdOK, Appends
  <2> QED
    BY <1>0, <2>3, <2>7, CmdReplaced
<1>5. CASE c.mode = "append" /\ c.exit = "none" /\ x.pc \notin Making
  <2>1. Appends(c, x, file, events) /\ x.pc = "write" /\ x.call = "Write" /\ x.header = "mapped"
    BY <1>2, <1>3, <1>5 DEF CmdOK, Appends, AppendCalls
  <2>2. PICK y \in Handle :
          /\ h' = [h EXCEPT ![p] = y] /\ y.call = x.call /\ UsedFrom(x, y, file)
          /\ y.ret = "true" => events'.published = events.published + 1
    BY <1>0, <1>1, <2>1, UsingStep DEF Using
  <2>3. y.pc = "idle" /\ y.call = "Write" /\ y.header = "mapped"
    BY <2>1, <2>2 DEF UsedFrom
  <2>4. Appends(b, y, file', events')
    BY <1>0, <1>2, <2>1, <2>2, <2>3 DEF Appends, AppendCalls, AppendLines
  <2>5. CmdOK(b, y, file', events')
    BY <1>2, <1>5, <2>4 DEF CmdOK
  <2> QED
    BY <1>0, <2>2, <2>5, CmdReplaced
<1>6. CASE c.mode = "read" /\ c.exit = "none" /\ x.pc \in Making
  <2>1. Reads(c, x, events)
    BY <1>2, <1>6 DEF CmdOK
  <2>2. x.pc = "open" => x.mode # "other"
    BY <2>1 DEF Reads, ReadCalls
  <2>3. PICK y \in Handle :
          /\ h' = [h EXCEPT ![p] = y]
          /\ y.pc \in (Making \ {"creat", "open"}) \cup {"idle", "dead"}
          /\ y.call = x.call
          /\ y.pc = "idle" /\ y.ret = "true" =>
               y.header = "mapped" /\ (x.call = "Open" => y.at = 0)
    BY <1>0, <1>1, <1>6, <2>2, MakingStep
  <2>4. x.call = "Open"
    BY <1>1, <1>6, <2>1 DEF Making, CreateSteps, Staged, Reads, ReadCalls
  <2>5. Reads(b, y, events')
    BY <1>0, <1>2, <2>1, <2>3, <2>4 DEF Reads, ReadCalls, ReadRecords, Making, CreateSteps
  <2>6. CmdOK(b, y, file', events')
    BY <1>2, <1>6, <2>5 DEF CmdOK
  <2> QED
    BY <1>0, <2>3, <2>6, CmdReplaced
<1>7. CASE c.mode = "read" /\ c.exit = "none" /\ x.pc \notin Making
  <2>1. /\ Reads(c, x, events) /\ x.pc \in {"size", "read"} /\ x.header = "mapped"
        /\ x.pc = "size" => x.call = "NextRecordSize"
        /\ x.pc = "read" => x.call = "Read"
    BY <1>2, <1>3, <1>7 DEF CmdOK, Reads, ReadCalls
  <2>2. PICK y \in Handle :
          /\ h' = [h EXCEPT ![p] = y] /\ y.call = x.call
          /\ \/ y.pc = "dead"
             \/ /\ UsedFrom(x, y, file)
                /\ x.pc = "size" /\ y.ret = "false" /\ x.at < file.end => ~HandleStep(p)
    BY <1>0, <1>1, <2>1, UsingStep DEF Using
  <2>3. CASE y.pc = "dead"
    <3>1. Reads(b, y, events')
      BY <1>0, <1>2, <2>1, <2>2, <2>3 DEF Reads, ReadCalls, ReadRecords
    <3>2. CmdOK(b, y, file', events')
      BY <1>2, <1>7, <3>1 DEF CmdOK
    <3> QED
      BY <1>0, <2>2, <3>2, CmdReplaced
  <2>4. CASE y.pc # "dead"
    <3>1. UsedFrom(x, y, file) /\ y.pc = "idle" /\ y.header = "mapped"
      BY <2>2, <2>4 DEF UsedFrom
    <3>2. ReadCalls(y)
      BY <2>1, <2>2, <3>1 DEF ReadCalls
    <3>3. x.at = c.done /\ x.at <= events.published /\ (x.pc = "read" => x.at < events.published)
      BY <2>1 DEF Reads, ReadRecords
    <3>4. ReadRecords(b, y, events')
      <4>1. CASE x.pc = "size"
        BY <1>0, <1>2, <2>1, <2>2, <3>1, <3>3, <4>1 DEF UsedFrom, Reads, ReadRecords
      <4>2. CASE x.pc = "read"
        <5>1. x.at \in 0 .. file.end - 1
          BY <1>0, <1>2, <3>3, <4>2
        <5> QED
          BY <1>0, <1>2, <2>1, <2>2, <3>1, <3>3, <4>2, <5>1 DEF UsedFrom, Reads, ReadRecords
      <4> QED
        BY <2>1, <4>1, <4>2
    <3>5. CmdOK(b, y, file', events')
      BY <1>2, <1>7, <3>2, <3>4 DEF CmdOK, Reads
    <3> QED
      BY <1>0, <2>2, <3>5, CmdReplaced
  <2> QED
    BY <2>3, <2>4
<1>8. CASE ~(c.mode \in {"append", "read"} /\ c.exit = "none")
  <2>1. PICK y : h' = [h EXCEPT ![p] = y]
    BY <1>0, OneHandle
  <2>2. CmdOK(b, y, file', events')
    BY <1>0, <1>2, <1>8 DEF CmdOK
  <2> QED
    BY <1>0, <2>1, <2>2, CmdReplaced
<1> QED
  BY <1>4, <1>5, <1>6, <1>7, <1>8

LEMMA StepCmd ==
  ASSUME SoundCommands, CmdInv, [CNext]_cvars
  PROVE  CmdInv'
<1>1. ASSUME CommandNext, NEW p \in Procs, HandleStep(p), UNCHANGED cmd
      PROVE  CmdInv'
  <2>1. cmd[p] \in Cmd /\ cmd' = [cmd EXCEPT ![p] = cmd[p]]
    BY <1>1, CmdOf
  <2> QED
    BY <1>1, <2>1, HandleCmd
<1>2. ASSUME CommandNext, NEW p \in Procs, SystemCallFails(p), cmd' = [cmd EXCEPT ![p].failed = TRUE]
      PROVE  CmdInv'
  <2>1. PICK c \in Cmd : c = cmd[p]
    BY CmdOf
  <2> DEFINE b == [c EXCEPT !.failed = TRUE]
  <2>2. b \in Cmd
    BY DEF Cmd
  <2>3. /\ b.mode = c.mode /\ b.size = c.size /\ b.exit = c.exit /\ b.given = c.given
        /\ b.lines = c.lines /\ b.done = c.done /\ b.present = c.present /\ b.good = c.good
        /\ b.failed
    BY CmdFields
  <2>4. cmd' = [cmd EXCEPT ![p] = b]
    BY <1>2, <2>1 DEF CmdInv
  <2> HIDE DEF b
  <2> QED
    BY <1>2, <2>1, <2>2, <2>3, <2>4, HandleCmd
<1>3. ASSUME CommandNext, NEW p \in Procs, Collected(p) \/ CommandDies(p)
      PROVE  CmdInv'
  <2>1. FileInv' /\ file'.dir = file.dir /\ (file.exists => file'.exists) /\ events.published <= events'.published
    BY <1>3, CStepFile
  <2>2. PICK y : h' = [h EXCEPT ![p] = y]
    <3>1. h = [h EXCEPT ![p] = h[p]]
      BY DEF CmdInv, FileInv, HeldInv, LTypeOK
    <3> QED
      BY <1>3, <3>1 DEF Collected, CommandDies, Crash, lvars
  <2>3. cmd' = [cmd EXCEPT ![p] = NoCommand]
    BY <1>3 DEF Collected, CommandDies
  <2>4. CmdOK(NoCommand, y, file', events')
    BY NoCommandIs DEF CmdOK
  <2> QED
    BY <2>1, <2>2, <2>3, <2>4, NoCommandIs, CmdReplaced
<1>4. CASE CNext
  BY <1>1, <1>2, <1>3, <1>4, StartCmd, OpenCmd, LineCmd, ReadCmd DEF CNext, CommandNext, CommandStep
<1>5. CASE UNCHANGED cvars
  <2>1. FileInv'
    BY <1>5, IdleFile DEF CmdInv, cvars, lvars
  <2> QED
    BY <1>5, <2>1 DEF CmdInv, cvars
<1> QED
  BY <1>4, <1>5

-----------------------------------------------------------------------------
(* The invariant of the commands, their handles and the file. *)
THEOREM CommandInvariant == SoundCommands => (CSpec => []CmdInv)
<1> SUFFICES ASSUME SoundCommands PROVE CSpec => []CmdInv
  OBVIOUS
<1>1. CmdInv /\ [CNext]_cvars => CmdInv'
  BY StepCmd
<1> QED
  BY <1>1, InitCmd, PTL DEF CSpec

(***************************************************************************)
(* An appending command that exits with 0 has every line of its input in   *)
(* the file, with the lines of all commands before it.                     *)
(***************************************************************************)
THEOREM AppendedLinesStay == SoundCommands => (CSpec => []LinesAreKept)
<1> SUFFICES ASSUME SoundCommands PROVE CSpec => []LinesAreKept
  OBVIOUS
<1>1. ASSUME CmdInv, NEW p \in Procs, cmd[p].mode = "append", cmd[p].exit = "0"
      PROVE  /\ cmd[p].done = cmd[p].given /\ cmd[p].given <= file.end
             /\ file.end = events.published
  BY <1>1, CmdOf DEF CmdOK
<1>2. CmdInv => LinesAreKept
  BY <1>1 DEF LinesAreKept
<1> QED
  BY <1>2, CommandInvariant, PTL

(***************************************************************************)
(* A reading command that exits with 0 has printed records in order and    *)
(* from the first on, all that it found unless a read() failed.            *)
(***************************************************************************)
THEOREM ReadPrintsAll == SoundCommands => (CSpec => []AllIsPrinted)
<1> SUFFICES ASSUME SoundCommands PROVE CSpec => []AllIsPrinted
  OBVIOUS
<1>1. ASSUME CmdInv, NEW p \in Procs, cmd[p].mode = "read", cmd[p].exit = "0"
      PROVE  cmd[p].good /\ (~cmd[p].failed => cmd[p].done >= cmd[p].present)
  <2>1. PICK c \in Cmd : c = cmd[p] /\ c.good /\ (c.failed \/ c.present <= c.done)
    BY <1>1, CmdOf DEF CmdOK
  <2> QED
    BY <2>1, CmdFields
<1>2. CmdInv => AllIsPrinted
  BY <1>1 DEF AllIsPrinted
<1> QED
  BY <1>2, CommandInvariant, PTL

(* A file without a magic number is one that a Create is still making, or   *)
(* has been cut short of making.                                           *)
CutInv ==
  /\ cut \in BOOLEAN
  /\ file.exists => file.magic \/ cut \/ \E p \in Procs : InCreate(p)

LEMMA StepCut ==
  ASSUME CmdInv, CutInv, CNext
  PROVE  CutInv'
<1>1. cut' \in BOOLEAN /\ (cut \/ CreationCut => cut')
  BY DEF CNext, CutInv
<1>2. /\ file.magic => file'.magic
      /\ file'.exists => file.exists \/ \E p \in Procs : InCreate(p)'
  <2>1. CASE UNCHANGED lvars
    BY <2>1 DEF lvars
  <2>2. ASSUME NEW p \in Procs, ObjectStep(p, SizeOptions)
        PROVE  /\ file.magic => file'.magic
               /\ file'.exists => file.exists \/ InCreate(p)'
    <3>1. ObjectStep(p, Int)
      BY <2>2, CommandAssumption DEF ObjectStep
    <3> QED
      BY <3>1, MagicStays DEF CmdInv
  <2> QED
    BY <2>1, <2>2, CStepIs DEF CNext
<1>3. ASSUME file'.exists, ~file'.magic, NEW p \in Procs, InCreate(p)
      PROVE  cut' \/ InCreate(p)'
  BY <1>1, <1>3 DEF CreationCut
<1>4. ASSUME file'.exists, ~file'.magic
      PROVE  cut' \/ \E p \in Procs : InCreate(p)'
  BY <1>1, <1>2, <1>3, <1>4 DEF CutInv
<1> QED
  BY <1>1, <1>4 DEF CutInv

(***************************************************************************)
(* One that may create its file, and exits with 1, has met a failing       *)
(* system call, a path without a directory, a ring that is there, another  *)
(* creator at its work, or what a creator left that was cut short: never   *)
(* just the race with other commands.                                      *)
(***************************************************************************)
THEOREM FailedAppendHasAReason == SoundCommands => (CSpec => []FailureHasAReason)
<1> SUFFICES ASSUME SoundCommands PROVE CSpec => []FailureHasAReason
  OBVIOUS
<1>1. ASSUME CInit PROVE CutInv
  <2>1. ~file.exists
    BY <1>1 DEF CInit, LInit, NoFile
  <2>2. cut \in BOOLEAN
    BY <1>1 DEF CInit
  <2> QED
    BY <2>1, <2>2 DEF CutInv
<1>2. CmdInv /\ CutInv /\ [CNext]_cvars => CutInv'
  <2>1. CASE UNCHANGED cvars
    BY <2>1 DEF cvars, CutInv, InCreate
  <2> QED
    BY <2>1, StepCut
<1>3. ASSUME CmdInv, NEW p \in Procs,
             cmd[p].mode = "append", cmd[p].exit = "1", cmd[p].size # -1
      PROVE  cmd[p].failed \/ ~file.dir \/ file.exists
  BY <1>3, CmdOf DEF CmdOK
<1>4. CmdInv /\ CutInv => FailureHasAReason
  BY <1>3 DEF CutInv, FailureHasAReason
<1> QED
  BY <1>1, <1>2, <1>4, CommandInvariant, PTL DEF CSpec

-----------------------------------------------------------------------------
(* The arguments of some kinds that getopt_long has handed out. *)
Seen(opts) == {j \in Given(opts) : j < i}

SizeFrom(j) == Wrap(args[j].number * Factor(args[j].unit))

(* What the options seen have made of the variables; none was refused. *)
Parsed ==
  /\ Seen({"r"}) = {}
  /\ \A j \in Seen({"size"}) : Acceptable(j)
  /\ \/ mode = "unspecified" /\ Seen({"stat", "append"}) = {}
     \/ \E j \in DOMAIN args : Seen({"stat", "append"}) = {j} /\ mode = args[j].opt
  /\ verbose <=> Seen({"verbose"}) # {}
  /\ \/ size = -1 /\ Seen({"size"}) = {}
     \/ \E j \in Seen({"size"}) : (\A k \in Seen({"size"}) : k <= j) /\ size = SizeFrom(j)

OptInv ==
  /\ args \in Seq(Flag \cup Size)
  /\ i \in 1 .. Len(args) + 1
  /\ mode \in {"unspecified", "stat", "append", "read"}
  /\ verbose \in BOOLEAN
  /\ status \in {"parsing", "help", "false", "true", "0", "1", "stat", "append", "read"}
  /\ Given({"help"}) = {} =>
       /\ status \notin {"help", "0"}
       /\ status = "parsing" => Parsed
       /\ status \in {"false", "1"} => Refused
       /\ status \in {"true", "stat", "append", "read"} =>
            ~Refused /\ AsGiven /\ mode # "unspecified"

-----------------------------------------------------------------------------
LEMMA GivenIsFinite ==
  ASSUME args \in Seq(Flag \cup Size), NEW opts
  PROVE  IsFiniteSet(Given(opts))
<1>1. Len(args) \in Nat /\ Given(opts) \in SUBSET (1 .. Len(args))
  BY DEF Given
<1>2. IsFiniteSet(1 .. Len(args))
  BY <1>1, FS_Interval
<1> QED
  BY <1>1, <1>2, FS_Subset

(* An argument is taken. *)
LEMMA SeenNext ==
  ASSUME args' = args, i' = i + 1, i \in 1 .. Len(args), Len(args) \in Nat,
         args \in Seq(Flag \cup Size), NEW CONSTANT opts
  PROVE  /\ Given(opts)' = Given(opts)
         /\ Seen(opts)' = IF args[i].opt \in opts THEN Seen(opts) \cup {i} ELSE Seen(opts)
         /\ i \notin Seen(opts)
<1>1. Given(opts)' = Given(opts)
  BY DEF Given
<1>2. Seen(opts)' = {j \in Given(opts) : j < i + 1}
  BY <1>1 DEF Seen
<1>3. \A j \in Given(opts) : j \in Nat /\ (j < i + 1 <=> j < i \/ j = i)
  BY DEF Given
<1>4. i \in Given(opts) <=> args[i].opt \in opts
  BY DEF Given
<1> QED
  BY <1>1, <1>2, <1>3, <1>4 DEF Seen

(* At the end all are seen. *)
LEMMA SeenAll ==
  ASSUME args \in Seq(Flag \cup Size), i > Len(args), i \in Nat, NEW opts
  PROVE  Seen(opts) = Given(opts)
<1>1. \A j \in Given(opts) : j \in 1 .. Len(args)
  BY DEF Given
<1> QED
  BY <1>1 DEF Seen

LEMMA ArgIs ==
  ASSUME args \in Seq(Flag \cup Size), NEW j \in DOMAIN args
  PROVE  /\ args[j].opt \in Flags \cup {"file", "size"}
         /\ args[j].number \in Int /\ args[j].unit \in Units
         /\ args[j].opt = "size" => args[j].number \in Numbers
<1>1. args[j] \in Flag \cup Size
  OBVIOUS
<1>2. CASE args[j] \in Flag
  <2>1. args[j].opt \in Flags \cup {"file"} /\ args[j].number = 0 /\ args[j].unit = ""
    BY <1>2 DEF Flag
  <2>2. args[j].opt # "size"
    BY <2>1 DEF Flags
  <2>3. args[j].unit \in Units
    BY <2>1 DEF Units
  <2>4. args[j].number \in Int
    <3>1. PICK z \in Int : z = 0
      OBVIOUS
    <3> QED
      BY <2>1, <3>1
  <2> QED
    BY <2>1, <2>2, <2>3, <2>4
<1>3. CASE args[j] \in Size
  BY <1>3, CommandLineAssumption DEF Size
<1> QED
  BY <1>1, <1>2, <1>3

(* What fits a long is not changed. *)
LEMMA WrapFits ==
  ASSUME NEW n \in Nat, n <= LongMax
  PROVE  Wrap(n) = n
<1>1. LongMax \in Nat
  BY CommandLineAssumption
<1>2. PICK m \in Nat \ {0} : m = 2 * (LongMax + 1)
  BY <1>1
<1>3. PICK x \in 0 .. m - 1 : x = n + LongMax + 1
  BY <1>1, <1>2
<1>4. x % m = x
  <2>1. PICK k \in Int : x = k * m + (x % m) /\ x % m \in 0 .. m - 1
    <3>1. x \in Int /\ m \in Nat \ {0}
      BY <1>2, <1>3
    <3>2. x \div m \in Int /\ x = (x \div m) * m + (x % m) /\ x % m \in 0 .. m - 1
      BY <3>1
    <3> QED
      BY <3>2
  <2>2. CASE k = 0
    BY <2>1, <2>2
  <2>3. CASE k >= 1
    <3>1. k * m >= m /\ k * m \in Int
      BY <2>3
    <3> QED
      BY <1>2, <1>3, <2>1, <3>1
  <2>4. CASE k <= -1
    <3>1. k * m <= -m /\ k * m \in Int
      BY <2>4
    <3> QED
      BY <1>2, <1>3, <2>1, <3>1
  <2> QED
    BY <2>1, <2>2, <2>3, <2>4
<1> QED
  BY <1>1, <1>2, <1>3, <1>4 DEF Wrap

LEMMA BytesIs ==
  ASSUME args \in Seq(Flag \cup Size), NEW j \in DOMAIN args, Acceptable(j),
         Bytes(args[j]) <= LongMax
  PROVE  SizeFrom(j) = Bytes(args[j])
<1>1. PICK n \in Nat : n = args[j].number
  BY DEF Acceptable
<1>2. PICK f \in Nat : f = Factor(args[j].unit)
  <2>1. Kilo \in Nat
    BY CommandLineAssumption
  <2>2. Kilo * Kilo \in Nat
    BY <2>1
  <2>3. Kilo * Kilo * Kilo \in Nat
    BY <2>1, <2>2
  <2> QED
    BY <2>1, <2>2, <2>3 DEF Factor
<1>3. Bytes(args[j]) = n * f
  BY <1>1, <1>2 DEF Bytes, Factor
<1>4. n * f \in Nat
  OBVIOUS
<1>5. Wrap(n * f) = n * f
  BY <1>3, <1>4, WrapFits
<1> QED
  BY <1>1, <1>2, <1>3, <1>5 DEF SizeFrom

-----------------------------------------------------------------------------
(* Two modes are given if one is seen and another one comes. *)
LEMMA TwoModes ==
  ASSUME args \in Seq(Flag \cup Size), NEW j \in Given({"stat", "append"}),
         NEW k \in Given({"stat", "append"}), j # k
  PROVE  Refused
<1> DEFINE S == Given({"stat", "append"})
<1>1. IsFiniteSet(S) /\ {j, k} \in SUBSET S
  BY GivenIsFinite
<1>2. IsFiniteSet({j}) /\ Cardinality({j}) = 1
  BY FS_Singleton
<1>3. Cardinality({j} \cup {k}) = Cardinality({j}) + 1
  <2>1. k \notin {j}
    OBVIOUS
  <2> QED
    BY <1>2, <2>1, FS_AddElement
<1>4. {j} \cup {k} = {j, k}
  OBVIOUS
<1>5. Cardinality({j, k}) <= Cardinality(S)
  BY <1>1, FS_Subset
<1>6. Cardinality(S) \in Nat
  BY <1>1, FS_CardinalityType
<1> HIDE DEF S
<1>7. Cardinality(S) > 1
  <2>1. Cardinality({j, k}) = 2
    <3>1. Cardinality({j, k}) = Cardinality({j}) + 1
      BY <1>3, <1>4
    <3> QED
      BY <1>2, <3>1
  <2> QED
    BY <1>5, <1>6, <2>1
<1> QED
  BY <1>7 DEF Refused, S

(* What is given, and whether it makes sense, does not change. *)
LEMMA SameArgs ==
  ASSUME args' = args
  PROVE  /\ Refused' = Refused
         /\ \A j : Acceptable(j)' = Acceptable(j) /\ SizeFrom(j)' = SizeFrom(j)
         /\ \A opts : Given(opts)' = Given(opts)
         /\ LastSize' = LastSize
BY DEF Refused, Acceptable, SizeFrom, Given, LastSize

-----------------------------------------------------------------------------
LEMMA OptInvInit ==
  ASSUME OInit
  PROVE  OptInv
<1>1. PICK n \in 0 .. MaxArgs : args \in [1 .. n -> Flag \cup Size]
  BY DEF OInit
<1>2. n \in Nat
  BY <1>1, CommandLineAssumption
<1>3. args \in Seq(Flag \cup Size) /\ Len(args) \in Nat
  BY <1>1, <1>2
<1>4. i \in 1 .. Len(args) + 1
  BY <1>3 DEF OInit
<1>5. \A opts : Seen(opts) = {}
  <2>1. \A opts : \A j \in Given(opts) : j \in 1 .. Len(args)
    BY <1>3 DEF Given
  <2> QED
    BY <2>1 DEF Seen, OInit
<1>6. Parsed
  BY <1>5 DEF Parsed, OInit
<1> QED
  BY <1>3, <1>4, <1>6 DEF OptInv, OInit

(* What an option that is taken leaves of OptInv to show. *)
LEMMA OptionTaken ==
  ASSUME OptInv, More, args' = args, i' = i + 1
  PROVE  /\ args \in Seq(Flag \cup Size) /\ Len(args) \in Nat /\ i \in 1 .. Len(args)
         /\ args' \in Seq(Flag \cup Size) /\ i' \in 1 .. Len(args') + 1
         /\ i \in DOMAIN args
         /\ Given({"help"}) = {} => Parsed
BY DEF OptInv, More

LEMMA SkipFileKeeps ==
  ASSUME OptInv, SkipFile
  PROVE  OptInv'
<1>1. args' = args /\ i' = i + 1 /\ status' = "parsing" /\ args[i].opt = "file"
  BY DEF SkipFile, Then, Option
<1>2. More /\ mode' = mode /\ verbose' = verbose /\ size' = size
  BY DEF SkipFile
<1>3. /\ Seen({"r"})' = Seen({"r"}) /\ Seen({"size"})' = Seen({"size"})
      /\ Seen({"verbose"})' = Seen({"verbose"})
      /\ Seen({"stat", "append"})' = Seen({"stat", "append"})
  BY <1>1, <1>2, OptionTaken, SeenNext
<1>4. Parsed => Parsed'
  BY <1>1, <1>2, <1>3, SameArgs DEF Parsed
<1> QED
  BY <1>1, <1>2, <1>4, OptionTaken, SameArgs DEF OptInv

LEMMA HelpKeeps ==
  ASSUME OptInv, Help
  PROVE  OptInv'
<1>1. args' = args /\ i' = i + 1 /\ status' = "help" /\ args[i].opt = "help"
  BY DEF Help, Then, Option
<1>2. More /\ mode' = mode /\ verbose' = verbose /\ size' = size
  BY DEF Help
<1>3. i \in Given({"help"})
  BY <1>1, <1>2, OptionTaken DEF Given
<1>4. Given({"help"})' # {}
  BY <1>1, <1>3, SameArgs
<1> QED
  BY <1>1, <1>2, <1>4, OptionTaken DEF OptInv

LEMMA VerboseKeeps ==
  ASSUME OptInv, Verbose
  PROVE  OptInv'
<1>1. args' = args /\ i' = i + 1 /\ status' = "parsing" /\ args[i].opt = "verbose"
  BY DEF Verbose, Then, Option
<1>2. More /\ mode' = mode /\ verbose' = TRUE /\ size' = size
  BY DEF Verbose
<1>3. /\ Seen({"r"})' = Seen({"r"}) /\ Seen({"size"})' = Seen({"size"})
      /\ Seen({"verbose"})' = Seen({"verbose"}) \cup {i}
      /\ Seen({"stat", "append"})' = Seen({"stat", "append"})
  BY <1>1, <1>2, OptionTaken, SeenNext
<1>4. Parsed => Parsed'
  BY <1>1, <1>2, <1>3, SameArgs DEF Parsed
<1> QED
  BY <1>1, <1>2, <1>4, OptionTaken, SameArgs DEF OptInv

LEMMA SetModeKeeps ==
  ASSUME OptInv, SetMode
  PROVE  OptInv'
<1>1. /\ args' = args /\ i' = i + 1 /\ args[i].opt \in {"stat", "append"}
      /\ More /\ verbose' = verbose /\ size' = size
  BY DEF SetMode, Then, Option
<1>2. i \in Given({"stat", "append"})
  BY <1>1, OptionTaken DEF Given
<1>3. CASE mode = "unspecified"
  <2>1. mode' = args[i].opt /\ status' = "parsing"
    BY <1>3 DEF SetMode, OneModeOnly, Then, Option
  <2>2. /\ Seen({"r"})' = Seen({"r"}) /\ Seen({"size"})' = Seen({"size"})
        /\ Seen({"verbose"})' = Seen({"verbose"})
        /\ Seen({"stat", "append"})' = Seen({"stat", "append"}) \cup {i}
    BY <1>1, OptionTaken, SeenNext
  <2>3. ASSUME Parsed PROVE Seen({"stat", "append"}) = {}
    <3>1. ASSUME NEW j \in DOMAIN args, Seen({"stat", "append"}) = {j}, mode = args[j].opt
          PROVE  FALSE
      BY <1>3, <3>1 DEF Seen, Given
    <3> QED
      BY <2>3, <3>1 DEF Parsed
  <2>4. ASSUME Parsed PROVE Parsed'
    <3>1. Seen({"stat", "append"})' = {i} /\ mode' = args'[i].opt /\ i \in DOMAIN args'
      BY <1>1, <2>1, <2>2, <2>3, <2>4, OptionTaken
    <3> QED
      BY <1>1, <2>2, <2>4, <3>1, SameArgs DEF Parsed
  <2> QED
    BY <1>1, <2>1, <2>4, OptionTaken, SameArgs DEF OptInv
<1>4. CASE mode # "unspecified"
  <2>1. mode' = mode /\ status' = "false"
    BY <1>4 DEF SetMode, OneModeOnly, Then
  <2>2. ASSUME Parsed PROVE Refused
    <3>1. PICK j \in DOMAIN args : Seen({"stat", "append"}) = {j}
      BY <1>4, <2>2 DEF Parsed
    <3>2. j \in Given({"stat", "append"}) /\ j # i
      BY <1>1, <3>1, OptionTaken DEF Seen
    <3> QED
      BY <1>1, <1>2, <3>2, OptionTaken, TwoModes
  <2> QED
    BY <1>1, <2>1, <2>2, OptionTaken, SameArgs DEF OptInv
<1> QED
  BY <1>3, <1>4

LEMMA SetSizeKeeps ==
  ASSUME OptInv, SetSize
  PROVE  OptInv'
<1>1. /\ args' = args /\ i' = i + 1 /\ args[i].opt = "size"
      /\ More /\ verbose' = verbose /\ mode' = mode
  BY DEF SetSize, Then, Option
<1>2. i \in Given({"size"})
  BY <1>1, OptionTaken DEF Given
<1>3. LongMax \in Nat /\ args[i].number \in Int
  BY <1>1, OptionTaken, ArgIs, CommandLineAssumption
<1>4. CASE ~Acceptable(i)
  <2>1. status' = "false"
    <3>1. CASE args[i].number > LongMax
      BY <3>1 DEF SetSize, Then
    <3>2. CASE ~(args[i].number > LongMax)
      <4>1. args[i].number <= 0 \/ args[i].unit = "other"
        BY <1>3, <1>4, <3>2 DEF Acceptable
      <4> QED
        BY <3>2, <4>1 DEF SetSize, Then
    <3> QED
      BY <3>1, <3>2
  <2>2. Refused
    BY <1>2, <1>4 DEF Refused
  <2> QED
    BY <1>1, <2>1, <2>2, OptionTaken, SameArgs DEF OptInv
<1>5. CASE Acceptable(i)
  <2>1. ~(args[i].number > LongMax) /\ ~(args[i].number <= 0 \/ args[i].unit = "other")
    BY <1>3, <1>5 DEF Acceptable
  <2>2. status' = "parsing" /\ size' = SizeFrom(i)
    BY <2>1 DEF SetSize, Then, SizeFrom
  <2>3. /\ Seen({"r"})' = Seen({"r"}) /\ Seen({"size"})' = Seen({"size"}) \cup {i}
        /\ Seen({"verbose"})' = Seen({"verbose"})
        /\ Seen({"stat", "append"})' = Seen({"stat", "append"})
    BY <1>1, OptionTaken, SeenNext
  <2>4. \A k \in Seen({"size"})' : k <= i
    BY <1>1, <2>3, OptionTaken DEF Seen, Given
  <2>5. ASSUME Parsed PROVE Parsed'
    <3>1. PICK last : last = i
      OBVIOUS
    <3>3. last \in Seen({"size"})' /\ size' = SizeFrom(last)' /\ \A k \in Seen({"size"})' : k <= last
      BY <1>1, <2>2, <2>3, <2>4, <3>1, SameArgs
    <3>2. \A j \in Seen({"size"})' : Acceptable(j)'
      BY <1>1, <1>5, <2>3, <2>5, SameArgs DEF Parsed
    <3> QED
      BY <1>1, <2>3, <2>5, <3>2, <3>3, SameArgs DEF Parsed
  <2> QED
    BY <1>1, <2>2, <2>5, OptionTaken, SameArgs DEF OptInv
<1> QED
  BY <1>4, <1>5

LEMMA InvalidOptionKeeps ==
  ASSUME OptInv, InvalidOption
  PROVE  OptInv'
<1>1. args' = args /\ i' = i + 1 /\ status' = "false" /\ args[i].opt = "r"
  BY DEF InvalidOption, Then, Option
<1>2. More /\ mode' = mode /\ verbose' = verbose /\ size' = size
  BY DEF InvalidOption
<1>3. i \in Given({"r"})
  BY <1>1, <1>2, OptionTaken DEF Given
<1>4. Refused
  BY <1>3 DEF Refused
<1> QED
  BY <1>1, <1>2, <1>4, OptionTaken, SameArgs DEF OptInv

-----------------------------------------------------------------------------
(* When all options are seen, the variables are as they were given. *)
LEMMA ParsedIsAsGiven ==
  ASSUME args \in Seq(Flag \cup Size), Parsed,
         \A opts : Seen(opts) = Given(opts)
  PROVE  /\ \A j \in Given({"stat", "append"}) : mode = args[j].opt
         /\ Given({"stat", "append"}) = {} <=> mode = "unspecified"
         /\ Cardinality(Given({"stat", "append"})) \in {0, 1}
         /\ verbose <=> Given({"verbose"}) # {}
         /\ Given({"size"}) = {} => size = -1
         /\ Given({"size"}) # {} /\ Bytes(args[LastSize]) <= LongMax
              => size = Bytes(args[LastSize])
<1>1. verbose <=> Given({"verbose"}) # {}
  BY DEF Parsed
<1>2. ASSUME mode = "unspecified", Given({"stat", "append"}) = {}
      PROVE  /\ \A j \in Given({"stat", "append"}) : mode = args[j].opt
             /\ Given({"stat", "append"}) = {} <=> mode = "unspecified"
             /\ Cardinality(Given({"stat", "append"})) \in {0, 1}
  <2>1. Cardinality(Given({"stat", "append"})) = 0
    BY <1>2, FS_EmptySet
  <2> QED
    BY <1>2, <2>1
<1>3. ASSUME \E j \in DOMAIN args : Given({"stat", "append"}) = {j} /\ mode = args[j].opt
      PROVE  /\ \A j \in Given({"stat", "append"}) : mode = args[j].opt
             /\ Given({"stat", "append"}) = {} <=> mode = "unspecified"
             /\ Cardinality(Given({"stat", "append"})) \in {0, 1}
  <2>1. PICK j \in DOMAIN args : Given({"stat", "append"}) = {j} /\ mode = args[j].opt
    BY <1>3
  <2>2. args[j].opt \in {"stat", "append"}
    BY <2>1 DEF Given
  <2>3. Cardinality({j}) = 1
    BY FS_Singleton
  <2> QED
    BY <2>1, <2>2, <2>3
<1>4. Given({"size"}) = {} => size = -1
  BY DEF Parsed
<1>5. ASSUME Given({"size"}) # {}, Bytes(args[LastSize]) <= LongMax
      PROVE  size = Bytes(args[LastSize])
  <2>1. PICK j \in Given({"size"}) : (\A k \in Given({"size"}) : k <= j) /\ size = SizeFrom(j)
    BY <1>5 DEF Parsed
  <2>2. LastSize \in Given({"size"}) /\ \A k \in Given({"size"}) : k <= LastSize
    BY <2>1 DEF LastSize
  <2>3. LastSize \in Int /\ j \in Int
    BY <2>1, <2>2 DEF Given
  <2>4. LastSize = j
    BY <2>1, <2>2, <2>3
  <2>5. j \in DOMAIN args /\ Acceptable(j)
    BY <2>1 DEF Given, Parsed
  <2> QED
    BY <1>5, <2>1, <2>4, <2>5, BytesIs
<1>6. \/ mode = "unspecified" /\ Given({"stat", "append"}) = {}
      \/ \E j \in DOMAIN args : Given({"stat", "append"}) = {j} /\ mode = args[j].opt
  BY DEF Parsed
<1>7. /\ \A j \in Given({"stat", "append"}) : mode = args[j].opt
      /\ Given({"stat", "append"}) = {} <=> mode = "unspecified"
      /\ Cardinality(Given({"stat", "append"})) \in {0, 1}
  BY <1>2, <1>3, <1>6
<1> QED
  BY <1>1, <1>4, <1>5, <1>7

LEMMA FinishKeeps ==
  ASSUME OptInv, Finish
  PROVE  OptInv'
<1>1. /\ args' = args /\ i' = i /\ verbose' = verbose /\ size' = size
      /\ status = "parsing" /\ i > Len(args) /\ i \in Nat
      /\ args \in Seq(Flag \cup Size)
      /\ mode' = IF mode = "unspecified" THEN "read" ELSE mode
  BY DEF Finish, OptInv
<1>2. status' = IF Cardinality(Given({"file"})) = 1 THEN "true" ELSE "false"
  <2>1. Files = Given({"file"})
    BY DEF Files, Given
  <2> QED
    BY <2>1 DEF Finish
<1>3. /\ args' \in Seq(Flag \cup Size) /\ i' \in 1 .. Len(args') + 1
      /\ mode' \in {"unspecified", "stat", "append", "read"} /\ verbose' \in BOOLEAN
  BY <1>1 DEF OptInv
<1>4. CASE Cardinality(Given({"file"})) # 1
  <2>1. Refused /\ status' = "false"
    BY <1>2, <1>4 DEF Refused
  <2> QED
    BY <1>1, <1>3, <2>1, SameArgs DEF OptInv
<1>5. CASE Cardinality(Given({"file"})) = 1
  <2>1. status' = "true"
    BY <1>2, <1>5
  <2>2. ASSUME Given({"help"}) = {}
        PROVE  ~Refused /\ AsGiven' /\ mode' # "unspecified"
    <3>1. Parsed /\ \A opts : Seen(opts) = Given(opts)
      BY <1>1, <2>2, SeenAll DEF OptInv
    <3>2. ~(Cardinality(Given({"stat", "append"})) > 1)
      BY <1>1, <3>1, ParsedIsAsGiven
    <3>3. ~Refused
      BY <1>5, <3>1, <3>2 DEF Refused, Parsed
    <3>4. LastSize' = LastSize /\ Bytes(args[LastSize])' = Bytes(args[LastSize])
      BY <1>1, SameArgs DEF Bytes
    <3>5. mode' # "unspecified"
      BY <1>1
    <3>6. \A j \in Given({"stat", "append"}) : mode' = args[j].opt
      BY <1>1, <3>1, ParsedIsAsGiven
    <3>7. Given({"stat", "append"}) = {} => mode' = "read"
      BY <1>1, <3>1, ParsedIsAsGiven
    <3>8. /\ verbose <=> Given({"verbose"}) # {}
          /\ Given({"size"}) = {} => size = -1
          /\ Given({"size"}) # {} /\ Bytes(args[LastSize]) <= LongMax
               => size = Bytes(args[LastSize])
      BY <1>1, <3>1, ParsedIsAsGiven
    <3>9. AsGiven'
      BY <1>1, <3>4, <3>6, <3>7, <3>8, SameArgs DEF AsGiven
    <3> QED
      BY <3>3, <3>5, <3>9
  <2> QED
    BY <1>1, <1>3, <2>1, <2>2, SameArgs DEF OptInv
<1> QED
  BY <1>4, <1>5

LEMMA DispatchKeeps ==
  ASSUME OptInv, Dispatch
  PROVE  OptInv'
<1>1. args' = args /\ i' = i /\ mode' = mode /\ verbose' = verbose /\ size' = size
  BY DEF Dispatch
<1>2. AsGiven' = AsGiven
  BY <1>1, SameArgs DEF AsGiven, Bytes
<1>3. /\ args' \in Seq(Flag \cup Size) /\ i' \in 1 .. Len(args') + 1
      /\ mode' \in {"unspecified", "stat", "append", "read"} /\ verbose' \in BOOLEAN
  BY <1>1 DEF OptInv
<1>4. CASE status = "false" /\ status' = "1"
  BY <1>1, <1>3, <1>4, SameArgs DEF OptInv
<1>5. CASE status \in {"true", "help"} /\ mode # "unspecified" /\ status' = mode
  BY <1>1, <1>2, <1>3, <1>5, SameArgs DEF OptInv
<1>6. CASE status = "help" /\ mode = "unspecified" /\ status' \in {"0", "1"}
  BY <1>1, <1>3, <1>6, SameArgs DEF OptInv
<1> QED
  BY <1>4, <1>5, <1>6 DEF Dispatch

LEMMA OptInvNext ==
  ASSUME OptInv, [ONext]_ovars
  PROVE  OptInv'
<1>1. CASE UNCHANGED ovars
  BY <1>1, SameArgs DEF ovars, OptInv, Parsed, Seen, AsGiven, Bytes
<1>2. CASE ONext
  BY <1>2, SkipFileKeeps, HelpKeeps, VerboseKeeps, SetModeKeeps, SetSizeKeeps,
     InvalidOptionKeeps, FinishKeeps, DispatchKeeps DEF ONext
<1> QED
  BY <1>1, <1>2

(***************************************************************************)
(* A command line without --help is refused if and only if it makes no     *)
(* sense, and otherwise runs the command it asks for with the options it   *)
(* gives: Command::Parse and the dispatch of Main, for any arguments.      *)
(***************************************************************************)
THEOREM OptionsAreFollowedCorrect == OSpec => []OptionsAreFollowed
<1>1. OInit => OptInv
  BY OptInvInit
<1>2. OptInv /\ [ONext]_ovars => OptInv'
  BY OptInvNext
<1>3. OptInv => OptionsAreFollowed
  BY DEF OptInv, OptionsAreFollowed, Ended
<1> QED
  BY <1>1, <1>2, <1>3, PTL DEF OSpec
=============================================================================
