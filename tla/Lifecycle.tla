----------------------------- MODULE Lifecycle -----------------------------
(***************************************************************************)
(* From path to handle: Create, Open and Close of class Ringfile, one      *)
(* system call or store to the mapped header at a time, in several         *)
(* processes that use one path (src/src/ringfile.cc).                      *)
(*                                                                         *)
(* A handle is created or opened, used and closed by one client.  Here the *)
(* records matter only by their number: sizes and offsets count frames of  *)
(* one size, a ring is never filled (MaxRecords), so start_offset stays 0, *)
(* and Write and Read are one step.  Module Ringfile has their inside.     *)
(***************************************************************************)
EXTENDS Integers, FiniteSets

CONSTANTS
  Procs,        \* the processes, with one handle each
  HeaderSize,   \* sizeof(Header)
  Word,         \* 2^64
  CreateSizes,  \* the sizes clients pass to Create
  OpenModes,    \* the modes clients pass to Open, "other" is neither of the two
  MaxRecords,   \* bound: records clients write
  Junk,         \* what memory holds that is never initialised
  SmallBuffers, \* clients may call Read with a buffer that is too small
  Careful,      \* one process writes or creates at a time, none opens meanwhile
  Faults        \* "io": system calls fail; "map": mmap fails; "crash": processes die

ASSUME LifecycleAssumption ==
  /\ HeaderSize \in Nat \ {0} /\ Word \in Nat \ {0} /\ MaxRecords \in Nat
  /\ CreateSizes \subseteq Int
  /\ OpenModes \subseteq {"read", "append", "other"}
  /\ Junk \subseteq Nat
  /\ SmallBuffers \in BOOLEAN /\ Careful \in BOOLEAN
  /\ Faults \subseteq {"io", "map", "crash"}

VARIABLES
  file,    \* what the path names
  h,       \* the Ringfile object of each process, and where its call stands
  kernel,  \* descriptors and mappings the kernel keeps for each process
  events   \* auxiliary: records published, and the size Create gave the file

lvars == <<file, h, kernel, events>>

(* No file yet; dir says whether there is a directory to make it in. *)
NoFile == [dir |-> TRUE, exists |-> FALSE, size |-> 0, magic |-> FALSE, end |-> 0]

(***************************************************************************)
(* pc is the system call or the access to the header that comes next:      *)
(*   Create   "creat", "truncate", "mapnew", "magic", "end"                *)
(*   Open     "open", "stat", "map", "check"                               *)
(*   others   "write", "size", "read", "eof"                               *)
(* or "none" without an object, "idle" in no call, "dead" when a signal    *)
(* has killed the process.                                                 *)
(***************************************************************************)
NoObject ==
  [pc |-> "none",
   call |-> "none",     \* the call the handle is in, or was in last
   mode |-> "none",     \* the mode Open was given
   arg |-> 0,           \* the size Create was given, the record Read has read
   ret |-> "none",      \* what it returned
   error |-> "junk",    \* error_, which the constructor leaves as it is
   fd |-> "none",       \* how fd_ was opened
   header |-> "null",   \* header_: "null", "mapped", or "failed" for MAP_FAILED
   size |-> 0,          \* size_
   at |-> 0]            \* read_offset_

HeldByNone == [fds |-> 0, maps |-> 0]

LInit ==
  /\ file \in {NoFile, [NoFile EXCEPT !.dir = FALSE]}
  /\ h = [p \in Procs |-> NoObject]
  /\ kernel = [p \in Procs |-> HeldByNone]
  /\ events = [published |-> 0, created |-> 0]

CreateSteps == {"truncate", "mapnew", "magic", "end"}

InCreate(p) == h[p].pc \in CreateSteps

MayWrite(p) == h[p].fd = "append"

-----------------------------------------------------------------------------
(* The constructor. *)
NewObject(p) ==
  /\ h[p].pc = "none"
  /\ \E at \in Junk : h' = [h EXCEPT ![p] = [NoObject EXCEPT !.pc = "idle", !.at = at]]
  /\ UNCHANGED <<file, kernel, events>>

(* A client makes a call. *)
Begun(hd, call, step) ==
  [hd EXCEPT !.pc = step, !.call = call, !.arg = 0, !.mode = "none", !.ret = "none"]

Call(p, call, step) ==
  /\ h[p].pc = "idle"
  /\ h' = [h EXCEPT ![p] = Begun(@, call, step)]
  /\ UNCHANGED <<file, kernel, events>>

(* The calls that give an object a file are made on one that has none. *)
Unused(p) == h[p].pc = "idle" /\ h[p].fd = "none" /\ h[p].header = "null"

CallCreate(p, n) ==
  /\ Unused(p)
  /\ h' = [h EXCEPT ![p] = [Begun(@, "Create", "creat") EXCEPT !.arg = n]]
  /\ UNCHANGED <<file, kernel, events>>

CallOpen(p, mode) ==
  /\ Unused(p)
  /\ h' = [h EXCEPT ![p] = [Begun(@, "Open", "open") EXCEPT !.mode = mode]]
  /\ UNCHANGED <<file, kernel, events>>

(* No other process creates, and none writes that would not be alone. *)
Calm(p) ==
  \A q \in Procs \ {p} : ~InCreate(q) /\ (h[p].mode = "append" => ~MayWrite(q))

Returned(hd, value) == [hd EXCEPT !.pc = "idle", !.mode = "none", !.arg = 0, !.ret = value]

(* Bug: error_ is not set. *)
Failed_NoError(hd, error) == Returned(hd, "false")

Failed(hd, error) == [Returned(hd, "false") EXCEPT !.error = error]

Return(p, value) == h' = [h EXCEPT ![p] = Returned(@, value)]

Fail(p, error) == h' = [h EXCEPT ![p] = Failed(@, error)]

(* A signal ends the process, and the kernel takes back what it held. *)
Killed(p) ==
  /\ h' = [h EXCEPT ![p] = [NoObject EXCEPT !.pc = "dead", !.call = h[p].call]]
  /\ kernel' = [kernel EXCEPT ![p] = HeldByNone]
  /\ UNCHANGED <<file, events>>

(* Loads and stores of the header: a page wholly behind the end of the file *)
(* cannot be touched, nor can NULL or MAP_FAILED.                           *)
CanTouch(p) == h[p].header = "mapped" /\ file.size > 0

-----------------------------------------------------------------------------
(* Bug: the file is opened without O_EXCL. *)
Taken_NoExcl == FALSE

(* open(O_CREAT | O_EXCL) finds the path in use. *)
Taken == file.exists

Creat(p) ==
  /\ h[p].pc = "creat"
  /\ IF ~file.dir
       THEN Fail(p, "ENOENT") /\ UNCHANGED <<file, kernel, events>>
     ELSE IF Taken
       THEN Fail(p, "EEXIST") /\ UNCHANGED <<file, kernel, events>>
       ELSE /\ file' = IF file.exists THEN file ELSE [NoFile EXCEPT !.exists = TRUE]
            /\ h' = [h EXCEPT ![p].pc = "truncate", ![p].fd = "append"]
            /\ kernel' = [kernel EXCEPT ![p].fds = @ + 1]
            /\ UNCHANGED events

(* Bug: size_ is not set. *)
AfterTruncate_NoSize(hd) == [hd EXCEPT !.pc = "mapnew"]

AfterTruncate(hd) == [hd EXCEPT !.pc = "mapnew", !.size = hd.arg]

(* ftruncate: a size above 2^63 is negative there. *)
Truncate(p) ==
  /\ h[p].pc = "truncate"
  /\ IF h[p].arg < 0
       THEN Fail(p, "EINVAL") /\ UNCHANGED <<file, events>>
       ELSE /\ file' = [file EXCEPT !.size = h[p].arg]
            /\ h' = [h EXCEPT ![p] = AfterTruncate(@)]
            /\ events' = [events EXCEPT !.created = h[p].arg]
  /\ UNCHANGED kernel

(* mmap, whose failure is MAP_FAILED and not the NULL that is tested for. *)
Map(p) ==
  /\ h[p].pc \in {"map", "mapnew"}
  /\ \/ /\ h' = [h EXCEPT ![p].header = "mapped",
                          ![p].pc = IF h[p].pc = "map" THEN "check" ELSE "magic"]
        /\ kernel' = [kernel EXCEPT ![p].maps = @ + 1]
     \/ /\ "map" \in Faults
        /\ h' = [h EXCEPT ![p].header = "failed",
                          ![p].pc = IF h[p].pc = "map" THEN "check" ELSE "magic"]
        /\ UNCHANGED kernel
  /\ UNCHANGED <<file, events>>

(* The stores to the header: the magic number, flags and start first. *)
StoreMagic(p) ==
  /\ h[p].pc = "magic"
  /\ IF CanTouch(p)
       THEN /\ file' = [file EXCEPT !.magic = TRUE]
            /\ h' = [h EXCEPT ![p].pc = "end"]
            /\ UNCHANGED <<kernel, events>>
       ELSE Killed(p)

StoreEndOffset(p) ==
  /\ h[p].pc = "end"
  /\ file' = [file EXCEPT !.end = 0]
  /\ Return(p, "true")
  /\ UNCHANGED <<kernel, events>>

-----------------------------------------------------------------------------
(* open(); a mode that is neither leaves fd_ as it was, and errno as well.  *)
(* Without the directory there is no file either.                          *)
OpenPath(p) ==
  /\ h[p].pc = "open"
  /\ Careful => Calm(p)
  /\ \/ /\ h[p].mode = "other"
        /\ Fail(p, "stale") /\ UNCHANGED kernel
     \/ /\ h[p].mode # "other" /\ ~file.exists
        /\ Fail(p, "ENOENT") /\ UNCHANGED kernel
     \/ /\ h[p].mode # "other" /\ file.exists
        /\ h' = [h EXCEPT ![p].pc = "stat", ![p].fd = h[p].mode]
        /\ kernel' = [kernel EXCEPT ![p].fds = @ + 1]
  /\ UNCHANGED <<file, events>>

StatFile(p) ==
  /\ h[p].pc = "stat"
  /\ h' = [h EXCEPT ![p].pc = "map", ![p].size = file.size]
  /\ UNCHANGED <<file, kernel, events>>

(* Bug: the mapping is not undone. *)
Released_NoUnmap(p) == [kernel[p] EXCEPT !.fds = @ - (IF h[p].fd = "none" THEN 0 ELSE 1)]

(* What the kernel holds for the process after Close. *)
Released(p) ==
  [fds |-> kernel[p].fds - (IF h[p].fd = "none" THEN 0 ELSE 1),
   maps |-> kernel[p].maps - (IF h[p].header = "null" THEN 0 ELSE 1)]

Closed(hd) == [hd EXCEPT !.header = "null", !.fd = "none"]

IsRing == file.magic

CheckMagic(p) ==
  /\ h[p].pc = "check"
  /\ IF ~CanTouch(p) THEN Killed(p)
     ELSE /\ IF IsRing
               THEN /\ h' = [h EXCEPT ![p] = [Returned(@, "true") EXCEPT !.at = 0]]
                    /\ UNCHANGED kernel
               ELSE /\ h' = [h EXCEPT ![p] = Failed(Closed(@), "EINVAL")]
                    /\ kernel' = [kernel EXCEPT ![p] = Released(p)]
          /\ UNCHANGED <<file, events>>

Close(p) ==
  /\ h[p].pc = "idle"
  /\ h' = [h EXCEPT ![p] = [Closed(@) EXCEPT !.call = "Close", !.ret = "true"]]
  /\ kernel' = [kernel EXCEPT ![p] = Released(p)]
  /\ UNCHANGED <<file, events>>

(* The destructor, which closes. *)
Destroy(p) ==
  /\ h[p].pc = "idle"
  /\ h' = [h EXCEPT ![p] = NoObject]
  /\ kernel' = [kernel EXCEPT ![p] = Released(p)]
  /\ UNCHANGED <<file, events>>

-----------------------------------------------------------------------------
(* bytes_max(), which is unsigned. *)
BytesMax(hd) == (hd.size - HeaderSize) % Word

Larger(m, n) == IF m < n THEN n ELSE m

(* The file after a frame is written at its end offset; write() makes the   *)
(* file larger when the handle is wrong about its size.                     *)
Appended(bm) ==
  [file EXCEPT !.size = Larger(file.size, HeaderSize + (file.end % bm) + 1),
               !.end = (file.end + 1) % bm]

(***************************************************************************)
(* Write of one record, with its outcomes in the order of the code: too    *)
(* big for the ring, no header to look at, a descriptor that cannot write. *)
(* The failures but the last leave error_ alone, and so does that one.     *)
(***************************************************************************)
WriteRecord(p) ==
  /\ h[p].pc = "write"
  /\ IF BytesMax(h[p]) < 2 THEN Return(p, "false") /\ UNCHANGED <<file, kernel, events>>
     ELSE IF ~CanTouch(p) THEN Killed(p)
     ELSE IF ~MayWrite(p) THEN Return(p, "false") /\ UNCHANGED <<file, kernel, events>>
     ELSE /\ file' = Appended(BytesMax(h[p]))
          /\ Return(p, "true")
          /\ events' = [events EXCEPT !.published = @ + 1]
          /\ UNCHANGED kernel

Usable(p) == h[p].header # "null" /\ h[p].fd # "none"

(* The handle stands at a record, and knows where the ring ends. *)
AtRecord(p) == h[p].at < file.end /\ h[p].size = file.size

(* Bug: a record is skipped. *)
Next_Skips(hd) == hd.at + 2

NextOffset(hd) == (hd.at + 1) % BytesMax(hd)

(* NextRecordSize.  The remainder of a division by 0 kills the process. *)
NextRecordSize(p) ==
  /\ h[p].pc = "size"
  /\ IF ~Usable(p) \/ h[p].at = file.end
       THEN Return(p, "false") /\ UNCHANGED <<file, kernel, events>>
     ELSE IF BytesMax(h[p]) = 0 THEN Killed(p)
     ELSE /\ \/ Return(p, "true")
             \/ ~AtRecord(p) /\ Return(p, "false")
          /\ UNCHANGED <<file, kernel, events>>

(* Read, which does not look at the end offset; arg becomes the number of   *)
(* the record it delivers, 0 for bytes that are none.  A record larger than *)
(* the buffer is refused, and the handle stays where it is.                 *)
ReadRecord(p) ==
  /\ h[p].pc = "read"
  /\ IF ~Usable(p) THEN Return(p, "false") /\ UNCHANGED <<file, kernel, events>>
     ELSE IF BytesMax(h[p]) = 0 THEN Killed(p)
     ELSE /\ \/ h' = [h EXCEPT ![p] = [Returned(@, "true") EXCEPT
                         !.at = NextOffset(h[p]), !.arg = IF AtRecord(p) THEN h[p].at + 1 ELSE 0]]
             \/ (~AtRecord(p) \/ SmallBuffers) /\ Return(p, "false")
          /\ UNCHANGED <<file, kernel, events>>

(* EndOfFile, which does look at the header, without looking for one. *)
EndOfFile(p) ==
  /\ h[p].pc = "eof"
  /\ IF CanTouch(p)
       THEN /\ Return(p, IF h[p].at = file.end THEN "true" ELSE "false")
            /\ UNCHANGED <<file, kernel, events>>
       ELSE Killed(p)

-----------------------------------------------------------------------------
(* A system call fails for a reason that lies outside of the model: EIO is  *)
(* any other number.  read() and write() leave error_ as it was.            *)
SystemCallFails(p) ==
  /\ "io" \in Faults
  /\ \/ h[p].pc \in {"creat", "truncate", "stat"} /\ Fail(p, "EIO")
     \/ h[p].pc = "open" /\ h[p].mode # "other" /\ Fail(p, "EIO")
     \/ /\ h[p].pc \in {"write", "size", "read"}
        /\ CanTouch(p) /\ BytesMax(h[p]) > 1
        /\ Return(p, "false")
  /\ UNCHANGED <<file, kernel, events>>

(* A process dies at any moment by no fault of the code, or has died of it: *)
(* another one takes its place.                                             *)
Crash(p) ==
  /\ "crash" \in Faults
  /\ h[p].pc # "none"
  /\ h' = [h EXCEPT ![p] = NoObject]
  /\ kernel' = [kernel EXCEPT ![p] = HeldByNone]
  /\ UNCHANGED <<file, events>>

HandleStep(p) ==
  \/ Creat(p) \/ Truncate(p) \/ StoreMagic(p) \/ StoreEndOffset(p)
  \/ OpenPath(p) \/ StatFile(p) \/ Map(p) \/ CheckMagic(p)
  \/ WriteRecord(p) \/ NextRecordSize(p) \/ ReadRecord(p) \/ EndOfFile(p)

(* The call of Write, as long as the ring is not filled. *)
CallWrite(p) == events.published < MaxRecords /\ Call(p, "Write", "write")

-----------------------------------------------------------------------------
(***************************************************************************)
(* What has been published stays: no Create, whatever its size and         *)
(* wherever it fails or dies, no Open and no Close harms a file that       *)
(* exists, and the next process finds its records.                         *)
(***************************************************************************)
PublishedIsKept ==
  events.published > 0 => file.exists /\ file.magic /\ file.end = events.published

(***************************************************************************)
(* A handle is given on a whole ring only: whoever holds one knows the     *)
(* size of the file, which is the size Create was asked for, then and as   *)
(* long as the handle lives.  Nobody gets a handle on the file of a        *)
(* process that died in Create before it stored the magic number; a death  *)
(* after that leaves an empty ring, which others open.                     *)
(***************************************************************************)
HandleIsWhole ==
  \A p \in Procs :
    h[p].pc = "idle" /\ h[p].header = "mapped" =>
      /\ file.magic
      /\ h[p].size = file.size /\ file.size = events.created

(***************************************************************************)
(* The kernel holds what the handle knows it has, whichever step of Create *)
(* or Open failed, so that the destructor gives all of it back.            *)
(***************************************************************************)
NothingLeaks ==
  \A p \in Procs :
    /\ kernel[p].fds = IF h[p].fd = "none" THEN 0 ELSE 1
    /\ kernel[p].maps = IF h[p].header = "mapped" THEN 1 ELSE 0
=============================================================================
