# A verification of ringfile

ringfile keeps the most recent records of a stream in a file of fixed size.
Records are written behind each other, wrap at the end of the file, and the
oldest ones give way to new ones. Several processes may have the file open: they
share it through `read()`/`write()` and through a memory mapped header with two
offsets, and there is no lock.

This directory holds TLA+ modules that model that program, the TLC
configurations that check them on small instances, and theorems about them with
proofs for TLAPS. The source is cited relative to the repository; line numbers
are those of `PROJECT.json` ("map").

## 1. Inventory

| Component | Source | State | Operations |
|---|---|---|---|
| Varint | `src/varint.cc`, `src/varint.h` | `value_` | `Write`, `Read`, `ByteSize`, `set_value` |
| Ring | `src/ringfile.cc`, `src/ringfile_internal.h` | in the file: `start_offset`, `end_offset`, the data area; in a handle: `read_offset_`, the offset and the remaining bytes of a streamed read and of a streamed write | `Write`, `PopRecord`, `NextRecordSize`, `Read`, `EndOfFile`, `Streaming{Write,Read}{Start,,Finish}`, `WrappingRead`, `WrappingWrite` |
| File life cycle | `src/ringfile.cc` | the file's existence, size, magic; `fd_`, `header_`, `size_`, `error_` of a handle | `Create`, `Open`, `Close`, the destructor |
| Public C interface | `src/public_interface.cc`, `include/ringfile.h` | a `Ringfile` per stream, `errno` | `ringfile_create`, `_open`, `_read`, `_write`, `_next_record_size`, `_close` |
| Command | `src/command.cc` | options, exit status | parse the options; append lines, print records, print statistics |
| Python module | `python/module.cc` | a `Ringfile` per object, open or closed | `create`, `init`, `read`, `iternext`, `write`, `close`, deallocation |
| Tests, development tools; gtest, cpplint | `src/*_test.cc`, `python/setup.py`, `tools`, `third_party` | - | not part of the program |

How they interact. A handle's calls run `lseek`+`read`/`write` pairs on the data
area, up to two for a transfer that wraps, and load and store the offsets of the
mapped header directly. So two processes on one file interact at the grain of a
system call and of a single store. The public interface, the command and the
Python module are clients of a handle; each uses it from one thread.

What is hard:

* **The two stores.** `x += n; x %= bytes_max();` on the shared header is two
  stores, because `bytes_max()` is an out-of-line call between them. A reader,
  or a crash, may fall between them.
* **Wrapping.** `WrappingWrite` cuts a transfer in two, with unsigned
  subtractions; the simple case is chosen by comparing two reduced offsets.
* **Full and empty.** Equal offsets mean empty; the loop that pops records stops
  as soon as the frame fits.
* **Publication order.** Only the order "bytes first, then `end_offset`" keeps a
  reader from seeing half a record; only `start_offset` tells which bytes are
  still a record's, and readers do not look at it after `Open`.
* **Failure.** A short or failing `write()`, or the death of the process, between
  any two of these steps.
* **Lapped and misled readers.** Nothing tells a reader that its record has been
  popped. And `NextRecordSize` recognises the end of the ring by comparing
  `read_offset_` with `end_offset`, which between the two stores is not reduced: a
  reader that stands at the end then reads a record that is not there.
* **Creation.** `Create` makes the file in five steps that others can see, and
  the magic number, which tells them that it is a ringfile, is not the last one.
* **Clients.** Each maps the handle's answers to its own (`NULL` and `errno`, an
  exception, an exit status) and cleans up after each failing step.

What makes each part correct: a varint reads back as it was written, whatever
follows it; the ring always parses from `start_offset` to `end_offset`; a live
record's bytes do not change; the writer's loop ends; a record is published
whole; a reader whose record stays in the ring gets exactly that record, in
order; it leaves the records only in the two ways just named, and otherwise its
loop ends; a handle is only ever given on a whole ring,
and what it holds is given back; what a client is told is so. The hazards, each
at its line and with the properties that watch it, are in `PROJECT.json`.

## 2. Modules

```
Varint ── VarintObject ── MCVarint            pure functions, the class, its instance
   │          └───────── VarintObjectProofs ┐
   │                     VarintProofs ──────┘ theorems
   └─ RingGeometry ── Ringfile ── RingfileProperties ── MCRingfile
                                       │  ├ INSTANCE RingLog     (the promise)
                                       │  ├ Writers ── MCWriters          two writers
                                       │  └ Follower ── MCFollower        a reader's whole life
                                       └─ RingfileProofs ── HandlesProofs (with Writers)
                                          theorems          theorems
Lifecycle ─┬─ PublicInterface ── MCPublicInterface    the handle's life, and its clients
    │      ├─ PythonObject ── MCPythonObject
    │      └─ Command ── MCCommand
    └─ LifecycleProofs ─┬─ InterfaceProofs (with PublicInterface)      theorems
                        ├─ PythonProofs (with PythonObject)
                        └─ CommandProofs (with Command, CommandLine)
CommandLine ── MCCommandLine                          options
```

There are two models of a handle, at two grains. `Ringfile` has the bytes, the
system calls and the stores inside `Write` and `Read`, and a file that exists;
`Lifecycle` has the steps from a path to a handle and back, and `Write` and `Read`
as one step each. They meet in `Init` of `Ringfile`, the ring that `Create` leaves
(both offsets 0), and in what `Ringfile` is shown to promise: a call of `Write`
appends a whole record at one instant or not at all (`ImplementsRingLog`), a call
of `Read` gives the record it stands at (`ReadExact`, `ReadInOrder`).

**Varint** has the functions of `varint.cc`. `Radix`, `kMaxSize`, `Word`, `Exact`
stand for 0x80, 10, 2^64 and 2^53, so that an instance keeps the order of
magnitudes with small numbers. `ToDouble` is the conversion in
`value_ < exp2(...)`, which rounds above 2^53. `Read` has no return statement
after its loop: its size is then any of `UndefinedSizes`. Groups occupy disjoint
bits, so `|=` is an addition.

**VarintObject** is an object of the class and the buffer of its caller: one
action per method.

**RingGeometry** has the arithmetic of the ring: frame sizes, `bytes_used()`,
`bytes_available()`, and how `WrappingRead` and `WrappingWrite` cut a transfer,
all modulo `Word`.

**Ringfile** is the ring with one handle that writes and one that reads.

| Model | Code |
|---|---|
| `start_offset`, `end_offset`, `data` | the mapped header, the data area |
| `w`, `r` | the handles: members, and locals that live across system calls |
| `w.pc`, `r.pc` | where the call in progress stands (table in the module) |
| `live`, `target` | auxiliary: the frames between the offsets; the one the reader's call started on |
| `Write`, `StreamingWriteStart`, `StreamingWrite`, `StreamingWriteFinish` | the entry of these calls |
| `PopRecord`, `ReduceStart` | `PopRecord` up to its first store; its second store and the caller's `assert` |
| `WriteSegment`, `WriteFails` | one `lseek`+`write` of `WrappingWrite`; one that fails or is short |
| `Publish`, `ReduceEnd` | the two stores to `end_offset` |
| `OpenAppend`, `StopWriter` | `Open(kAppend)`, also the restart; `Close` or the death of the process |
| `NextRecordSize`, `Read`, `ReadNext`, `StreamingReadStart`, `StreamingRead`, `StreamingReadFinish` | the entry of these calls; `ReadNext` is the `Read` of `Command::Read`'s loop |
| `ReadHeader`, `DecodeHeader`, `ReadSegment`, `ReadFails` | the system calls of `WrappingRead`, and what the call does with the header |
| `OpenRead`, `CloseRead` | `Open(kRead)`, `Close` or exit |

Only the writer changes what `PopRecord` reads, so the system calls of
`PopRecord` are one step. `lseek` and the transfer after it are one step: the
file position is private to the handle. A process that dies loses its handle; its
stores to the mapped header and its completed `write()`s stay, as the kernel
keeps them. One reader stands for any number of them, since readers change
nothing that is shared.

**RingfileProperties** states what makes this correct, **RingLog** what it
amounts to: a bounded log of whole records.

**Writers** adds a second stream of calls that write: `other` is the one that
waits, `Switch` lets it run. The two are handles of two processes, which may
change places at any step (`Overlap = "steps"`) or only between records
(`"records"`). `Write` uses no member of the handle, so a client that writes whole
records amid a streamed one on a single handle is the same thing (`"calls"`).
Two things are coarser than the code beside a second writer that does not wait:
`PopRecord` is one step up to its first store, with what the code loads of
`end_offset` after it, and the two parts of a transfer that wraps have the sizes
computed before the first. `Switch` is the scheduler and stands for no line.

**Follower** keeps, beside `Ringfile`, what has come between an open handle and the
records since it was opened: `lost` is `"lapped"` once the record it stands on is
popped or lost, `"misled"` once a call has begun at the end without seeing it
(`TakesEndForRecord`), and `"no"` before. It also has the loop of `Command::Read`
(`LoopSpec`).

**Lifecycle** is the path and the handles of several processes on it.

| Model | Code |
|---|---|
| `file` | what the path names: existence, size, magic number, `end_offset`; whether its directory exists (`dir`) |
| `h[p]` | the `Ringfile` object of a process and where its call stands |
| `kernel[p]` | the descriptors and mappings the process holds |
| `events` | auxiliary: records published, the size given by `ftruncate` |
| `NewObject`, `Destroy` | constructor and destructor |
| `Creat`, `Truncate`, `Map`, `StoreMagic`, `StoreEndOffset` | `Create` |
| `OpenPath`, `StatFile`, `Map`, `CheckMagic` | `Open`, which undoes its steps if the magic number is wrong |
| `WriteRecord`, `NextRecordSize`, `ReadRecord`, `EndOfFile` | these calls in one step, with the tests they make and those they omit |
| `SystemCallFails`, `Crash` | any of the system calls fails; a process dies |
| `Killed` | SIGBUS, SIGSEGV or SIGFPE: an access behind the end of the file, through `NULL` or `MAP_FAILED`, a remainder by 0 |

Sizes and offsets count frames of one size here, and a ring is never filled
(`MaxRecords`): popping and wrapping are the matter of `Ringfile`. The members the
constructor does not set (`error_`, `read_offset_`) start as `"junk"` and `Junk`.
The directory of the path exists or not from the beginning; without it `Create` and
`Open` fail with `ENOENT`. `SmallBuffers` lets clients give `Read` a buffer that is
too small.
`Careful` is the discipline the code needs and does not enforce: nobody opens the
file while it is being created, and one process writes.

**PublicInterface**, **PythonObject** and **Command** are clients of `Lifecycle`:
each adds the client's own state (`errno` and the function a thread is in; the
object, its method and its result; the command, the lines left and the exit
status), an action for each entry, and one for each way the handle's call can
return. Auxiliary fields count what was read, printed or written. `Crash` takes
the whole client. `cut` of `Command` remembers that some `Create` failed or died after
it had made the file and before the magic number: such a file can neither be opened
nor created again.

**CommandLine** is `Command::Parse`, one option per step in the order `getopt_long`
gives them, and the dispatch of `Main`. A size is a number and a unit; a `long` has
few bits and wraps.

## 3. What the runs check

| Run | Shows |
|---|---|
| `varint` | `RoundTrip`: `Read` gives back what `Write` wrote and consumes exactly its bytes, over junk. `SizeIsDigits`: the size is the number of groups, at most one more where the conversion to double rounds up. `WriteStaysInside`: no byte past the size is touched, although the loop of `Write` stops by comparisons of its own. |
| `writer` | One writer mixing `Write` and streamed records, with failing and short writes, crashes at any step but between two stores, and restarts. The ring parses (`Contiguous`), live bytes are intact (`LiveIntact`), the `assert` of the popping loop holds (`NoAbort`), a record is whole before it is published (`WrittenBeforePublished`), every call returns (`WriteReturnsAtLast`), and the whole is a `RingLog` (`ImplementsRingLog`). |
| `reader` | A client beside a writer that mixes `Read` with a buffer of any size, `Read` of the size that `NextRecordSize` gave, and records read in pieces; its system calls fail. A record that was in the ring when the call started, and has not been popped since, is delivered exactly (`ReadExact`), and the reader moves on to the record behind it (`ReadInOrder`). Failing writes beside a reader are covered by the theorems on these two. |
| `follower` | The loop of `Command::Read` beside a writer, over the whole life of a handle. Being lapped and being misled are the only ways to leave the records (`KeepsItsPlace`). Once the writer has left, a reader to whom neither has happened comes to the end of the ring (`LoopEnds`). |
| `turns` | Two handles that write in turns, with failures and deaths amid a record, keep a ring that parses and is intact (`TurnsAreSafe`), and together are still one `RingLog` (`ImplementsRingLog`): no handle keeps a copy of the offsets from one record to the next. Whatever offset the other one or its death has left, no system call of a transfer, wrapping or not, reaches behind the end of the file (`StaysInside`). |
| `interface` | Two processes with the C functions on one path, whose directory exists or not; every system call fails, and processes die, at every step. A file in use is not harmed (`PublishedIsKept`), handles are on whole rings (`HandleIsWhole`), descriptors and mappings are accounted for (`NothingLeaks`), a `NULL` leaves nothing behind (`NullLeavesNothing`) and says why (`NullSaysWhy`): `EEXIST` only if there is a file, `ENOENT` only from an open that found none or for want of the directory. |
| `python` | What is read from an object that was opened is each record once, in order and up to the end, whatever was raised in between (`IterationIsWhole`). Methods of an object that is not closed answer, but for one case: an object that `create` made of a file that is a header alone may die of a remainder by 0 (`OpenObjectsAnswer`). |
| `command` | Three commands on one path. Exit status 0 means that all lines are in the file (`LinesAreKept`), or that all records were printed (`AllIsPrinted`); 1 of an append that may create its file means that a system call of its own failed, there is no directory, the file is a ring (which the next append can open) or is being made one, or a creation was cut short (`FailureHasAReason`). The last is for good: the file such a `Create` leaves fails every later append. |
| `commandline` | A command line is refused, or run as it says (`OptionsAreFollowed`). |

Three runs show statements of the repository that the code does not keep
(`PROJECT.json`, "findings"):

| Run | What happens |
|---|---|
| `exactfill` | A frame that fills the ring to the last byte makes the offsets equal: the record just acknowledged is lost with all others. |
| `phantom` | A writer has stored `end_offset` = 6 in a ring of 5 bytes and not yet reduced it (`ringfile.cc:288`, `:289`). A reader that has read everything stands at 1, which is the end, but is not 6: `NextRecordSize` answers with the size of a record that does not exist, and the `Read` after it takes the handle off the records, although it was never lapped. |
| `emptyline` | The payload of an empty record is a transfer of no bytes, which `WrappingWrite` takes for one that wraps. Where it falls on the end of the data area it becomes a write of the whole ring, over all records. |

A reader can be misled in a second way, which `Follower` has too: `Open` between the two
stores to `start_offset` (`ringfile.cc:199`, `:200`) takes over an unreduced
`read_offset_`. The transfers reduce it, so records are read as they are; but if the
ring is empty at that moment, the comparison with `end_offset` fails in the same way.

### Premises, and what lies behind them

Several properties hold under a premise, which an instance or the property itself
states. Each is a limit of the code. Where a constant makes the difference, the
run of the second column fails with the other value:

| Premise | Otherwise |
|---|---|
| no empty records | the run `emptyline` (`LiveIntact`) |
| no death between two stores to an offset | `"torn"` for `"io"` in the `Faults` of `writer`: the offset stays unreduced and the ring does not parse for the next writer (`Contiguous`) |
| writers take turns | `Overlap = "calls"` or `"steps"` in `turns`: frames overlap (`TurnsAreSafe`) |
| nobody opens a file that is being created | `Careful = FALSE` in `interface`: the last store of `Create` erases a record already published (`PublishedIsKept`); a handle taken before `ftruncate` has size 0 for life (`HandleIsWhole`) |
| a file has room for its header | a size of 1 among the `CreateSizes` of `interface`: `bytes_max()` wraps, nothing ever does, and the file grows (`HandleIsWhole`) |
| the record has not been popped | in `ReadExact`, `ReadInOrder`: a lapped reader gets a mix of records |
| the handle was neither lapped nor misled | in `KeepsItsPlace`, `LoopEnds`: off the records it may go round for ever |
| the ring has `kMaxSize` bytes | in all instances: a header cannot be read back otherwise |
| the object was opened, not created | in `IterationIsWhole`: `create` leaves `read_offset_` as the memory held it |
| the object is not one that `create` made of a header alone | in `OpenObjectsAnswer`: its `read_offset_` is not the end, and the remainder is one by `bytes_max()` = 0 |
| the object has not been closed | in `OpenObjectsAnswer`: `EndOfFile` and `Write` go through a null `header_` |
| no `Create` was cut short | in `FailureHasAReason`: the path is lost to every later append |
| no read() failed | in `AllIsPrinted`: the command takes the failure of `NextRecordSize` for the end of the file and exits with 0 |
| the size and its product fit a `long` | in `OptionsAreFollowed`: the product wraps after the test |
| no `--help` | in `OptionsAreFollowed`: `ok` of `Main` is then not set |

What `errno` is after `ringfile_write` or `ringfile_read` has failed is stated by no
property: `error_` is not set there, and `errno` becomes whatever it held.

### Bounds

The data area has 5 to 7 bytes, a group one bit, a record header one to three
bytes (`Radix = 2`, `kMaxSize = 3`). With frames of 2, 4 and 5 bytes every frame
starts at every offset, headers and payloads are cut at the end of the file in
all ways, up to three records are live, one write pops several, and a frame fills
the ring exactly. The run `writer` also has a record one byte too big for its ring.
`Word = 256` is far from every sum the code makes except the one that underflows (an
empty transfer). The bytes
of the records are themselves valid headers, so that a reader that decodes
payload meets every kind of size. `BufMax` is the largest buffer a client has:
a `ReadNext` that would need more ends the client. `UndefinedSizes = {0, 3}` are
the two values a register plausibly holds at the end of `Varint::Read`.
Nothing else is bounded in the runs of one writer: the state spaces are finite by
themselves, and TLC explores them completely. The runs with a reader have a ring of 5
bytes, in which frames of 2 and 4 start at every offset and bring the end offset up to
and past its limit. `turns` has `LiveMax`, which bounds
the frames that two writers would lose track of if they did not take turns; with turns
it is never reached.

In the runs on `Lifecycle` a header has 2 units and the word is 16, so that a size below
the header wraps; the sizes given to `Create` are one that `ftruncate` refuses, 0,
the header alone, and a ring. Two processes are enough for every
race on one path between a creator and an opener; commands are three, to have two
that create and one that reads. They change roles, so symmetry over processes is
sound: no property or action names one. `MaxRecords` is 2 or 3, so that order and
completeness say something. `commandline` has all command lines of up to
`MaxArgs` = 3 arguments: two options that conflict, and the file.

`Varint.cfg` uses two-bit groups, a 7 bit word and
3 bits of exactness, so that the last group is partial and the last two group
boundaries lie where rounding happens, as with 7, 64 and 53.

`CHECK_DEADLOCK FALSE`: a handle whose process was killed or aborted in an `assert`,
a client that has no call left to make, and a command that has exited may stop.

### Fairness

`FairSpec` is `WF(WriterStep)`: a process inside a call is scheduled again and
its system calls return. That is all `WriteReturnsAtLast` needs, the writer waits
for nobody. `LoopSpec` assumes the same of a reader inside a call and adds the program of `Command::Read`: the client calls
`NextRecordSize` again after a `Read` (`WF(Looping /\ NextRecordSize)`) and `Read`
after a `NextRecordSize` (`SF(ReadNext)`, strong because every new
`NextRecordSize` disables it for a moment; the model's client may also repeat
`NextRecordSize`). Nothing is assumed of clients that write, of opening or
closing, or of faults.

## 4. What is proved

TLAPS proves these for all values of the constants that satisfy the assumptions
of the modules.

* `VarintProofs`. `HeaderReadsBack`: a buffer that starts with the encoding of a
  value decodes to that value and its size. The loop over the bytes is a recursive
  function; `SetInduction` (induction for a given set, from the well-foundedness
  of `<`) and `RecursionExists` (a recursion over the naturals has a solution)
  carry the argument, and `OneMoreGroup` is the arithmetic: the low n+1 groups are
  the low n groups and group n. `Encodable` is its premise: `ByteSize` finds a
  size, no smaller than the value needs. `ExactIsEncodable` proves it for all
  values below 2^53, and `AllAreEncodable` for all 64 bit values, provided that
  they are `MachineNumbers`: groups, the word and the exact integers of a double are
  powers of two, a word has at most 11 bits more than are exact, and `kMaxSize` groups
  hold a word (7, 64, 53 and 10 in the code). The reason is `NotAcross`: rounding a
  value to a multiple of a power of two may take it up to another power of two,
  never over it, and each group boundary is one (`WeightIsPower`).
* `VarintObjectProofs`. `RoundTripCorrect`, `TypeCorrect`,
  `WriteStaysInsideCorrect`: the properties of the run `varint`. `Write` is modelled by
  its own loop (`Reached`); `EncodedIs` shows that it stops where `ByteSize` says, because
  the first n that fits is found by the same comparisons. The inductive
  invariant adds `HoldsWritten`, the buffer starts with the encoding of the value
  written last. `SizeIsDigitsCorrect`: a size is the number of groups of the value, or
  one more where it rounds up to a boundary, which `FitsIs` bounds. Premises:
  callers set 64 bit values, buffers hold bytes, and `MachineNumbers`.
* `RingfileProofs`. `TypeCorrect`: `Spec => []TypeOK` with no premise but the
  modules' assumptions. `TypeOK` is not inductive: `remaining - chunk` is a natural
  number only because no piece is larger than what remains, and a stored byte is
  a byte only because a piece lies inside its record. `WriterSound` and
  `ReaderSound` say that; `TypeInv` is the conjunction. One lemma per group of
  actions shows that a step preserves it.
  `ContiguousCorrect`, `LiveIntactCorrect`, `NoAbortCorrect`,
  `WrittenBeforePublishedCorrect`: the four safety properties of the run `writer`,
  with writes that fail or are short, crashes and restarts, and a reader beside
  the writer. Their premise `SafeUse` excludes what breaks them (the first two premises
  of the table above): empty transfers, and a death between the two stores to an
  offset. The runs `writer`, `reader` and `follower` meet it.

  None of the four is inductive by itself: that the ring parses after a pop needs
  the bytes of the oldest header (`LiveIntact`, then `HeaderReadsBack`); that
  they stay intact needs the space the writer reserved; and a record is whole when
  published only if each piece has gone to its place. The inductive invariant
  `RingInv` has a conjunct for each: `Reduced` (which offset may be unreduced when,
  and that a ring whose offsets are reduced is never quite full), `Layout` (the
  frames, ordered by their distance from `start_offset`), `SpaceOK` (the frame fits
  between the offsets while it is written, and a pop remembers less space than
  there now is), `PlaceOK` (where the next piece goes, and that only a first part
  that reached the end of the file precedes a second one), `FrameBegun` (the bytes
  of the frame written so far).

  The argument is one about distances: the live bytes have the distances 0 to
  `Used - 1` from `start_offset`, the j-th byte of the frame being written has
  `Used + j` (`EndDistance`), so the two never meet while the frame fits.
  `Segment` says that the two system calls of a transfer put byte k to
  `(offset + k) % bytes_max()`. Wrapping appears only in the lemmas up to
  `Segment`, which reduce it by cases to linear arithmetic (`WrapBehind`,
  `WrapAhead`). Then one lemma per group of actions: a pop shifts all distances
  by a frame (`PopDistance`), the second stores move nothing (`ReduceDistance`),
  a publication appends a frame or, on an exact fit, empties the ring
  (`EmptiedSafe`).

  `RingIsLog`: under the same premise the ring implements `RingLog`. The record of the
  call in progress is pending. A call begins it or, failing, gives it up; a pop is
  `Evict`, the store that publishes is `Commit`, or on an exact fit the first half of
  a loss that the second store completes (`Forget`); every other step stutters. The
  guards of these are what `RingInv` shows: space is short when a record is
  evicted, and suffices when one is committed.
* `HandlesProofs`, on the reader and on two writers.

  `ReadExactCorrect`, `ReadInOrderCorrect`: what a call of `Read`, or a record read in
  pieces, delivers, and where the reader is afterwards. The invariant `ReadInv` says for
  every step of a call whose record is still live where the handle stands in that
  frame (`ReadsFrame`), and that the bytes it has are those of the frame
  (`HeaderRead`, `PayloadRead`, `PieceRead`). A live frame's bytes do not change
  (`RingInv`), so a call may be overtaken by any number of writes. That it moves on to
  the record behind is a matter of remainders of `read_offset_`, which is reduced
  later than it is compared (`MovesOn`, `AdvanceIs`). Premise `SafeReading`: `SafeUse`,
  a ring of `kMaxSize` bytes, since the header is fetched as that many, and buffers of
  a client no larger than `BufMax`.

  `TurnsKeepTheRing`, `TurnsAreLog`: handles that write in turns keep the ring and
  are one log. `TurnsInv` adds to `RingInv` that the handle that waits is amid nothing,
  so that at a change the other one continues from the shared offsets alone.

  `RacesStayInside`: for any `Overlap`, without turns too, whatever the offsets become, no piece of a
  transfer reaches behind the end of the data area, provided no transfer is empty.
  `RaceInv` needs no more of the ring than the types: a place is reduced before it
  is used, and `bytes_available` gives a transfer less than the ring.
* `LifecycleProofs` has the lemmas that the three clients share, for any number of
  processes: `HeldInv`, what a handle holds at each of its steps and that
  the kernel holds exactly that, under no premise; and `FileInv`, what each handle
  knows of the file (`KnowsFile`) and that a creator or a writer is alone (`Alone`),
  for uses that are `Careful` and sizes that are `SoundSizes`. A size between 1 and
  the header's makes `bytes_max()` wrap; a size whose ring `MaxRecords` records would
  fill is outside of what `Lifecycle` models.
* `InterfaceProofs`. `InterfaceLeaksNothing`, `FailureLeavesNothing`, `FailureSaysWhy`
  have no premise: whatever calls fail and whoever else is at the path, a thread that
  got `NULL` holds nothing and `errno` has a reason, which depends on what is at the
  path (`Why`): the directory does not change, a file does not go away. `PInv` follows each
  stream through the function it is in and relates `error_` to the step that failed.
  `PublishedStays` and `StreamsAreWhole` have the premise `SoundUse`.
* `CommandProofs`. `AppendedLinesStay`, `ReadPrintsAll`, `FailedAppendHasAReason`, with
  `CmdInv`: how many lines are in the file or records printed at each step, and what
  was there when the command started to read. `CutInv`: a file without the magic number
  is one that somebody is creating, or whose creation was cut short. Premise
  `SoundCommands`, as above.
  `OptionsAreFollowedCorrect`, with no premise: `OptInv` says that the variables are what
  the options seen so far make of them (`Parsed`), which at the end are all
  (`SeenAll`).
* `PythonProofs`. `IterationStaysWhole`, `OpenObjectsAlwaysAnswer`, with `PyInv`: what an
  object has seen, in order, against what is in the file, and which methods may meet
  a null `header_`. Premise `SoundPython`, as above; files that are a header alone are
  among them, and `Bare` says that only an object that created such a file is killed.

The assumptions on the constants: numbers are positive, a ring is smaller than a
quarter of the word and its size is an exact double (`GeometryAssumption`),
records are sequences of fewer than 2^53 bytes (`ClientAssumption`).

Every premise is one that the passing runs meet, so TLC has checked each invariant
on states that satisfy it.

Model-checked only: liveness (`WriteReturnsAtLast`, `LoopEnds`), which is out of the
reach of TLAPS, `KeepsItsPlace`, and the three runs that show a violation.

## 5. What is not modelled

* `ringfile.h`'s functions with a stream that was closed, Python methods of an object
  made by `__new__` alone, a second `__init__`, and `Create` or `Open` on a handle that
  has a file: nothing in the repository calls them so.
* `StreamingWriteFinish` without a start: no client of the repository calls it so. It
  would store a member that the constructor has not set as the end of the ring.
* `Read` and `NextRecordSize` while the same handle is amid a streamed read: clients
  finish one first (`StartRead`), as all of the repository do.
* `Command::Stat`, which opens the file, reads three numbers and prints them. Beside a
  writer they may be of different moments.
* What a transfer of no bytes reads into the caller's buffer behind its end
  (`Fetched` drops it): the runs that read have no empty records.
* A write through a handle opened for reading, in a full ring (it stores to a
  read-only mapping before `write()` fails); `close()` and `munmap()` that fail.
* `--` and `POSIXLY_CORRECT` in `getopt_long`; the usage and error texts; `verbose`, which
  nothing looks at.
* What the page behind the end of a short file holds once its last mapping is gone.
* A crash of the operating system: which of the completed writes then survive is
  the kernel's business, the code calls neither `msync` nor `fsync`.
* `read()` and `write()` that are interrupted and return early count as failing,
  which is how the code treats them.
* Rings with fewer than `kMaxSize` data bytes: a header cannot be read back there.
* Test code; gtest and cpplint, which are third-party; `setup.py` and
  `fixwhitespace.py`, which build and tidy the sources and never see a ringfile. The
  Python files of the repository are all of this kind, so the modules model no line
  of Python: the program is the C++ under `src/src` and `src/python/module.cc`.

## 6. Plan

Done:

1. `Varint`, `VarintObject`, their theorems.
2. `RingGeometry`, `Ringfile`, `RingfileProperties`, `RingLog`: one writer, one
   reader, faults, refinement, liveness.
3. `RingfileProofs`: type correctness, safety of one writer, refinement of `RingLog`.
4. `Writers`, `Follower`: several handles on the bytes of one ring, and the life of
   one that reads.
5. `Lifecycle` and its clients `PublicInterface`, `PythonObject`, `Command`;
   `CommandLine`.
6. `HandlesProofs`: readers, and two writers in turns and in a race.
7. `LifecycleProofs`, `InterfaceProofs`, `CommandProofs`, `PythonProofs`: theorems for
   any number of processes.
8. `AllAreEncodable`, `SizeIsDigitsCorrect`: the rounding of a value above 2^53.

Open:

9. Theorems about a ring whose records are longer than 2^53 bytes would need
   `MachineNumbers` in place of the bounds of `ClientAssumption`; no file is that big.
10. What a second process that opens the file while it is created may see is
    checked with `Careful = FALSE` (table in section 3), and stated by no theorem.
