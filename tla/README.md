# bean-raft in TLA+

bean-raft is an unfinished Raft implementation in C++. What runs today is its
infrastructure: an asynchronous logger, an event loop, dynamic strings. The
socket helpers (`anet.cpp`) and the Raft nodes (`connection.cpp`,
`raftLog.cpp`) are drafts that are not in the Makefile. This directory models the parts that have behaviour, checks
them with TLC on small instances, and proves with TLAPS what holds for every
instance. Paths are relative to the repository; `logger.cpp` is
`src/logger.cpp`.

## 1. Inventory

| Component | State | Operations | Modelled in |
|---|---|---|---|
| `LogWritter` (`logger.cpp:264-516`) | `memtable`, `memtable_size`, the two indices, `blocked_threads`, `disk_full_try_times`, `miss_logs`, the levels, `mu`, `cv` | `writeLog`, `write`, `asyncRun`, the setters, the destructor | `LogWritter`, `LogService` |
| `LoggerAllocator` (`logger.cpp:82-112`) | a `std::list` of 2048 buffers of 4 KB, a mutex | `allocate`, `deallocate` | `LoggerAllocator` |
| `FileWritter` (`logger.cpp:113-263`) | the `FILE*`, its stdio buffer, `file_size`, the names taken, `errno` | `write`, `flush`, `rotate`, `_createFile` | `FileWritter`, `Logger` |
| `logEverySeconds` (`logger.hpp:36-47`) | one static atomic per site | the macro | `LogEverySeconds` |
| `EventLoop` (`eventloop.cpp`) | the vector of file events, the kernel's epoll set, a priority queue of timers, `last_time`, `running` | `init`, `addFileEvent`, `delFileEvent`, `addTimerEvent`, `polling`, `processEvents`, `processTimeEvents`, `stop`, the two hooks | `EventLoop` |
| `sds` (`sds.cpp`, `sds.hpp`) | header type, `len`, `alloc`, bytes | creation, growth, append, format, range, trim, split, join, quoting, number conversions | `SdsHeader`, `SdsText`, `Sds` |
| `Slice` (`slice.cpp`) | the owned `sds` | constructors, copy, move, append, reserve, shrink, clear, the destructor | `Slice` |
| `util` (`util.cpp`) | none | `digits10`, `ll2string` | `SdsText` |
| `Connection`, `raftNode`, `raft` (`connection.cpp`) | descriptor, status, reply queue, `reply_written` | connect, read, write; the Raft handlers are empty | `RaftNode` |
| `anet` (`anet.cpp`) | none of its own: the process's descriptors | resolve, connect, listen, accept | `Anet` |
| `raftLog` | none (empty class) | none | not modelled |
| `main` | none | start the logger, log, delete it | the order of calls is assumed by `Logger` |

**How they interact.** Any thread calls `writeLog()`. It takes a buffer from
the allocator (its own mutex), formats into it, and pushes it to `memtable`
under `mu`. A call at or above `sync_loglevel` then waits on `cv` until
`flushed_log_index` reaches its entry. The async thread waits on the *same*
`cv`, with a 10-second limit; it swaps the memtable out, and without any lock
writes each entry through `FileWritter` and gives its buffer back to the
allocator; then it flushes, takes `mu`, puts what could not be written back in
front of the memtable, and wakes held callers. The destructor clears
`running`, notifies and joins. `EventLoop`, `Slice`/`sds` and `Connection`
share no state with the logger. `Slice` hands its string to `sds` and, most of
the time, keeps the pointer it gets back. `Connection` gets its socket from
`anet`, holds its replies in `Slice`s, and is meant to be called by an
`EventLoop` when the socket is ready. The callbacks of an `EventLoop` run inside
its loop and call its methods.

**What is hard.** One condition variable with two kinds of waiters and a mix
of `notify_one` and `notify_all`; a batch handled without the lock whose
counters are settled afterwards; a partial failure in the middle of a batch; a
backoff counter shared by both sides; a free list that one side uses without
the lock; `errno` and stdio hiding failures; rotation failing inside the
second of the previous one; shutdown while the disk fails. In the event loop: a
clock that wraps and is set back, callbacks that arm timers and stop the loop,
two tables of registrations that must agree. In strings: five header types whose
boundaries decide what fits, pointers that change under their owner, memory that
runs out. In sockets: error paths between opening and handing out, descriptors
that other threads reuse, writes that are taken in part. `PROJECT.json` lists
each at its line, with the properties aimed at it.

**What makes each part correct.**
- `LogWritter`: entries reach the file once and in order; a synchronous call
  returns, and only after its entry was flushed; no wake-up is lost; shutdown
  loses nothing and ends.
- `LoggerAllocator`: no buffer is lost or handed out twice.
- `FileWritter`: the files hold exactly what `write()` reported, and what
  counts as flushed is on disk.
- `logEverySeconds`: at most one line per period and site.
- `EventLoop`: the registrations of the program reach the kernel; a timer runs
  when due and does not keep others, or the descriptors, from their turn; a
  loop that is stopped ends.
- `sds`: length and capacity agree with the header and the block; what is
  quoted, split or converted can be read back.
- `Slice`: one owner per block.
- `anet`: a failed call leaves nothing open and closes nothing it did not open.
- `raftNode`: on one connection the replies are sent without a gap, a repetition or
  a change of order.

## 2. Modules

| Module | Models | Used by |
|---|---|---|
| `LogService` | the promise of the logger, with no thread, lock, buffer or file: an accepted entry is stored once, in order; a held caller is let go after `flush()` was called with its entry written; closing comes last. `flush()` reports no failure, so the promise ends there and not at the disk | `LogWritter` (`Service`) |
| `LogWritter` | the threads inside `writeLog()`, `write()`, `asyncRun()`, the setters and the destructor | `MCLogWritter`, `Logger`, proofs |
| `LoggerAllocator` | the free list at the grain of single loads and stores of links | |
| `FileWritter` | files, stdio buffer, `errno`; a disk that fills up; a clock | `Logger` |
| `Logger` | `LogWritter` writing through `FileWritter` | `MCLogger` |
| `LogEverySeconds` | one rate-limited site | proofs |
| `SdsHeader` | the header of a string: every function of the library that touches it, from headers to headers | `Sds`, `Slice` |
| `SdsText` | the algorithms on bytes: quoting, splitting, ranges, formatted output, numbers (`sds.cpp`, `util.cpp`) | `Sds` |
| `Sds` | one string and the calls a program makes on it | `MCSds` |
| `Slice` | slices over a heap | `MCSlice` |
| `EventLoop` | the loop's thread, the clock, the kernel's set, the program's callbacks | `MCEventLoop` |
| `Anet` | the socket helpers over the descriptors of the process | `RaftNode` |
| `RaftNode` | a node that connects through `Anet` and writes its replies | `MCRaftNode` |
| `LoggerProofs` | theorems about `LogWritter` and `Logger` | |
| `SdsHeaderProofs` | theorems about the headers that each call leaves | `SliceProofs`, `SdsProofs` |
| `SdsProofs` | theorems about `Sds` and the algorithms of `SdsText` | |
| `LoggerAllocatorProofs`, `LogEverySecondsProofs`, `EventLoopProofs`, `SliceProofs`, `RaftNodeProofs` | theorems about the module in the name | |

### LogWritter
The variables bear the names of the code. `cv` is the set of threads that wait
on the condition variable, so that `notify_one` is a choice and `notify_all`
empties it. `wpc[w]` and `apc` say where a thread is. Every critical section of
`mu` is one action; the exception is the head of the loop of `asyncRun()`,
which iterates with `mu` held while it counts the backoff down: `apc = "head"`
is the state in which `mu` is held between actions (`MuFree` guards everything
else that takes it).

| Code | Actions |
|---|---|
| `writeLog` 356-391 | `BeginLog` (level filter, `should_flush` read), `Allocate`, `PoolEmpty` (the second read of `sync_loglevel`), `GiveUp` |
| `write` 316-354 | `WriteSync`, `WriteNormal`, `WriterWake` |
| `asyncRun` 432-459 | `AsyncLock`, `AsyncWait`, `AsyncBackoff`, `AsyncExit`, `AsyncTake` |
| `asyncRun` 460-480 | `AsyncWrite`, `AsyncDeallocate`, `AsyncFlush` |
| `asyncRun` 481-498 | `AsyncRelock` |
| destructor | `Deinit`, `Joined` |

A message is the number of the call that logged it, so that loss, repetition
and reordering all show; its length is a constant function. `table` is what
`[ite, end)` still holds. `flushed` is the number of entries written when
`flush()` was last called. It is no more than that: `flush()` ignores what
`fflush()` and `fdatasync()` return, and a file that a rotation closed is not
synced. What is on the disk is in `FileWritter` and `Logger`.

`RacingDeallocate` stands for the overlap of the unlocked `deallocate()` with an
`allocate()` that takes the last node: `LoggerAllocator` has the loads and
stores, `LogWritter` what they make of the list (`links`) and the number of
buffers that can be found. The list stays sound, with or without the loss of the
pushed buffer; or it looks empty from then on; or it is `stuck`: its front stays
its front when it is taken, so that the next `allocate()` hands out the same
buffer and deletes its node a second time. After that (`ruined`) everything is
undefined, and the model ends. `accepted`, everything pushed, in order, is the
one history variable. The report of missed logs is never written: the length it
is given goes to an inner `misslog_len` that shadows the one the test reads (see
5), so `AsyncTake` clears `miss_logs` and nothing else comes of it.

### LoggerAllocator
`next` and `prev` are the links of the `std::list`, node 0 its sentinel.
`allocate()` is seven steps, `deallocate()` five, each one load or store in the
order of libstdc++'s hook and unhook. A single allocating process stands for
whichever thread holds the allocator's mutex; the single deallocating one is the
async thread. Interleavings are sequentially consistent, a lower bound of what
a data race may do.

### FileWritter and Logger
The constructor creates the first file or fails to, its name being taken.
`files` are the files oldest first, `[data, durable]`; `buffer` is what stdio
holds of the open one; `enospc` is `errno == ENOSPC` in the async thread;
`fresh` says that no file bears the name of the current second. `disk_full`
changes at any moment. With a full disk an `fflush()` writes any prefix of the
buffer and drops the rest, as glibc does. `Logger` conjoins the file actions to
the steps of `asyncRun()` that make them: `AsyncRotate`, `AsyncReopen`,
`AsyncWriteFile`, `AsyncFlushFile`, `CloseFile`; all other actions of
`LogWritter` leave the file alone.

### LogEverySeconds
A pass is: read the clock, load the atomic, compare, exchange. The clock may
show any time at any read. `granted` is the sequence of the stamps of the passes that
log, so that two passes with one stamp are two. `ExchangeFails` also covers the
spurious failure of `compare_exchange_weak`.

### SdsHeader, SdsText, Sds
A header is `[type, len, alloc, size]`, `size` being that of the block behind
it; the fields are as wide as the type (`Stored` cuts off what does not fit), so
that a wrong type shows as a wrong length. `RoomPath` and `ShrinkPath` say which
way `sdsMakeRoomFor()` and `sdsRemoveFreeSpace()` take: the string stays, goes
through `realloc()`, or is copied because the header changes its size. A text is
a sequence of byte codes. The parsers are recursive functions of a position, one
case per branch of the code. `Sds` pairs header and text and has one action per
call; a call that returns a pointer is used as documented.

### Slice
`heap` maps blocks to a header and a text, `data` is the pointer in a slice.
Storage without a slice holds anything: the copy and move constructors, which
read it, find NULL, the block of anybody, a freed block, or a pointer to no block
(`Found`). `Through` is the one place where a string moves: the block stays, moves
to a free block, or there is no memory; the returned pointer is kept, dropped, or
used inside sds unchecked. `AppendPrintf` can also run out of memory for the
buffer it prints to. Assignment frees the old string before it reads the other
slice, and ends without a return: in the default build (`-O0`) it comes back to a
caller that does not use the result, in any other case the process is over
(`NoReturn`). Programs do everything the interface allows, and `causes` records
which of the things that are not survived they have done; `fault` is how the
process ended.

### EventLoop
`pc` is where the loop's thread is; in `user`, `before`, `after`, `fn` and
`skewfn` code of the program runs and may call any method. `masks` and `size` are
the vector, `kernel` the epoll set, `when` the queue (its order is `Top`, the
comparison of the code). The clock ticks and is set back at any moment;
`mstime()` is an `int` and wraps at `HalfRange`; `time()` does not. Two facts of
the code shape the model: `epoll_events` is never given a size, so that
`epoll_wait()` has a NULL buffer and never reports a descriptor (`wait_fails`),
and nothing ever writes an element's `mask` (`masks` is in every UNCHANGED). Beyond the end of the
vector any mask may lie. `close` is the program's close of a
descriptor, of which the kernel forgets the interest and the loop knows nothing.

### Anet and RaftNode
`owner` says for each descriptor of the process who knows it; a descriptor that
is opened is the lowest free one, as POSIX says. A call is a walk of system calls
(`pc`), each of which may fail, and other threads open and close descriptors
between any two. `left` counts the addresses not yet tried. `v6failed` records
that `anetV6Only()` has closed the socket whose number the caller still holds.
`lists` are the results of `getaddrinfo()` not freed yet: that of the address and,
between `ResolveSource` and `BindSource`, that of the source address. `RaftNode` adds the
`Connection` and the reply queue: a reply is a number of units, `Wrote` the
outcomes of one `write()`. No constructor sets the descriptor, the status or
`reply_written`: they start as anything. `accepted` is what the current
connection took: where in the text of all replies each write started and how
much of it was taken; `origin` tells when `reply_written` comes from the code.

## 3. Runs

| Run | Shows | Instance and why it is enough |
|---|---|---|
| `logwritter_safety` | type, order, exact counters, no lost wake-up, refinement of `LogService` | 2 writers, 4 calls, 2 buffers, `NotifySize` 2 with lengths 3 and 1: both `notify_one` and `notify_all`, calls that find the pool empty, entries pushed during a batch that fails, either order around the limit, and a list that a race has left empty, stuck or ruined occur. Symmetric in the writers. |
| `logwritter_liveness` | synchronous calls return, accepted entries are written, the join ends | 2 writers, 2 calls, 1 buffer; no symmetry |
| `allocator_race` | no harm while two buffers are free whenever the calls overlap | 3 buffers: 0, 1, 2 and 3 free ones during an overlap |
| `logger_files` | files against the memtable and the indices | 1 writer, 3 calls, sizes that rotate after one or two entries, one full disk |
| `log_every_seconds` | at most one line per period | 2 threads, period 2, five times; equal stamps included |
| `strings` | header, quoting, splitting, numbers and ranges | header types of 2, 4, 6, 12 and 63 bytes, so that texts of up to 4 bytes and the room made for them cross every boundary; all texts of up to 4 letters out of `NUL " ' 4 \ x`, which hold every prefix of an escape; numbers of 14 bits in base 2, at the edges 2^0, 2^1, 2^12 and 2^13, where `digits10()` starts over |
| `slices` | ownership, the causes of every memory fault | 2 slices, 3 blocks: a copy and a move at the same time, memory that runs out, a block reused for another slice; types of 1, 3 and 5 letters. Symmetric in slices and in blocks. |
| `event_loop` | what a pass leaves, stop | three programs: two descriptors of which 3 lies behind a vector grown for 1; two timers, one periodic; one of each. `MaxTime` 3, a clock that wraps at 2 and a second of 2 ticks: every order of the two clocks |
| `network` | descriptors, error paths, the reply stream | 2 descriptors, 2 addresses, replies of 0 and 2 units: a full table, a number reused between two closes, a reply taken in part and one that is empty |
| `no_space_when_free`, `sync_not_on_disk`, `stuck_after_disk_full` | one finding each, see 5: the property is what a comment says, and is violated | the smallest that shows it |

**Bounds.** `MaxCalls` bounds the calls that pass the level filter (the only
unbounded input of `LogWritter`); `MaxFills` how often the disk fills up;
`DiskFullTries` is 1 instead of 10, which is only the length of a countdown; a third copy of a message in a row in a file is not told from a
second one (`Add`), since a stuck errno writes the same entry for ever.
`MaxLen` bounds texts in `strings` and `slices` (and `Bytes` those that are
appended to), `MaxTime` the clock of the loop, `MaxAddrs`, `MaxReplies` and
`MaxUnits` what `network` resolves, queues and sends. Deadlock is checked except
in `allocator_race`, `no_space_when_free` and `slices`, where the process ends at a double free or a NULL that is followed.

**Fairness.** `WF` of the async thread: it runs when it can. `SF` of each
writer's step: a writer finds `mu` free again and again, not continuously, and
a mutex does not starve it. `WF` of the end of the async thread's wait: that is
the 10-second limit of `wait_for()`. `DiskRecovers` is `SF` of a successful
write: a disk tried for ever works in the end (an `errno` that
is never cleared can defeat it, see finding 3). Nobody has to log or to shut
down. `LoggerFairSpec` assumes the same threads and a clock that goes on, and
nothing about the disk. In `EventLoop`, `WF` of `Loop`: the thread runs, and the callbacks
of the program return. `wait_fails` is not part of it: a wait for descriptors
that are never ready has no timeout. That callbacks stop arming timers is a
premise of `StopIsHeard`, not an assumption of the specification.

Each property of a passing run has a mutant, a parameterised variant of one
definition kept next to it (`RestLastRelock`, `LeakyWriterWake`...): under it the
property fails.

## 4. Proofs

TLAPS proves the following for every value of the constants that satisfies the
assumptions: every invariant, action property and refinement that a passing run
checks, and what they rest on. The modules `...Proofs` hold the proofs of one component
each; `LoggerProofs` those of `LogWritter` and of the logger with its files.

| Theorem | States | Module |
|---|---|---|
| `TypeCorrect` | `TypeOK` | `LoggerProofs`, `LogEverySecondsProofs` |
| `EntriesKeepTheirOrder` | `OrderInv` | `LoggerProofs` |
| `MemtableSizeIsExact` | `SizeExact` | `LoggerProofs` |
| `BlockedThreadsIsExact` | `BlockedExact` | `LoggerProofs` |
| `FlushedCallersAreWoken` | `NoLostWakeup` | `LoggerProofs` |
| `AsyncThreadIsAwake` | `AsyncAwakeWhenNeeded` | `LoggerProofs` |
| `BackoffIsNeverSeen` | `BackoffUnseen`: no thread that gets `mu` finds a backoff. No run checks it: it contradicts a comment, see 5 | `LoggerProofs` |
| `LoggerImplementsService` | `ImplementsLogService`: `LogWritter` implements `LogService` | `LoggerProofs` |
| `AllocatorTypeCorrect` | `TypeOK` | `LoggerAllocatorProofs` |
| `TwoFreeBuffersSuffice` | `HarmlessWhileTwoFree` | `LoggerAllocatorProofs` |
| `LoggerImplementsLogWritter` | `LoggerSpec => Spec`: with its files the logger is still a `LogWritter` | `LoggerProofs` |
| `LoggerServes` | `ImplementsLogService`, of `LoggerSpec` | `LoggerProofs` |
| `LoggerTypeCorrect` | `LoggerTypeOK` | `LoggerProofs` |
| `FilesHoldWhatWasWritten` | `ExactWhileDiskWorks` | `LoggerProofs` |
| `FlushedIsInFile` | `FlushedInFile` | `LoggerProofs` |
| `MessagesStayInOrder` | `InOrder` | `LoggerProofs` |
| `FileSizeIsExact` | `FileSizeExact` | `LoggerProofs` |
| `RotationFindsStream` | `RotatesOpenFile` | `LoggerProofs` |
| `NothingIsLeftBehind` | `CompleteAtClose` | `LoggerProofs` |
| `StampsAPeriodApart` | `PeriodApart` | `LogEverySecondsProofs` |
| `LaterPassLaterStamp` | `StampsAdvance` | `LogEverySecondsProofs` |
| `PassLeavesNoTimer` | `PassEmptiesQueue` | `EventLoopProofs` |
| `EveryBlockHasItsOwner` | `OwnershipExact` | `SliceProofs` |
| `DeathsAreExplained` | `FaultsExplained` | `SliceProofs` |
| `MakeRoomOK`, `RemoveFreeSpaceOK`, `CatLenOK`, `CpyLenOK`, `GrowZeroOK`, `FormatItemOK`, `NewLenOK`, `SetLenOK` | the header that a call of `SdsHeader` leaves is right | `SdsHeaderProofs` |
| `HeaderStaysSound` | `HeaderSound` | `SdsProofs` |
| `RoomIsUsable` | `RoomMadeIsUsable` | `SdsProofs` |
| `QuotedArgsReadBack` | `ArgsRoundTrip` | `SdsProofs` |
| `SplitIsUndone` | `JoinUndoesSplit` | `SdsProofs` |
| `WrittenNumbersReadBack` | `NumbersReadBack` | `SdsProofs` |
| `NumberInBuffer` | `ll2string()` writes what `sdsll2str()` writes, or refuses a buffer without room for it | `SdsProofs` |
| `TextCallsDoWhatTheySay` | `TextOps` | `SdsProofs` |
| `CallsLeaveNothingOpen` | `NothingLeftOpen` | `RaftNodeProofs` |
| `CallsCloseTheirOwn` | `ClosesOnlyItsOwn` | `RaftNodeProofs` |
| `RepliesUnbroken` | `StreamUnbroken` | `RaftNodeProofs` |

**Assumptions.** `WritersAssumption`: the writers are finitely many and none of
them is the async thread. `SizesAssumption`: levels, sizes and lengths are
natural numbers (zero buffers, a backoff of zero and empty messages included).
`LoggerAssumption`: the limits on a file's size are natural numbers with a
largest one (in the code, of an `int`). `FileAssumption`: the header of a file
is not empty. `EntriesAssumption`: the pool has a buffer. `PeriodAssumption`: a
period is positive and the clock shows natural numbers. `LoopAssumption`: finitely
many timers (they are objects in memory), a second and a wrap of the clock that are not
zero. `HeaderAssumption`: each header type stores more than the one before.
`SliceAssumption`: texts are not longer than `MaxLen`, and the largest type
stores what `sdsMakeRoomFor()` reserves for such a text (2^64 - 1 in the code).
`TextAssumption`: the radix is 2 to 10, a long long has an even number of values,
`SDS_LLSTR_SIZE` has room for a sign, its digits and a NUL (21 bytes in the code),
and the first array and the first buffer are not empty (5 and 1024).
`SdsAssumption`: the program's texts are bytes, separators are not empty, numbers
are long longs, and some length that the largest header stores together with what
`sdsMakeRoomFor()` reserves bounds the texts, the lengths asked for and a number. `RoomIsUsable` has the
hypothesis `0 \notin Sizes`: room for no byte leaves a header of type 5 as it is,
and there the assertion of `sdsIncrLen()` refuses a step of 0.
`AnetAssumption` and `NodeAssumption`: descriptors and reply lengths are natural
numbers (empty replies included).
Nothing is assumed of the disk, of memory, of the scheduler or of how often a
wait ends spuriously.

**The threads.** The inductive invariant of `LogWritter` is `IInv`; the
properties of the table are conjuncts of it or follow from it, and the others
are what makes it inductive:

| Part | Why it is needed |
|---|---|
| `NoBatch` | between batches `table` and its two counters are empty: the swap and the splice then move entries and never drop them |
| `Counted` | `written_log_index` and `flushed_log_index + current_flushed_logs` are the lengths of what was pushed and written. A new synchronous caller therefore waits for an entry that is *not* flushed yet, so that it is right to let it wait |
| `FlushInv` | the flushed index never runs ahead of the last `flush()`: the refinement's `LetGo` asks for it |
| `ShutDown` | nobody is inside a call after the destructor began, and the thread ends with an empty memtable: `Close` asks for it |
| `OwedInv` | a held caller waits for an entry that was pushed, so an empty memtable means that nobody is owed anything and the async thread may wait |
| `BackoffInv` | the backoff is positive only at the head of the loop and with entries to write again. Without it a push that finds a backoff would notify nobody and `AsyncAwakeWhenNeeded` would not be inductive |
| `BlockedExact`, `CvTypes` | the loop wakes held callers while the async thread itself is not on `cv`, so that a `notify_one` sent for the one held caller cannot be taken by anybody else |
| `Sized` | `memtable_size` is the total length of what is not settled, so that it is 0 when the memtable is empty. The total is stated by the existence of a table of offsets, one per accepted entry, which a push extends; the table determines the fold of `SizeExact` |

The lemma `Classified` reduces the disjuncts of `Next` to seven kinds of steps
with respect to the queue (a push, the swap, a write, an entry that leaves the
batch, the flush, the settling, and all others); the frame lemmas
(`BlockedFrame`, `CvFrame`, `FlushedFrame`, `SizeFrame`, `PendingFrame`) say
which steps can touch what, and every part of `IInv` then has a lemma of its own
over the few kinds that matter. `RelockWakes` and `NothingLeft` hold the two
facts on which the wake-ups depend.

**The files.** That `LoggerSpec` implements `Spec` is a step-by-step simulation
without a mapping: both have the same variables, and a file operation that the
threads do not see is a stutter. So `IInv` holds of `LoggerSpec` too, and
`LoggerInv` adds to it: `FileTypes`; `ClosedStream`, without a stream nothing is
buffered and `file_size` is 0, hence a rotation finds a stream; `DiskWorks`, a
disk that never filled up leaves no `errno`, hence no write fails; `SyncedInFile`,
the same as `FlushedInFile` for what the last `flush()` returned for, which is
known before `flushed_log_index` is moved; `Ended`; and `InAcceptedOrder`. The
last is what `InOrder` needs to be inductive: positions ascend through files and
buffer, and none is beyond the *next* entry to be written, since an entry whose
write failed is in the buffer already and will be written again. Steps are
reduced to a creation of a file, a write, a flush, and those that leave the
files alone.

**The free list.** `Sound` says that there is a chain `c` from the sentinel to
the sentinel through the free buffers, each once, and that the links follow it
in both directions but for the two stores that a call in progress has made
first: `next` of the sentinel already leads past the front, `next` of the last
node already leads to the new one. `PopperView` and `PusherView` say what the
two calls have in their registers; that two buffers are free whenever they
overlap makes the front another node than the last, so that each view survives the
other's stores. A pop drops the first node of the chain and a push appends one.
The walk of `WellLinked` then goes along the chain by induction. `FrontIsBuffer`
and the types hold although a race may have been recorded.

**The rate limit.** The invariant adds `LatestStamp` (the atomic holds the
largest stamp), from which both results follow by the comparison that precedes
the exchange.

**The loop.** `LoopInv` has, besides the types, `ArmedInThePast`: unless the
clock went back, no queued timer is armed for later than now or than the reading
of a pass that is under way, so that the pass finds each of them due.

**Slices.** `SliceInv` is `Clean` for as long as `causes` is empty:
each slice that points to a block points to one in use, no two to the same one,
each block in use and not lost has its slice, and each header is right for its text. Every
call is put together from seven small changes of the heap (`StoreStep`,
`WriteStep`, `ReleaseStep`, `HandOverStep`, `LoseStep`, `ForgetStep`,
`NothingStep`), each of which keeps `Clean`; `Stays` and `Gone` say what a step
may lead to, a clean heap or a cause. Once there is a cause, what is left to show
is that every death has one. The headers a call leaves are right by the theorems
on `SdsHeader`, whose hypotheses are those of `SliceAssumption`.

**Strings.** The inductive invariant of `Sds` is `SdsInv`: `HeaderSound`, and the
text is no longer than `Longest`, the bound of `SdsAssumption`. The second part is
what makes `sdsMakeRoomFor()` find a type for what it reserves. Each call has a
lemma (`CatNext`, `CatFmtNext`, ...) that puts together the theorem on its header
and the length and bytes of its text; `CatFmtNext` goes through the items of a
format, whose header is a fold. The other properties are about what the
algorithms compute, for the text of any state that satisfies `SdsInv`. Each is
read off the equation of the recursive function that stands for the loop:

- *Splitting*: `SplitGood` says of the loop at any of its states that the tokens
  it will still deliver join to the rest of the text, that none of them holds
  the separator, and that there is a slot for each; it is kept by a separator
  found, by a byte passed and by the last token.
- *Numbers*: `Written(v)` are the digits of `v`, highest first. A reading of them
  (`Reads`) multiplies and adds its way to `v`; `Digits10Counts` says that the
  number of comparisons passed, and of divisions made, is their number;
  `PairsAreDigits` that writing two at a time gives the same ones. `NumberFits`
  is what `sdsfromlonglong()` needs of its buffer.
- *Quoting*: `TokensBy` and `TokensFrom` are the equations of the two loops of
  `sdssplitargs()`. `QuotedRead` says what is read of the quoted form of one
  byte, for each of the ways to quote it; `SpeltRead` adds up such bytes, one at
  a time, up to the closing quote, and `TokenInQuotes` has the quotes around
  them, as `sdscatrepr()` writes them. `SinglesRead` is the same for single quotes,
  where a backslash may be in the way of the closing quote and therefore must
  not be the last byte. `CutRefused` and `GoesOnRefused` are the two errors.
- *Ranges, comparison, output*: `RangeKeeps`, `PrefixIsLess` and `PrintIsComplete`,
  of which the last needs that the doubling of the buffer ends.

**The sockets.** The invariant is `AnetInv`. `OneSocket` says that the only
descriptor a call owns is the one in `s`, that there is none before the call has
made a socket, and that `s` names it whenever the next step may close it; the
exception is `v6failed`, after which `s` may name a descriptor of somebody else.
`ListFreed` says where no address list may be left. `NothingLeftOpen` is what
they say of `idle`, `ClosesOnlyItsOwn` what `OneSocket` allows a closing step. The
other threads keep it because what they open was free and what they close was
theirs. `StreamUnbroken` needs `CountHolds`: from the first pop on, `reply_written`
lies inside the first reply, and the last write that was accepted ended there.

**Induction.** The library's induction theorems take an operator as a
parameter, which no prover here can instantiate. The proofs use first-order
forms instead, for a *set* of numbers or of values with a measure
(`NatSetInduction`, `BoundedInduction`, `MeasureInduction`), proved from the
well-foundedness of `<` on numbers. A recursive function is a CHOOSE of a function
that satisfies an equation; `RecursionExists` shows that there is one, for any
recursion that makes one call with a smaller measure, and `RecursionType` what its
values are. `FoldExists` does the same for the folds over a sequence. This is how
`SizeExact`, `FileSizeExact`, the walk of `WellLinked` and the properties of `Sds`
come to be proved with the definitions of the model as they are. All invariants were
first checked with TLC on the instances of the runs.

**Only model-checked.** Liveness under fairness: `SyncCallReturns`,
`AcceptedIsStored`, `DeinitEnds` and `StopIsHeard`. Their proofs need WF and SF
steps, hence ENABLED, which is out of TLAPS's reach here. The findings
of section 5 are TLC's counterexamples.

## 5. Findings

1. The free list can look empty although a buffer is free
   (`no_space_when_free`): `deallocate()` takes no lock. `HarmlessWhileTwoFree` is
   the condition under which it is sound.
2. A synchronous call may return with its message in no file
   (`sync_not_on_disk`): the result of `fflush()` is not looked at.
3. After one `ENOSPC` the logger repeats the first entry of the memtable for
   ever (`stuck_after_disk_full`): `errno` is not cleared before `fwrite()`. In the
   trace it is the unchecked flush of a new file's header that leaves it.

Where a comment and the code disagree and the model follows the code (none of
these is claimed as a property; each is a hazard of `PROJECT.json` or stands
here for the reader):

- `logger.cpp:327` says that a synchronous call is downgraded while the disk
  fails, and 438 and 484-485 that the writes wait a while. The backoff is set and
  counted down by the async thread with `mu` held: no writer finds it positive
  (`BackoffIsNeverSeen`, proved), no call is downgraded, and the countdown takes
  no time.
- `eventloop.cpp:151-152` says that a clock set back makes the loop process all
  timers as soon as possible. The branch does not pop the queue: it runs the top
  timer for ever, and no other.
- `eventloop.cpp:47` says that the mask tells whether a descriptor is
  registered. No line writes the mask: only the first `addFileEvent()` of a
  descriptor has an effect, until it is closed, and `delFileEvent()` has none.
- `eventloop.cpp:39` says that the resize makes room for `events[fd]`; for a
  descriptor of more than twice the size it makes one element too few.
- `slice.hpp:5` calls the copies of a `Slice` shallow; they are deep.
- `sds.cpp:806-807` says that `sdsrange()` keeps only the range; of one that lies
  before the string it keeps the first byte. `TextOps` leaves that range out.

What else the modules take from the code as it is, and what their properties
say about it:

- `LogWritter`: the count of missed logs is cleared and its report never
  written. A file closed by a rotation is not synced; `FlushedInFile` leaves such
  files out.
- `EventLoop`: intervals are not used, so a periodic timer keeps its pass
  (`PassEmptiesQueue`); no file function is ever called; a `stop()` before
  `polling()` is lost, and `StopIsHeard` is about a loop that has begun and is not
  held by a wait, a skew or a periodic timer.
- `Slice`: five causes lead to every double free, use after free or NULL that is
  followed (`FaultsExplained`). The properties name these programs and do not
  claim that the code survives them. The assignment operators return no value.
  A block whose append found no memory is forgotten (`lost`).
- `sds`: `sdssplitlen()` returns an array, not the documented NULL, for an empty
  string; `sdscatvfmt()` reads past a format that ends in `%`.
- `anet`: after a failure of `anetV6Only()` the socket is closed twice
  (`ClosesOnlyItsOwn` holds but for that).
- `Connection`: a failed write, or a reconnection, drops the descriptor without
  closing it; an empty reply is taken for a closed connection; the rest of a
  reply goes to the next connection (`StreamUnbroken` is about one at a time, and
  begins behind the first reply, whose `reply_written` is not initialised).

## 6. Not modelled

- The bytes of a line, its header, its colour; `snprintf` with an uninitialised
  `maxlen` and messages longer than a buffer (memory errors of one call).
- The empty file name, which logs to stdout; `setUseColor()`;
  `setMaxMemtableSize()`, whose value nothing reads.
- `seconds * 1000000` beyond `int` (2148 seconds and more) in
  `logEverySeconds`.
- `EventLoop`: which functions the file events hold, and their dispatch
  (unreachable, see 2).
- `sds`: the allocator wrappers and what the splitters free when memory runs out;
  the letters of a format; that `sdssplitargs()` does not test its allocations.
- `Slice`: the conversions to `char *`, through which a program can do anything.
- `anet`: setters of single socket options, formatting of addresses.
- `connection.cpp`: the Raft handlers (`processRequestVote()` grants every
  candidate of a current term and records nothing; the others are empty), the
  parsing of requests (empty), and a read error that appends -1 bytes.
- `raftLog` (an empty class) and `main` (the order of its calls is what `Logger`
  assumes of its owner).

## 7. Plan

The system is modelled as far as it has behaviour, and every property that a
passing run checks is proved but for liveness. What is left depends on the code:

1. When the Raft handlers of `connection.cpp` have bodies and requests are
   parsed: a module for one node's term, vote and log, one for the network
   between nodes, and election safety and log matching over them. Today
   `processRequestVote()` keeps no vote, so that there is nothing to state.
2. When `epoll_wait()` is given a buffer: the dispatch of file events, with the
   interest of a descriptor changed by its own callback.
3. A change to a modelled function changes its definition, then the run, then the
   lemma of the same name; `PROJECT.json` maps definitions to lines.
