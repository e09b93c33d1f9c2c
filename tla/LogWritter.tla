----------------------------- MODULE LogWritter -----------------------------
(***************************************************************************)
(* The threads of src/logger.cpp: the writers inside writeLog()/write(),   *)
(* the async thread inside asyncRun(), the level setters and ~LogWritter,  *)
(* synchronised by the mutex mu and the condition variable cv.             *)
(*                                                                         *)
(* A critical section of mu is one action, except the head of the async    *)
(* loop, which may iterate with mu held: mu is held between actions iff    *)
(* apc = "head".  cv is the set of the threads waiting on it.  A message   *)
(* is the number of the call that logs it, its length is MessageLen.  The  *)
(* file is what FileWritter::write() reported as written, and each write() *)
(* may fail; FileWritter says when it does.                                *)
(***************************************************************************)
EXTENDS Integers, Sequences, SequencesExt, FiniteSets

CONSTANTS
    Writers,          \* the threads that log
    Async,            \* the async thread
    Levels,           \* the levels they log at and set
    MAX_LOG_ENTRY,    \* buffers of the allocator (2048 in the code)
    NotifySize,       \* memtable_size that wakes the async thread (10240)
    DiskFullTries,    \* backoff after a failed write (10)
    MaxCalls,         \* bound: calls of writeLog that pass the level filter
    MessageLen        \* length of each call's formatted message

LOG_INFO == 1
LOG_FATAL == 4
Messages == 1 .. MaxCalls

ASSUME WritersAssumption == IsFiniteSet(Writers) /\ Async \notin Writers
ASSUME SizesAssumption ==
    /\ Levels \subseteq Nat
    /\ MAX_LOG_ENTRY \in Nat /\ NotifySize \in Nat
    /\ DiskFullTries \in Nat /\ MaxCalls \in Nat
    /\ MessageLen \in [Messages -> Nat]

VARIABLES
    loglevel, sync_loglevel, miss_logs, running,
    memtable,              \* messages accepted, oldest first
    memtable_size, written_log_index, flushed_log_index,
    blocked_threads, disk_full_try_times,
    cv,                    \* threads waiting on the condition variable
    freelist,              \* number of buffers allocate() can find
    links,                 \* what races have made of the list (see Links)
    wpc, message, level, should_flush, need_flushed_index,  \* per writer
    apc,                   \* the async thread
    table,                 \* its swapped-out memtable, from ite to the end
    current_flushed_logs, current_written_size,
    misslog_len,           \* the outer one: length of the report to write
    stored,                \* messages written to the file, oldest first
    flushed,               \* Len(stored) when flush() was last called
    calls,                 \* number of calls begun (bounds the model)
    \* history
    accepted               \* every message pushed, in push order

config == <<loglevel, sync_loglevel>>
pool == <<freelist, links>>
queue == <<memtable, memtable_size, written_log_index, accepted>>
locals == <<message, level, should_flush, need_flushed_index>>
batch == <<table, current_flushed_logs, current_written_size, misslog_len>>
disk == <<stored, flushed>>

vars == <<config, miss_logs, running, queue, flushed_log_index,
          blocked_threads, disk_full_try_times, cv, pool,
          wpc, locals, apc, batch, disk, calls>>

Init ==
    /\ loglevel = LOG_INFO /\ sync_loglevel = LOG_FATAL
    /\ miss_logs = 0 /\ running = TRUE
    /\ memtable = <<>> /\ memtable_size = 0
    /\ written_log_index = 0 /\ flushed_log_index = 0
    /\ blocked_threads = 0 /\ disk_full_try_times = 0
    /\ cv = {} /\ freelist = MAX_LOG_ENTRY /\ links = "sound"
    /\ wpc = [w \in Writers |-> "idle"]
    /\ message = [w \in Writers |-> 0]
    /\ level = [w \in Writers |-> 0]
    /\ should_flush = [w \in Writers |-> FALSE]
    /\ need_flushed_index = [w \in Writers |-> 0]
    /\ apc = "start" /\ table = <<>>
    /\ current_flushed_logs = 0 /\ current_written_size = 0 /\ misslog_len = 0
    /\ stored = <<>> /\ flushed = 0 /\ accepted = <<>> /\ calls = 0

(* The list of free buffers: `sound'; it looks empty for ever (`empty'); its *)
(* front stays its front when it is taken (`stuck'); and the node of a      *)
(* buffer has been deleted twice (`ruined').  What follows that is          *)
(* undefined, free() aborting the process at best: the model ends there.    *)
Links == {"sound", "empty", "stuck", "ruined"}
Alive == links # "ruined"

MuFree == apc # "head" /\ Alive

NotifyAll == cv' = {}
NotifyOne == IF cv = {} THEN cv' = {} ELSE \E t \in cv : cv' = cv \ {t}

Goto(w, pc) == wpc' = [wpc EXCEPT ![w] = pc]
AGoto(pc) == apc' = pc
-----------------------------------------------------------------------------
(* Configuration, from any thread. *)

SetLogLevel(l) ==
    /\ MuFree /\ running
    /\ loglevel' = l
    /\ UNCHANGED <<sync_loglevel, miss_logs, running, queue, flushed_log_index,
                   blocked_threads, disk_full_try_times, cv, pool,
                   wpc, locals, apc, batch, disk, calls>>

SetSyncLoglevel(l) ==
    /\ MuFree /\ running
    /\ l >= loglevel
    /\ sync_loglevel' = l
    /\ UNCHANGED <<loglevel, miss_logs, running, queue, flushed_log_index,
                   blocked_threads, disk_full_try_times, cv, pool,
                   wpc, locals, apc, batch, disk, calls>>
-----------------------------------------------------------------------------
(* writeLog(): the level filter.  A call below loglevel returns and changes *)
(* nothing.  No call begins once deinitLoggingSystem() has (running).       *)
BeginLog(w, l) ==
    /\ MuFree /\ running
    /\ wpc[w] = "idle" /\ calls < MaxCalls
    /\ l >= loglevel
    /\ calls' = calls + 1
    /\ message' = [message EXCEPT ![w] = calls + 1]
    /\ level' = [level EXCEPT ![w] = l]
    /\ should_flush' = [should_flush EXCEPT ![w] = (l >= sync_loglevel)]
    /\ Goto(w, "alloc")
    /\ UNCHANGED <<config, miss_logs, running, queue, flushed_log_index,
                   blocked_threads, disk_full_try_times, cv, pool,
                   need_flushed_index, apc, batch, disk>>

(* LoggerAllocator::allocate() takes its own mutex, not mu; it is tried     *)
(* again at most once, after a sleep ("retry").                             *)
Allocate(w) ==
    /\ wpc[w] \in {"alloc", "retry"}
    /\ \/ /\ freelist > 0
          /\ freelist' = freelist - 1
          /\ Goto(w, "write")
          /\ UNCHANGED links
       \/ /\ freelist = 0 /\ links # "stuck"
          /\ Goto(w, IF wpc[w] = "alloc" THEN "full" ELSE "giveup")
          /\ UNCHANGED pool
       \/ /\ freelist = 0 /\ links = "stuck"        \* its front is in use
          /\ links' = "ruined"
          /\ UNCHANGED <<freelist, wpc>>
    /\ UNCHANGED <<config, miss_logs, running, queue, flushed_log_index,
                   blocked_threads, disk_full_try_times, cv,
                   locals, apc, batch, disk, calls>>

(* allocate() returned null: sync_loglevel is read again, now. *)
PoolEmpty(w) ==
    /\ MuFree
    /\ wpc[w] = "full"
    /\ IF level[w] < sync_loglevel
         THEN miss_logs' = miss_logs + 1 /\ Goto(w, "idle")
         ELSE UNCHANGED miss_logs /\ Goto(w, "retry")
    /\ UNCHANGED <<config, running, queue, flushed_log_index,
                   blocked_threads, disk_full_try_times, cv, pool,
                   locals, apc, batch, disk, calls>>

GiveUp(w) ==
    /\ MuFree
    /\ wpc[w] = "giveup"
    /\ miss_logs' = miss_logs + 1
    /\ Goto(w, "idle")
    /\ UNCHANGED <<config, running, queue, flushed_log_index,
                   blocked_threads, disk_full_try_times, cv, pool,
                   locals, apc, batch, disk, calls>>

PushMessage(w) ==
    /\ memtable' = Append(memtable, message[w])
    /\ accepted' = Append(accepted, message[w])
    /\ written_log_index' = written_log_index + 1
    /\ memtable_size' = memtable_size + MessageLen[message[w]]

(* write(force_flush = true), up to its first cv.wait() or its return; cv   *)
(* is what notify_all leaves of it and w, which waits: written > flushed.   *)
PushAndWait(w, waiting) ==
    /\ MuFree
    /\ wpc[w] = "write" /\ should_flush[w]
    /\ PushMessage(w)
    /\ IF disk_full_try_times > 0
         THEN /\ disk_full_try_times' = disk_full_try_times - 1
              /\ Goto(w, "idle")
              /\ UNCHANGED <<need_flushed_index, blocked_threads, cv>>
         ELSE /\ need_flushed_index' =
                    [need_flushed_index EXCEPT ![w] = written_log_index']
              /\ blocked_threads' = blocked_threads + 1
              /\ cv' = waiting
              /\ Goto(w, "blocked")
              /\ UNCHANGED disk_full_try_times
    /\ UNCHANGED <<config, miss_logs, running, flushed_log_index, pool,
                   message, level, should_flush, apc, batch, disk, calls>>

SilentWriteSync(w) == PushAndWait(w, cv \union {w})      \* no notify_all
WriteSync(w) == PushAndWait(w, {w})

(* write(force_flush = false). *)
WriteNormal(w) ==
    /\ MuFree
    /\ wpc[w] = "write" /\ ~should_flush[w]
    /\ PushMessage(w)
    /\ IF memtable_size' <= NotifySize
         THEN UNCHANGED <<disk_full_try_times, cv>>
         ELSE IF disk_full_try_times > 0
           THEN /\ disk_full_try_times' = disk_full_try_times - 1
                /\ UNCHANGED cv
           ELSE /\ IF blocked_threads > 0 THEN NotifyAll ELSE NotifyOne
                /\ UNCHANGED disk_full_try_times
    /\ Goto(w, "idle")
    /\ UNCHANGED <<config, miss_logs, running, flushed_log_index,
                   blocked_threads, pool, locals, apc, batch, disk, calls>>

(* A notified writer takes mu again: it waits again or returns. *)
WakeAndCheck(w, served, left) ==
    /\ MuFree
    /\ wpc[w] = "blocked" /\ w \notin cv
    /\ IF ~served
         THEN /\ cv' = cv \union {w}
              /\ UNCHANGED <<wpc, blocked_threads>>
         ELSE /\ blocked_threads' = left
              /\ Goto(w, "idle")
              /\ UNCHANGED cv
    /\ UNCHANGED <<config, miss_logs, running, queue, flushed_log_index,
                   disk_full_try_times, pool, locals, apc, batch, disk, calls>>

Served(w) == need_flushed_index[w] <= flushed_log_index
LeakyWriterWake(w) == WakeAndCheck(w, Served(w), blocked_threads)
EarlyWriterWake(w) ==
    WakeAndCheck(w, need_flushed_index[w] <= flushed_log_index + 1,
                 blocked_threads - 1)
WriterWake(w) == WakeAndCheck(w, Served(w), blocked_threads - 1)

(* wait_for() times out after 10 seconds, or a wait ends spuriously. *)
EndWait(t) ==
    /\ t \in cv /\ Alive
    /\ cv' = cv \ {t}
    /\ UNCHANGED <<config, miss_logs, running, queue, flushed_log_index,
                   blocked_threads, disk_full_try_times, pool,
                   wpc, locals, apc, batch, disk, calls>>

UntimedStopWaiting(t) == t # Async /\ EndWait(t)         \* wait, not wait_for
StopWaiting(t) == EndWait(t)
-----------------------------------------------------------------------------
(* asyncRun() *)

(* The async thread takes mu: when it starts, and after a wait. *)
AsyncLock ==
    /\ apc = "start" \/ (apc = "sleeping" /\ Async \notin cv)
    /\ AGoto("head")
    /\ UNCHANGED <<config, miss_logs, running, queue, flushed_log_index,
                   blocked_threads, disk_full_try_times, cv, pool,
                   wpc, locals, batch, disk, calls>>

WaitWhile(condition) ==
    /\ apc = "head" /\ condition
    /\ cv' = cv \union {Async}
    /\ AGoto("sleeping")
    /\ UNCHANGED <<config, miss_logs, running, queue, flushed_log_index,
                   blocked_threads, disk_full_try_times, pool,
                   wpc, locals, batch, disk, calls>>

DeafAsyncWait == WaitWhile(memtable = <<>>)              \* running not tested
AsyncWait == WaitWhile(running /\ memtable = <<>>)

(* The backoff: `continue' keeps mu, so that nobody else counts it down. *)
AsyncBackoff ==
    /\ apc = "head" /\ running /\ memtable # <<>>
    /\ disk_full_try_times > 0
    /\ disk_full_try_times' = disk_full_try_times - 1
    /\ UNCHANGED <<config, miss_logs, running, queue, flushed_log_index,
                   blocked_threads, cv, pool,
                   wpc, locals, apc, batch, disk, calls>>

ExitIf(condition) ==
    /\ apc = "head" /\ condition
    /\ AGoto("exit")
    /\ UNCHANGED <<config, miss_logs, running, queue, flushed_log_index,
                   blocked_threads, disk_full_try_times, cv, pool,
                   wpc, locals, batch, disk, calls>>

HastyAsyncExit == ExitIf(~running)                       \* memtable not tested
AsyncExit == ExitIf(~running /\ memtable = <<>>)

(* The report of the missed logs is formatted here, but its length goes to *)
(* a misslog_len of the inner block: the outer one keeps its value, so that *)
(* the count is cleared and no report is ever written.                      *)
AsyncTake ==
    /\ apc = "head" /\ memtable # <<>>
    /\ running => disk_full_try_times = 0
    /\ miss_logs' = 0
    /\ table' = memtable
    /\ memtable' = <<>>
    /\ current_flushed_logs' = 0 /\ current_written_size' = 0
    /\ AGoto("writing")
    /\ UNCHANGED <<config, running, memtable_size, written_log_index, accepted,
                   flushed_log_index, blocked_threads, disk_full_try_times,
                   cv, pool, wpc, locals, misslog_len, disk, calls>>

(* file_writer.write() of the entry at ite, without mu.  False ends the batch. *)
AsyncWrite(ok) ==
    /\ apc = "writing"
    /\ IF ok
         THEN stored' = Append(stored, Head(table)) /\ AGoto("dealloc")
         ELSE UNCHANGED stored /\ AGoto("flush")
    /\ UNCHANGED <<config, miss_logs, running, queue, flushed_log_index,
                   blocked_threads, disk_full_try_times, cv, pool,
                   wpc, locals, batch, flushed, calls>>

LeaveEntry(pc) ==
    /\ current_flushed_logs' = current_flushed_logs + 1
    /\ current_written_size' = current_written_size + MessageLen[Head(table)]
    /\ table' = Tail(table)
    /\ AGoto(pc)
    /\ UNCHANGED misslog_len

EndlessNextEntry == LeaveEntry("writing")                \* end not tested
NextEntry == LeaveEntry(IF Tail(table) = <<>> THEN "flush" ELSE "writing")

(* alloc.deallocate() takes no mutex at all.  What it pushes to a list that *)
(* is not sound is never found, unless it is the front of a stuck one.      *)
AsyncDeallocate ==
    /\ apc = "dealloc"
    /\ freelist' \in CASE links = "sound" -> {freelist + 1}
                       [] links = "stuck" -> freelist .. 1
                       [] OTHER -> {freelist}
    /\ NextEntry
    /\ UNCHANGED <<config, miss_logs, running, queue, flushed_log_index,
                   blocked_threads, disk_full_try_times, cv, links,
                   wpc, locals, disk, calls>>

(* deallocate() overlaps an allocate() that takes the last node of the      *)
(* list: besides the two sequential orders, the pushed buffer is lost, or   *)
(* the list looks empty, or it is stuck with the pushed buffer as front.    *)
(* LoggerAllocator has the loads and stores that lead there.                *)
RacingDeallocate(w) ==
    /\ apc = "dealloc" /\ wpc[w] \in {"alloc", "retry"}
    /\ freelist <= 1 /\ links = "sound"
    /\ \/ freelist = 1 /\ freelist' = 0 /\ links' = "sound"
       \/ freelist' = 0 /\ links' = "empty"
       \/ freelist = 1 /\ freelist' = 1 /\ links' = "stuck"
    /\ NextEntry
    /\ Goto(w, "write")
    /\ UNCHANGED <<config, miss_logs, running, queue, flushed_log_index,
                   blocked_threads, disk_full_try_times, cv,
                   locals, disk, calls>>

(* The report of the missed logs, if misslog_len says there is one, and     *)
(* file_writer.flush(), which returns nothing: whether a byte got to the    *)
(* disk is not known here (FileWritter says what did).                      *)
AsyncFlush ==
    /\ apc = "flush"
    /\ misslog_len' = 0
    /\ flushed' = Len(stored)
    /\ AGoto("relock")
    /\ UNCHANGED <<config, miss_logs, running, queue, flushed_log_index,
                   blocked_threads, disk_full_try_times, cv, pool,
                   wpc, locals, table, current_flushed_logs,
                   current_written_size, stored, calls>>

(* lock.lock(); what was not written goes back in front of the memtable. *)
Relock(queued, size, wake) ==
    /\ apc = "relock"
    /\ memtable' = queued
    /\ table' = <<>>
    /\ disk_full_try_times' =
            IF table # <<>> THEN DiskFullTries ELSE disk_full_try_times
    /\ memtable_size' = size
    /\ flushed_log_index' = flushed_log_index + current_flushed_logs
    /\ current_flushed_logs' = 0 /\ current_written_size' = 0
    /\ wake
    /\ AGoto("head")
    /\ UNCHANGED <<config, miss_logs, running, written_log_index, accepted,
                   blocked_threads, pool, wpc, locals, misslog_len, disk, calls>>

WakeBlocked ==
    CASE blocked_threads = 1 -> NotifyOne
      [] blocked_threads > 1 -> NotifyAll
      [] OTHER -> UNCHANGED cv
SizeLeft == memtable_size - current_written_size

RestLastRelock == Relock(memtable \o table, SizeLeft, WakeBlocked)
SizeResetRelock == Relock(table \o memtable, 0, WakeBlocked)
OneWokenRelock ==
    Relock(table \o memtable, SizeLeft,
           IF blocked_threads > 0 THEN NotifyOne ELSE UNCHANGED cv)
AsyncRelock == Relock(table \o memtable, SizeLeft, WakeBlocked)
-----------------------------------------------------------------------------
(* ~LogWritter() up to the join; the owner deletes the logger when no       *)
(* thread is inside a call.                                                 *)
Deinit ==
    /\ MuFree /\ running
    /\ \A w \in Writers : wpc[w] = "idle"
    /\ running' = FALSE
    /\ NotifyAll
    /\ UNCHANGED <<config, miss_logs, queue, flushed_log_index,
                   blocked_threads, disk_full_try_times, pool,
                   wpc, locals, apc, batch, disk, calls>>

(* The async thread is joined, or the process is over: nothing is left to   *)
(* run.                                                                     *)
Stopped == apc = "exit" \/ ~Alive
Joined == Stopped /\ UNCHANGED vars

WriterStep(w) ==
    /\ Alive
    /\ \/ Allocate(w) \/ PoolEmpty(w) \/ GiveUp(w)
       \/ WriteSync(w) \/ WriteNormal(w) \/ WriterWake(w)

AsyncStep ==
    /\ Alive
    /\ \/ AsyncLock \/ AsyncWait \/ AsyncBackoff \/ AsyncExit \/ AsyncTake
       \/ \E ok \in BOOLEAN : AsyncWrite(ok)
       \/ AsyncDeallocate \/ AsyncFlush \/ AsyncRelock

Next ==
    \/ \E l \in Levels : SetLogLevel(l) \/ SetSyncLoglevel(l)
    \/ \E w \in Writers, l \in Levels : BeginLog(w, l)
    \/ \E w \in Writers : WriterStep(w) \/ RacingDeallocate(w)
    \/ \E t \in cv : StopWaiting(t)
    \/ AsyncStep
    \/ Deinit
    \/ Joined

Spec == Init /\ [][Next]_vars
-----------------------------------------------------------------------------
(* Fairness.  The async thread runs whenever it can, a thread that keeps    *)
(* finding mu free gets it, and the 10-second timer of wait_for() fires.    *)
(* Nobody has to log, to change a level or to shut the logger down.         *)
ThreadFairness ==
    /\ WF_vars(AsyncStep)
    /\ \A w \in Writers : SF_vars(WriterStep(w))
    /\ WF_vars(StopWaiting(Async))

(* The disk recovers: writes that are tried for ever succeed for ever. *)
DiskRecovers == SF_vars(Alive /\ AsyncWrite(TRUE))

FairSpec == Spec /\ ThreadFairness /\ DiskRecovers
-----------------------------------------------------------------------------
Blocked == {w \in Writers : wpc[w] = "blocked"}

(* Entries of the batch that are not in the file. *)
Unstored == IF apc = "dealloc" THEN Tail(table) ELSE table

SharedTypes ==
    /\ loglevel \in Levels \union {LOG_INFO}
    /\ sync_loglevel \in Levels \union {LOG_FATAL}
    /\ miss_logs \in Nat /\ running \in BOOLEAN
    /\ blocked_threads \in Int /\ disk_full_try_times \in Nat
    /\ freelist \in Nat /\ links \in Links
    /\ misslog_len \in Nat

QueueTypes ==
    /\ memtable \in Seq(Messages) /\ table \in Seq(Messages)
    /\ stored \in Seq(Messages) /\ accepted \in Seq(Messages)
    /\ memtable_size \in Int /\ current_written_size \in Nat
    /\ written_log_index \in Nat /\ flushed_log_index \in Nat
    /\ current_flushed_logs \in Nat /\ flushed \in Nat
    /\ apc \in {"start", "head", "sleeping", "writing", "dealloc", "flush",
                "relock", "exit"}
    /\ apc \in {"writing", "dealloc"} => table # <<>>

WriterTypes ==
    /\ wpc \in [Writers -> {"idle", "alloc", "full", "retry", "giveup",
                            "write", "blocked"}]
    /\ message \in [Writers -> 0 .. MaxCalls]
    /\ level \in [Writers -> Levels \union {0}]
    /\ should_flush \in [Writers -> BOOLEAN]
    /\ need_flushed_index \in [Writers -> Nat]
    /\ calls \in 0 .. MaxCalls
    /\ \A w \in Writers : wpc[w] # "idle" => message[w] \in Messages

(* Only held callers and the async thread wait on cv. *)
CvTypes ==
    /\ cv \subseteq Blocked \union {Async}
    /\ Async \in cv => apc = "sleeping"

TypeOK == SharedTypes /\ QueueTypes /\ WriterTypes /\ CvTypes

(* No entry is lost, duplicated or reordered on its way from push_back()    *)
(* to the file, through swap, partial writes and the splice of the rest.    *)
OrderInv == accepted = stored \o Unstored \o memtable

(* memtable_size is the length of what is accepted and not flushed yet:     *)
(* no update is lost although it is added and subtracted batches apart.     *)
Size(ms) == FoldLeft(LAMBDA n, m : n + MessageLen[m], 0, ms)
SizeExact ==
    memtable_size =
        Size(SubSeq(accepted, flushed_log_index + 1, Len(accepted)))

(* The counter that decides between notify_one and notify_all is exact.     *)
BlockedExact == blocked_threads = Cardinality(Blocked)

(* A synchronous caller whose entry is flushed is never left waiting on cv. *)
NoLostWakeup ==
    \A w \in Blocked : need_flushed_index[w] <= flushed_log_index => w \notin cv

(* A held caller, or a memtable over the limit, never waits for the         *)
(* 10-second timer: the async thread is not left waiting on cv.             *)
AsyncAwakeWhenNeeded ==
    \/ \E w \in Blocked : need_flushed_index[w] > flushed_log_index
    \/ memtable_size > NotifySize
    => Async \notin cv

(* write() is to downgrade a synchronous call while disk_full_try_times is  *)
(* positive (the comment at logger.cpp:327).  It never does: the async      *)
(* thread counts the whole backoff down with mu held, and no writer finds   *)
(* it positive while the logger runs.                                       *)
BackoffUnseen == running /\ MuFree => disk_full_try_times = 0

(* The logger implements LogService: what it holds and has not written is   *)
(* pending, and a held caller is owed the entry it waits for.  It says      *)
(* nothing of the disk: SyncCallOnDisk of Logger does.                      *)
Pending == Unstored \o memtable
Owed == [w \in Writers |->
            IF wpc[w] = "blocked" THEN need_flushed_index[w] ELSE 0]

Service == INSTANCE LogService WITH
    Clients <- Writers,
    Entries <- Messages,
    pending <- Pending,
    stored <- stored,
    flushed <- flushed,
    owed <- Owed,
    open <- apc # "exit"

ImplementsLogService == Service!ServiceSpec

(* A synchronous call returns, in a process that is not cut short.          *)
SyncCallReturns ==
    \A w \in Writers : wpc[w] = "blocked" ~> wpc[w] = "idle" \/ ~Alive

(* What was accepted reaches the file, without another call to push it.     *)
AcceptedIsStored ==
    \A n \in 1 .. MaxCalls : Len(accepted) >= n ~> Len(stored) >= n \/ ~Alive

(* ~LogWritter() gets past the join. *)
DeinitEnds == ~running ~> apc = "exit"
=============================================================================
