------------------------------- MODULE Logger -------------------------------
(***************************************************************************)
(* The whole logger: LogWritter writing through FileWritter.  A write() of  *)
(* asyncRun() succeeds when FileWritter says so; before it the file is      *)
(* rotated if it is over max_file_size, which is read without mu.           *)
(***************************************************************************)
EXTENDS LogWritter, FileWritter

CONSTANT MaxFileSizes     \* the sizes setMaxFileSize() is called with

ASSUME LoggerAssumption ==
    /\ MaxFileSizes \subseteq Nat
    /\ \E n \in MaxFileSizes : \A k \in MaxFileSizes : k <= n

VARIABLES
    max_file_size,
    size_checked,         \* of this entry: `write' is next, not `fileSize'
    closed                \* ~FileWritter() has run

loggerVars == <<vars, fileVars, diskVars, max_file_size, size_checked, closed>>

DEFAULT_MAX_FILE_SIZE == CHOOSE n \in MaxFileSizes : \A k \in MaxFileSizes : k <= n

LoggerInit ==
    /\ Init /\ FileInit
    /\ max_file_size = DEFAULT_MAX_FILE_SIZE
    /\ size_checked = FALSE /\ closed = FALSE

SetFileRotateSize(n) ==
    /\ MuFree /\ running
    /\ max_file_size' = n
    /\ UNCHANGED <<vars, fileVars, diskVars, size_checked, closed>>

OverSize == ~size_checked /\ file_size > max_file_size

AsyncRotate ==
    /\ apc = "writing" /\ OverSize
    /\ Rotate
    /\ size_checked' = TRUE
    /\ UNCHANGED <<vars, diskVars, max_file_size, closed>>

(* write() finds no stream and creates one: fwrite() is next. *)
AsyncReopen ==
    /\ apc = "writing" /\ ~OverSize
    /\ Reopen(TRUE)
    /\ size_checked' = TRUE
    /\ UNCHANGED <<vars, diskVars, max_file_size, closed>>

AsyncWriteFile ==
    /\ ~OverSize
    /\ \E ok \in BOOLEAN :
          /\ AsyncWrite(ok)
          /\ \/ Fwrite(Head(table), MessageLen[Head(table)], ok)
             \/ ~ok /\ Reopen(FALSE)
    /\ size_checked' = FALSE
    /\ UNCHANGED <<diskVars, max_file_size, closed>>

AsyncFlushFile ==
    /\ AsyncFlush
    /\ FlushFile
    /\ UNCHANGED <<diskVars, max_file_size, size_checked, closed>>

(* ~LogWritter() destroys file_writer once the async thread is joined. *)
CloseFile ==
    /\ apc = "exit" /\ ~closed
    /\ FlushFile
    /\ closed' = TRUE
    /\ UNCHANGED <<vars, diskVars, max_file_size, size_checked>>

fileSide == <<fileVars, diskVars, max_file_size, size_checked, closed>>

AsyncElsewhere ==
    /\ \/ AsyncLock \/ AsyncWait \/ AsyncBackoff \/ AsyncExit
       \/ AsyncTake \/ AsyncDeallocate \/ AsyncRelock
    /\ UNCHANGED fileSide

LoggerAsyncStep ==
    /\ Alive
    /\ \/ AsyncRotate \/ AsyncReopen \/ AsyncWriteFile \/ AsyncFlushFile
       \/ AsyncElsewhere

Callers ==
    /\ \/ \E l \in Levels : SetLogLevel(l) \/ SetSyncLoglevel(l)
       \/ \E w \in Writers, l \in Levels : BeginLog(w, l)
       \/ \E w \in Writers : WriterStep(w) \/ RacingDeallocate(w)
       \/ \E t \in cv : StopWaiting(t)
       \/ Deinit
    /\ UNCHANGED fileSide

World ==
    /\ DiskFills \/ DiskFrees \/ Tick
    /\ ~closed
    /\ UNCHANGED <<vars, max_file_size, size_checked, closed>>

(* The logger is deleted, or the process is over. *)
Closed == (closed \/ ~Alive) /\ UNCHANGED loggerVars

LoggerNext ==
    \/ LoggerAsyncStep
    \/ Callers
    \/ \E n \in MaxFileSizes : SetFileRotateSize(n)
    \/ CloseFile
    \/ World
    \/ Closed

LoggerSpec == LoggerInit /\ [][LoggerNext]_loggerVars

(* The fairness of LogWritter, and a clock that does not stop.  The disk    *)
(* owes nothing: what it does is in disk_full.                              *)
LoggerFairSpec ==
    /\ LoggerSpec
    /\ WF_loggerVars(LoggerAsyncStep)
    /\ \A w \in Writers : SF_loggerVars(WriterStep(w) /\ UNCHANGED fileSide)
    /\ WF_loggerVars(StopWaiting(Async) /\ UNCHANGED fileSide)
    /\ WF_loggerVars(Tick /\ UNCHANGED <<vars, max_file_size, size_checked, closed>>)
-----------------------------------------------------------------------------
(* What write(2) took, and what no sync of the open file followed. *)
AllData == FlattenSeq([i \in DOMAIN files |-> files[i].data])
LastFile == files[Len(files)]
Unsynced == IF stream THEN Len(LastFile.data) - LastFile.durable ELSE 0

LoggerTypeOK ==
    /\ TypeOK
    /\ stream \in BOOLEAN /\ enospc \in BOOLEAN /\ fresh \in BOOLEAN
    /\ disk_full \in BOOLEAN /\ fills \in 0 .. MaxFills
    /\ size_checked \in BOOLEAN /\ closed \in BOOLEAN
    /\ file_size \in Nat /\ max_file_size \in MaxFileSizes
    /\ buffer \in Seq(Messages)
    /\ \A i \in DOMAIN files :
          files[i].data \in Seq(Messages) /\ files[i].durable \in Nat

(* Until the disk fills up, the files hold what write() reported, once and  *)
(* in order: a rotation, or one that fails because the name is taken, loses *)
(* and repeats nothing.                                                     *)
ExactWhileDiskWorks == fills = 0 => AllData \o buffer = stored

(* Until the disk fills up, what counts as flushed is in a file, and in the *)
(* open file it is synced too.  (fclose() of a rotation does not sync.)     *)
FlushedInFile ==
    fills = 0 => flushed_log_index <= Len(AllData) - Unsynced

(* A full disk may lose messages and repeat them, but the files never show  *)
(* them in another order than they were accepted in.                        *)
Position(m) == CHOOSE i \in DOMAIN accepted : accepted[i] = m
InOrder ==
    LET d == AllData \o buffer IN
    \A i, j \in DOMAIN d : i < j => Position(d[i]) <= Position(d[j])

(* file_size, which decides on the rotation, is the length of the file.     *)
FileSizeExact ==
    fills = 0 /\ stream =>
        file_size = HeaderLen + Size(LastFile.data \o buffer)

(* clearAllPageCache() before a rotation finds a stream: fileno(NULL) is    *)
(* never evaluated although a creation may have failed just before.         *)
RotatesOpenFile == OverSize => stream

(* Once the logger is deleted every message accepted is in a file.          *)
CompleteAtClose == closed /\ fills = 0 => AllData = accepted

(* write() (logger.cpp:325): a synchronous call blocks waiting for disk.    *)
(* So when it returns its message is in a file.                             *)
SyncCallOnDisk ==
    [][\A w \in Writers :
          wpc[w] = "blocked" /\ wpc'[w] = "idle" =>
              \E i \in DOMAIN AllData :
                  AllData[i] = accepted[need_flushed_index[w]]]_loggerVars

(* asyncRun() (logger.cpp:438): the writes wait for the disk to be          *)
(* available again.  So when it is for good, all that was accepted, and the *)
(* synchronous callers wait for, counts as flushed at last.                 *)
DrainsWhenDiskAvailable ==
    <>[](~disk_full) =>
        \A n \in 1 .. MaxCalls : written_log_index >= n ~> flushed_log_index >= n
=============================================================================
