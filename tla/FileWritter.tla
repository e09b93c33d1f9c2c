----------------------------- MODULE FileWritter -----------------------------
(***************************************************************************)
(* FileWritter: the log files, the stdio buffer of the open one, errno of   *)
(* the async thread, and what they meet outside: a disk that fills up and   *)
(* is freed again, and a clock whose second is part of a file's name.       *)
(* Logger conjoins these actions to the steps of asyncRun().  What is in a  *)
(* file is the sequence of its messages; a third copy of a message in a row *)
(* is not told from a second one.                                           *)
(***************************************************************************)
EXTENDS Naturals, Sequences, SequencesExt

CONSTANTS
    HeaderLen,     \* length of the header of a file
    MaxFills       \* bound: how often the disk fills up

ASSUME FileAssumption == HeaderLen \in Nat \ {0} /\ MaxFills \in Nat

VARIABLES
    stream,        \* a file is open: the last one of files
    file_size,
    files,         \* the files, [data, durable] each, oldest first
    buffer,        \* messages in the stdio buffer of stream
    enospc,        \* errno = ENOSPC, in the async thread
    fresh,         \* no file bears the name of this second
    disk_full, fills

fileVars == <<stream, file_size, files, buffer, enospc, fresh>>
diskVars == <<disk_full, fills>>

NewFile == [data |-> <<>>, durable |-> 0]

(* The constructor tries to create the first file.  The disk has room for   *)
(* it, but its name may be taken (EEXIST): nobody is told.                  *)
FileInit ==
    /\ \/ stream = TRUE /\ file_size = HeaderLen /\ files = <<NewFile>>
       \/ stream = FALSE /\ file_size = 0 /\ files = <<>>
    /\ buffer = <<>> /\ enospc = FALSE /\ fresh = FALSE
    /\ disk_full = FALSE /\ fills = 0

Add(seq, m) ==
    LET n == Len(seq) IN
    IF n >= 2 /\ seq[n] = m /\ seq[n - 1] = m THEN seq ELSE Append(seq, m)
AddAll(seq, ms) == FoldLeft(Add, seq, ms)

(* What write(2) takes of the stdio buffer.  glibc empties the buffer even  *)
(* when the disk takes only a part of it.                                   *)
Taken == IF disk_full THEN {SubSeq(buffer, 1, k) : k \in 0 .. Len(buffer)}
                      ELSE {buffer}
NoRoom == disk_full /\ buffer # <<>>
LastData == files[Len(files)].data

SetLast(fs, d) == [fs EXCEPT ![Len(fs)].data = d]
SyncLast(fs) == [fs EXCEPT ![Len(fs)].durable = Len(fs[Len(fs)].data)]

(* _createFile() with no stream, on the files fs left by the caller: the    *)
(* name may be taken (EEXIST), the disk may have no inode, and the header's *)
(* fflush() fails on a full disk without anybody noticing.  unlink() of a   *)
(* symlink that an earlier full disk prevented sets errno to ENOENT.        *)
CreateSized(ok, fs, err, old_size) ==
    /\ stream' = ok
    /\ buffer' = <<>>
    /\ IF ok
         THEN /\ fresh /\ fresh' = FALSE
              /\ files' = Append(fs, NewFile)
              /\ file_size' = old_size + HeaderLen
              /\ enospc' \in IF disk_full THEN {TRUE} ELSE {err, FALSE}
         ELSE /\ ~fresh \/ disk_full
              /\ files' = fs
              /\ file_size' = old_size
              /\ enospc' = fresh
              /\ UNCHANGED fresh

KeepSizeCreateFile(ok, fs, err) == CreateSized(ok, fs, err, file_size)
CreateFile(ok, fs, err) == CreateSized(ok, fs, err, 0)

(* clearAllPageCache() changes no state of interest; fclose() writes the    *)
(* buffer out and does not sync.                                            *)
UnflushedRotate ==                                      \* the buffer is lost
    \E ok \in BOOLEAN : CreateFile(ok, files, enospc)
Rotate ==
    \E out \in Taken, ok \in BOOLEAN :
        CreateFile(ok, SetLast(files, AddAll(LastData, out)), enospc \/ NoRoom)

(* write() with a stream: fwrite() keeps m in the buffer, or first writes   *)
(* the buffer out.  errno is looked at whatever fwrite() did.               *)
Fwrite(m, len, ok) ==
    /\ stream
    /\ \/ buffer' = Add(buffer, m) /\ UNCHANGED <<files, enospc>>
       \/ \E out \in Taken :
              /\ files' = SetLast(files, AddAll(LastData, out))
              /\ buffer' = IF disk_full THEN <<>> ELSE <<m>>
              /\ enospc' = (enospc \/ disk_full)
    /\ ok = ~enospc'
    /\ file_size' = IF ok THEN file_size + len ELSE file_size
    /\ UNCHANGED <<stream, fresh>>

(* write() without a stream tries to create the file first. *)
Reopen(ok) ==
    /\ ~stream
    /\ CreateFile(ok, files, enospc)

(* flush() and ~FileWritter(): fflush(), whose result is not looked at, and *)
(* fdatasync() or fsync().                                                  *)
FlushWith(durable) ==
    IF ~stream
      THEN UNCHANGED fileVars
      ELSE /\ \E out \in Taken :
                 LET written == SetLast(files, AddAll(LastData, out)) IN
                 files' = IF durable THEN SyncLast(written) ELSE written
           /\ buffer' = <<>>
           /\ enospc' = (enospc \/ NoRoom)
           /\ UNCHANGED <<stream, file_size, fresh>>

UnsyncedFlushFile == FlushWith(FALSE)                    \* no fdatasync()
FlushFile == FlushWith(TRUE)
-----------------------------------------------------------------------------
(* Outside *)

DiskFills ==
    /\ ~disk_full /\ fills < MaxFills
    /\ disk_full' = TRUE /\ fills' = fills + 1
    /\ UNCHANGED fileVars

DiskFrees ==
    /\ disk_full
    /\ disk_full' = FALSE
    /\ UNCHANGED <<fileVars, fills>>

Tick ==
    /\ ~fresh
    /\ fresh' = TRUE
    /\ UNCHANGED <<stream, file_size, files, buffer, enospc, diskVars>>
=============================================================================
