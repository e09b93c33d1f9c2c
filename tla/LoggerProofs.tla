---------------------------- MODULE LoggerProofs ----------------------------
(***************************************************************************)
(* Safety of the logger, for every value of the constants, in three parts.  *)
(* First induction on the natural numbers, in a form that names no          *)
(* operator, and what it gives for the folds of the community modules.      *)
(*                                                                         *)
(* Then the logger's threads, LogWritter.  Its inductive invariant IInv is  *)
(* a conjunction of named parts; each part has a lemma that every step      *)
(* keeps it, and the theorems are at the end.                               *)
(*                                                                         *)
(* Last the logger with its files, for any sizes and however often the disk *)
(* fills up.  A step of the logger is a step of LogWritter or leaves its    *)
(* variables alone, so that IInv holds of it; what is in the files is       *)
(* related to it here.                                                      *)
(***************************************************************************)
EXTENDS Logger, FunctionTheorems, FiniteSetTheorems, SequenceTheorems,
        WellFoundedInduction, TLAPS

(* Induction on the natural numbers, for a set of numbers: the least number *)
(* outside of G would be neither 0 nor the successor of one in G.           *)
LEMMA NatSetInduction ==
    ASSUME NEW G, 0 \in G, \A n \in Nat : n \in G => n + 1 \in G
    PROVE  \A n \in Nat : n \in G
<1> SUFFICES ASSUME Nat \ G # {} PROVE FALSE
  OBVIOUS
<1> DEFINE R == OpToRel(<, Nat)
<1>1. \A m, k \in Nat : m < k => <<m, k>> \in R
  BY DEF OpToRel
<1>2. PICK k \in Nat \ G : \A m \in Nat \ G : ~ (<<m, k>> \in R)
  <2>1. IsWellFoundedOn(R, Nat)
    BY NatLessThanWellFounded
  <2> HIDE DEF R
  <2> QED BY <2>1, WFMin
<1> HIDE DEF R
<1>3. k # 0 /\ k - 1 \in Nat /\ (k - 1) + 1 = k /\ k - 1 < k
  OBVIOUS
<1>4. k - 1 \in G
  BY <1>1, <1>2, <1>3
<1> QED BY <1>3, <1>4

(* The same up to a bound. *)
LEMMA BoundedInduction ==
    ASSUME NEW n \in Nat, NEW G, 0 \in G, \A k \in 0 .. n : k \in G /\ k < n => k + 1 \in G
    PROVE  \A k \in 0 .. n : k \in G
<1> DEFINE H == {k \in Nat : k <= n => k \in G}
<1>1. 0 \in H
  OBVIOUS
<1>2. \A k \in Nat : k \in H => k + 1 \in H
  OBVIOUS
<1> HIDE DEF H
<1>3. \A k \in Nat : k \in H
  BY <1>1, <1>2, NatSetInduction
<1> QED BY <1>3 DEF H

(* The greatest element of a set of numbers that has the bound n + 1. *)
LEMMA MaxIsBound ==
    ASSUME NEW n \in Nat, NEW s \in SUBSET (1 .. n + 1), n + 1 \in s
    PROVE  Max(s) = n + 1
<1>1. \A y \in s : n + 1 >= y
  OBVIOUS
<1>2. \A x \in s : (\A y \in s : x >= y) => x = n + 1
  OBVIOUS
<1> QED BY <1>1, <1>2, Zenon DEF Max

(* A set of positive numbers below a bound has its greatest element. *)
LEMMA MaxInside ==
    ASSUME NEW n \in Nat, NEW s \in SUBSET (1 .. n), s # {}
    PROVE  Max(s) \in s
<1> DEFINE G == {k \in Nat : \A t \in SUBSET (1 .. k) : t # {} => Max(t) \in t}
<1>1. 0 \in G
  <2>1. 1 .. 0 = {}
    OBVIOUS
  <2>2. \A t \in SUBSET (1 .. 0) : t = {}
    BY <2>1
  <2> QED BY <2>2
<1>2. ASSUME NEW k \in Nat, k \in G PROVE k + 1 \in G
  <2> SUFFICES ASSUME NEW t \in SUBSET (1 .. k + 1), t # {} PROVE Max(t) \in t
    OBVIOUS
  <2>1. CASE k + 1 \in t
    BY <2>1, MaxIsBound
  <2>2. CASE k + 1 \notin t
    <3>1. t \in SUBSET (1 .. k)
      <4>1. \A x \in t : x \in 1 .. k
        BY <2>2
      <4> QED BY <4>1
    <3> QED BY <3>1, <1>2
  <2> QED BY <2>1, <2>2
<1>3. n \in G
  <2> HIDE DEF G
  <2> QED BY <1>1, <1>2, NatSetInduction
<1> QED BY <1>3

(* g is what a fold of F over ms computes for every set s of positions: it  *)
(* takes them from the lowest to the highest.                               *)
FoldsBy(g, F, base, ms, n, S) ==
    /\ g \in [SUBSET (1 .. n) -> S]
    /\ \A s \in SUBSET (1 .. n) :
          g[s] = IF s = {} THEN base ELSE F[<<g[s \ {Max(s)}], ms[Max(s)]>>]

(* There is such a g: it exists for n positions if it does for n - 1. *)
LEMMA FoldExists ==
    ASSUME NEW S, NEW T, NEW base \in S, NEW F \in [S \X T -> S], NEW ms \in Seq(T)
    PROVE  \E g : FoldsBy(g, F, base, ms, Len(ms), S)
<1> DEFINE G == {n \in Nat : n <= Len(ms) => \E g : FoldsBy(g, F, base, ms, n, S)}
<1>1. 0 \in G
  <2>1. SUBSET (1 .. 0) = {{}}
    OBVIOUS
  <2>2. FoldsBy([s \in SUBSET (1 .. 0) |-> base], F, base, ms, 0, S)
    BY <2>1 DEF FoldsBy
  <2> QED BY <2>2
<1>2. ASSUME NEW n \in Nat, n + 1 <= Len(ms), NEW g, FoldsBy(g, F, base, ms, n, S)
      PROVE  \E h : FoldsBy(h, F, base, ms, n + 1, S)
  <2> DEFINE h == [s \in SUBSET (1 .. n + 1) |->
                     IF n + 1 \in s THEN F[<<g[s \ {n + 1}], ms[n + 1]>>] ELSE g[s]]
  <2>0. n + 1 \in 1 .. Len(ms) /\ ms[n + 1] \in T
    BY <1>2
  <2>a. \A s \in SUBSET (1 .. n + 1) : /\ s \ {n + 1} \in SUBSET (1 .. n)
                                       /\ n + 1 \notin s => s \in SUBSET (1 .. n)
    <3> SUFFICES ASSUME NEW s \in SUBSET (1 .. n + 1) PROVE s \ {n + 1} \subseteq 1 .. n
      OBVIOUS
    <3>1. \A x \in s \ {n + 1} : x \in 1 .. n
      OBVIOUS
    <3> QED BY <3>1
  <2>b. \A s \in SUBSET (1 .. n) :
           /\ g[s] \in S
           /\ g[s] = IF s = {} THEN base ELSE F[<<g[s \ {Max(s)}], ms[Max(s)]>>]
    BY <1>2 DEF FoldsBy
  <2>c. \A s \in SUBSET (1 .. n + 1) :
           h[s] = IF n + 1 \in s THEN F[<<g[s \ {n + 1}], ms[n + 1]>>] ELSE g[s]
    OBVIOUS
  <2>1. h \in [SUBSET (1 .. n + 1) -> S]
    <3> SUFFICES ASSUME NEW s \in SUBSET (1 .. n + 1)
                 PROVE  (IF n + 1 \in s THEN F[<<g[s \ {n + 1}], ms[n + 1]>>] ELSE g[s]) \in S
      OBVIOUS
    <3>1. g[s \ {n + 1}] \in S /\ (n + 1 \notin s => g[s] \in S)
      BY <2>a, <2>b
    <3>2. F[<<g[s \ {n + 1}], ms[n + 1]>>] \in S
      BY <3>1, <2>0
    <3> QED BY <3>1, <3>2
  <2> HIDE DEF h
  <2>2. ASSUME NEW s \in SUBSET (1 .. n + 1)
        PROVE  h[s] = IF s = {} THEN base ELSE F[<<h[s \ {Max(s)}], ms[Max(s)]>>]
    <3>1. CASE n + 1 \in s
      <4>1. Max(s) = n + 1 /\ s # {}
        BY <3>1, MaxIsBound
      <4>2. s \ {n + 1} \in SUBSET (1 .. n + 1) /\ n + 1 \notin s \ {n + 1}
        OBVIOUS
      <4>3. h[s \ {n + 1}] = g[s \ {n + 1}]
        BY <4>2, <2>c
      <4> QED BY <3>1, <4>1, <4>3, <2>c
    <3>2. CASE n + 1 \notin s
      <4>1. s \in SUBSET (1 .. n) /\ s \ {Max(s)} \in SUBSET (1 .. n + 1)
        BY <3>2, <2>a
      <4>2. h[s \ {Max(s)}] = g[s \ {Max(s)}] /\ h[s] = g[s]
        BY <4>1, <3>2, <2>c
      <4> QED BY <4>1, <4>2, <2>b
    <3> QED BY <3>1, <3>2
  <2>3. FoldsBy(h, F, base, ms, n + 1, S)
    BY <2>1, <2>2 DEF FoldsBy
  <2> QED BY <2>3
<1>3. ASSUME NEW n \in Nat, n \in G PROVE n + 1 \in G
  BY <1>2, <1>3
<1>4. Len(ms) \in G
  <2> HIDE DEF G
  <2> QED BY <1>1, <1>3, NatSetInduction
<1> QED BY <1>4

(* On the first k positions it takes one step per position. *)
LEMMA FoldStep ==
    ASSUME NEW S, NEW F, NEW base, NEW ms, NEW n \in Nat, NEW g, FoldsBy(g, F, base, ms, n, S)
    PROVE  /\ g[1 .. 0] = base
           /\ \A k \in 1 .. n : g[1 .. k] = F[<<g[1 .. k - 1], ms[k]>>]
<1>1. 1 .. 0 = {}
  OBVIOUS
<1>2. ASSUME NEW k \in 1 .. n PROVE g[1 .. k] = F[<<g[1 .. k - 1], ms[k]>>]
  <2>1. k - 1 \in Nat /\ 1 .. k \in SUBSET (1 .. (k - 1) + 1) /\ (k - 1) + 1 = k /\ k \in 1 .. k
    OBVIOUS
  <2>2. Max(1 .. k) = k
    BY <2>1, MaxIsBound
  <2>3. (1 .. k) \ {k} = 1 .. k - 1 /\ 1 .. k \in SUBSET (1 .. n)
    OBVIOUS
  <2> QED BY <2>1, <2>2, <2>3 DEF FoldsBy
<1> QED BY <1>1, <1>2 DEF FoldsBy

-----------------------------------------------------------------------------
(* The threads. *)

(* The entry at ite is a message, and there is one while a batch goes on. *)
LEMMA HeadIsMessage ==
    ASSUME TypeOK, apc \in {"writing", "dealloc"}
    PROVE  /\ table \in Seq(Messages) /\ table # <<>>
           /\ Head(table) \in Messages /\ Tail(table) \in Seq(Messages)
           /\ MessageLen[Head(table)] \in Nat
<1>1. table \in Seq(Messages) /\ table # <<>>
  BY DEF TypeOK, QueueTypes
<1>2. Head(table) \in Messages /\ Tail(table) \in Seq(Messages)
  BY <1>1, HeadTailProperties
<1> QED BY <1>1, <1>2, SizesAssumption

(* So is what a writer pushes. *)
LEMMA PushTypes ==
    ASSUME TypeOK, NEW w \in Writers, wpc[w] = "write", PushMessage(w)
    PROVE  /\ message[w] \in Messages /\ MessageLen[message[w]] \in Nat
           /\ memtable' \in Seq(Messages) /\ accepted' \in Seq(Messages)
           /\ written_log_index' \in Nat /\ memtable_size' \in Int
<1>1. message[w] \in Messages
  BY DEF TypeOK, WriterTypes
<1>2. MessageLen[message[w]] \in Nat
  BY <1>1, SizesAssumption
<1>3. /\ memtable \in Seq(Messages) /\ accepted \in Seq(Messages)
      /\ written_log_index \in Nat /\ memtable_size \in Int
  BY DEF TypeOK, QueueTypes
<1>4. memtable' \in Seq(Messages) /\ accepted' \in Seq(Messages)
  BY <1>1, <1>3, AppendProperties DEF PushMessage
<1> QED BY <1>1, <1>2, <1>3, <1>4 DEF PushMessage

(* The step to the next entry of the batch keeps the types. *)
LEMMA NextEntryTypes ==
    ASSUME TypeOK, apc = "dealloc", NextEntry
    PROVE  /\ table' \in Seq(Messages) /\ apc' \in {"writing", "flush"}
           /\ current_flushed_logs' \in Nat /\ current_written_size' \in Nat
           /\ apc' = "writing" => table' # <<>>
<1>1. /\ Tail(table) \in Seq(Messages) /\ MessageLen[Head(table)] \in Nat
      /\ current_flushed_logs \in Nat /\ current_written_size \in Nat
  BY HeadIsMessage DEF TypeOK, QueueTypes
<1> QED BY <1>1 DEF NextEntry, LeaveEntry, AGoto

(* The constructor establishes the types. *)
LEMMA TypeInit == Init => TypeOK
<1> SUFFICES ASSUME Init PROVE TypeOK
  OBVIOUS
<1>1. SharedTypes
  <2>1. MAX_LOG_ENTRY \in Nat
    BY SizesAssumption
  <2>2. /\ miss_logs \in Nat /\ blocked_threads \in Int /\ disk_full_try_times \in Nat
        /\ freelist \in Nat /\ misslog_len \in Nat
    BY <2>1, SMT DEF Init
  <2>3. /\ loglevel = LOG_INFO /\ sync_loglevel = LOG_FATAL
        /\ running \in BOOLEAN /\ links = "sound"
    BY Zenon DEF Init
  <2> QED BY <2>2, <2>3, Zenon DEF SharedTypes, Links
<1>2. QueueTypes
  BY EmptySeq DEF Init, QueueTypes
<1>3. WriterTypes
  BY SizesAssumption DEF Init, WriterTypes
<1>4. CvTypes
  BY DEF Init, CvTypes
<1> QED BY <1>1, <1>2, <1>3, <1>4 DEF TypeOK

(* Every step keeps the types of the levels, the counters and the pool. *)
LEMMA SharedNext == TypeOK /\ [Next]_vars => SharedTypes'
<1> SUFFICES ASSUME TypeOK, [Next]_vars PROVE SharedTypes'
  OBVIOUS
<1> USE SizesAssumption DEF config, pool, queue, locals, batch, disk, SharedTypes, Links
<1>1. CASE UNCHANGED vars
  BY <1>1 DEF vars, TypeOK
<1>2. ASSUME NEW l \in Levels, SetLogLevel(l) \/ SetSyncLoglevel(l) PROVE SharedTypes'
  BY <1>2 DEF SetLogLevel, SetSyncLoglevel, TypeOK
<1>3. ASSUME NEW w \in Writers, NEW l \in Levels, BeginLog(w, l) PROVE SharedTypes'
  BY <1>3 DEF BeginLog, TypeOK
<1>4. ASSUME NEW w \in Writers, Allocate(w) \/ PoolEmpty(w) \/ GiveUp(w) PROVE SharedTypes'
  BY <1>4 DEF Allocate, PoolEmpty, GiveUp, TypeOK
<1>5. ASSUME NEW w \in Writers, WriteSync(w) PROVE SharedTypes'
  BY <1>5 DEF WriteSync, PushAndWait, TypeOK
<1>6. ASSUME NEW w \in Writers, WriteNormal(w) PROVE SharedTypes'
  BY <1>6 DEF WriteNormal, TypeOK
<1>7. ASSUME NEW w \in Writers, WriterWake(w) PROVE SharedTypes'
  BY <1>7 DEF WriterWake, WakeAndCheck, TypeOK
<1>8. ASSUME NEW w \in Writers, RacingDeallocate(w) PROVE SharedTypes'
  BY <1>8 DEF RacingDeallocate, NextEntry, LeaveEntry, TypeOK
<1>9. ASSUME NEW t \in cv, StopWaiting(t) PROVE SharedTypes'
  BY <1>9 DEF StopWaiting, EndWait, TypeOK
<1>10. CASE AsyncLock \/ AsyncWait \/ AsyncBackoff \/ AsyncExit
  BY <1>10 DEF AsyncLock, AsyncWait, WaitWhile, AsyncBackoff, AsyncExit, ExitIf, TypeOK
<1>11. CASE AsyncTake
  BY <1>11 DEF AsyncTake, TypeOK
<1>12. ASSUME NEW ok \in BOOLEAN, AsyncWrite(ok) PROVE SharedTypes'
  BY <1>12 DEF AsyncWrite, TypeOK
<1>13. CASE AsyncDeallocate
  BY <1>13 DEF AsyncDeallocate, NextEntry, LeaveEntry, TypeOK
<1>14. CASE AsyncFlush
  BY <1>14 DEF AsyncFlush, TypeOK
<1>15. CASE AsyncRelock
  BY <1>15 DEF AsyncRelock, Relock, TypeOK
<1>16. CASE Deinit \/ Joined
  BY <1>16 DEF Deinit, Joined, vars, TypeOK
<1> QED
  BY <1>1, <1>2, <1>3, <1>4, <1>5, <1>6, <1>7, <1>8, <1>9, <1>10, <1>11, <1>12,
     <1>13, <1>14, <1>15, <1>16 DEF Next, WriterStep, AsyncStep

(* Every step keeps the types of the memtable, the batch and the indices. *)
LEMMA QueueNext == TypeOK /\ [Next]_vars => QueueTypes'
<1> SUFFICES ASSUME TypeOK, [Next]_vars PROVE QueueTypes'
  OBVIOUS
<1> USE SizesAssumption DEF config, pool, queue, locals, batch, disk, QueueTypes
<1>1. CASE UNCHANGED vars
  BY <1>1 DEF vars, TypeOK
<1>2. ASSUME NEW l \in Levels, SetLogLevel(l) \/ SetSyncLoglevel(l) PROVE QueueTypes'
  BY <1>2 DEF SetLogLevel, SetSyncLoglevel, TypeOK
<1>3. ASSUME NEW w \in Writers, NEW l \in Levels, BeginLog(w, l) PROVE QueueTypes'
  BY <1>3 DEF BeginLog, TypeOK
<1>4. ASSUME NEW w \in Writers, Allocate(w) \/ PoolEmpty(w) \/ GiveUp(w) PROVE QueueTypes'
  BY <1>4 DEF Allocate, PoolEmpty, GiveUp, TypeOK
<1>5. ASSUME NEW w \in Writers, WriteSync(w) PROVE QueueTypes'
  BY <1>5, PushTypes DEF WriteSync, PushAndWait, TypeOK
<1>6. ASSUME NEW w \in Writers, WriteNormal(w) PROVE QueueTypes'
  <2>1. /\ wpc[w] = "write" /\ PushMessage(w)
        /\ UNCHANGED <<table, stored, current_written_size, flushed_log_index,
                       current_flushed_logs, flushed, apc>>
    BY <1>6 DEF WriteNormal
  <2> QED BY <2>1, PushTypes DEF TypeOK
<1>7. ASSUME NEW w \in Writers, WriterWake(w) PROVE QueueTypes'
  BY <1>7 DEF WriterWake, WakeAndCheck, TypeOK
<1>8. ASSUME NEW w \in Writers, RacingDeallocate(w) PROVE QueueTypes'
  BY <1>8, NextEntryTypes DEF RacingDeallocate, TypeOK
<1>9. ASSUME NEW t \in cv, StopWaiting(t) PROVE QueueTypes'
  BY <1>9 DEF StopWaiting, EndWait, TypeOK
<1>10. CASE AsyncLock \/ AsyncWait \/ AsyncBackoff \/ AsyncExit
  BY <1>10 DEF AsyncLock, AsyncWait, WaitWhile, AsyncBackoff, AsyncExit, ExitIf, TypeOK, AGoto
<1>11. CASE AsyncTake
  BY <1>11 DEF AsyncTake, TypeOK, AGoto
<1>12. ASSUME NEW ok \in BOOLEAN, AsyncWrite(ok) PROVE QueueTypes'
  <2>1. stored' \in Seq(Messages) /\ apc' \in {"dealloc", "flush"}
    <3>1. stored \in Seq(Messages) /\ Append(stored, Head(table)) \in Seq(Messages)
      BY <1>12, HeadIsMessage, AppendProperties DEF AsyncWrite, TypeOK
    <3> QED BY <1>12, <3>1 DEF AsyncWrite, AGoto
  <2>2. UNCHANGED <<memtable, memtable_size, written_log_index, accepted, table,
                    current_written_size, flushed_log_index,
                    current_flushed_logs, flushed>>
    BY <1>12 DEF AsyncWrite
  <2> QED BY <1>12, <2>1, <2>2, HeadIsMessage DEF TypeOK, AsyncWrite
<1>13. CASE AsyncDeallocate
  BY <1>13, NextEntryTypes DEF AsyncDeallocate, TypeOK
<1>14. CASE AsyncFlush
  BY <1>14 DEF AsyncFlush, TypeOK, AGoto
<1>15. CASE AsyncRelock
  BY <1>15 DEF AsyncRelock, Relock, SizeLeft, TypeOK, AGoto
<1>16. CASE Deinit \/ Joined
  BY <1>16 DEF Deinit, Joined, vars, TypeOK
<1> QED
  BY <1>1, <1>2, <1>3, <1>4, <1>5, <1>6, <1>7, <1>8, <1>9, <1>10, <1>11, <1>12,
     <1>13, <1>14, <1>15, <1>16 DEF Next, WriterStep, AsyncStep

(* A step of the async thread leaves the writers and what they push alone. *)
LEMMA AsyncFrame ==
    ASSUME AsyncStep
    PROVE  UNCHANGED <<wpc, message, level, should_flush, need_flushed_index, calls,
                       written_log_index, accepted, blocked_threads, running>>
<1> USE DEF queue, locals
<1>1. CASE AsyncLock \/ AsyncWait \/ AsyncBackoff \/ AsyncExit \/ AsyncTake
  BY <1>1 DEF AsyncLock, AsyncWait, WaitWhile, AsyncBackoff,
              AsyncExit, ExitIf, AsyncTake
<1>2. CASE AsyncDeallocate \/ AsyncFlush \/ AsyncRelock
  BY <1>2 DEF AsyncDeallocate, AsyncFlush, AsyncRelock, Relock
<1>3. ASSUME NEW ok \in BOOLEAN, AsyncWrite(ok)
      PROVE  UNCHANGED <<wpc, message, level, should_flush, need_flushed_index, calls,
                         written_log_index, accepted, blocked_threads, running>>
  BY <1>3 DEF AsyncWrite
<1> QED BY <1>1, <1>2, <1>3 DEF AsyncStep

(* A step of a writer, the race apart, leaves the batch alone. *)
LEMMA WriterFrame ==
    ASSUME NEW w \in Writers, WriterStep(w)
    PROVE  UNCHANGED <<table, current_flushed_logs, current_written_size, stored,
                       flushed, apc, flushed_log_index, running>>
<1> USE DEF batch, disk
<1>1. CASE Allocate(w) \/ PoolEmpty(w) \/ GiveUp(w)
  BY <1>1 DEF Allocate, PoolEmpty, GiveUp
<1>2. CASE WriteSync(w) \/ WriteNormal(w) \/ WriterWake(w)
  BY <1>2 DEF WriteSync, PushAndWait, WriteNormal, WriterWake, WakeAndCheck
<1> QED BY <1>1, <1>2 DEF WriterStep

(* Every step keeps the types of what each writer holds. *)
LEMMA WriterNext == TypeOK /\ [Next]_vars => WriterTypes'
<1> SUFFICES ASSUME TypeOK, [Next]_vars PROVE WriterTypes'
  OBVIOUS
<1> USE DEF locals, Goto, WriterTypes
<1>1. CASE UNCHANGED vars \/ Joined \/ Deinit
  BY <1>1 DEF vars, Joined, Deinit, TypeOK
<1>2. ASSUME NEW l \in Levels, SetLogLevel(l) \/ SetSyncLoglevel(l) PROVE WriterTypes'
  BY <1>2 DEF SetLogLevel, SetSyncLoglevel, TypeOK
<1>3. ASSUME NEW w \in Writers, NEW l \in Levels, BeginLog(w, l) PROVE WriterTypes'
  BY <1>3, SizesAssumption DEF BeginLog, TypeOK, Messages
<1>4. ASSUME NEW w \in Writers, Allocate(w) \/ PoolEmpty(w) \/ GiveUp(w) PROVE WriterTypes'
  BY <1>4 DEF Allocate, PoolEmpty, GiveUp, TypeOK
<1>5. ASSUME NEW w \in Writers, WriteSync(w) PROVE WriterTypes'
  BY <1>5, PushTypes DEF WriteSync, PushAndWait, TypeOK
<1>6. ASSUME NEW w \in Writers, WriteNormal(w) PROVE WriterTypes'
  BY <1>6 DEF WriteNormal, TypeOK
<1>7. ASSUME NEW w \in Writers, WriterWake(w) PROVE WriterTypes'
  BY <1>7 DEF WriterWake, WakeAndCheck, TypeOK
<1>8. ASSUME NEW w \in Writers, RacingDeallocate(w) PROVE WriterTypes'
  BY <1>8 DEF RacingDeallocate, TypeOK
<1>9. ASSUME NEW t \in cv, StopWaiting(t) PROVE WriterTypes'
  BY <1>9 DEF StopWaiting, EndWait, TypeOK
<1>10. CASE AsyncStep
  BY <1>10, AsyncFrame DEF TypeOK
<1> QED
  BY <1>1, <1>2, <1>3, <1>4, <1>5, <1>6, <1>7, <1>8, <1>9, <1>10
  DEF Next, WriterStep

(* Every step keeps cv a set of held callers and, between batches, the *)
(* async thread.                                                       *)
LEMMA CvNext == TypeOK /\ [Next]_vars => CvTypes'
<1> SUFFICES ASSUME TypeOK, [Next]_vars PROVE CvTypes'
  OBVIOUS
<1> USE WritersAssumption DEF locals, Goto, AGoto, CvTypes, Blocked
<1>0. wpc \in [Writers -> {"idle", "alloc", "full", "retry", "giveup", "write", "blocked"}]
  BY DEF TypeOK, WriterTypes
<1>1. CASE UNCHANGED vars \/ Joined \/ Deinit
  BY <1>1 DEF vars, Joined, Deinit, NotifyAll, TypeOK
<1>2. ASSUME NEW l \in Levels, SetLogLevel(l) \/ SetSyncLoglevel(l) PROVE CvTypes'
  BY <1>2 DEF SetLogLevel, SetSyncLoglevel, TypeOK
<1>3. ASSUME NEW w \in Writers, NEW l \in Levels, BeginLog(w, l) PROVE CvTypes'
  BY <1>3, <1>0 DEF BeginLog, TypeOK
<1>4. ASSUME NEW w \in Writers, Allocate(w) \/ PoolEmpty(w) \/ GiveUp(w) PROVE CvTypes'
  BY <1>4, <1>0 DEF Allocate, PoolEmpty, GiveUp, TypeOK
<1>5. ASSUME NEW w \in Writers, WriteSync(w) PROVE CvTypes'
  BY <1>5, <1>0 DEF WriteSync, PushAndWait, TypeOK
<1>6. ASSUME NEW w \in Writers, WriteNormal(w) PROVE CvTypes'
  BY <1>6, <1>0 DEF WriteNormal, NotifyAll, NotifyOne, TypeOK
<1>7. ASSUME NEW w \in Writers, WriterWake(w) PROVE CvTypes'
  BY <1>7, <1>0 DEF WriterWake, WakeAndCheck, TypeOK
<1>8. ASSUME NEW w \in Writers, RacingDeallocate(w) PROVE CvTypes'
  BY <1>8, <1>0 DEF RacingDeallocate, NextEntry, LeaveEntry, TypeOK
<1>9. ASSUME NEW t \in cv, StopWaiting(t) PROVE CvTypes'
  BY <1>9, <1>0 DEF StopWaiting, EndWait, TypeOK
<1>10. CASE AsyncLock \/ AsyncWait \/ AsyncBackoff \/ AsyncExit \/ AsyncTake
  BY <1>10, <1>0 DEF AsyncLock, AsyncWait, WaitWhile, AsyncBackoff,
              AsyncExit, ExitIf, AsyncTake, TypeOK
<1>11. CASE AsyncDeallocate \/ AsyncFlush
  BY <1>11 DEF AsyncDeallocate, NextEntry, LeaveEntry, AsyncFlush, TypeOK
<1>12. CASE AsyncRelock
  BY <1>12 DEF AsyncRelock, Relock, WakeBlocked, NotifyAll, NotifyOne, TypeOK
<1>13. ASSUME NEW ok \in BOOLEAN, AsyncWrite(ok) PROVE CvTypes'
  BY <1>13 DEF AsyncWrite, TypeOK
<1> QED
  BY <1>1, <1>2, <1>3, <1>4, <1>5, <1>6, <1>7, <1>8, <1>9, <1>10, <1>11, <1>12, <1>13
  DEF Next, WriterStep, AsyncStep

-----------------------------------------------------------------------------
(* The memtable, the batch and the file.  Seven kinds of steps change them, *)
(* and every other step is quiet.                                           *)

Between == {"start", "head", "sleeping", "exit"}   \* no batch in hand

Pushes(w) ==
    /\ WriteSync(w) \/ WriteNormal(w)
    /\ MuFree /\ wpc[w] = "write"
    /\ PushMessage(w)
    /\ UNCHANGED <<table, current_flushed_logs, current_written_size, stored,
                   flushed, apc, flushed_log_index>>

Leaves ==
    /\ apc = "dealloc"
    /\ NextEntry
    /\ UNCHANGED <<queue, stored, flushed, flushed_log_index>>

Quiet ==
    /\ UNCHANGED <<queue, table, current_flushed_logs, current_written_size,
                   stored, flushed, flushed_log_index>>
    /\ apc' = apc \/ (apc \in Between /\ apc' \in Between)

(* Every step is one of the seven kinds. *)
LEMMA Classified ==
    [Next]_vars => \/ \E w \in Writers : Pushes(w)
                   \/ AsyncTake
                   \/ \E ok \in BOOLEAN : AsyncWrite(ok)
                   \/ Leaves \/ AsyncFlush \/ AsyncRelock \/ Quiet
<1> USE DEF Quiet, Between, queue, batch, disk, AGoto
<1>1. CASE UNCHANGED vars \/ Joined \/ Deinit
  BY <1>1 DEF vars, Joined, Deinit
<1>2. ASSUME NEW l \in Levels, SetLogLevel(l) \/ SetSyncLoglevel(l) PROVE Quiet
  BY <1>2 DEF SetLogLevel, SetSyncLoglevel
<1>3. ASSUME NEW w \in Writers, NEW l \in Levels, BeginLog(w, l) PROVE Quiet
  BY <1>3 DEF BeginLog
<1>4. ASSUME NEW w \in Writers, Allocate(w) \/ PoolEmpty(w) \/ GiveUp(w) PROVE Quiet
  BY <1>4 DEF Allocate, PoolEmpty, GiveUp
<1>5. ASSUME NEW w \in Writers, WriteSync(w) PROVE Pushes(w)
  BY <1>5 DEF WriteSync, PushAndWait, Pushes
<1>6. ASSUME NEW w \in Writers, WriteNormal(w) PROVE Pushes(w)
  BY <1>6 DEF WriteNormal, Pushes
<1>7. ASSUME NEW w \in Writers, WriterWake(w) PROVE Quiet
  BY <1>7 DEF WriterWake, WakeAndCheck
<1>8. ASSUME NEW w \in Writers, RacingDeallocate(w) PROVE Leaves
  BY <1>8 DEF RacingDeallocate, Leaves
<1>9. ASSUME NEW t \in cv, StopWaiting(t) PROVE Quiet
  BY <1>9 DEF StopWaiting, EndWait
<1>10. CASE AsyncLock \/ AsyncWait \/ AsyncBackoff \/ AsyncExit
  BY <1>10 DEF AsyncLock, AsyncWait, WaitWhile, AsyncBackoff, AsyncExit, ExitIf
<1>11. CASE AsyncDeallocate
  BY <1>11 DEF AsyncDeallocate, Leaves
<1> QED
  BY <1>1, <1>2, <1>3, <1>4, <1>5, <1>6, <1>7, <1>8, <1>9, <1>10, <1>11
  DEF Next, WriterStep, AsyncStep

(* Outside a batch there is nothing left of the last one. *)
NoBatch ==
    apc \in Between =>
        table = <<>> /\ current_flushed_logs = 0 /\ current_written_size = 0

(* A step that ends a batch leaves no entry of it in table. *)
LEMMA NoBatchNext == TypeOK /\ NoBatch /\ [Next]_vars => NoBatch'
<1> SUFFICES ASSUME TypeOK, NoBatch, [Next]_vars PROVE NoBatch'
  OBVIOUS
<1> USE DEF NoBatch, Between, AGoto
<1>1. ASSUME NEW w \in Writers, Pushes(w) PROVE NoBatch'
  BY <1>1 DEF Pushes
<1>2. CASE AsyncTake
  BY <1>2 DEF AsyncTake
<1>3. ASSUME NEW ok \in BOOLEAN, AsyncWrite(ok) PROVE NoBatch'
  BY <1>3 DEF AsyncWrite
<1>4. CASE Leaves
  BY <1>4 DEF Leaves, NextEntry, LeaveEntry
<1>5. CASE AsyncFlush \/ AsyncRelock
  BY <1>5 DEF AsyncFlush, AsyncRelock, Relock
<1>6. CASE Quiet
  BY <1>6 DEF Quiet
<1> QED BY <1>1, <1>2, <1>3, <1>4, <1>5, <1>6, Classified

(* Facts on sequences. *)
LEMMA AppendToSecond ==
    ASSUME NEW T, NEW s \in Seq(T), NEW t \in Seq(T), NEW e \in T
    PROVE  Append(s \o t, e) = s \o Append(t, e)
<1>1. <<e>> \in Seq(T) /\ s \o t \in Seq(T)
  BY ConcatProperties
<1>2. Append(s \o t, e) = (s \o t) \o <<e>>
  BY <1>1, AppendIsConcat
<1>3. Append(t, e) = t \o <<e>>
  BY AppendIsConcat
<1> QED BY <1>1, <1>2, <1>3, ConcatAssociative

(* Moving the head of t to the end of s does not change s followed by t. *)
LEMMA HeadToFirst ==
    ASSUME NEW T, NEW s \in Seq(T), NEW t \in Seq(T), t # <<>>
    PROVE  Append(s, Head(t)) \o Tail(t) = s \o t
<1>1. Head(t) \in T /\ Tail(t) \in Seq(T)
  BY HeadTailProperties
<1>2. <<Head(t)>> \in Seq(T)
  BY <1>1
<1>3. <<Head(t)>> \o Tail(t) = t
  <2> DEFINE u == <<Head(t)>> \o Tail(t)
  <2>1. /\ u \in Seq(T) /\ Len(u) = 1 + Len(Tail(t))
        /\ \A i \in 1 .. 1 + Len(Tail(t)) :
              u[i] = IF i <= 1 THEN <<Head(t)>>[i] ELSE Tail(t)[i - 1]
    BY <1>1, <1>2, ConcatProperties
  <2>2. /\ Len(t) \in Nat \ {0} /\ Len(Tail(t)) = Len(t) - 1
        /\ \A i \in 1 .. Len(Tail(t)) : Tail(t)[i] = t[i + 1]
    BY HeadTailProperties, EmptySeq, LenProperties
  <2>3. \A i \in 1 .. Len(u) : u[i] = t[i]
    <3> SUFFICES ASSUME NEW i \in 1 .. Len(u) PROVE u[i] = t[i]
      OBVIOUS
    <3>1. CASE i = 1
      BY <3>1, <2>1, <2>2
    <3>2. CASE i > 1
      BY <3>2, <2>1, <2>2
    <3> QED BY <3>1, <3>2
  <2>4. Len(u) = Len(t)
    BY <2>1, <2>2
  <2> QED BY <2>1, <2>3, <2>4, SeqEqual
<1>4. Append(s, Head(t)) = s \o <<Head(t)>>
  BY <1>1, AppendIsConcat
<1> QED BY <1>1, <1>2, <1>3, <1>4, ConcatAssociative, SMTT(30)

(* The head and the tail of s followed by t are those of s. *)
LEMMA HeadTailConcat ==
    ASSUME NEW T, NEW s \in Seq(T), NEW t \in Seq(T), s # <<>>
    PROVE  /\ s \o t # <<>>
           /\ Head(s \o t) = Head(s)
           /\ Tail(s \o t) = Tail(s) \o t
<1> DEFINE u == s \o t
<1>1. /\ u \in Seq(T) /\ Len(u) = Len(s) + Len(t)
      /\ \A i \in 1 .. Len(s) + Len(t) : u[i] = IF i <= Len(s) THEN s[i] ELSE t[i - Len(s)]
  BY ConcatProperties
<1>2. Len(s) \in Nat \ {0} /\ Len(t) \in Nat
  BY EmptySeq, LenProperties
<1> HIDE DEF u
<1>3. u # <<>>
  BY <1>1, <1>2, EmptySeq
<1>4. Head(u) = Head(s)
  <2>1. 1 \in 1 .. Len(s) + Len(t) /\ 1 <= Len(s)
    BY <1>2
  <2>2. u[1] = s[1]
    BY <2>1, <1>1
  <2>3. Head(u) = u[1] /\ Head(s) = s[1]
    BY <1>1, <1>3
  <2> QED BY <2>2, <2>3
<1>5. /\ Tail(u) \in Seq(T) /\ Len(Tail(u)) = Len(u) - 1
      /\ \A i \in 1 .. Len(Tail(u)) : Tail(u)[i] = u[i + 1]
  BY <1>1, <1>3, HeadTailProperties
<1>6. /\ Tail(s) \in Seq(T) /\ Len(Tail(s)) = Len(s) - 1
      /\ \A i \in 1 .. Len(Tail(s)) : Tail(s)[i] = s[i + 1]
  BY HeadTailProperties
<1>7. /\ Tail(s) \o t \in Seq(T) /\ Len(Tail(s) \o t) = Len(Tail(s)) + Len(t)
      /\ \A i \in 1 .. Len(Tail(s)) + Len(t) :
            (Tail(s) \o t)[i] = IF i <= Len(Tail(s)) THEN Tail(s)[i] ELSE t[i - Len(Tail(s))]
  BY <1>6, ConcatProperties
<1>8. \A i \in 1 .. Len(Tail(u)) : Tail(u)[i] = (Tail(s) \o t)[i]
  <2> SUFFICES ASSUME NEW i \in 1 .. Len(Tail(u)) PROVE Tail(u)[i] = (Tail(s) \o t)[i]
    OBVIOUS
  <2>1. /\ Tail(u)[i] = u[i + 1] /\ i + 1 \in 1 .. Len(s) + Len(t)
        /\ i \in 1 .. Len(Tail(s)) + Len(t)
    BY <1>1, <1>2, <1>5, <1>6
  <2>2. CASE i + 1 <= Len(s)
    BY <2>1, <2>2, <1>1, <1>2, <1>6, <1>7
  <2>3. CASE ~(i + 1 <= Len(s))
    <3>1. (i + 1) - Len(s) = i - Len(Tail(s)) /\ ~(i <= Len(Tail(s)))
      BY <2>1, <2>3, <1>2, <1>6
    <3> QED BY <2>1, <2>3, <3>1, <1>1, <1>7
  <2> QED BY <2>2, <2>3
<1>9. Tail(u) = Tail(s) \o t
  <2>1. Len(Tail(u)) = Len(Tail(s) \o t)
    BY <1>1, <1>2, <1>5, <1>6, <1>7
  <2>2. Tail(u) \in Seq(T) /\ Tail(s) \o t \in Seq(T)
    BY <1>5, <1>7
  <2> HIDE DEF u
  <2> QED BY <2>1, <2>2, <1>8, SeqEqual
<1> QED BY <1>3, <1>4, <1>9 DEF u

(* What the batch has not written yet is a sequence of messages. *)
LEMMA UnstoredType == TypeOK => Unstored \in Seq(Messages)
<1> SUFFICES ASSUME TypeOK PROVE Unstored \in Seq(Messages)
  OBVIOUS
<1>1. CASE apc = "dealloc"
  BY <1>1, HeadIsMessage DEF Unstored
<1>2. CASE apc # "dealloc"
  BY <1>2 DEF Unstored, TypeOK, QueueTypes
<1> QED BY <1>1, <1>2

(* Joining sequences of messages. *)
LEMMA JoinMessages ==
    /\ \A s, t \in Seq(Messages) : \A e \in Messages : Append(s \o t, e) = s \o Append(t, e)
    /\ \A s, t, u \in Seq(Messages) : (s \o t) \o u = s \o (t \o u)
<1>1. ASSUME NEW s \in Seq(Messages), NEW t \in Seq(Messages), NEW u \in Seq(Messages)
      PROVE  (s \o t) \o u = s \o (t \o u) /\ s \o t \in Seq(Messages)
  BY ConcatAssociative, ConcatProperties, SMTT(30)
<1>2. ASSUME NEW s \in Seq(Messages), NEW e \in Messages
      PROVE  Append(s, e) = s \o <<e>> /\ <<e>> \in Seq(Messages)
  BY AppendIsConcat
<1>3. ASSUME NEW s \in Seq(Messages), NEW t \in Seq(Messages), NEW e \in Messages
      PROVE  Append(s \o t, e) = s \o Append(t, e)
  <2>1. (s \o t) \o <<e>> = s \o (t \o <<e>>) /\ s \o t \in Seq(Messages)
    BY <1>1, <1>2
  <2>2. Append(s \o t, e) = (s \o t) \o <<e>> /\ Append(t, e) = t \o <<e>>
    BY <1>2, <2>1
  <2> QED BY <2>1, <2>2
<1> QED BY <1>1, <1>3

(* Every step keeps the order: a push appends, a write moves the head of *)
(* the batch to the file, the splice puts the rest back in front.        *)
LEMMA OrderNext == TypeOK /\ NoBatch /\ OrderInv /\ [Next]_vars => OrderInv'
<1> SUFFICES ASSUME TypeOK, NoBatch, OrderInv, [Next]_vars PROVE OrderInv'
  OBVIOUS
<1> USE DEF AGoto
<1>0. /\ memtable \in Seq(Messages) /\ table \in Seq(Messages)
      /\ stored \in Seq(Messages) /\ Unstored \in Seq(Messages)
      /\ accepted = (stored \o Unstored) \o memtable
  BY UnstoredType DEF TypeOK, QueueTypes, OrderInv
<1>a. stored \o Unstored \in Seq(Messages) /\ table \o memtable \in Seq(Messages)
  BY <1>0, ConcatProperties
<1>1. ASSUME NEW w \in Writers, Pushes(w) PROVE OrderInv'
  <2>1. /\ accepted' = Append(accepted, message[w])
        /\ memtable' = Append(memtable, message[w])
        /\ stored' = stored /\ Unstored' = Unstored
    BY <1>1 DEF Pushes, PushMessage, Unstored
  <2>2. message[w] \in Messages
    BY <1>1, PushTypes DEF Pushes
  <2>3. Append(accepted, message[w]) = (stored \o Unstored) \o Append(memtable, message[w])
    <3> DEFINE front == stored \o Unstored
    <3>1. /\ front \in Seq(Messages) /\ memtable \in Seq(Messages)
          /\ accepted = front \o memtable
      BY <1>0, <1>a
    <3> HIDE DEF front
    <3>2. Append(front \o memtable, message[w]) = front \o Append(memtable, message[w])
      BY ONLY <2>2, <3>1, JoinMessages, Zenon
    <3> QED BY <3>1, <3>2, Zenon DEF front
  <2> QED BY <2>1, <2>3 DEF OrderInv
<1>2. CASE AsyncTake
  <2>1. /\ accepted' = accepted /\ stored' = stored
        /\ memtable' = <<>> /\ Unstored' = memtable
    BY <1>2 DEF AsyncTake, Unstored, disk
  <2>2. Unstored = <<>>
    BY <1>2 DEF AsyncTake, NoBatch, Between, Unstored
  <2>3. /\ stored \o <<>> = stored /\ stored \o memtable \in Seq(Messages)
        /\ (stored \o memtable) \o <<>> = stored \o memtable
    BY <1>0, ConcatEmptySeq, ConcatProperties
  <2> QED BY <2>1, <2>2, <2>3, <1>0 DEF OrderInv
<1>3. ASSUME NEW ok \in BOOLEAN, AsyncWrite(ok) PROVE OrderInv'
  <2>1. /\ accepted' = accepted /\ memtable' = memtable /\ table' = table
        /\ Unstored = table /\ table # <<>>
    BY <1>3, HeadIsMessage DEF AsyncWrite, Unstored, queue, batch
  <2>2. CASE ok
    <3>1. stored' = Append(stored, Head(table)) /\ Unstored' = Tail(table)
      BY <1>3, <2>1, <2>2 DEF AsyncWrite, Unstored
    <3>2. Append(stored, Head(table)) \o Tail(table) = stored \o table
      BY <2>1, <1>0, HeadToFirst
    <3> QED BY <2>1, <3>1, <3>2, <1>0 DEF OrderInv
  <2>3. CASE ~ok
    <3>1. stored' = stored /\ Unstored' = table
      BY <1>3, <2>1, <2>3 DEF AsyncWrite, Unstored
    <3> QED BY <2>1, <3>1, <1>0 DEF OrderInv
  <2> QED BY <2>2, <2>3
<1>4. CASE Leaves
  <2>1. /\ accepted' = accepted /\ memtable' = memtable /\ stored' = stored
        /\ Unstored' = Unstored
    BY <1>4 DEF Leaves, NextEntry, LeaveEntry, Unstored, queue
  <2> QED BY <2>1, <1>0 DEF OrderInv
<1>5. CASE AsyncFlush \/ Quiet
  <2>1. /\ accepted' = accepted /\ memtable' = memtable /\ stored' = stored
        /\ Unstored' = Unstored
    BY <1>5 DEF AsyncFlush, Quiet, Between, Unstored, queue
  <2> QED BY <2>1, <1>0 DEF OrderInv
<1>6. CASE AsyncRelock
  <2>1. /\ accepted' = accepted /\ stored' = stored
        /\ memtable' = table \o memtable /\ Unstored' = <<>> /\ Unstored = table
    BY <1>6 DEF AsyncRelock, Relock, Unstored, disk
  <2>2. stored \o <<>> = stored
    BY <1>0, ConcatEmptySeq
  <2>3. (stored \o table) \o memtable = stored \o (table \o memtable)
    BY <1>0, JoinMessages
  <2> QED BY <2>1, <2>2, <2>3, <1>0 DEF OrderInv
<1> QED BY <1>1, <1>2, <1>3, <1>4, <1>5, <1>6, Classified

(* The two indices count what was pushed and what is in the file.           *)
Counted ==
    /\ written_log_index = Len(accepted)
    /\ apc # "dealloc" => flushed_log_index + current_flushed_logs = Len(stored)
    /\ apc = "dealloc" =>
          /\ flushed_log_index + current_flushed_logs + 1 = Len(stored)
          /\ stored[Len(stored)] = Head(table)

(* A step moves an index exactly when it moves the entries the index *)
(* counts.                                                           *)
LEMMA CountedNext ==
    TypeOK /\ NoBatch /\ Counted /\ [Next]_vars => Counted'
<1> SUFFICES ASSUME TypeOK, NoBatch, Counted, [Next]_vars PROVE Counted'
  OBVIOUS
<1> USE DEF AGoto, Counted
<1>0. /\ accepted \in Seq(Messages) /\ stored \in Seq(Messages)
      /\ flushed_log_index \in Nat /\ current_flushed_logs \in Nat
      /\ Len(stored) \in Nat /\ Len(accepted) \in Nat
  BY LenProperties DEF TypeOK, QueueTypes
<1>1. ASSUME NEW w \in Writers, Pushes(w) PROVE Counted'
  <2>1. /\ accepted' = Append(accepted, message[w])
        /\ written_log_index' = written_log_index + 1
        /\ UNCHANGED <<stored, apc, flushed_log_index, current_flushed_logs, table>>
    BY <1>1 DEF Pushes, PushMessage
  <2>2. Len(accepted') = Len(accepted) + 1
    BY <1>0, <1>1, <2>1, PushTypes, AppendProperties DEF Pushes
  <2> QED BY <2>1, <2>2
<1>2. CASE AsyncTake
  BY <1>2, <1>0 DEF AsyncTake, NoBatch, Between, disk
<1>3. ASSUME NEW ok \in BOOLEAN, AsyncWrite(ok) PROVE Counted'
  <2>1. /\ UNCHANGED <<accepted, written_log_index, flushed_log_index,
                       current_flushed_logs, table>>
        /\ apc = "writing"
    BY <1>3 DEF AsyncWrite, queue, batch
  <2>2. CASE ok
    <3>1. stored' = Append(stored, Head(table)) /\ apc' = "dealloc"
      BY <1>3, <2>2 DEF AsyncWrite
    <3>2. /\ Len(stored') = Len(stored) + 1
          /\ stored'[Len(stored')] = Head(table)
      BY <2>1, <3>1, <1>0, HeadIsMessage, AppendProperties
    <3> QED BY <2>1, <3>1, <3>2, <1>0
  <2>3. CASE ~ok
    <3>1. stored' = stored /\ apc' = "flush"
      BY <1>3, <2>3 DEF AsyncWrite
    <3> QED BY <2>1, <3>1, <1>0
  <2> QED BY <2>2, <2>3
<1>4. CASE Leaves
  <2>1. /\ apc' \in {"flush", "writing"}
        /\ current_flushed_logs' = current_flushed_logs + 1
        /\ UNCHANGED <<accepted, written_log_index, flushed_log_index, stored>>
    BY <1>4 DEF Leaves, NextEntry, LeaveEntry, queue
  <2> QED BY <2>1, <1>4, <1>0 DEF Leaves
<1>5. CASE AsyncFlush
  BY <1>5 DEF AsyncFlush, queue
<1>6. CASE Quiet
  BY <1>6 DEF Quiet, Between, queue
<1>7. CASE AsyncRelock
  BY <1>7, <1>0 DEF AsyncRelock, Relock, disk
<1> QED BY <1>1, <1>2, <1>3, <1>4, <1>5, <1>6, <1>7, Classified

(* What counts as flushed was flushed, and between two batches all that is  *)
(* in the file was.                                                         *)
FlushInv ==
    /\ flushed_log_index <= flushed
    /\ apc \notin {"writing", "dealloc", "flush"} => flushed = Len(stored)

(* An index of flushed entries is advanced only after the flush. *)
LEMMA FlushNext == TypeOK /\ Counted /\ FlushInv /\ [Next]_vars => FlushInv'
<1> SUFFICES ASSUME TypeOK, Counted, FlushInv, [Next]_vars PROVE FlushInv'
  OBVIOUS
<1> USE DEF AGoto, FlushInv
<1>0. /\ flushed_log_index \in Nat /\ current_flushed_logs \in Nat
      /\ flushed \in Nat /\ Len(stored) \in Nat
  BY LenProperties DEF TypeOK, QueueTypes
<1>1. ASSUME NEW w \in Writers, Pushes(w) PROVE FlushInv'
  BY <1>1 DEF Pushes
<1>2. CASE AsyncTake
  BY <1>2 DEF AsyncTake, disk
<1>3. ASSUME NEW ok \in BOOLEAN, AsyncWrite(ok) PROVE FlushInv'
  BY <1>3 DEF AsyncWrite
<1>4. CASE Leaves
  BY <1>4 DEF Leaves, NextEntry, LeaveEntry
<1>5. CASE AsyncFlush
  <2>1. /\ flushed' = Len(stored) /\ stored' = stored
        /\ flushed_log_index' = flushed_log_index /\ apc' = "relock" /\ apc = "flush"
    BY <1>5 DEF AsyncFlush
  <2> QED BY <2>1, <1>0 DEF Counted
<1>6. CASE Quiet
  BY <1>6 DEF Quiet, Between
<1>7. CASE AsyncRelock
  <2>1. /\ flushed_log_index' = flushed_log_index + current_flushed_logs
        /\ UNCHANGED <<stored, flushed>> /\ apc = "relock"
    BY <1>7 DEF AsyncRelock, Relock, disk
  <2> QED BY <2>1, <1>0 DEF Counted
<1> QED BY <1>1, <1>2, <1>3, <1>4, <1>5, <1>6, <1>7, Classified
-----------------------------------------------------------------------------
(* Shutdown, and the writers' side. *)

ShutDown ==
    /\ ~running => \A w \in Writers : wpc[w] = "idle"
    /\ apc = "exit" => ~running /\ memtable = <<>>

(* A step of a writer is made inside writeLog(), and not by the destructor. *)
LEMMA WriterActive ==
    ASSUME NEW w \in Writers, WriterStep(w) \/ RacingDeallocate(w)
    PROVE  wpc[w] # "idle" /\ running' = running
<1>1. CASE Allocate(w) \/ PoolEmpty(w) \/ GiveUp(w)
  BY <1>1 DEF Allocate, PoolEmpty, GiveUp
<1>2. CASE WriteSync(w) \/ WriteNormal(w) \/ WriterWake(w)
  BY <1>2 DEF WriteSync, PushAndWait, WriteNormal, WriterWake, WakeAndCheck
<1>3. CASE RacingDeallocate(w)
  BY <1>3 DEF RacingDeallocate
<1> QED BY <1>1, <1>2, <1>3 DEF WriterStep

(* Only AsyncExit ends the async thread, and nothing starts it again. *)
LEMMA ExitFrame ==
    ASSUME [Next]_vars
    PROVE  AsyncExit \/ (apc' = "exit" <=> apc = "exit")
<1> USE DEF AGoto
<1>1. CASE UNCHANGED vars \/ Joined \/ Deinit
  BY <1>1 DEF vars, Joined, Deinit
<1>2. ASSUME NEW l \in Levels, SetLogLevel(l) \/ SetSyncLoglevel(l) PROVE apc' = apc
  BY <1>2 DEF SetLogLevel, SetSyncLoglevel
<1>3. ASSUME NEW w \in Writers, NEW l \in Levels, BeginLog(w, l) PROVE apc' = apc
  BY <1>3 DEF BeginLog
<1>4. ASSUME NEW w \in Writers, WriterStep(w) PROVE apc' = apc
  BY <1>4, WriterFrame
<1>5. ASSUME NEW w \in Writers, RacingDeallocate(w)
      PROVE  apc' # "exit" /\ apc # "exit"
  BY <1>5 DEF RacingDeallocate, NextEntry, LeaveEntry
<1>6. ASSUME NEW t \in cv, StopWaiting(t) PROVE apc' = apc
  BY <1>6 DEF StopWaiting, EndWait
<1>7. ASSUME NEW ok \in BOOLEAN, AsyncWrite(ok) PROVE apc' # "exit" /\ apc # "exit"
  BY <1>7 DEF AsyncWrite
<1>8. CASE AsyncLock \/ AsyncWait \/ AsyncBackoff \/ AsyncTake \/ AsyncDeallocate
           \/ AsyncFlush \/ AsyncRelock
  BY <1>8 DEF AsyncLock, AsyncWait, WaitWhile, AsyncBackoff, AsyncTake,
              AsyncDeallocate, NextEntry, LeaveEntry, AsyncFlush, AsyncRelock, Relock
<1> QED BY <1>1, <1>2, <1>3, <1>4, <1>5, <1>6, <1>7, <1>8 DEF Next, AsyncStep

(* Nobody enters writeLog() after the destructor, and the async thread ends *)
(* only with nothing left to write.                                         *)
LEMMA ShutDownNext == ShutDown /\ [Next]_vars => ShutDown'
<1> SUFFICES ASSUME ShutDown, [Next]_vars PROVE ShutDown'
  OBVIOUS
<1> USE DEF ShutDown, AGoto
<1>a. (\A w \in Writers : wpc'[w] = "idle") \/ running'
  <2>1. CASE UNCHANGED vars \/ Joined
    BY <2>1 DEF vars, Joined
  <2>2. CASE Deinit
    BY <2>2 DEF Deinit
  <2>3. ASSUME NEW l \in Levels, SetLogLevel(l) \/ SetSyncLoglevel(l) PROVE running'
    BY <2>3 DEF SetLogLevel, SetSyncLoglevel
  <2>4. ASSUME NEW w \in Writers, NEW l \in Levels, BeginLog(w, l) PROVE running'
    BY <2>4 DEF BeginLog
  <2>5. ASSUME NEW w \in Writers, WriterStep(w) \/ RacingDeallocate(w) PROVE running'
    BY <2>5, WriterActive
  <2>6. ASSUME NEW t \in cv, StopWaiting(t)
        PROVE  (\A w \in Writers : wpc'[w] = "idle") \/ running'
    BY <2>6 DEF StopWaiting, EndWait
  <2>7. CASE AsyncStep
    BY <2>7, AsyncFrame
  <2> QED BY <2>1, <2>2, <2>3, <2>4, <2>5, <2>6, <2>7 DEF Next
<1>b. ASSUME apc' = "exit" PROVE ~running' /\ memtable' = <<>>
  <2>1. CASE AsyncExit
    BY <2>1 DEF AsyncExit, ExitIf, queue
  <2>2. CASE apc = "exit"
    <3>1. ~running /\ memtable = <<>> /\ \A w \in Writers : wpc[w] = "idle"
      BY <2>2
    <3>2. Quiet
      BY <3>1, <2>2, Classified
         DEF Pushes, AsyncTake, AsyncWrite, Leaves, AsyncFlush, AsyncRelock, Relock
    <3>3. ~running'
      <4>1. CASE UNCHANGED vars \/ Joined \/ Deinit
        BY <4>1, <3>1 DEF vars, Joined, Deinit
      <4>2. CASE AsyncStep
        BY <4>2, <3>1, AsyncFrame
      <4>3. ASSUME NEW t \in cv, StopWaiting(t) PROVE ~running'
        BY <4>3, <3>1 DEF StopWaiting, EndWait
      <4> QED BY <4>1, <4>2, <4>3, <3>1, WriterActive
              DEF Next, SetLogLevel, SetSyncLoglevel, BeginLog
    <3> QED BY <3>1, <3>2, <3>3 DEF Quiet, queue
  <2> QED BY <2>1, <2>2, <1>b, ExitFrame
<1> QED BY <1>a, <1>b

(* Three kinds of steps change who is held or what wakes him. *)
LEMMA BlockedFrame ==
    ASSUME TypeOK, [Next]_vars
    PROVE  \/ \E w \in Writers : WriteSync(w) \/ WriterWake(w)
           \/ UNCHANGED <<Blocked, blocked_threads, need_flushed_index>>
<1> USE DEF locals, Goto
<1>0. wpc \in [Writers -> {"idle", "alloc", "full", "retry", "giveup", "write", "blocked"}]
  BY DEF TypeOK, WriterTypes
<1> DEFINE Kept == UNCHANGED <<Blocked, blocked_threads, need_flushed_index>>
<1>1. CASE UNCHANGED vars \/ Joined
  BY <1>1 DEF vars, Joined, Blocked
<1>2. CASE Deinit
  BY <1>2 DEF Deinit, Blocked
<1>3. ASSUME NEW l \in Levels, SetLogLevel(l) \/ SetSyncLoglevel(l) PROVE Kept
  BY <1>3 DEF SetLogLevel, SetSyncLoglevel, Blocked
<1>4. ASSUME NEW w \in Writers, NEW l \in Levels, BeginLog(w, l) PROVE Kept
  BY <1>4, <1>0 DEF BeginLog, Blocked
<1>5. ASSUME NEW w \in Writers, Allocate(w) \/ PoolEmpty(w) \/ GiveUp(w) PROVE Kept
  BY <1>5, <1>0 DEF Allocate, PoolEmpty, GiveUp, Blocked
<1>6. ASSUME NEW w \in Writers, WriteNormal(w) PROVE Kept
  BY <1>6, <1>0 DEF WriteNormal, Blocked
<1>7. ASSUME NEW w \in Writers, RacingDeallocate(w) PROVE Kept
  BY <1>7, <1>0 DEF RacingDeallocate, Blocked
<1>8. ASSUME NEW t \in cv, StopWaiting(t) PROVE Kept
  BY <1>8 DEF StopWaiting, EndWait, Blocked
<1>9. CASE AsyncStep
  BY <1>9, AsyncFrame DEF Blocked
<1> QED
  BY <1>1, <1>2, <1>3, <1>4, <1>5, <1>6, <1>7, <1>8, <1>9 DEF Next, WriterStep

(* What write(true) does: it is not held, or w is the one who waits. *)
LEMMA WriteSyncEffect ==
    ASSUME TypeOK, NEW w \in Writers, WriteSync(w)
    PROVE  /\ w \notin Blocked /\ running' = running /\ MuFree
           /\ wpc[w] = "write" /\ Pushes(w)
           /\ \/ /\ disk_full_try_times > 0
                 /\ UNCHANGED <<Blocked, blocked_threads, need_flushed_index, cv>>
              \/ /\ disk_full_try_times = 0 /\ disk_full_try_times' = 0
                 /\ Blocked' = Blocked \union {w}
                 /\ blocked_threads' = blocked_threads + 1
                 /\ need_flushed_index' =
                       [need_flushed_index EXCEPT ![w] = written_log_index + 1]
                 /\ cv' = {w}
<1> USE DEF Goto
<1>0. /\ wpc \in [Writers -> {"idle", "alloc", "full", "retry", "giveup", "write", "blocked"}]
      /\ disk_full_try_times \in Nat
  BY DEF TypeOK, WriterTypes, SharedTypes
<1>1. w \notin Blocked /\ running' = running /\ MuFree /\ wpc[w] = "write"
  BY DEF WriteSync, PushAndWait, Blocked
<1>2. Pushes(w)
  BY DEF WriteSync, PushAndWait, Pushes, batch, disk
<1>3. CASE disk_full_try_times > 0
  <2>1. wpc' = [wpc EXCEPT ![w] = "idle"]
        /\ UNCHANGED <<blocked_threads, need_flushed_index, cv>>
    BY <1>3 DEF WriteSync, PushAndWait
  <2>2. Blocked' = Blocked
    BY <2>1, <1>0, <1>1 DEF Blocked
  <2> QED BY <1>1, <1>2, <1>3, <2>1, <2>2
<1>4. CASE ~(disk_full_try_times > 0)
  <2>1. /\ wpc' = [wpc EXCEPT ![w] = "blocked"] /\ cv' = {w}
        /\ blocked_threads' = blocked_threads + 1
        /\ need_flushed_index' = [need_flushed_index EXCEPT ![w] = written_log_index']
        /\ written_log_index' = written_log_index + 1
        /\ disk_full_try_times' = disk_full_try_times
    BY <1>4 DEF WriteSync, PushAndWait, PushMessage
  <2>2. Blocked' = Blocked \union {w}
    BY <2>1, <1>0 DEF Blocked
  <2> QED BY <1>0, <1>1, <1>2, <1>4, <2>1, <2>2
<1> QED BY <1>3, <1>4

(* A caller that wakes either leaves, its entry flushed, or waits again. *)
LEMMA WriterWakeEffect ==
    ASSUME TypeOK, NEW w \in Writers, WriterWake(w)
    PROVE  /\ w \in Blocked /\ w \notin cv /\ Quiet
           /\ UNCHANGED <<need_flushed_index, running, disk_full_try_times, apc>>
           /\ \/ /\ need_flushed_index[w] > flushed_log_index
                 /\ UNCHANGED <<Blocked, blocked_threads>>
                 /\ cv' = cv \union {w}
              \/ /\ need_flushed_index[w] <= flushed_log_index
                 /\ Blocked' = Blocked \ {w}
                 /\ blocked_threads' = blocked_threads - 1
                 /\ cv' = cv
<1> USE DEF Goto, WriterWake, WakeAndCheck
<1>0. /\ wpc \in [Writers -> {"idle", "alloc", "full", "retry", "giveup", "write", "blocked"}]
      /\ need_flushed_index[w] \in Nat /\ flushed_log_index \in Nat
  BY DEF TypeOK, WriterTypes, QueueTypes
<1>1. /\ w \in Blocked /\ w \notin cv
      /\ UNCHANGED <<need_flushed_index, running, disk_full_try_times, apc>>
  BY DEF Blocked, locals
<1>2. Quiet
  BY DEF Quiet, queue, batch, disk
<1>3. CASE Served(w)
  <2>1. wpc' = [wpc EXCEPT ![w] = "idle"] /\ cv' = cv
        /\ blocked_threads' = blocked_threads - 1
    BY <1>3
  <2>2. Blocked' = Blocked \ {w}
    BY <2>1, <1>0 DEF Blocked
  <2> QED BY <1>1, <1>2, <1>3, <2>1, <2>2 DEF Served
<1>4. CASE ~Served(w)
  <2>1. UNCHANGED <<Blocked, blocked_threads>> /\ cv' = cv \union {w}
    BY <1>4 DEF Blocked
  <2> QED BY <1>0, <1>1, <1>2, <1>4, <2>1 DEF Served
<1> QED BY <1>3, <1>4

(* A held caller waits for an entry that was pushed. *)
OwedInv == \A w \in Blocked : need_flushed_index[w] \in 1 .. written_log_index

(* written_log_index is advanced by a push, by one, and by nothing else. *)
LEMMA WrittenGrows ==
    ASSUME TypeOK, [Next]_vars
    PROVE  written_log_index' = written_log_index \/ written_log_index' = written_log_index + 1
<1> USE DEF queue
<1>1. ASSUME NEW w \in Writers, Pushes(w) PROVE written_log_index' = written_log_index + 1
  BY <1>1 DEF Pushes, PushMessage
<1>2. ASSUME NEW ok \in BOOLEAN, AsyncWrite(ok) PROVE written_log_index' = written_log_index
  BY <1>2 DEF AsyncWrite
<1>3. CASE AsyncTake \/ Leaves \/ AsyncFlush \/ AsyncRelock \/ Quiet
  BY <1>3 DEF AsyncTake, Leaves, AsyncFlush, AsyncRelock, Relock, Quiet
<1> QED BY <1>1, <1>2, <1>3, Classified

(* Every step keeps the index that a held caller waits for among those *)
(* pushed.                                                             *)
LEMMA OwedNext == TypeOK /\ OwedInv /\ [Next]_vars => OwedInv'
<1> SUFFICES ASSUME TypeOK, OwedInv, [Next]_vars, NEW v \in Blocked'
             PROVE  (need_flushed_index[v] \in 1 .. written_log_index)'
  BY DEF OwedInv
<1>0. /\ written_log_index \in Nat /\ need_flushed_index \in [Writers -> Nat]
      /\ \A w \in Blocked : w \in Writers /\ need_flushed_index[w] \in 1 .. written_log_index
  BY DEF TypeOK, QueueTypes, WriterTypes, OwedInv, Blocked
<1>a. written_log_index' = written_log_index \/ written_log_index' = written_log_index + 1
  BY WrittenGrows
<1>1. ASSUME NEW w \in Writers, WriteSync(w)
      PROVE  (need_flushed_index[v] \in 1 .. written_log_index)'
  <2>1. written_log_index' = written_log_index + 1
    BY <1>1, WriteSyncEffect DEF Pushes, PushMessage
  <2>2. CASE UNCHANGED <<Blocked, need_flushed_index>>
    BY <2>1, <2>2, <1>0
  <2>3. CASE /\ Blocked' = Blocked \union {w}
             /\ need_flushed_index' = [need_flushed_index EXCEPT ![w] = written_log_index + 1]
    BY <2>1, <2>3, <1>0
  <2> QED BY <2>2, <2>3, <1>1, WriteSyncEffect
<1>2. ASSUME NEW w \in Writers, WriterWake(w)
      PROVE  (need_flushed_index[v] \in 1 .. written_log_index)'
  <2>1. v \in Blocked /\ need_flushed_index' = need_flushed_index
    BY <1>2, WriterWakeEffect
  <2> QED BY <2>1, <1>0, <1>a
<1>3. CASE UNCHANGED <<Blocked, need_flushed_index>>
  BY <1>3, <1>0, <1>a
<1> QED BY <1>1, <1>2, <1>3, BlockedFrame

(* The held callers can be counted. *)
LEMMA BlockedFinite == IsFiniteSet(Blocked) /\ Cardinality(Blocked) \in Nat
<1>1. Blocked \in SUBSET Writers
  BY DEF Blocked
<1> QED BY <1>1, WritersAssumption, FS_Subset, FS_CardinalityType

(* Every step keeps blocked_threads equal to the number of held callers. *)
LEMMA BlockedExactNext == TypeOK /\ BlockedExact /\ [Next]_vars => BlockedExact'
<1> SUFFICES ASSUME TypeOK, BlockedExact, [Next]_vars PROVE BlockedExact'
  OBVIOUS
<1> USE DEF BlockedExact
<1>1. ASSUME NEW w \in Writers, WriteSync(w) PROVE BlockedExact'
  <2>1. w \notin Blocked
    BY <1>1, WriteSyncEffect
  <2>2. Cardinality(Blocked \union {w}) = Cardinality(Blocked) + 1
    BY <2>1, BlockedFinite, FS_AddElement
  <2> QED BY <1>1, <2>2, WriteSyncEffect
<1>2. ASSUME NEW w \in Writers, WriterWake(w) PROVE BlockedExact'
  <2>1. w \in Blocked
    BY <1>2, WriterWakeEffect
  <2>2. Cardinality(Blocked \ {w}) = Cardinality(Blocked) - 1
    BY <2>1, BlockedFinite, FS_RemoveElement
  <2> QED BY <1>2, <2>2, WriterWakeEffect
<1> QED BY <1>1, <1>2, BlockedFrame
-----------------------------------------------------------------------------
(* While the logger runs the backoff is positive only at the head of the    *)
(* loop, and with entries that are to be written again: it is not left      *)
(* behind by a wait.                                                        *)
BackoffInv == running /\ disk_full_try_times > 0 => apc = "head" /\ memtable # <<>>

(* Who takes mu while the logger runs finds no backoff, since the head of *)
(* the loop holds mu.                                                     *)
LEMMA BackoffImplies == TypeOK /\ BackoffInv => BackoffUnseen
  BY DEF TypeOK, SharedTypes, BackoffInv, BackoffUnseen, MuFree

(* The head of the loop counts the backoff down to 0 before it lets go of *)
(* mu.                                                                    *)
LEMMA BackoffNext ==
    TypeOK /\ NoBatch /\ ShutDown /\ BackoffInv /\ [Next]_vars => BackoffInv'
<1> SUFFICES ASSUME TypeOK, NoBatch, ShutDown, BackoffInv, [Next]_vars PROVE BackoffInv'
  OBVIOUS
<1> USE DEF BackoffInv, AGoto, queue
<1>0. disk_full_try_times \in Nat
  BY DEF TypeOK, SharedTypes
<1>1. CASE UNCHANGED vars \/ Joined \/ Deinit
  BY <1>1 DEF vars, Joined, Deinit
<1>2. ASSUME NEW l \in Levels, SetLogLevel(l) \/ SetSyncLoglevel(l) PROVE BackoffInv'
  BY <1>2 DEF SetLogLevel, SetSyncLoglevel
<1>3. ASSUME NEW w \in Writers, NEW l \in Levels, BeginLog(w, l) PROVE BackoffInv'
  BY <1>3 DEF BeginLog
<1>4. ASSUME NEW w \in Writers, Allocate(w) \/ PoolEmpty(w) \/ GiveUp(w) PROVE BackoffInv'
  BY <1>4 DEF Allocate, PoolEmpty, GiveUp
<1>5. ASSUME NEW w \in Writers, WriteSync(w) PROVE BackoffInv'
  <2>1. running /\ disk_full_try_times = 0
    <3>1. wpc[w] = "write" /\ apc # "head"
      BY <1>5, WriteSyncEffect DEF MuFree
    <3> QED BY <1>0, <3>1 DEF ShutDown
  <2>2. disk_full_try_times' = 0
    <3>1. ~(disk_full_try_times > 0)
      BY <2>1
    <3> QED BY <3>1, <1>5, WriteSyncEffect
  <2> QED BY <2>2
<1>6. ASSUME NEW w \in Writers, WriteNormal(w) PROVE BackoffInv'
  <2>1. running /\ apc # "head"
    BY <1>6 DEF WriteNormal, ShutDown, MuFree
  <2>2. disk_full_try_times = 0
    BY <2>1, <1>0
  <2>3. disk_full_try_times' = 0
    BY <2>2, <1>6 DEF WriteNormal
  <2> QED BY <2>3
<1>7. ASSUME NEW w \in Writers, WriterWake(w) PROVE BackoffInv'
  BY <1>7, WriterWakeEffect DEF Quiet
<1>8. ASSUME NEW w \in Writers, RacingDeallocate(w) PROVE BackoffInv'
  BY <1>8 DEF RacingDeallocate, NextEntry, LeaveEntry
<1>9. ASSUME NEW t \in cv, StopWaiting(t) PROVE BackoffInv'
  BY <1>9 DEF StopWaiting, EndWait
<1>10. CASE AsyncLock \/ AsyncWait \/ AsyncBackoff \/ AsyncExit \/ AsyncTake
  <2>1. CASE AsyncLock
    BY <2>1 DEF AsyncLock
  <2>2. CASE AsyncWait
    BY <2>2 DEF AsyncWait, WaitWhile
  <2>3. CASE AsyncBackoff
    BY <2>3 DEF AsyncBackoff
  <2>4. CASE AsyncExit
    BY <2>4 DEF AsyncExit, ExitIf
  <2>5. CASE AsyncTake
    <3>1. running' = running /\ disk_full_try_times' = disk_full_try_times
      BY <2>5 DEF AsyncTake
    <3>2. running => disk_full_try_times = 0
      BY <2>5 DEF AsyncTake
    <3>3. CASE running
      BY <3>1, <3>2, <3>3
    <3>4. CASE ~running
      BY <3>1, <3>4
    <3> QED BY <3>3, <3>4
  <2> QED BY <1>10, <2>1, <2>2, <2>3, <2>4, <2>5
<1>11. CASE AsyncDeallocate \/ AsyncFlush
  BY <1>11 DEF AsyncDeallocate, NextEntry, LeaveEntry, AsyncFlush
<1>12. ASSUME NEW ok \in BOOLEAN, AsyncWrite(ok) PROVE BackoffInv'
  BY <1>12 DEF AsyncWrite
<1>13. CASE AsyncRelock
  <2>1. /\ apc' = "head" /\ memtable' = table \o memtable /\ running' = running
        /\ apc = "relock"
        /\ disk_full_try_times' = IF table # <<>> THEN DiskFullTries ELSE disk_full_try_times
    BY <1>13 DEF AsyncRelock, Relock
  <2>2. table # <<>> => table \o memtable # <<>>
    BY ConcatEqualIffEmpty DEF TypeOK, QueueTypes
  <2> QED BY <2>1, <2>2
<1> QED
  BY <1>1, <1>2, <1>3, <1>4, <1>5, <1>6, <1>7, <1>8, <1>9, <1>10, <1>11, <1>12, <1>13
  DEF Next, WriterStep, AsyncStep

(* Waking.  Only three kinds of steps add a thread to cv.                   *)
LEMMA CvFrame ==
    ASSUME TypeOK, [Next]_vars
    PROVE  \/ \E w \in Writers : WriteSync(w) \/ WriterWake(w)
           \/ AsyncWait
           \/ cv' \subseteq cv
<1>1. CASE UNCHANGED vars \/ Joined \/ Deinit
  BY <1>1 DEF vars, Joined, Deinit, NotifyAll
<1>2. ASSUME NEW l \in Levels, SetLogLevel(l) \/ SetSyncLoglevel(l) PROVE cv' \subseteq cv
  BY <1>2 DEF SetLogLevel, SetSyncLoglevel
<1>3. ASSUME NEW w \in Writers, NEW l \in Levels, BeginLog(w, l) PROVE cv' \subseteq cv
  BY <1>3 DEF BeginLog
<1>4. ASSUME NEW w \in Writers, Allocate(w) \/ PoolEmpty(w) \/ GiveUp(w) PROVE cv' \subseteq cv
  BY <1>4 DEF Allocate, PoolEmpty, GiveUp
<1>5. ASSUME NEW w \in Writers, WriteNormal(w) PROVE cv' \subseteq cv
  BY <1>5 DEF WriteNormal, NotifyAll, NotifyOne
<1>6. ASSUME NEW w \in Writers, RacingDeallocate(w) PROVE cv' \subseteq cv
  BY <1>6 DEF RacingDeallocate
<1>7. ASSUME NEW t \in cv, StopWaiting(t) PROVE cv' \subseteq cv
  BY <1>7 DEF StopWaiting, EndWait
<1>8. CASE AsyncLock \/ AsyncBackoff \/ AsyncExit \/ AsyncTake \/ AsyncDeallocate \/ AsyncFlush
  BY <1>8 DEF AsyncLock, AsyncBackoff, AsyncExit, ExitIf, AsyncTake,
              AsyncDeallocate, AsyncFlush
<1>9. ASSUME NEW ok \in BOOLEAN, AsyncWrite(ok) PROVE cv' \subseteq cv
  BY <1>9 DEF AsyncWrite
<1>10. CASE AsyncRelock
  BY <1>10 DEF AsyncRelock, Relock, WakeBlocked, NotifyAll, NotifyOne
<1> QED
  BY <1>1, <1>2, <1>3, <1>4, <1>5, <1>6, <1>7, <1>8, <1>9, <1>10
  DEF Next, WriterStep, AsyncStep

(* flushed_log_index is advanced by the settling of a batch and by nothing *)
(* else.                                                                   *)
LEMMA FlushedFrame ==
    ASSUME [Next]_vars
    PROVE  AsyncRelock \/ flushed_log_index' = flushed_log_index
<1>1. ASSUME NEW w \in Writers, Pushes(w) PROVE flushed_log_index' = flushed_log_index
  BY <1>1 DEF Pushes
<1>2. ASSUME NEW ok \in BOOLEAN, AsyncWrite(ok) PROVE flushed_log_index' = flushed_log_index
  BY <1>2 DEF AsyncWrite
<1>3. CASE AsyncTake \/ Leaves \/ AsyncFlush \/ Quiet
  BY <1>3 DEF AsyncTake, Leaves, AsyncFlush, Quiet
<1> QED BY <1>1, <1>2, <1>3, Classified

(* The notification after a batch reaches every held caller, although a     *)
(* single one is notified when blocked_threads is 1: the async thread does  *)
(* not wait at that point, so that nobody else can take the notification.   *)
LEMMA RelockWakes ==
    ASSUME TypeOK, BlockedExact, AsyncRelock
    PROVE  Blocked = {} \/ cv' = {}
<1>0. IsFiniteSet(Blocked) /\ Cardinality(Blocked) \in Nat
  BY BlockedFinite
<1>1. WakeBlocked /\ apc = "relock"
  BY DEF AsyncRelock, Relock
<1>2. cv \subseteq Blocked
  BY <1>1 DEF TypeOK, CvTypes
<1>3. CASE blocked_threads = 1
  <2>1. PICK x : Blocked = {x}
    BY <1>0, <1>3, FS_Singleton DEF BlockedExact
  <2>2. NotifyOne
    BY <1>1, <1>3 DEF WakeBlocked
  <2> QED BY <1>2, <2>1, <2>2 DEF NotifyOne
<1>4. CASE blocked_threads > 1
  <2>1. NotifyAll
    BY <1>1, <1>4 DEF WakeBlocked
  <2> QED BY <2>1 DEF NotifyAll
<1>5. CASE blocked_threads = 0
  BY <1>0, <1>5, FS_EmptySet DEF BlockedExact
<1> QED BY <1>0, <1>3, <1>4, <1>5 DEF BlockedExact

(* What is in the file and in the memtable is what was accepted, counted.   *)
LEMMA Lengths ==
    ASSUME TypeOK, OrderInv, Counted
    PROVE  /\ Len(stored) \in Nat /\ Len(Unstored) \in Nat /\ Len(memtable) \in Nat
           /\ written_log_index = Len(stored) + Len(Unstored) + Len(memtable)
           /\ flushed_log_index \in Nat /\ current_flushed_logs \in Nat
           /\ flushed_log_index + current_flushed_logs <= Len(stored)
<1>1. /\ stored \in Seq(Messages) /\ Unstored \in Seq(Messages)
      /\ memtable \in Seq(Messages)
      /\ flushed_log_index \in Nat /\ current_flushed_logs \in Nat
  BY UnstoredType DEF TypeOK, QueueTypes
<1>2. /\ stored \o Unstored \in Seq(Messages)
      /\ Len(stored \o Unstored) = Len(stored) + Len(Unstored)
  BY <1>1, ConcatProperties
<1>3. Len(accepted) = Len(stored) + Len(Unstored) + Len(memtable)
  BY <1>1, <1>2, ConcatProperties DEF OrderInv
<1>4. Len(stored) \in Nat /\ Len(Unstored) \in Nat /\ Len(memtable) \in Nat
  BY <1>1, LenProperties
<1> QED BY <1>1, <1>3, <1>4 DEF Counted

(* Every step keeps held callers with flushed entries awake: a new caller  *)
(* waits for an entry that is not flushed yet, and the settling of a batch *)
(* wakes the callers it satisfies.                                         *)
LEMMA NoLostWakeupNext ==
    TypeOK /\ OrderInv /\ Counted /\ BlockedExact /\ NoLostWakeup /\ [Next]_vars
        => NoLostWakeup'
<1> SUFFICES ASSUME TypeOK, OrderInv, Counted, BlockedExact, NoLostWakeup, [Next]_vars
             PROVE  NoLostWakeup'
  OBVIOUS
<1>0. /\ \A w \in Blocked : w \in Writers /\ w # Async
      /\ need_flushed_index \in [Writers -> Nat]
  BY WritersAssumption DEF Blocked, TypeOK, WriterTypes
<1>1. CASE AsyncRelock
  <2>1. Blocked' = Blocked
    BY <1>1 DEF AsyncRelock, Relock, Blocked
  <2> QED BY <1>1, <2>1, RelockWakes DEF NoLostWakeup
<1>2. ASSUME NEW w \in Writers, WriteSync(w) PROVE NoLostWakeup'
  <2>1. flushed_log_index' = flushed_log_index
    BY <1>2, WriteSyncEffect DEF Pushes
  <2>2. CASE UNCHANGED <<Blocked, need_flushed_index, cv>>
    BY <2>1, <2>2 DEF NoLostWakeup
  <2>3. CASE /\ need_flushed_index' = [need_flushed_index EXCEPT ![w] = written_log_index + 1]
             /\ cv' = {w}
    <3>1. written_log_index + 1 > flushed_log_index /\ written_log_index \in Nat
      BY Lengths
    <3>2. need_flushed_index'[w] > flushed_log_index'
      BY <3>1, <2>1, <2>3, <1>0
    <3>3. flushed_log_index \in Nat /\ need_flushed_index'[w] \in Nat
      BY <3>1, <2>3, <1>0, Lengths
    <3> QED BY <3>2, <3>3, <2>1, <2>3 DEF NoLostWakeup
  <2> QED BY <1>2, <2>2, <2>3, WriteSyncEffect
<1>3. ASSUME NEW w \in Writers, WriterWake(w) PROVE NoLostWakeup'
  <2>1. /\ flushed_log_index' = flushed_log_index
        /\ need_flushed_index' = need_flushed_index
        /\ flushed_log_index \in Nat /\ need_flushed_index[w] \in Nat
    BY <1>3, <1>0, WriterWakeEffect, Lengths DEF Quiet
  <2>2. CASE /\ need_flushed_index[w] > flushed_log_index
             /\ Blocked' = Blocked /\ cv' = cv \union {w}
    BY <2>1, <2>2 DEF NoLostWakeup
  <2>3. CASE Blocked' = Blocked \ {w} /\ cv' = cv
    BY <2>1, <2>3 DEF NoLostWakeup
  <2> QED BY <1>3, <2>2, <2>3, WriterWakeEffect
<1>4. CASE /\ UNCHANGED <<Blocked, need_flushed_index, flushed_log_index>>
           /\ AsyncWait \/ cv' \subseteq cv
  BY <1>4, <1>0 DEF AsyncWait, WaitWhile, NoLostWakeup
<1> QED BY <1>1, <1>2, <1>3, <1>4, BlockedFrame, CvFrame, FlushedFrame

(* memtable_size is settled batches apart, without the lock in between.     *)
(* off[n] is the length of the first n entries accepted: memtable_size is   *)
(* the length of those that do not count as flushed.                        *)
SizedBy(off) ==
    /\ off \in [0 .. Len(accepted) -> Nat]
    /\ \A i \in 1 .. Len(accepted) : off[i] = off[i - 1] + MessageLen[accepted[i]]
    /\ memtable_size = off[Len(accepted)] - off[flushed_log_index]
    /\ current_written_size =
          off[flushed_log_index + current_flushed_logs] - off[flushed_log_index]

Sized == \E off : SizedBy(off)

(* A push extends the offset table by the length of its entry. *)
LEMMA SizedPush ==
    ASSUME TypeOK, OrderInv, Counted, NEW off, SizedBy(off), NEW w \in Writers, Pushes(w)
    PROVE  Sized'
<1> DEFINE n == Len(accepted)
           f == flushed_log_index
           c == current_flushed_logs
           more == [i \in 0 .. n + 1 |->
                      IF i <= n THEN off[i] ELSE off[n] + MessageLen[message[w]]]
<1>1. /\ n \in Nat /\ f \in Nat /\ c \in Nat /\ f + c <= n
  BY Lengths DEF Counted
<1>2. /\ message[w] \in Messages /\ MessageLen[message[w]] \in Nat
      /\ accepted \in Seq(Messages) /\ accepted' = Append(accepted, message[w])
      /\ memtable_size' = memtable_size + MessageLen[message[w]]
      /\ UNCHANGED <<flushed_log_index, current_flushed_logs, current_written_size>>
  BY PushTypes DEF Pushes, PushMessage, TypeOK, QueueTypes
<1>3. /\ Len(accepted') = n + 1
      /\ \A i \in 1 .. n : accepted'[i] = accepted[i]
      /\ accepted'[n + 1] = message[w]
  BY <1>2, AppendProperties
<1>4. off \in [0 .. n -> Nat] /\ \A i \in 1 .. n : off[i] = off[i - 1] + MessageLen[accepted[i]]
  BY DEF SizedBy
<1>5. /\ \A i \in 0 .. n : more[i] = off[i]
      /\ more[n + 1] = off[n] + MessageLen[message[w]]
      /\ more \in [0 .. n + 1 -> Nat]
  <2> HIDE DEF n, f, c
  <2>1. \A i \in 0 .. n : i \in 0 .. n + 1 /\ i <= n
    BY <1>1
  <2>2. n + 1 \in 0 .. n + 1 /\ ~(n + 1 <= n)
    BY <1>1
  <2>3. \A i \in 0 .. n : off[i] \in Nat
    BY <1>4
  <2>4. off[n] + MessageLen[message[w]] \in Nat
    BY <2>3, <1>1, <1>2
  <2>5. \A i \in 0 .. n + 1 : i <= n => i \in 0 .. n
    BY <1>1
  <2> QED BY <2>1, <2>2, <2>3, <2>4, <2>5
<1> HIDE DEF more, n
<1>6. ASSUME NEW i \in 1 .. n + 1 PROVE more[i] = more[i - 1] + MessageLen[accepted'[i]]
  <2>1. CASE i = n + 1
    BY <2>1, <1>1, <1>3, <1>5
  <2>2. CASE i \in 1 .. n
    <3>1. i - 1 \in 0 .. n /\ i \in 0 .. n
      BY <2>2, <1>1
    <3> QED BY <3>1, <2>2, <1>3, <1>4, <1>5
  <2> QED BY <2>1, <2>2, <1>1
<1>7. memtable_size' = more[n + 1] - more[f]
  <2>1. memtable_size = off[n] - off[f] /\ off[n] \in Nat /\ off[f] \in Nat /\ more[f] = off[f]
    BY <1>1, <1>4, <1>5, SMTT(30) DEF SizedBy, n
  <2> QED BY <2>1, <1>2, <1>5
<1>8. current_written_size' = more[f + c] - more[f]
  <2>1. more[f] = off[f] /\ more[f + c] = off[f + c]
    BY <1>1, <1>5
  <2> QED BY <2>1, <1>2 DEF SizedBy
<1>9. \E g : /\ g \in [0 .. Len(accepted') -> Nat]
             /\ \A i \in 1 .. Len(accepted') :
                   g[i] = g[i - 1] + MessageLen[accepted'[i]]
             /\ memtable_size' = g[Len(accepted')] - g[flushed_log_index']
             /\ current_written_size' =
                   g[flushed_log_index' + current_flushed_logs'] - g[flushed_log_index']
  BY <1>2, <1>3, <1>5, <1>6, <1>7, <1>8
<1> QED BY <1>9 DEF Sized, SizedBy

(* Size() adds the lengths one after the other. *)
LEMMA SizeSteps ==
    ASSUME NEW ms \in Seq(Messages)
    PROVE  \E c \in [0 .. Len(ms) -> Nat] :
              /\ c[0] = 0 /\ Size(ms) = c[Len(ms)]
              /\ \A k \in 1 .. Len(ms) : c[k] = c[k - 1] + MessageLen[ms[k]]
<1> DEFINE n == Len(ms)
           F == [p \in Nat \X Messages |-> p[1] + MessageLen[p[2]]]
           Folded(g) == g = [s \in SUBSET (DOMAIN ms) |->
                               IF s = {} THEN 0
                               ELSE LET x == Max(s) IN g[s \ {x}] + MessageLen[ms[x]]]
           it == CHOOSE g : Folded(g)
<1>1. n \in Nat /\ DOMAIN ms = 1 .. n /\ \A k \in 1 .. n : ms[k] \in Messages
  BY LenProperties, ElementOfSeq
<1>2. F \in [Nat \X Messages -> Nat]
  BY SizesAssumption
<1>3. PICK g : FoldsBy(g, F, 0, ms, n, Nat)
  <2> HIDE DEF F
  <2> QED BY <1>2, FoldExists
<1>4. Folded(g)
  <2>1. ASSUME NEW s \in SUBSET (1 .. n)
        PROVE  g[s] = IF s = {} THEN 0 ELSE g[s \ {Max(s)}] + MessageLen[ms[Max(s)]]
    <3>1. s # {} => Max(s) \in s
      BY <1>1, MaxInside
    <3>2. s # {} => /\ <<g[s \ {Max(s)}], ms[Max(s)]>> \in Nat \X Messages
                    /\ g[s] = F[<<g[s \ {Max(s)}], ms[Max(s)]>>]
      BY <3>1, <1>1, <1>3 DEF FoldsBy
    <3> QED BY <3>2, <1>3 DEF FoldsBy
  <2>2. g = [s \in SUBSET (DOMAIN ms) |-> g[s]]
    BY <1>1, <1>3 DEF FoldsBy
  <2> QED BY <2>1, <2>2, <1>1
<1>5. Folded(it)
  <2> HIDE DEF Folded
  <2> QED BY <1>4, Zenon
<1>6. Size(ms) = it[DOMAIN ms]
  BY Zenon DEF Size, FoldLeft, MapThenFoldSet
<1>7. \A s \in SUBSET (1 .. n) :
         it[s] = IF s = {} THEN 0 ELSE it[s \ {Max(s)}] + MessageLen[ms[Max(s)]]
  <2> HIDE DEF it
  <2> QED BY <1>5, <1>1
<1> HIDE DEF it, F, Folded
<1>8. it[1 .. 0] = 0
  <2>1. 1 .. 0 = {} /\ {} \in SUBSET (1 .. n)
    OBVIOUS
  <2> HIDE DEF n
  <2> QED BY <2>1, <1>7
<1>9. ASSUME NEW k \in 1 .. n
      PROVE  it[1 .. k] = it[1 .. k - 1] + MessageLen[ms[k]]
  <2>1. k - 1 \in Nat /\ (k - 1) + 1 = k /\ k \in 1 .. k /\ 1 .. k \in SUBSET (1 .. n)
        /\ (1 .. k) \ {k} = 1 .. k - 1
    BY <1>1
  <2>2. Max(1 .. k) = k
    BY <2>1, MaxIsBound
  <2> QED BY <2>1, <2>2, <1>7
<1> DEFINE c == [k \in 0 .. n |-> it[1 .. k]]
           G == {k \in 0 .. n : c[k] \in Nat}
<1>10. \A k \in 1 .. n : c[k] = c[k - 1] + MessageLen[ms[k]] /\ MessageLen[ms[k]] \in Nat
  BY <1>1, <1>9, SizesAssumption
<1>11. \A k \in 0 .. n : k \in G
  <2>1. 0 \in G
    BY <1>1, <1>8
  <2>2. \A k \in 0 .. n : k \in G /\ k < n => k + 1 \in G
    <3> SUFFICES ASSUME NEW k \in 0 .. n, k \in G, k < n PROVE c[k + 1] \in Nat
      BY <1>1
    <3>1. k + 1 \in 1 .. n /\ (k + 1) - 1 = k
      BY <1>1
    <3> HIDE DEF c
    <3> QED BY <3>1, <1>10
  <2> HIDE DEF G
  <2> QED BY <2>1, <2>2, <1>1, BoundedInduction
<1>12. c \in [0 .. n -> Nat] /\ c[0] = 0 /\ Size(ms) = c[n]
  BY <1>1, <1>6, <1>8, <1>11
<1> HIDE DEF c
<1> QED BY <1>10, <1>12

(* memtable_size is the length of what is accepted and not flushed. *)
LEMMA SizedImplies == TypeOK /\ OrderInv /\ Counted /\ Sized => SizeExact
<1> SUFFICES ASSUME TypeOK, OrderInv, Counted, NEW off, SizedBy(off) PROVE SizeExact
  BY DEF Sized
<1> DEFINE n == Len(accepted)
           f == flushed_log_index
           rest == SubSeq(accepted, f + 1, n)
<1>1. n \in Nat /\ f \in Nat /\ f <= n /\ accepted \in Seq(Messages)
  BY Lengths DEF Counted, TypeOK, QueueTypes
<1>2. /\ rest \in Seq(Messages) /\ Len(rest) = n - f
      /\ \A k \in 1 .. n - f : rest[k] = accepted[f + k]
  BY <1>1, SubSeqProperties
<1>3. /\ off \in [0 .. n -> Nat]
      /\ \A i \in 1 .. n : off[i] = off[i - 1] + MessageLen[accepted[i]]
      /\ memtable_size = off[n] - off[f]
  BY DEF SizedBy
<1>4. SizeExact <=> memtable_size = Size(rest)
  BY DEF SizeExact
<1> HIDE DEF n, f, rest
<1>5. PICK c \in [0 .. n - f -> Nat] :
         /\ c[0] = 0 /\ Size(rest) = c[n - f]
         /\ \A k \in 1 .. n - f : c[k] = c[k - 1] + MessageLen[rest[k]]
  <2>1. \E c \in [0 .. Len(rest) -> Nat] :
           /\ c[0] = 0 /\ Size(rest) = c[Len(rest)]
           /\ \A k \in 1 .. Len(rest) : c[k] = c[k - 1] + MessageLen[rest[k]]
    BY ONLY <1>2, SizeSteps
  <2> QED BY ONLY <2>1, <1>2
<1> DEFINE G == {k \in 0 .. n - f : c[k] = off[f + k] - off[f]}
<1>6. 0 \in G
  BY <1>1, <1>3, <1>5
<1>7. \A k \in 0 .. n - f : k \in G /\ k < n - f => k + 1 \in G
  <2> SUFFICES ASSUME NEW k \in 0 .. n - f, k < n - f, c[k] = off[f + k] - off[f]
               PROVE  c[k + 1] = off[f + (k + 1)] - off[f]
    BY <1>1
  <2>1. /\ k + 1 \in 1 .. n - f /\ (k + 1) - 1 = k /\ f + (k + 1) \in 1 .. n
        /\ (f + (k + 1)) - 1 = f + k
    BY <1>1
  <2>2. c[k + 1] = c[k] + MessageLen[accepted[f + (k + 1)]]
    BY <2>1, <1>2, <1>5
  <2>3. off[f + (k + 1)] = off[f + k] + MessageLen[accepted[f + (k + 1)]]
    BY <2>1, <1>3
  <2>4. MessageLen[accepted[f + (k + 1)]] \in Nat
    BY <2>1, <1>1, SizesAssumption, ElementOfSeq DEF n
  <2>5. f + k \in 0 .. n /\ f \in 0 .. n
    BY <1>1, <2>1
  <2>6. off[f + k] \in Nat /\ off[f] \in Nat
    BY <2>5, <1>3
  <2> QED BY <2>2, <2>3, <2>4, <2>6
<1>8. n - f \in G
  <2>1. n - f \in Nat /\ n - f \in 0 .. n - f
    BY <1>1
  <2> HIDE DEF G
  <2> QED BY <2>1, <1>6, <1>7, BoundedInduction
<1>9. c[n - f] = off[n] - off[f]
  BY <1>1, <1>8
<1> QED BY <1>3, <1>4, <1>5, <1>9

(* An entry that leaves the batch moves current_written_size by its length. *)
LEMMA SizedLeave ==
    ASSUME TypeOK, OrderInv, Counted, NEW off, SizedBy(off), Leaves
    PROVE  SizedBy(off)'
<1> DEFINE n == Len(accepted)
           f == flushed_log_index
           c == current_flushed_logs
<1>1. /\ n \in Nat /\ f \in Nat /\ c \in Nat
      /\ f + c + 1 = Len(stored) /\ Len(stored) <= n
      /\ stored[Len(stored)] = Head(table)
  BY Lengths DEF Counted, Leaves
<1>2. accepted[Len(stored)] = stored[Len(stored)]
  <2>1. /\ stored \in Seq(Messages) /\ Unstored \in Seq(Messages)
        /\ memtable \in Seq(Messages) /\ accepted = (stored \o Unstored) \o memtable
    BY UnstoredType DEF TypeOK, QueueTypes, OrderInv
  <2>2. Len(stored) \in 1 .. Len(stored) + Len(Unstored)
        /\ Len(Unstored) \in Nat /\ Len(memtable) \in Nat
    BY <1>1, Lengths
  <2>3. /\ stored \o Unstored \in Seq(Messages)
        /\ Len(stored \o Unstored) = Len(stored) + Len(Unstored)
        /\ (stored \o Unstored)[Len(stored)] = stored[Len(stored)]
    BY <2>1, <2>2, ConcatProperties
  <2>4. ((stored \o Unstored) \o memtable)[Len(stored)] = (stored \o Unstored)[Len(stored)]
    BY <2>1, <2>2, <2>3, ConcatProperties
  <2> QED BY <2>1, <2>3, <2>4
<1>3. /\ off \in [0 .. n -> Nat]
      /\ \A i \in 1 .. n : off[i] = off[i - 1] + MessageLen[accepted[i]]
      /\ memtable_size = off[n] - off[f]
      /\ current_written_size = off[f + c] - off[f]
  BY DEF SizedBy
<1>4. /\ current_flushed_logs' = c + 1
      /\ current_written_size' = current_written_size + MessageLen[Head(table)]
      /\ UNCHANGED <<accepted, flushed_log_index, memtable_size>>
  BY DEF Leaves, NextEntry, LeaveEntry, queue
<1>5. off[f + (c + 1)] = off[f + c] + MessageLen[Head(table)]
  <2>1. f + (c + 1) \in 1 .. n /\ (f + (c + 1)) - 1 = f + c /\ f + (c + 1) = Len(stored)
    BY <1>1
  <2> QED BY <2>1, <1>1, <1>2, <1>3
<1>6. off[f + c] \in Nat /\ off[f] \in Nat /\ MessageLen[Head(table)] \in Nat
  <2>1. f + c \in 0 .. n /\ f \in 0 .. n
    BY <1>1
  <2> QED BY <2>1, <1>3, HeadIsMessage DEF Leaves
<1>7. current_written_size' = off[f + (c + 1)] - off[f]
  BY <1>3, <1>4, <1>5, <1>6, SMTT(30)
<1> QED BY <1>3, <1>4, <1>7 DEF SizedBy

(* Every step keeps memtable_size the total length of what is not settled. *)
LEMMA SizedNext == TypeOK /\ OrderInv /\ Counted /\ Sized /\ [Next]_vars => Sized'
<1> SUFFICES ASSUME TypeOK, OrderInv, Counted, [Next]_vars, NEW off, SizedBy(off)
             PROVE  Sized'
  BY DEF Sized
<1> DEFINE n == Len(accepted)
           f == flushed_log_index
           c == current_flushed_logs
<1>0. /\ off \in [0 .. n -> Nat]
      /\ memtable_size = off[n] - off[f]
      /\ current_written_size = off[f + c] - off[f]
      /\ n \in Nat /\ f \in Nat /\ c \in Nat /\ f + c <= n
  BY Lengths DEF SizedBy, Counted
<1>a. off[f] \in Nat /\ off[n] \in Nat /\ off[f + c] \in Nat
  BY <1>0
<1>1. ASSUME NEW w \in Writers, Pushes(w) PROVE Sized'
  BY <1>1, SizedPush
<1>2. CASE AsyncTake
  <2>1. /\ UNCHANGED <<accepted, memtable_size, flushed_log_index>>
        /\ current_flushed_logs' = 0 /\ current_written_size' = 0
    BY <1>2 DEF AsyncTake
  <2>2. off[f + 0] - off[f] = 0
    BY <1>0, <1>a
  <2> QED BY <2>1, <2>2 DEF Sized, SizedBy
<1>3. CASE Leaves
  BY <1>3, SizedLeave DEF Sized
<1>4. ASSUME NEW ok \in BOOLEAN, AsyncWrite(ok) PROVE Sized'
  BY <1>4 DEF AsyncWrite, Sized, SizedBy, queue, batch
<1>5. CASE AsyncFlush \/ Quiet
  BY <1>5 DEF AsyncFlush, Quiet, Sized, SizedBy, queue
<1>6. CASE AsyncRelock
  <2>1. /\ accepted' = accepted
        /\ memtable_size' = memtable_size - current_written_size
        /\ flushed_log_index' = f + c
        /\ current_flushed_logs' = 0 /\ current_written_size' = 0
    BY <1>6 DEF AsyncRelock, Relock, SizeLeft
  <2>2. memtable_size' = off[n] - off[f + c] /\ off[(f + c) + 0] - off[f + c] = 0
    BY <2>1, <1>0, <1>a, SMTT(30)
  <2> QED BY <2>1, <2>2 DEF Sized, SizedBy
<1> QED BY <1>1, <1>2, <1>3, <1>4, <1>5, <1>6, Classified

(* memtable_size is changed by a push and by the settling of a batch, and *)
(* by nothing else.                                                       *)
LEMMA SizeFrame ==
    ASSUME [Next]_vars
    PROVE  \/ \E w \in Writers : WriteSync(w) \/ WriteNormal(w)
           \/ AsyncRelock
           \/ memtable_size' = memtable_size
<1>1. ASSUME NEW w \in Writers, Pushes(w) PROVE WriteSync(w) \/ WriteNormal(w)
  BY <1>1 DEF Pushes
<1>2. ASSUME NEW ok \in BOOLEAN, AsyncWrite(ok) PROVE memtable_size' = memtable_size
  BY <1>2 DEF AsyncWrite, queue
<1>3. CASE AsyncTake \/ Leaves \/ AsyncFlush \/ Quiet
  BY <1>3 DEF AsyncTake, Leaves, AsyncFlush, Quiet, queue
<1> QED BY <1>1, <1>2, <1>3, Classified

(* When the async thread finds the memtable empty, nothing is owed and      *)
(* memtable_size is 0.                                                      *)
LEMMA NothingLeft ==
    ASSUME TypeOK, NoBatch, OrderInv, Counted, OwedInv, Sized,
           apc = "head", memtable = <<>>
    PROVE  /\ memtable_size = 0
           /\ \A w \in Blocked : ~(need_flushed_index[w] > flushed_log_index)
<1>1. Unstored = <<>> /\ current_flushed_logs = 0
  BY DEF NoBatch, Between, Unstored
<1>2. flushed_log_index = written_log_index /\ written_log_index = Len(accepted)
      /\ flushed_log_index \in Nat
  <2>1. Len(Unstored) = 0 /\ Len(memtable) = 0
    BY <1>1
  <2> QED BY <1>1, <2>1, Lengths DEF Counted
<1>3. memtable_size = 0
  <2>1. PICK off : SizedBy(off)
    BY DEF Sized
  <2>2. off[Len(accepted)] \in Nat
    BY <2>1, <1>2 DEF SizedBy
  <2> QED BY <2>1, <2>2, <1>2 DEF SizedBy
<1> QED BY <1>2, <1>3 DEF OwedInv

(* Every step keeps the async thread awake while there is something it must *)
(* do: a push that holds a caller or passes the limit notifies it, and it   *)
(* waits only after it has found nothing to do.                             *)
LEMMA AsyncAwakeNext ==
    /\ TypeOK /\ NoBatch /\ OrderInv /\ Counted /\ OwedInv /\ Sized /\ ShutDown
    /\ BackoffInv /\ BlockedExact /\ AsyncAwakeWhenNeeded
    /\ [Next]_vars
    => AsyncAwakeWhenNeeded'
<1> SUFFICES ASSUME TypeOK, NoBatch, OrderInv, Counted, OwedInv, Sized, ShutDown,
                    BackoffInv, BlockedExact, AsyncAwakeWhenNeeded, [Next]_vars
             PROVE  AsyncAwakeWhenNeeded'
  OBVIOUS
<1> DEFINE Owes == \E w \in Blocked : need_flushed_index[w] > flushed_log_index
           Over == memtable_size > NotifySize
<1>0. /\ NotifySize \in Nat /\ disk_full_try_times \in Nat /\ memtable_size \in Int
      /\ Owes \/ Over => Async \notin cv
      /\ \A w \in Writers : w # Async
  BY SizesAssumption, WritersAssumption DEF TypeOK, SharedTypes, QueueTypes, AsyncAwakeWhenNeeded
<1>a. ASSUME NEW w \in Writers, wpc[w] # "idle", MuFree PROVE disk_full_try_times = 0
  BY <1>a, <1>0 DEF ShutDown, BackoffInv, MuFree
<1>1. CASE AsyncWait
  <2>1. UNCHANGED <<Blocked, need_flushed_index, flushed_log_index, memtable_size>>
    BY <1>1 DEF AsyncWait, WaitWhile, Blocked, locals, queue
  <2>2. memtable_size = 0 /\ ~Owes
    BY <1>1, NothingLeft DEF AsyncWait, WaitWhile
  <2>3. ~Over
    BY <2>2, <1>0
  <2>4. ~Owes' /\ ~Over'
    BY <2>1, <2>2, <2>3
  <2> QED BY <2>4 DEF AsyncAwakeWhenNeeded
<1>2. CASE AsyncRelock
  <2>1. Async \notin cv
    BY <1>2 DEF AsyncRelock, Relock, TypeOK, CvTypes
  <2>2. cv' \subseteq cv
    BY <1>2 DEF AsyncRelock, Relock, WakeBlocked, NotifyAll, NotifyOne
  <2> QED BY <2>1, <2>2 DEF AsyncAwakeWhenNeeded
<1>3. ASSUME NEW w \in Writers, WriteSync(w) PROVE AsyncAwakeWhenNeeded'
  <2>1. disk_full_try_times = 0
    BY <1>3, <1>a, WriteSyncEffect
  <2>2. cv' = {w}
    BY <2>1, <1>3, WriteSyncEffect
  <2> QED BY <2>2, <1>0 DEF AsyncAwakeWhenNeeded
<1>4. ASSUME NEW w \in Writers, WriteNormal(w) PROVE AsyncAwakeWhenNeeded'
  <2>1. disk_full_try_times = 0
    BY <1>4, <1>a DEF WriteNormal
  <2>2. UNCHANGED <<Blocked, need_flushed_index, flushed_log_index>>
    <3>1. /\ wpc \in [Writers -> {"idle", "alloc", "full", "retry", "giveup", "write", "blocked"}]
          /\ wpc[w] = "write" /\ wpc' = [wpc EXCEPT ![w] = "idle"]
          /\ UNCHANGED <<need_flushed_index, flushed_log_index>>
      BY <1>4 DEF WriteNormal, locals, TypeOK, WriterTypes, Goto
    <3> QED BY <3>1 DEF Blocked
  <2>3. CASE memtable_size' <= NotifySize
    <3>1. cv' = cv
      BY <1>4, <2>3 DEF WriteNormal
    <3>2. memtable_size' \in Int
      BY <1>4, PushTypes DEF WriteNormal
    <3>3. ~Over'
      BY <3>2, <2>3, <1>0
    <3> QED BY <3>1, <3>3, <2>2, <1>0 DEF AsyncAwakeWhenNeeded
  <2>4. CASE ~(memtable_size' <= NotifySize) /\ blocked_threads > 0
    <3>1. NotifyAll
      BY <1>4, <2>1, <2>4 DEF WriteNormal
    <3> QED BY <3>1 DEF NotifyAll, AsyncAwakeWhenNeeded
  <2>5. CASE ~(memtable_size' <= NotifySize) /\ ~(blocked_threads > 0)
    <3>1. NotifyOne
      BY <1>4, <2>1, <2>5 DEF WriteNormal
    <3>2. Blocked = {}
      BY <2>5, BlockedFinite, FS_EmptySet DEF BlockedExact
    <3>3. cv \subseteq {Async}
      BY <3>2 DEF TypeOK, CvTypes
    <3> QED BY <3>1, <3>3 DEF NotifyOne, AsyncAwakeWhenNeeded
  <2> QED BY <2>3, <2>4, <2>5
<1>5. ASSUME NEW w \in Writers, WriterWake(w) PROVE AsyncAwakeWhenNeeded'
  <2>1. /\ UNCHANGED <<need_flushed_index, flushed_log_index, memtable_size>>
        /\ Blocked' \subseteq Blocked /\ cv' \subseteq cv \union {w}
    BY <1>5, WriterWakeEffect DEF Quiet, queue
  <2> QED BY <2>1, <1>0 DEF AsyncAwakeWhenNeeded
<1>6. CASE /\ UNCHANGED <<Blocked, need_flushed_index, flushed_log_index, memtable_size>>
           /\ cv' \subseteq cv
  BY <1>6, <1>0 DEF AsyncAwakeWhenNeeded
<1> QED
  BY <1>1, <1>2, <1>3, <1>4, <1>5, <1>6, BlockedFrame, CvFrame, FlushedFrame, SizeFrame
-----------------------------------------------------------------------------
(* A call's message is its own: it is accepted once. *)

Unrepeated(s) == \A i, j \in 1 .. Len(s) : s[i] = s[j] => i = j

Carriers == {w \in Writers : wpc[w] \notin {"idle", "blocked"}}

Numbered ==
    /\ Unrepeated(accepted)
    /\ \A i \in 1 .. Len(accepted) : accepted[i] <= calls
    /\ \A w \in Carriers :
          /\ message[w] <= calls
          /\ \A i \in 1 .. Len(accepted) : accepted[i] # message[w]
    /\ \A v, w \in Carriers : message[v] = message[w] => v = w

(* A call takes up a message when it begins and lets go of it when it *)
(* pushes it or gives up.                                              *)
LEMMA CarriersFrame ==
    ASSUME TypeOK, [Next]_vars
    PROVE  \/ \E w \in Writers :
                 /\ calls' = calls + 1 /\ accepted' = accepted
                 /\ message' = [message EXCEPT ![w] = calls + 1]
                 /\ Carriers' = Carriers \union {w}
           \/ \E w \in Carriers :
                 /\ wpc[w] = "write" /\ PushMessage(w)
                 /\ UNCHANGED <<message, calls>>
                 /\ Carriers' = Carriers \ {w}
           \/ UNCHANGED <<message, calls, accepted>> /\ Carriers' \subseteq Carriers
<1> USE DEF Carriers, queue, locals, Goto
<1>0. wpc \in [Writers -> {"idle", "alloc", "full", "retry", "giveup", "write", "blocked"}]
  BY DEF TypeOK, WriterTypes
<1> DEFINE Kept == UNCHANGED <<message, calls, accepted>> /\ Carriers' \subseteq Carriers
<1>1. CASE UNCHANGED vars \/ Joined \/ Deinit
  BY <1>1 DEF vars, Joined, Deinit
<1>2. ASSUME NEW l \in Levels, SetLogLevel(l) \/ SetSyncLoglevel(l) PROVE Kept
  BY <1>2 DEF SetLogLevel, SetSyncLoglevel
<1>3. ASSUME NEW w \in Writers, NEW l \in Levels, BeginLog(w, l)
      PROVE  /\ calls' = calls + 1 /\ accepted' = accepted
             /\ message' = [message EXCEPT ![w] = calls + 1]
             /\ Carriers' = Carriers \union {w}
  BY <1>0, <1>3 DEF BeginLog
<1>4. ASSUME NEW w \in Writers, Allocate(w) \/ PoolEmpty(w) \/ GiveUp(w) PROVE Kept
  BY <1>0, <1>4 DEF Allocate, PoolEmpty, GiveUp
<1>5. ASSUME NEW w \in Writers, WriteSync(w) \/ WriteNormal(w)
      PROVE  /\ wpc[w] = "write" /\ PushMessage(w) /\ w \in Carriers
             /\ UNCHANGED <<message, calls>>
             /\ Carriers' = Carriers \ {w}
  <2>1. /\ wpc[w] = "write" /\ PushMessage(w) /\ UNCHANGED <<message, calls>>
        /\ wpc' = [wpc EXCEPT ![w] = "idle"] \/ wpc' = [wpc EXCEPT ![w] = "blocked"]
    BY <1>5 DEF WriteSync, PushAndWait, WriteNormal
  <2> QED BY <2>1, <1>0
<1>6. ASSUME NEW w \in Writers, WriterWake(w) PROVE Kept
  BY <1>0, <1>6 DEF WriterWake, WakeAndCheck
<1>7. ASSUME NEW w \in Writers, RacingDeallocate(w) PROVE Kept
  BY <1>0, <1>7 DEF RacingDeallocate
<1>8. ASSUME NEW t \in cv, StopWaiting(t) PROVE Kept
  BY <1>8 DEF StopWaiting, EndWait
<1>9. CASE AsyncStep
  BY <1>9, AsyncFrame
<1> HIDE DEF Carriers
<1> QED BY <1>1, <1>2, <1>3, <1>4, <1>5, <1>6, <1>7, <1>8, <1>9 DEF Next, WriterStep

LEMMA NumberedNext == TypeOK /\ Numbered /\ [Next]_vars => Numbered'
<1> SUFFICES ASSUME TypeOK, Numbered, [Next]_vars PROVE Numbered'
  OBVIOUS
<1>0. /\ accepted \in Seq(Messages) /\ calls \in Nat /\ message \in [Writers -> 0 .. MaxCalls]
      /\ Carriers \subseteq Writers
      /\ \A w \in Writers : message[w] \in Nat
      /\ \A i \in 1 .. Len(accepted) : accepted[i] \in Nat
      /\ Len(accepted) \in Nat
  <2>1. accepted \in Seq(Messages) /\ calls \in Nat /\ message \in [Writers -> 0 .. MaxCalls]
    BY SizesAssumption DEF TypeOK, QueueTypes, WriterTypes
  <2>2. \A i \in 1 .. Len(accepted) : accepted[i] \in Nat
    BY <2>1, ElementOfSeq, SizesAssumption DEF Messages
  <2> QED BY <2>1, <2>2, SizesAssumption, LenProperties DEF Carriers
<1>1. ASSUME NEW w \in Writers, calls' = calls + 1, accepted' = accepted,
             message' = [message EXCEPT ![w] = calls + 1],
             Carriers' = Carriers \union {w}
      PROVE  Numbered'
  <2>1. /\ message'[w] = calls + 1
        /\ \A v \in Carriers : v # w => message'[v] = message[v]
    BY <1>0, <1>1
  <2>2. \A i \in 1 .. Len(accepted) : accepted[i] <= calls + 1 /\ accepted[i] # calls + 1
    BY <1>0 DEF Numbered
  <2>3. \A v \in Carriers : v # w => message[v] <= calls + 1 /\ message[v] # calls + 1
    BY <1>0 DEF Numbered
  <2>4. (Unrepeated(accepted))'
    BY <1>1 DEF Numbered, Unrepeated
  <2>5. \A v \in Carriers' : /\ message'[v] <= calls'
                             /\ \A i \in 1 .. Len(accepted') : accepted'[i] # message'[v]
    <3> SUFFICES ASSUME NEW v \in Carriers'
                 PROVE  /\ message'[v] <= calls'
                        /\ \A i \in 1 .. Len(accepted) : accepted[i] # message'[v]
      BY <1>1
    <3>1. CASE v = w
      BY <3>1, <2>1, <2>2, <1>0, <1>1
    <3>2. CASE v # w
      BY <3>2, <2>1, <2>3, <1>1 DEF Numbered
    <3> QED BY <3>1, <3>2
  <2>6. ASSUME NEW u \in Carriers', NEW v \in Carriers', message'[u] = message'[v]
        PROVE  u = v
    BY <2>1, <2>3, <2>6, <1>1 DEF Numbered
  <2> QED BY <2>2, <2>4, <2>5, <2>6, <1>1 DEF Numbered
<1>2. ASSUME NEW w \in Carriers, wpc[w] = "write", PushMessage(w),
             UNCHANGED <<message, calls>>, Carriers' = Carriers \ {w}
      PROVE  Numbered'
  <2>1. /\ accepted' = Append(accepted, message[w]) /\ message[w] \in Messages
    BY <1>0, <1>2, PushTypes DEF PushMessage
  <2>2. /\ Len(accepted') = Len(accepted) + 1
        /\ \A i \in 1 .. Len(accepted) : accepted'[i] = accepted[i]
        /\ accepted'[Len(accepted) + 1] = message[w]
        /\ \A i \in 1 .. Len(accepted) + 1 : i \in 1 .. Len(accepted) \/ i = Len(accepted) + 1
    BY <2>1, <1>0, AppendProperties
  <2>3. (Unrepeated(accepted))'
    <3>1. ASSUME NEW i \in 1 .. Len(accepted) + 1, NEW j \in 1 .. Len(accepted) + 1,
                 accepted'[i] = accepted'[j]
          PROVE  i = j
      BY <3>1, <2>2 DEF Numbered, Unrepeated
    <3> QED BY <3>1, <2>2 DEF Unrepeated
  <2>4. \A i \in 1 .. Len(accepted') : accepted'[i] <= calls'
    BY <2>2, <1>2 DEF Numbered
  <2>5. \A v \in Carriers' : /\ message'[v] <= calls'
                             /\ \A i \in 1 .. Len(accepted') : accepted'[i] # message'[v]
    <3> SUFFICES ASSUME NEW v \in Carriers, v # w
                 PROVE  /\ message[v] <= calls
                        /\ \A i \in 1 .. Len(accepted') : accepted'[i] # message[v]
      BY <1>2
    <3> QED BY <2>2 DEF Numbered
  <2>6. \A u, v \in Carriers' : message'[u] = message'[v] => u = v
    BY <1>2 DEF Numbered
  <2> QED BY <2>3, <2>4, <2>5, <2>6 DEF Numbered
<1>3. CASE UNCHANGED <<message, calls, accepted>> /\ Carriers' \subseteq Carriers
  BY <1>3 DEF Numbered, Unrepeated
<1> QED BY <1>1, <1>2, <1>3, CarriersFrame
-----------------------------------------------------------------------------
(* The inductive invariant. *)

IInv ==
    /\ TypeOK /\ NoBatch /\ OrderInv /\ Counted /\ FlushInv /\ ShutDown
    /\ OwedInv /\ BackoffInv /\ BlockedExact /\ NoLostWakeup
    /\ Sized /\ AsyncAwakeWhenNeeded /\ Numbered

(* The constructor establishes the invariant. *)
LEMMA InitIInv == Init => IInv
<1> SUFFICES ASSUME Init PROVE IInv
  OBVIOUS
<1>1. TypeOK
  BY TypeInit
<1>2. /\ memtable = <<>> /\ table = <<>> /\ stored = <<>> /\ accepted = <<>>
      /\ memtable_size = 0 /\ current_written_size = 0 /\ flushed = 0
      /\ written_log_index = 0 /\ flushed_log_index = 0 /\ current_flushed_logs = 0
      /\ blocked_threads = 0 /\ disk_full_try_times = 0 /\ cv = {}
      /\ running /\ apc = "start"
      /\ wpc = [w \in Writers |-> "idle"]
  BY DEF Init
<1>3. Blocked = {} /\ Unstored = <<>>
  BY <1>2 DEF Blocked, Unstored
<1>4. NoBatch /\ FlushInv /\ ShutDown /\ OwedInv /\ BackoffInv /\ NoLostWakeup
      /\ AsyncAwakeWhenNeeded
  BY <1>2, <1>3 DEF NoBatch, FlushInv, ShutDown, OwedInv, BackoffInv, NoLostWakeup,
                    AsyncAwakeWhenNeeded
<1>5. OrderInv /\ Counted
  <2>1. (<<>> \o <<>>) \o <<>> = <<>>
    BY EmptySeq, ConcatEmptySeq
  <2> QED BY <2>1, <1>2, <1>3 DEF OrderInv, Counted
<1>6. BlockedExact
  BY <1>2, <1>3, FS_EmptySet DEF BlockedExact
<1>7. Sized
  <2>1. SizedBy([i \in 0 .. 0 |-> 0])
    BY <1>2 DEF SizedBy
  <2> QED BY <2>1 DEF Sized
<1>8. Numbered
  BY <1>2, EmptySeq DEF Numbered, Unrepeated, Carriers
<1> QED BY <1>1, <1>4, <1>5, <1>6, <1>7, <1>8 DEF IInv

(* Every step keeps the invariant. *)
LEMMA NextIInv == IInv /\ [Next]_vars => IInv'
  BY SharedNext, QueueNext, WriterNext, CvNext, NoBatchNext, OrderNext, CountedNext,
     FlushNext, ShutDownNext, OwedNext, BackoffNext, BlockedExactNext,
     NoLostWakeupNext, SizedNext, AsyncAwakeNext, NumberedNext
  DEF IInv, TypeOK

(* The invariant holds in every reachable state. *)
LEMMA Invariance == Spec => []IInv
  BY InitIInv, NextIInv, PTL DEF Spec
-----------------------------------------------------------------------------
(* The logger implements LogService. *)

(* What callers are owed depends on who is held and for which index. *)
LEMMA OwedFrame ==
    ASSUME UNCHANGED <<Blocked, need_flushed_index>>
    PROVE  Owed' = Owed
<1>1. ASSUME NEW w \in Writers PROVE wpc'[w] = "blocked" <=> wpc[w] = "blocked"
  BY DEF Blocked
<1> QED BY <1>1 DEF Owed

(* Only a push and a successful write change the pending entries: the swap, *)
(* the splice and the giving back of buffers move them between memtable and *)
(* batch.                                                                   *)
LEMMA PendingFrame ==
    ASSUME TypeOK, NoBatch, [Next]_vars
    PROVE  \/ \E w \in Writers : Pushes(w)
           \/ \E ok \in BOOLEAN : AsyncWrite(ok)
           \/ Pending' = Pending /\ stored' = stored /\ (AsyncFlush \/ flushed' = flushed)
<1> USE DEF Pending
<1>0. memtable \in Seq(Messages) /\ table \in Seq(Messages)
  BY DEF TypeOK, QueueTypes
<1>1. CASE AsyncTake
  <2>1. Unstored = <<>> /\ memtable' = <<>> /\ Unstored' = memtable /\ UNCHANGED disk
    BY <1>1 DEF AsyncTake, Unstored, NoBatch, Between, AGoto
  <2> QED BY <1>0, <2>1, ConcatEmptySeq DEF disk
<1>2. CASE Leaves
  BY <1>2 DEF Leaves, NextEntry, LeaveEntry, Unstored, queue, AGoto
<1>3. CASE AsyncFlush
  BY <1>3 DEF AsyncFlush, Unstored, queue, AGoto
<1>4. CASE AsyncRelock
  <2>1. /\ Unstored = table /\ memtable' = table \o memtable /\ Unstored' = <<>>
        /\ UNCHANGED disk
    BY <1>4 DEF AsyncRelock, Relock, Unstored, AGoto
  <2>2. table \o memtable \in Seq(Messages)
    BY <1>0, ConcatProperties
  <2> QED BY <2>1, <2>2, ConcatEmptySeq DEF disk
<1>5. CASE Quiet
  BY <1>5 DEF Quiet, Unstored, Between, queue
<1> QED BY <1>1, <1>2, <1>3, <1>4, <1>5, Classified

(* push_back() under mu is the step Accept of the service. *)
LEMMA AcceptStep ==
    ASSUME IInv, NEW w \in Writers, Pushes(w),
           Owed' = [Owed EXCEPT ![w] = 0]
              \/ Owed' = [Owed EXCEPT ![w] = written_log_index + 1]
    PROVE  \E hold \in BOOLEAN : Service!Accept(w, message[w], hold)
<1>1. apc # "exit" /\ apc' = apc
  BY DEF Pushes, IInv, ShutDown
<1>2. Owed[w] = 0
  BY DEF Pushes, Owed
<1>3. Pending' = Append(Pending, message[w]) /\ UNCHANGED <<stored, flushed>>
  <2>1. Unstored \in Seq(Messages) /\ memtable \in Seq(Messages) /\ message[w] \in Messages
    BY UnstoredType, PushTypes DEF IInv, TypeOK, QueueTypes, Pushes
  <2>2. Unstored' = Unstored /\ memtable' = Append(memtable, message[w])
    BY DEF Pushes, PushMessage, Unstored
  <2> QED BY <2>1, <2>2, AppendToSecond DEF Pending, Pushes
<1>4. written_log_index + 1 = Len(stored) + Len(Pending) + 1
  <2>1. Unstored \in Seq(Messages) /\ memtable \in Seq(Messages)
    BY UnstoredType DEF IInv, TypeOK, QueueTypes
  <2>2. Len(Pending) = Len(Unstored) + Len(memtable)
    BY <2>1, ConcatProperties DEF Pending
  <2> QED BY <2>2, Lengths DEF IInv
<1>5. CASE Owed' = [Owed EXCEPT ![w] = 0]
  <2>1. Service!Accept(w, message[w], FALSE)
    BY <1>1, <1>2, <1>3, <1>5 DEF Service!Accept
  <2> QED BY <2>1
<1>6. CASE Owed' = [Owed EXCEPT ![w] = written_log_index + 1]
  <2>1. Service!Accept(w, message[w], TRUE)
    BY <1>1, <1>2, <1>3, <1>4, <1>6 DEF Service!Accept
  <2> QED BY <2>1
<1> QED BY <1>5, <1>6

(* A successful write is the step Store. *)
LEMMA StoreStep ==
    ASSUME IInv, AsyncWrite(TRUE)
    PROVE  Service!Store
<1>1. /\ Unstored = table /\ table # <<>> /\ Unstored' = Tail(table)
      /\ stored' = Append(stored, Head(table))
      /\ memtable' = memtable /\ apc # "exit" /\ apc' # "exit"
      /\ flushed' = flushed
  BY HeadIsMessage DEF IInv, AsyncWrite, Unstored, queue, batch, AGoto
<1>2. table \in Seq(Messages) /\ memtable \in Seq(Messages)
  BY DEF IInv, TypeOK, QueueTypes
<1>3. /\ Pending # <<>> /\ Head(Pending) = Head(table)
      /\ Pending' = Tail(Pending)
  BY <1>1, <1>2, HeadTailConcat DEF Pending
<1>4. Owed' = Owed
  BY DEF AsyncWrite, Owed, locals
<1> QED BY <1>1, <1>3, <1>4 DEF Service!Store

(* A held caller that leaves is the step LetGo; one that waits again is no *)
(* step.                                                                   *)
LEMMA LetGoStep ==
    ASSUME IInv, NEW w \in Writers, WriterWake(w)
    PROVE  Service!LetGo(w) \/ UNCHANGED Service!serviceVars
<1>1. UNCHANGED <<Pending, stored, flushed, apc, need_flushed_index>>
  BY WriterWakeEffect DEF Quiet, Pending, Unstored, queue, IInv
<1>2. CASE Blocked' = Blocked
  BY <1>1, <1>2, OwedFrame DEF Service!serviceVars
<1>3. CASE need_flushed_index[w] <= flushed_log_index /\ Blocked' = Blocked \ {w}
  <2>1. /\ wpc[w] = "blocked"
        /\ \A v \in Writers : wpc'[v] = "blocked" <=> wpc[v] = "blocked" /\ v # w
    BY <1>3, WriterWakeEffect DEF Blocked, IInv
  <2>2. Owed[w] = need_flushed_index[w] /\ Owed' = [Owed EXCEPT ![w] = 0]
    BY <1>1, <2>1 DEF Owed
  <2>3. need_flushed_index[w] \in 1 .. written_log_index /\ written_log_index \in Nat
    BY <2>1 DEF IInv, OwedInv, Blocked, TypeOK, QueueTypes
  <2>4. flushed_log_index <= flushed /\ flushed_log_index \in Nat /\ flushed \in Nat
    BY DEF IInv, FlushInv, TypeOK, QueueTypes
  <2>5. Owed[w] > 0 /\ Owed[w] <= flushed
    BY <1>3, <2>2, <2>3, <2>4
  <2> QED BY <1>1, <2>2, <2>5 DEF Service!LetGo
<1> QED BY <1>2, <1>3, WriterWakeEffect DEF IInv

(* The end of the async thread is the step Close. *)
LEMMA CloseStep ==
    ASSUME IInv, AsyncExit
    PROVE  Service!Close
<1>1. /\ apc = "head" /\ apc' = "exit" /\ ~running /\ memtable = <<>>
      /\ UNCHANGED <<memtable, table, stored, flushed, wpc, need_flushed_index>>
  BY DEF AsyncExit, ExitIf, AGoto, queue, batch, disk, locals
<1>2. table = <<>> /\ flushed = Len(stored) /\ \A w \in Writers : wpc[w] = "idle"
  BY <1>1 DEF IInv, NoBatch, Between, FlushInv, ShutDown
<1>3. Pending = <<>> /\ Pending' = <<>>
  <2>1. <<>> \o <<>> = <<>>
    BY EmptySeq, ConcatEmptySeq
  <2> QED BY <1>1, <1>2, <2>1 DEF Pending, Unstored
<1>4. Owed' = Owed /\ \A w \in Writers : Owed[w] = 0
  BY <1>1, <1>2 DEF Owed
<1> QED BY <1>1, <1>2, <1>3, <1>4 DEF Service!Close

(* The initial states of the logger are initial states of the service. *)
LEMMA RefinementInit == Init => Service!ServiceInit
<1> SUFFICES ASSUME Init PROVE Service!ServiceInit
  OBVIOUS
<1>1. /\ memtable = <<>> /\ table = <<>> /\ stored = <<>> /\ flushed = 0 /\ apc = "start"
      /\ wpc = [w \in Writers |-> "idle"]
  BY DEF Init
<1>2. Pending = <<>>
  <2>1. <<>> \o <<>> = <<>>
    BY EmptySeq, ConcatEmptySeq
  <2> QED BY <1>1, <2>1 DEF Pending, Unstored
<1>3. Owed = [w \in Writers |-> 0]
  BY <1>1 DEF Owed
<1> QED BY <1>1, <1>2, <1>3 DEF Service!ServiceInit

(* Every step of the logger is one step of the service, or none. *)
LEMMA RefinementNext ==
    IInv /\ [Next]_vars => [Service!ServiceNext]_(Service!serviceVars)
<1> SUFFICES ASSUME IInv, [Next]_vars
             PROVE  Service!ServiceNext \/ UNCHANGED Service!serviceVars
  OBVIOUS
<1> USE DEF Service!ServiceNext
<1>0. TypeOK /\ NoBatch
  BY DEF IInv
<1>1. ASSUME NEW w \in Writers, Pushes(w) PROVE Service!ServiceNext
  <2>1. need_flushed_index \in [Writers -> Nat] /\ message[w] \in Messages
        /\ wpc \in [Writers -> {"idle", "alloc", "full", "retry", "giveup", "write", "blocked"}]
        /\ wpc[w] = "write"
    BY <1>1, <1>0, PushTypes DEF Pushes, TypeOK, WriterTypes
  <2>2. Owed' = [Owed EXCEPT ![w] = 0] \/ Owed' = [Owed EXCEPT ![w] = written_log_index + 1]
    <3>1. CASE UNCHANGED <<Blocked, need_flushed_index>>
      <4>1. Owed[w] = 0 /\ Owed' = Owed
        BY <2>1, <3>1, OwedFrame DEF Owed
      <4> QED BY <4>1 DEF Owed
    <3>2. CASE /\ Blocked' = Blocked \union {w}
               /\ need_flushed_index' = [need_flushed_index EXCEPT ![w] = written_log_index + 1]
      <4>1. \A v \in Writers : wpc'[v] = "blocked" <=> wpc[v] = "blocked" \/ v = w
        BY <3>2 DEF Blocked
      <4> QED BY <2>1, <3>2, <4>1 DEF Owed
    <3>3. CASE WriteNormal(w)
      <4>1. wpc' = [wpc EXCEPT ![w] = "idle"] /\ need_flushed_index' = need_flushed_index
        BY <3>3 DEF WriteNormal, Goto, locals
      <4>2. Blocked' = Blocked
        BY <2>1, <4>1 DEF Blocked
      <4> QED BY <4>1, <4>2, <3>1
    <3> QED BY <1>0, <1>1, <3>1, <3>2, <3>3, WriteSyncEffect DEF Pushes
  <2> QED BY <1>1, <2>1, <2>2, AcceptStep
<1>2. ASSUME NEW ok \in BOOLEAN, AsyncWrite(ok)
      PROVE  Service!ServiceNext \/ UNCHANGED Service!serviceVars
  <2>1. CASE ok
    BY <1>2, <2>1, StoreStep
  <2>2. CASE ~ok
    <3>1. /\ UNCHANGED <<stored, flushed, memtable, wpc, need_flushed_index>>
          /\ Unstored' = Unstored /\ apc # "exit" /\ apc' # "exit"
      BY <1>2, <2>2 DEF AsyncWrite, Unstored, queue, batch, locals, AGoto
    <3> QED BY <3>1 DEF Service!serviceVars, Pending, Owed
  <2> QED BY <2>1, <2>2
<1>3. CASE AsyncExit
  BY <1>3, CloseStep
<1>4. ASSUME NEW w \in Writers, WriterWake(w)
      PROVE  Service!ServiceNext \/ UNCHANGED Service!serviceVars
  BY <1>4, LetGoStep
<1>5. CASE /\ UNCHANGED <<Blocked, need_flushed_index, Pending, stored>>
           /\ AsyncFlush \/ flushed' = flushed
           /\ apc' = "exit" <=> apc = "exit"
  <2>1. Owed' = Owed
    BY <1>5, OwedFrame
  <2>2. CASE AsyncFlush
    <3>1. flushed' = Len(stored)
      BY <2>2 DEF AsyncFlush
    <3> QED BY <1>5, <2>1, <3>1 DEF Service!Flush
  <2>3. CASE flushed' = flushed
    BY <1>5, <2>1, <2>3 DEF Service!serviceVars
  <2> QED BY <1>5, <2>2, <2>3
<1>6. ASSUME NEW w \in Writers, WriteSync(w) PROVE Pushes(w)
  BY <1>6, <1>0, WriteSyncEffect
<1> QED BY <1>0, <1>1, <1>2, <1>3, <1>4, <1>5, <1>6, PendingFrame, BlockedFrame, ExitFrame
-----------------------------------------------------------------------------
(* The theorems.  They hold for any number of writers, buffers and calls,   *)
(* any lengths of the messages, and a disk that fails whenever it likes.    *)

(* Every variable keeps its type: only held callers and the async thread    *)
(* wait on cv, and a batch goes on only while it has an entry.              *)
THEOREM TypeCorrect == Spec => []TypeOK
  BY Invariance, PTL DEF IInv

(* No entry is lost, duplicated or reordered between push_back() and the    *)
(* file, through the swap, partial writes and the splice of what is left.   *)
THEOREM EntriesKeepTheirOrder == Spec => []OrderInv
  BY Invariance, PTL DEF IInv

(* memtable_size, added to by each push and reduced when a batch is         *)
(* settled, is the length of the entries accepted and not flushed.          *)
THEOREM MemtableSizeIsExact == Spec => []SizeExact
<1>1. IInv => SizeExact
  BY SizedImplies DEF IInv
<1> QED BY <1>1, Invariance, PTL

(* blocked_threads, by which the async thread and the writers choose        *)
(* between notify_one and notify_all, is the number of held callers.        *)
THEOREM BlockedThreadsIsExact == Spec => []BlockedExact
  BY Invariance, PTL DEF IInv

(* A held caller whose entry is flushed has been woken: a single notify_one *)
(* is enough when one caller is held, although the async thread and the     *)
(* callers wait on the same condition variable.                             *)
THEOREM FlushedCallersAreWoken == Spec => []NoLostWakeup
  BY Invariance, PTL DEF IInv

(* While a caller is held for an entry that is not flushed, or memtable_size *)
(* is over the limit, the async thread does not wait.                       *)
THEOREM AsyncThreadIsAwake == Spec => []AsyncAwakeWhenNeeded
  BY Invariance, PTL DEF IInv

(* No writer ever finds disk_full_try_times positive while the logger runs: *)
(* the branch of write() that downgrades a synchronous call is dead code,   *)
(* against its comment.                                                     *)
THEOREM BackoffIsNeverSeen == Spec => []BackoffUnseen
<1>1. IInv => BackoffUnseen
  BY BackoffImplies DEF IInv
<1> QED BY <1>1, Invariance, PTL

(* The logger implements LogService: every step of a thread is one step of  *)
(* the service or none.                                                     *)
THEOREM LoggerImplementsService == Spec => ImplementsLogService
<1>1. Init => Service!ServiceInit
  BY RefinementInit
<1>2. IInv /\ [Next]_vars => [Service!ServiceNext]_(Service!serviceVars)
  BY RefinementNext
<1> QED BY <1>1, <1>2, Invariance, PTL DEF Spec, ImplementsLogService, Service!ServiceSpec

-----------------------------------------------------------------------------
(* The files. *)

(* Every step of the logger is one of LogWritter's, the files apart. *)
LEMMA LoggerSteps == [LoggerNext]_loggerVars => [Next]_vars
<1> SUFFICES ASSUME [LoggerNext]_loggerVars PROVE [Next]_vars
  OBVIOUS
<1>1. CASE UNCHANGED loggerVars \/ Closed
  BY <1>1 DEF loggerVars, Closed
<1>2. CASE AsyncRotate \/ AsyncReopen \/ CloseFile \/ World
  BY <1>2 DEF AsyncRotate, AsyncReopen, CloseFile, World
<1>3. CASE Alive /\ AsyncWriteFile
  BY <1>3 DEF AsyncWriteFile, Next, AsyncStep
<1>4. CASE Alive /\ (AsyncFlushFile \/ AsyncElsewhere)
  BY <1>4 DEF AsyncFlushFile, AsyncElsewhere, Next, AsyncStep
<1>5. CASE Callers
  BY <1>5 DEF Callers, Next
<1>6. ASSUME NEW n \in MaxFileSizes, SetFileRotateSize(n) PROVE [Next]_vars
  BY <1>6 DEF SetFileRotateSize
<1> QED BY <1>1, <1>2, <1>3, <1>4, <1>5, <1>6 DEF LoggerNext, LoggerAsyncStep

-----------------------------------------------------------------------------
(* What the fold over a batch and the concatenation of the files do.        *)

LogFile == [data : Seq(Messages), durable : Nat]

(* Add() keeps a sequence of messages one. *)
LEMMA AddType ==
    ASSUME NEW s \in Seq(Messages), NEW m \in Messages
    PROVE  /\ Add(s, m) \in Seq(Messages)
           /\ Add(s, m) = s \/ Add(s, m) = Append(s, m)
  BY AppendProperties DEF Add

(* AddAll() adds the messages one after the other. *)
LEMMA AddAllSteps ==
    ASSUME NEW seq \in Seq(Messages), NEW ms \in Seq(Messages)
    PROVE  \E c \in [0 .. Len(ms) -> Seq(Messages)] :
              /\ c[0] = seq /\ AddAll(seq, ms) = c[Len(ms)]
              /\ \A k \in 1 .. Len(ms) : c[k] = Add(c[k - 1], ms[k])
<1> DEFINE n == Len(ms)
           F == [p \in Seq(Messages) \X Messages |-> Add(p[1], p[2])]
           Folded(g) == g = [s \in SUBSET (DOMAIN ms) |->
                               IF s = {} THEN seq
                               ELSE LET x == Max(s) IN Add(g[s \ {x}], ms[x])]
           it == CHOOSE g : Folded(g)
<1>1. n \in Nat /\ DOMAIN ms = 1 .. n /\ \A k \in 1 .. n : ms[k] \in Messages
  BY LenProperties, ElementOfSeq
<1>2. F \in [Seq(Messages) \X Messages -> Seq(Messages)]
  BY AddType
<1>3. PICK g : FoldsBy(g, F, seq, ms, n, Seq(Messages))
  <2> HIDE DEF F
  <2> QED BY <1>2, FoldExists
<1>4. Folded(g)
  <2>1. ASSUME NEW s \in SUBSET (1 .. n)
        PROVE  g[s] = IF s = {} THEN seq ELSE Add(g[s \ {Max(s)}], ms[Max(s)])
    <3>1. s # {} => Max(s) \in s
      BY <1>1, MaxInside
    <3>2. s # {} => /\ <<g[s \ {Max(s)}], ms[Max(s)]>> \in Seq(Messages) \X Messages
                    /\ g[s] = F[<<g[s \ {Max(s)}], ms[Max(s)]>>]
      BY <3>1, <1>1, <1>3 DEF FoldsBy
    <3> QED BY <3>2, <1>3 DEF FoldsBy
  <2>2. g = [s \in SUBSET (DOMAIN ms) |-> g[s]]
    BY <1>1, <1>3 DEF FoldsBy
  <2> QED BY <2>1, <2>2, <1>1
<1>5. Folded(it)
  <2> HIDE DEF Folded
  <2> QED BY <1>4, Zenon
<1>6. AddAll(seq, ms) = it[DOMAIN ms]
  BY Zenon DEF AddAll, FoldLeft, MapThenFoldSet
<1>7. \A s \in SUBSET (1 .. n) :
         it[s] = IF s = {} THEN seq ELSE Add(it[s \ {Max(s)}], ms[Max(s)])
  <2> HIDE DEF it
  <2> QED BY <1>5, <1>1
<1> HIDE DEF it, F, Folded
<1>8. it[1 .. 0] = seq
  <2>1. 1 .. 0 = {} /\ {} \in SUBSET (1 .. n)
    OBVIOUS
  <2> HIDE DEF n
  <2> QED BY <2>1, <1>7
<1>9. ASSUME NEW k \in 1 .. n
      PROVE  it[1 .. k] = Add(it[1 .. k - 1], ms[k])
  <2>1. k - 1 \in Nat /\ (k - 1) + 1 = k /\ k \in 1 .. k /\ 1 .. k \in SUBSET (1 .. n)
        /\ (1 .. k) \ {k} = 1 .. k - 1
    BY <1>1
  <2>2. Max(1 .. k) = k
    BY <2>1, MaxIsBound
  <2> QED BY <2>1, <2>2, <1>7
<1> DEFINE c == [k \in 0 .. n |-> it[1 .. k]]
           G == {k \in 0 .. n : c[k] \in Seq(Messages)}
<1>10. \A k \in 1 .. n : c[k] = Add(c[k - 1], ms[k])
  BY <1>1, <1>9
<1>11. \A k \in 0 .. n : k \in G
  <2>1. 0 \in G
    BY <1>1, <1>8
  <2>2. \A k \in 0 .. n : k \in G /\ k < n => k + 1 \in G
    <3> SUFFICES ASSUME NEW k \in 0 .. n, k \in G, k < n PROVE c[k + 1] \in Seq(Messages)
      BY <1>1
    <3>1. k + 1 \in 1 .. n /\ (k + 1) - 1 = k
      BY <1>1
    <3> HIDE DEF c
    <3>2. c[k + 1] = Add(c[k], ms[k + 1])
      BY <3>1, <1>10
    <3> QED BY <3>1, <3>2, <1>1, AddType
  <2> HIDE DEF G
  <2> QED BY <2>1, <2>2, <1>1, BoundedInduction
<1>12. c \in [0 .. n -> Seq(Messages)] /\ c[0] = seq /\ AddAll(seq, ms) = c[n]
  BY <1>1, <1>6, <1>8, <1>11
<1> HIDE DEF c
<1> QED BY <1>10, <1>12

(* FlattenSeq() puts the sequences one behind the other. *)
LEMMA FlattenSteps ==
    ASSUME NEW ss \in Seq(Seq(Messages))
    PROVE  \E c \in [0 .. Len(ss) -> Seq(Messages)] :
              /\ c[0] = <<>> /\ FlattenSeq(ss) = c[Len(ss)]
              /\ \A k \in 1 .. Len(ss) : c[k] = c[k - 1] \o ss[k]
<1> DEFINE n == Len(ss)
           F == [p \in Seq(Messages) \X Seq(Messages) |-> p[1] \o p[2]]
           Flat(f) == f = [i \in 1 .. n |-> IF i = 1 THEN ss[i] ELSE f[i - 1] \o ss[i]]
           fl == CHOOSE f : Flat(f)
<1>1. n \in Nat /\ \A k \in 1 .. n : ss[k] \in Seq(Messages)
  BY LenProperties, ElementOfSeq
<1>2. F \in [Seq(Messages) \X Seq(Messages) -> Seq(Messages)]
  BY ConcatProperties
<1>3. <<>> \in Seq(Messages)
  BY EmptySeq
<1>4. PICK g : FoldsBy(g, F, <<>>, ss, n, Seq(Messages))
  <2> HIDE DEF F
  <2> QED BY <1>2, <1>3, FoldExists
<1> DEFINE c == [k \in 0 .. n |-> g[1 .. k]]
<1>5. c \in [0 .. n -> Seq(Messages)] /\ c[0] = <<>>
  <2>1. \A k \in 0 .. n : 1 .. k \in SUBSET (1 .. n)
    BY <1>1
  <2>2. \A k \in 0 .. n : g[1 .. k] \in Seq(Messages)
    BY <2>1, <1>4 DEF FoldsBy
  <2>3. g[1 .. 0] = <<>>
    <3>1. 1 .. 0 = {} /\ {} \in SUBSET (1 .. n)
      OBVIOUS
    <3> HIDE DEF F, n
    <3> QED BY <3>1, <1>4 DEF FoldsBy
  <2> QED BY <2>2, <2>3, <1>1
<1>6. ASSUME NEW k \in 1 .. n PROVE c[k] = c[k - 1] \o ss[k]
  <2>1. k - 1 \in 0 .. n /\ k \in 0 .. n
    BY <1>1
  <2>2. g[1 .. k] = F[<<g[1 .. k - 1], ss[k]>>]
    <3> HIDE DEF F
    <3> QED BY <1>1, <1>4, FoldStep
  <2>3. g[1 .. k - 1] \in Seq(Messages) /\ ss[k] \in Seq(Messages)
    BY <2>1, <1>1, <1>5
  <2>4. F[<<g[1 .. k - 1], ss[k]>>] = g[1 .. k - 1] \o ss[k]
    BY <2>3
  <2> QED BY <2>1, <2>2, <2>4
<1> HIDE DEF c, F
<1>7. Flat(fl)
  <2> DEFINE f == [i \in 1 .. n |-> c[i]]
  <2>1. ASSUME NEW i \in 1 .. n
        PROVE  f[i] = IF i = 1 THEN ss[i] ELSE f[i - 1] \o ss[i]
    <3>1. CASE i = 1
      <4>1. c[1] = c[0] \o ss[1] /\ ss[1] \in Seq(Messages)
        <5>1. 1 \in 1 .. n /\ 1 - 1 = 0
          BY <3>1
        <5> HIDE DEF n
        <5> QED BY <5>1, <1>1, <1>6
      <4>2. c[1] = ss[1]
        BY <4>1, <1>5, ConcatEmptySeq
      <4> QED BY <3>1, <4>2
    <3>2. CASE i # 1
      <4>1. i - 1 \in 1 .. n
        BY <3>2, <1>1
      <4> QED BY <3>2, <4>1, <1>6
    <3> QED BY <3>1, <3>2
  <2>2. Flat(f)
    BY <2>1
  <2> HIDE DEF Flat, f
  <2> QED BY <2>2, Zenon
<1>8. FlattenSeq(ss) = IF n = 0 THEN ss ELSE fl[n]
  BY Zenon DEF FlattenSeq
<1>9. \A i \in 1 .. n : fl[i] = IF i = 1 THEN ss[i] ELSE fl[i - 1] \o ss[i]
  <2> HIDE DEF fl
  <2> QED BY <1>7
<1> HIDE DEF fl, Flat
<1>10. CASE n = 0
  BY <1>10, <1>5, <1>6, <1>8, EmptySeq
<1>11. CASE n # 0
  <2> DEFINE G == {k \in 0 .. n : k > 0 => fl[k] = c[k]}
  <2>1. 0 \in G
    BY <1>1
  <2>2. \A k \in 0 .. n : k \in G /\ k < n => k + 1 \in G
    <3> SUFFICES ASSUME NEW k \in 0 .. n, k \in G, k < n PROVE fl[k + 1] = c[k + 1]
      BY <1>1
    <3>1. k + 1 \in 1 .. n /\ (k + 1) - 1 = k
      BY <1>1
    <3>2. c[k + 1] = c[k] \o ss[k + 1] /\ ss[k + 1] \in Seq(Messages)
      BY <3>1, <1>1, <1>6
    <3>3. CASE k = 0
      BY <3>1, <3>2, <3>3, <1>5, <1>9, ConcatEmptySeq
    <3>4. CASE k # 0
      <4>1. fl[k] = c[k] /\ k + 1 # 1
        BY <3>4
      <4> HIDE DEF n
      <4>2. fl[k + 1] = fl[(k + 1) - 1] \o ss[k + 1]
        BY <4>1, <3>1, <1>9
      <4> QED BY <3>1, <3>2, <4>1, <4>2
    <3> QED BY <3>3, <3>4
  <2>3. n \in 0 .. n
    BY <1>1
  <2>4. n \in G
    <3> HIDE DEF G, n
    <3> QED BY <2>1, <2>2, <2>3, <1>1, BoundedInduction
  <2>5. FlattenSeq(ss) = c[n]
    BY <2>4, <1>1, <1>8, <1>11
  <2> HIDE DEF n
  <2>6. c[0] = <<>> /\ \A k \in 1 .. n : c[k] = c[k - 1] \o ss[k]
    BY <1>5, <1>6
  <2> QED BY <2>5, <2>6, <1>5 DEF n
<1> QED BY <1>10, <1>11

(* All the messages of some files, oldest first. *)
AllOf(fs) == FlattenSeq([i \in DOMAIN fs |-> fs[i].data])
Piles(c, fs) ==
    /\ c \in [0 .. Len(fs) -> Seq(Messages)]
    /\ c[0] = <<>> /\ AllOf(fs) = c[Len(fs)]
    /\ \A k \in 1 .. Len(fs) : c[k] = c[k - 1] \o fs[k].data

LEMMA PilesExist ==
    ASSUME NEW fs \in Seq(LogFile)
    PROVE  (\E c : Piles(c, fs)) /\ AllOf(fs) \in Seq(Messages)
<1> DEFINE ss == [i \in DOMAIN fs |-> fs[i].data]
<1>1. Len(fs) \in Nat /\ DOMAIN fs = 1 .. Len(fs) /\ \A i \in 1 .. Len(fs) : fs[i] \in LogFile
  BY LenProperties, ElementOfSeq
<1>2. \A i \in 1 .. Len(fs) : fs[i].data \in Seq(Messages)
  BY <1>1 DEF LogFile
<1>3. ss \in Seq(Seq(Messages)) /\ Len(ss) = Len(fs)
  BY <1>1, <1>2
<1>4. \A i \in 1 .. Len(fs) : ss[i] = fs[i].data
  BY <1>1
<1>5. AllOf(fs) = FlattenSeq(ss)
  BY DEF AllOf
<1> HIDE DEF ss
<1>6. \E c \in [0 .. Len(ss) -> Seq(Messages)] :
         /\ c[0] = <<>> /\ FlattenSeq(ss) = c[Len(ss)]
         /\ \A k \in 1 .. Len(ss) : c[k] = c[k - 1] \o ss[k]
  BY ONLY <1>3, FlattenSteps
<1>7. PICK c \in [0 .. Len(fs) -> Seq(Messages)] :
         /\ c[0] = <<>> /\ AllOf(fs) = c[Len(fs)]
         /\ \A k \in 1 .. Len(fs) : c[k] = c[k - 1] \o ss[k]
  BY ONLY <1>6, <1>3, <1>5
<1>8. Piles(c, fs)
  BY <1>4, <1>7 DEF Piles
<1>9. AllOf(fs) \in Seq(Messages)
  BY <1>1, <1>7
<1> QED BY <1>8, <1>9

(* Files that start with the same messages pile up to the same. *)
LEMMA PilesAgree ==
    ASSUME NEW fs, NEW gs, NEW c, NEW d, Piles(c, fs), Piles(d, gs),
           NEW n \in Nat, n <= Len(fs), n <= Len(gs), Len(fs) \in Nat, Len(gs) \in Nat,
           \A i \in 1 .. n : fs[i].data = gs[i].data
    PROVE  c[n] = d[n]
<1> DEFINE G == {k \in 0 .. n : c[k] = d[k]}
<1>1. 0 \in G
  BY DEF Piles
<1>2. \A k \in 0 .. n : k \in G /\ k < n => k + 1 \in G
  <2> SUFFICES ASSUME NEW k \in 0 .. n, k < n, c[k] = d[k] PROVE c[k + 1] = d[k + 1]
    OBVIOUS
  <2>1. /\ k + 1 \in 1 .. n /\ k + 1 \in 1 .. Len(fs) /\ k + 1 \in 1 .. Len(gs)
        /\ (k + 1) - 1 = k
    OBVIOUS
  <2>2. c[k + 1] = c[k] \o fs[k + 1].data /\ d[k + 1] = d[k] \o gs[k + 1].data
    BY <2>1 DEF Piles
  <2> QED BY <2>1, <2>2
<1>3. n \in 0 .. n
  OBVIOUS
<1>4. n \in G
  <2> HIDE DEF G
  <2> QED BY <1>1, <1>2, <1>3, BoundedInduction
<1> QED BY <1>4

(* A change of the last file is a change of the end of all. *)
LEMMA LastIsEnd ==
    ASSUME NEW fs \in Seq(LogFile), fs # <<>>
    PROVE  \E p \in Seq(Messages) :
              /\ AllOf(fs) = p \o fs[Len(fs)].data
              /\ \A gs \in Seq(LogFile) :
                    /\ Len(gs) = Len(fs)
                    /\ \A i \in 1 .. Len(fs) - 1 : gs[i].data = fs[i].data
                    => AllOf(gs) = p \o gs[Len(fs)].data
<1>1. Len(fs) \in Nat \ {0}
  BY EmptySeq
<1>2. PICK c : Piles(c, fs)
  BY PilesExist
<1> DEFINE n == Len(fs) - 1
           p == c[n]
<1>3. n \in Nat /\ n + 1 = Len(fs) /\ n \in 0 .. Len(fs) /\ Len(fs) \in 1 .. Len(fs)
  BY <1>1
<1>4. p \in Seq(Messages) /\ AllOf(fs) = p \o fs[Len(fs)].data
  BY <1>2, <1>3 DEF Piles
<1>5. ASSUME NEW gs \in Seq(LogFile), Len(gs) = Len(fs),
             \A i \in 1 .. n : gs[i].data = fs[i].data
      PROVE  AllOf(gs) = p \o gs[Len(fs)].data
  <2>1. PICK d : Piles(d, gs)
    BY PilesExist
  <2>2. c[n] = d[n]
    <3>1. n <= Len(fs) /\ n <= Len(gs) /\ Len(gs) \in Nat /\ Len(fs) \in Nat
      BY <1>1, <1>3, <1>5
    <3> HIDE DEF n
    <3> QED BY <3>1, <2>1, <1>2, <1>3, <1>5, PilesAgree
  <2> HIDE DEF n
  <2>3. AllOf(gs) = d[n + 1] /\ d[n + 1] = d[(n + 1) - 1] \o gs[n + 1].data /\ (n + 1) - 1 = n
    <3>1. n + 1 = Len(gs) /\ n + 1 \in 1 .. Len(gs) /\ (n + 1) - 1 = n
      BY <1>3, <1>5
    <3>2. AllOf(gs) = d[Len(gs)] /\ \A k \in 1 .. Len(gs) : d[k] = d[k - 1] \o gs[k].data
      BY <2>1 DEF Piles
    <3> QED BY ONLY <3>1, <3>2
  <2> QED BY <2>2, <2>3, <1>3
<1> QED BY <1>4, <1>5

(* A new file adds no message. *)
LEMMA NewFileAddsNothing ==
    ASSUME NEW fs \in Seq(LogFile)
    PROVE  /\ Append(fs, NewFile) \in Seq(LogFile)
           /\ Len(Append(fs, NewFile)) = Len(fs) + 1
           /\ Append(fs, NewFile)[Len(fs) + 1] = NewFile
           /\ AllOf(Append(fs, NewFile)) = AllOf(fs)
<1> DEFINE gs == Append(fs, NewFile)
           n == Len(fs)
<1>1. NewFile \in LogFile /\ NewFile.data = <<>>
  BY EmptySeq DEF NewFile, LogFile
<1>2. /\ n \in Nat /\ gs \in Seq(LogFile) /\ Len(gs) = n + 1 /\ gs[n + 1] = NewFile
      /\ \A i \in 1 .. n : gs[i] = fs[i]
  BY <1>1, LenProperties, AppendProperties
<1>3. PICK c : Piles(c, fs)
  BY PilesExist
<1> HIDE DEF gs
<1>4. PICK d : Piles(d, gs)
  BY <1>2, PilesExist
<1>5. c[n] = d[n]
  <2>1. n <= Len(fs) /\ n <= Len(gs) /\ Len(gs) \in Nat
    BY <1>2
  <2> QED BY <2>1, <1>2, <1>3, <1>4, PilesAgree, SMTT(30)
<1>6. AllOf(gs) = d[n] \o <<>> /\ d[n] \in Seq(Messages) /\ AllOf(fs) = c[n]
  <2> HIDE DEF n
  <2>1. n + 1 \in 1 .. Len(gs) /\ (n + 1) - 1 = n /\ n \in 0 .. Len(gs)
    BY <1>2
  <2> QED BY <2>1, <1>1, <1>2, <1>3, <1>4, ZenonT(40) DEF Piles, n
<1>7. AllOf(gs) = AllOf(fs)
  BY <1>5, <1>6, ConcatEmptySeq
<1> QED BY <1>2, <1>7 DEF gs

(* SetLast() and SyncLast() change the last file only. *)
LEMMA SetLastType ==
    ASSUME NEW fs \in Seq(LogFile), fs # <<>>, NEW d \in Seq(Messages)
    PROVE  /\ SetLast(fs, d) \in Seq(LogFile) /\ Len(SetLast(fs, d)) = Len(fs)
           /\ SetLast(fs, d) # <<>>
           /\ SetLast(fs, d)[Len(fs)].data = d
           /\ SetLast(fs, d)[Len(fs)].durable = fs[Len(fs)].durable
           /\ \A i \in 1 .. Len(fs) - 1 : SetLast(fs, d)[i].data = fs[i].data
<1> DEFINE n == Len(fs)
           f == [fs[n] EXCEPT !.data = d]
<1>1. n \in Nat \ {0} /\ n \in 1 .. n
  BY EmptySeq
<1>2. fs[n] \in LogFile
  BY <1>1, ElementOfSeq
<1>3. f \in LogFile /\ f.data = d /\ f.durable = fs[n].durable
  BY <1>2, SMTT(30) DEF LogFile
<1>4. SetLast(fs, d) = [fs EXCEPT ![n] = f]
  BY DEF SetLast
<1> HIDE DEF f, n
<1>5. /\ [fs EXCEPT ![n] = f] \in Seq(LogFile) /\ Len([fs EXCEPT ![n] = f]) = Len(fs)
      /\ \A j \in 1 .. Len(fs) : [fs EXCEPT ![n] = f][j] = IF j = n THEN f ELSE fs[j]
  BY <1>1, <1>3, ExceptSeq, SMTT(30) DEF n
<1>6. n = Len(fs) /\ \A i \in 1 .. n - 1 : i \in 1 .. n /\ i # n
  BY <1>1, SMTT(30) DEF n
<1>7. SetLast(fs, d) # <<>>
  BY <1>1, <1>4, <1>5, <1>6, EmptySeq, ZenonT(40)
<1> QED BY <1>1, <1>3, <1>4, <1>5, <1>6, <1>7

LEMMA SyncLastType ==
    ASSUME NEW fs \in Seq(LogFile), fs # <<>>
    PROVE  /\ SyncLast(fs) \in Seq(LogFile) /\ Len(SyncLast(fs)) = Len(fs)
           /\ SyncLast(fs) # <<>>
           /\ SyncLast(fs)[Len(fs)].data = fs[Len(fs)].data
           /\ SyncLast(fs)[Len(fs)].durable = Len(fs[Len(fs)].data)
           /\ \A i \in 1 .. Len(fs) - 1 : SyncLast(fs)[i].data = fs[i].data
<1> DEFINE n == Len(fs)
           f == [fs[n] EXCEPT !.durable = Len(fs[n].data)]
<1>1. n \in Nat \ {0} /\ n \in 1 .. n
  BY EmptySeq
<1>2. fs[n] \in LogFile
  BY <1>1, ElementOfSeq
<1>3. f \in LogFile /\ f.data = fs[n].data /\ f.durable = Len(fs[n].data)
  BY <1>2, LenProperties DEF LogFile
<1>4. SyncLast(fs) = [fs EXCEPT ![n] = f]
  BY DEF SyncLast
<1> HIDE DEF f, n
<1>5. /\ [fs EXCEPT ![n] = f] \in Seq(LogFile) /\ Len([fs EXCEPT ![n] = f]) = Len(fs)
      /\ \A j \in 1 .. Len(fs) : [fs EXCEPT ![n] = f][j] = IF j = n THEN f ELSE fs[j]
  BY <1>1, <1>3, ExceptSeq DEF n
<1>6. n = Len(fs) /\ \A i \in 1 .. n - 1 : i \in 1 .. n /\ i # n
  BY <1>1, SMTT(30) DEF n
<1>7. SyncLast(fs) # <<>>
  BY <1>1, <1>4, <1>5, <1>6, EmptySeq
<1> QED BY <1>1, <1>3, <1>4, <1>5, <1>6, <1>7
-----------------------------------------------------------------------------
(* Sequences that hold no message twice. *)

LEMMA UnrepeatedParts ==
    ASSUME NEW s \in Seq(Messages), NEW t \in Seq(Messages), Unrepeated(s \o t)
    PROVE  Unrepeated(s) /\ Unrepeated(t)
<1>1. /\ Len(s) \in Nat /\ Len(t) \in Nat /\ Len(s \o t) = Len(s) + Len(t)
      /\ \A i \in 1 .. Len(s) + Len(t) :
            (s \o t)[i] = IF i <= Len(s) THEN s[i] ELSE t[i - Len(s)]
  BY LenProperties, ConcatProperties
<1>2. ASSUME NEW i \in 1 .. Len(s), NEW j \in 1 .. Len(s), s[i] = s[j] PROVE i = j
  <2>1. /\ i \in 1 .. Len(s) + Len(t) /\ j \in 1 .. Len(s) + Len(t)
        /\ (s \o t)[i] = s[i] /\ (s \o t)[j] = s[j]
    BY <1>1
  <2> QED BY <2>1, <1>1, <1>2 DEF Unrepeated
<1>3. ASSUME NEW i \in 1 .. Len(t), NEW j \in 1 .. Len(t), t[i] = t[j] PROVE i = j
  <2> DEFINE a == i + Len(s)
             b == j + Len(s)
  <2>1. /\ a \in 1 .. Len(s) + Len(t) /\ b \in 1 .. Len(s) + Len(t)
        /\ ~(a <= Len(s)) /\ ~(b <= Len(s)) /\ a - Len(s) = i /\ b - Len(s) = j
    BY <1>1
  <2>2. a = b => i = j
    BY <1>1
  <2> HIDE DEF a, b
  <2>3. (s \o t)[a] = t[i] /\ (s \o t)[b] = t[j]
    BY <2>1, <1>1
  <2> QED BY <2>1, <2>2, <2>3, <1>1, <1>3 DEF Unrepeated
<1> QED BY <1>2, <1>3 DEF Unrepeated

(* Add() never finds a third copy in them. *)
LEMMA AddPlain ==
    ASSUME NEW s \in Seq(Messages), NEW m \in Messages, Unrepeated(Append(s, m))
    PROVE  Add(s, m) = Append(s, m)
<1>1. /\ Len(s) \in Nat /\ Len(Append(s, m)) = Len(s) + 1
      /\ \A i \in 1 .. Len(s) : Append(s, m)[i] = s[i]
      /\ Append(s, m)[Len(s) + 1] = m
  BY LenProperties, AppendProperties
<1>2. Len(s) >= 2 => s[Len(s)] # m
  <2> SUFFICES ASSUME Len(s) >= 2, s[Len(s)] = m PROVE FALSE
    OBVIOUS
  <2>1. Len(s) \in 1 .. Len(s) /\ Len(s) \in 1 .. Len(s) + 1 /\ Len(s) + 1 \in 1 .. Len(s) + 1
    BY <1>1
  <2>2. Append(s, m)[Len(s)] = Append(s, m)[Len(s) + 1]
    BY <2>1, <1>1
  <2>3. Len(s) = Len(s) + 1
    BY <2>1, <2>2, <1>1 DEF Unrepeated
  <2> QED BY <2>3, <1>1
<1> QED BY <1>2 DEF Add

LEMMA AddAllPlain ==
    ASSUME NEW s \in Seq(Messages), NEW ms \in Seq(Messages), Unrepeated(s \o ms)
    PROVE  AddAll(s, ms) = s \o ms
<1> DEFINE n == Len(ms)
           l == Len(s)
           u == s \o ms
           Starts(d, k) == /\ d \in Seq(Messages) /\ Len(d) = l + k
                           /\ \A i \in 1 .. l + k : d[i] = u[i]
<1>1. /\ n \in Nat /\ l \in Nat /\ u \in Seq(Messages) /\ Len(u) = l + n
      /\ \A i \in 1 .. l : u[i] = s[i]
      /\ \A k \in 1 .. n : u[l + k] = ms[k] /\ ms[k] \in Messages
  <2>1. /\ n \in Nat /\ l \in Nat /\ u \in Seq(Messages) /\ Len(u) = l + n
        /\ \A i \in 1 .. l + n : u[i] = IF i <= l THEN s[i] ELSE ms[i - l]
    BY LenProperties, ConcatProperties
  <2>2. \A k \in 1 .. n : ms[k] \in Messages
    BY ElementOfSeq
  <2>3. ASSUME NEW k \in 1 .. n PROVE u[l + k] = ms[k]
    <3>1. l + k \in 1 .. l + n /\ ~(l + k <= l) /\ (l + k) - l = k
      BY <2>1
    <3> HIDE DEF u, l, n
    <3>2. u[l + k] = ms[(l + k) - l]
      BY <3>1, <2>1
    <3> QED BY <3>1, <3>2
  <2>4. ASSUME NEW i \in 1 .. l PROVE u[i] = s[i]
    <3>1. i \in 1 .. l + n /\ i <= l
      BY <2>1
    <3> HIDE DEF u, l, n
    <3> QED BY <3>1, <2>1
  <2> QED BY <2>1, <2>2, <2>3, <2>4
<1>2. PICK c \in [0 .. n -> Seq(Messages)] :
         /\ c[0] = s /\ AddAll(s, ms) = c[n]
         /\ \A k \in 1 .. n : c[k] = Add(c[k - 1], ms[k])
  BY AddAllSteps
<1>3. Unrepeated(u)
  OBVIOUS
<1>a. s \in Seq(Messages) /\ Len(s) = l
  OBVIOUS
<1>b. u = s \o ms
  OBVIOUS
<1> HIDE DEF n, l, u
<1> DEFINE G == {k \in 0 .. n : Starts(c[k], k)}
<1>4. 0 \in G
  BY <1>1, <1>2, <1>a
<1>5. ASSUME NEW k \in 0 .. n, k < n, Starts(c[k], k) PROVE Starts(c[k + 1], k + 1)
  <2>0. Starts(c[k], k) /\ k < n
    BY <1>5
  <2>1. k + 1 \in 1 .. n /\ (k + 1) - 1 = k /\ l + (k + 1) = (l + k) + 1
    BY <1>1, <2>0
  <2>2. c[k + 1] = Add(c[k], ms[k + 1]) /\ ms[k + 1] \in Messages
    BY <2>1, <1>1, <1>2
  <2> DEFINE a == Append(c[k], ms[k + 1])
  <2>3. /\ a \in Seq(Messages) /\ Len(a) = (l + k) + 1
        /\ \A i \in 1 .. l + k : a[i] = c[k][i]
        /\ a[(l + k) + 1] = ms[k + 1]
    BY <2>0, <2>2, AppendProperties
  <2>4. \A i \in 1 .. (l + k) + 1 : a[i] = u[i]
    <3> HIDE DEF a
    <3> SUFFICES ASSUME NEW i \in 1 .. (l + k) + 1 PROVE a[i] = u[i]
      OBVIOUS
    <3>1. CASE i = (l + k) + 1
      <4>1. u[l + (k + 1)] = ms[k + 1]
        BY <2>1, <1>1
      <4> QED BY <3>1, <4>1, <2>1, <2>3
    <3>2. CASE i # (l + k) + 1
      <4>1. l + k \in Nat
        BY <1>1
      <4>2. i \in 1 .. l + k
        BY ONLY <3>2, <4>1
      <4> QED BY <4>2, <2>0, <2>3
    <3> QED BY <3>1, <3>2
  <2> HIDE DEF a
  <2>5. Unrepeated(a)
    <3> SUFFICES ASSUME NEW i \in 1 .. (l + k) + 1, NEW j \in 1 .. (l + k) + 1, a[i] = a[j]
                 PROVE  i = j
      BY <2>3 DEF Unrepeated
    <3>1. i \in 1 .. l + n /\ j \in 1 .. l + n
      BY <1>1, <2>1
    <3>2. u[i] = u[j]
      BY <2>4
    <3> QED BY <3>1, <3>2, <1>1, <1>3 DEF Unrepeated
  <2>6. c[k + 1] = a
    BY <2>0, <2>2, <2>5, AddPlain DEF a
  <2> QED BY <2>1, <2>3, <2>4, <2>6
<1>6. Starts(c[n], n)
  <2>1. n \in 0 .. n
    BY <1>1
  <2>2. n \in G
    <3>1. \A k \in 0 .. n : k \in G /\ k < n => k + 1 \in G
      <4>1. \A k \in 0 .. n : k < n => k + 1 \in 0 .. n
        BY <1>1
      <4> HIDE DEF Starts
      <4> QED BY <4>1, <1>5
    <3> HIDE DEF G
    <3> QED BY <2>1, <3>1, <1>1, <1>4, BoundedInduction
  <2> QED BY <2>2
<1>7. c[n] = u
  <2>1. Len(c[n]) = Len(u) /\ \A i \in 1 .. Len(c[n]) : c[n][i] = u[i]
    BY <1>1, <1>6
  <2> QED BY <2>1, <1>1, <1>6, SeqEqual
<1> QED BY <1>2, <1>7, <1>b

-----------------------------------------------------------------------------
(* Sequences whose messages stand in acc in the same order, at positions    *)
(* from lo to hi.                                                           *)

Ascends(acc, d, lo, hi) ==
    \E r \in [1 .. Len(d) -> lo .. hi] :
        /\ \A i \in 1 .. Len(d) : r[i] \in 1 .. Len(acc) /\ acc[r[i]] = d[i]
        /\ \A i, j \in 1 .. Len(d) : i < j => r[i] <= r[j]

LEMMA AscendsEmpty ==
    ASSUME NEW acc, NEW lo \in Nat, NEW hi \in Nat
    PROVE  Ascends(acc, <<>>, lo, hi)
<1>1. Len(<<>>) = 0 /\ 1 .. 0 = {}
  OBVIOUS
<1>2. [i \in 1 .. 0 |-> lo] \in [1 .. 0 -> lo .. hi]
  BY <1>1
<1> QED BY <1>1, <1>2 DEF Ascends

LEMMA AscendsWiden ==
    ASSUME NEW acc, NEW d, NEW lo \in Nat, NEW hi \in Nat, NEW high \in Nat, hi <= high,
           Ascends(acc, d, lo, hi)
    PROVE  Ascends(acc, d, lo, high)
<1>1. PICK r \in [1 .. Len(d) -> lo .. hi] :
        /\ \A i \in 1 .. Len(d) : r[i] \in 1 .. Len(acc) /\ acc[r[i]] = d[i]
        /\ \A i, j \in 1 .. Len(d) : i < j => r[i] <= r[j]
  BY DEF Ascends
<1>2. \A k \in lo .. hi : k \in lo .. high
  OBVIOUS
<1>3. r \in [1 .. Len(d) -> lo .. high]
  BY <1>2
<1> QED BY <1>1, <1>3 DEF Ascends

(* A push changes no position. *)
LEMMA AscendsGrows ==
    ASSUME NEW acc \in Seq(Messages), NEW m \in Messages, NEW d, NEW lo \in Nat,
           NEW hi \in Nat, Ascends(acc, d, lo, hi)
    PROVE  Ascends(Append(acc, m), d, lo, hi)
<1>1. /\ Len(acc) \in Nat /\ Len(Append(acc, m)) = Len(acc) + 1
      /\ \A i \in 1 .. Len(acc) : Append(acc, m)[i] = acc[i]
  BY LenProperties, AppendProperties
<1>2. PICK r \in [1 .. Len(d) -> lo .. hi] :
        /\ \A i \in 1 .. Len(d) : r[i] \in 1 .. Len(acc) /\ acc[r[i]] = d[i]
        /\ \A i, j \in 1 .. Len(d) : i < j => r[i] <= r[j]
  BY DEF Ascends
<1>3. \A k \in 1 .. Len(acc) : k \in 1 .. Len(acc) + 1
  BY <1>1
<1>4. \A i \in 1 .. Len(d) : r[i] \in 1 .. Len(acc) + 1 /\ Append(acc, m)[r[i]] = d[i]
  BY <1>1, <1>2, <1>3
<1> QED BY <1>1, <1>2, <1>4 DEF Ascends

(* What has the highest position can follow. *)
LEMMA AscendsAppend ==
    ASSUME NEW acc, NEW d \in Seq(Messages), NEW m \in Messages, NEW lo \in Nat,
           NEW hi \in Nat, lo <= hi, hi \in 1 .. Len(acc), acc[hi] = m,
           Ascends(acc, d, lo, hi)
    PROVE  Ascends(acc, Append(d, m), lo, hi)
<1> DEFINE n == Len(d)
           a == Append(d, m)
<1>1. /\ n \in Nat /\ Len(a) = n + 1 /\ a[n + 1] = m
      /\ \A i \in 1 .. n : a[i] = d[i]
  BY LenProperties, AppendProperties
<1>2. PICK r \in [1 .. n -> lo .. hi] :
        /\ \A i \in 1 .. n : r[i] \in 1 .. Len(acc) /\ acc[r[i]] = d[i]
        /\ \A i, j \in 1 .. n : i < j => r[i] <= r[j]
  BY DEF Ascends
<1> HIDE DEF a, n
<1> DEFINE q == [i \in 1 .. n + 1 |-> IF i <= n THEN r[i] ELSE hi]
<1>3. /\ \A i \in 1 .. n : i \in 1 .. n + 1 /\ i <= n
      /\ n + 1 \in 1 .. n + 1 /\ ~(n + 1 <= n)
      /\ \A i \in 1 .. n + 1 : i = n + 1 \/ i \in 1 .. n
  BY <1>1
<1>4. q \in [1 .. n + 1 -> lo .. hi]
  <2>1. \A i \in 1 .. n : r[i] \in lo .. hi
    BY <1>2
  <2>2. hi \in lo .. hi
    OBVIOUS
  <2> QED BY <2>1, <2>2, <1>3
<1>5. (\A i \in 1 .. n : q[i] = r[i]) /\ q[n + 1] = hi
  BY <1>3
<1> HIDE DEF q
<1>6. \A i \in 1 .. n + 1 : q[i] \in 1 .. Len(acc) /\ acc[q[i]] = a[i]
  BY <1>1, <1>2, <1>3, <1>5
<1>7. ASSUME NEW i \in 1 .. n + 1, NEW j \in 1 .. n + 1, i < j PROVE q[i] <= q[j]
  <2>1. i \in 1 .. n
    BY <1>1, <1>7
  <2>2. CASE j \in 1 .. n
    BY <2>1, <2>2, <1>2, <1>5, <1>7
  <2>3. CASE j = n + 1
    <3>1. r[i] \in lo .. hi /\ q[j] = hi /\ q[i] = r[i]
      BY <2>1, <2>3, <1>2, <1>5
    <3> QED BY <3>1
  <2> QED BY <2>2, <2>3, <1>3
<1>8. Ascends(acc, a, lo, hi)
  BY <1>1, <1>4, <1>6, <1>7 DEF Ascends
<1> QED BY <1>8 DEF a

(* The front of a sequence, and one sequence behind another. *)
LEMMA AscendsPrefix ==
    ASSUME NEW acc, NEW d \in Seq(Messages), NEW k \in 0 .. Len(d), NEW lo \in Nat,
           NEW hi \in Nat, Ascends(acc, d, lo, hi)
    PROVE  Ascends(acc, SubSeq(d, 1, k), lo, hi)
<1> DEFINE a == SubSeq(d, 1, k)
<1>1. Len(d) \in Nat /\ k \in Nat /\ k <= Len(d)
  BY LenProperties
<1>2. Len(a) = k /\ \A i \in 1 .. k : a[i] = d[i]
  <2>1. \A i \in 1 .. k : d[i] \in Messages
    BY <1>1, ElementOfSeq
  <2> QED BY <2>1, <1>1, SubSeqProperties
<1>3. PICK r \in [1 .. Len(d) -> lo .. hi] :
        /\ \A i \in 1 .. Len(d) : r[i] \in 1 .. Len(acc) /\ acc[r[i]] = d[i]
        /\ \A i, j \in 1 .. Len(d) : i < j => r[i] <= r[j]
  BY DEF Ascends
<1>4. \A i \in 1 .. k : i \in 1 .. Len(d)
  BY <1>1
<1> DEFINE q == [i \in 1 .. k |-> r[i]]
<1>5. q \in [1 .. k -> lo .. hi] /\ \A i \in 1 .. k : q[i] = r[i]
  BY <1>3, <1>4
<1> HIDE DEF a, q
<1>6. Ascends(acc, a, lo, hi)
  <2>1. \A i \in 1 .. k : q[i] \in 1 .. Len(acc) /\ acc[q[i]] = a[i]
    BY <1>2, <1>3, <1>4, <1>5
  <2>2. \A i, j \in 1 .. k : i < j => q[i] <= q[j]
    BY <1>3, <1>4, <1>5
  <2> QED BY <2>1, <2>2, <1>2, <1>5 DEF Ascends
<1> QED BY <1>6 DEF a

LEMMA AscendsJoin ==
    ASSUME NEW acc, NEW s \in Seq(Messages), NEW t \in Seq(Messages), NEW lo \in Nat,
           NEW mid \in Nat, NEW hi \in Nat, lo <= mid, mid <= hi,
           Ascends(acc, s, lo, mid), Ascends(acc, t, mid, hi)
    PROVE  Ascends(acc, s \o t, lo, hi)
<1> DEFINE n == Len(s)
           k == Len(t)
           u == s \o t
<1>1. /\ n \in Nat /\ k \in Nat /\ Len(u) = n + k
      /\ \A i \in 1 .. n + k : u[i] = IF i <= n THEN s[i] ELSE t[i - n]
  BY LenProperties, ConcatProperties
<1>2. PICK p \in [1 .. n -> lo .. mid] :
        /\ \A i \in 1 .. n : p[i] \in 1 .. Len(acc) /\ acc[p[i]] = s[i]
        /\ \A i, j \in 1 .. n : i < j => p[i] <= p[j]
  BY DEF Ascends
<1>3. PICK q \in [1 .. k -> mid .. hi] :
        /\ \A i \in 1 .. k : q[i] \in 1 .. Len(acc) /\ acc[q[i]] = t[i]
        /\ \A i, j \in 1 .. k : i < j => q[i] <= q[j]
  BY DEF Ascends
<1> HIDE DEF n, k, u
<1> DEFINE r == [i \in 1 .. n + k |-> IF i <= n THEN p[i] ELSE q[i - n]]
<1>4. \A i \in 1 .. n + k : /\ i <= n => i \in 1 .. n
                            /\ ~(i <= n) => i - n \in 1 .. k
  BY <1>1
<1>5. /\ \A i \in 1 .. n : p[i] \in lo .. hi /\ p[i] <= mid
      /\ \A i \in 1 .. k : q[i] \in lo .. hi /\ mid <= q[i]
  <2>1. /\ \A x \in lo .. mid : x \in lo .. hi /\ x <= mid
        /\ \A x \in mid .. hi : x \in lo .. hi /\ mid <= x
    OBVIOUS
  <2> QED BY <2>1, <1>2, <1>3
<1>6. /\ r \in [1 .. n + k -> lo .. hi]
      /\ \A i \in 1 .. n + k : r[i] = IF i <= n THEN p[i] ELSE q[i - n]
  <2>1. \A i \in 1 .. n + k : (IF i <= n THEN p[i] ELSE q[i - n]) \in lo .. hi
    BY <1>4, <1>5
  <2> QED BY <2>1
<1> HIDE DEF r
<1>7. \A i \in 1 .. n + k : r[i] \in 1 .. Len(acc) /\ acc[r[i]] = u[i]
  <2> SUFFICES ASSUME NEW i \in 1 .. n + k
               PROVE  r[i] \in 1 .. Len(acc) /\ acc[r[i]] = u[i]
    OBVIOUS
  <2>1. CASE i <= n
    BY <2>1, <1>1, <1>2, <1>4, <1>6
  <2>2. CASE ~(i <= n)
    BY <2>2, <1>1, <1>3, <1>4, <1>6
  <2> QED BY <2>1, <2>2
<1>8. ASSUME NEW i \in 1 .. n + k, NEW j \in 1 .. n + k, i < j PROVE r[i] <= r[j]
  <2>1. CASE j <= n
    <3>1. i <= n
      BY <2>1, <1>1, <1>8
    <3> QED BY <2>1, <3>1, <1>2, <1>4, <1>6, <1>8
  <2>2. CASE i <= n /\ ~(j <= n)
    <3>1. /\ r[i] = p[i] /\ r[j] = q[j - n] /\ i \in 1 .. n /\ j - n \in 1 .. k
      BY <2>2, <1>4, <1>6
    <3>2. p[i] <= mid /\ mid <= q[j - n] /\ p[i] \in lo .. hi /\ q[j - n] \in lo .. hi
      BY <3>1, <1>5
    <3> QED BY <3>1, <3>2
  <2>3. CASE ~(i <= n)
    <3>1. ~(j <= n) /\ i - n < j - n
      BY <2>3, <1>1, <1>8
    <3>2. r[i] = q[i - n] /\ r[j] = q[j - n]
      BY <2>3, <3>1, <1>6
    <3>3. i - n \in 1 .. k /\ j - n \in 1 .. k
      BY <2>3, <3>1, <1>4
    <3>4. q[i - n] <= q[j - n]
      BY <1>3, <3>1, <3>3
    <3> QED BY <3>2, <3>4
  <2> QED BY <2>1, <2>2, <2>3
<1>9. Ascends(acc, u, lo, hi)
  BY <1>1, <1>6, <1>7, <1>8, ZenonT(40) DEF Ascends
<1> QED BY <1>9 DEF u

LEMMA AscendsSplit ==
    ASSUME NEW acc, NEW s \in Seq(Messages), NEW t \in Seq(Messages), NEW lo \in Nat,
           NEW hi \in Nat, lo <= hi, Ascends(acc, s \o t, lo, hi)
    PROVE  \E mid \in lo .. hi : Ascends(acc, s, lo, mid) /\ Ascends(acc, t, mid, hi)
<1> DEFINE n == Len(s)
           k == Len(t)
           u == s \o t
<1>1. /\ n \in Nat /\ k \in Nat /\ Len(u) = n + k
      /\ \A i \in 1 .. n + k : u[i] = IF i <= n THEN s[i] ELSE t[i - n]
  BY LenProperties, ConcatProperties
<1>2. PICK r \in [1 .. n + k -> lo .. hi] :
        /\ \A i \in 1 .. n + k : r[i] \in 1 .. Len(acc) /\ acc[r[i]] = u[i]
        /\ \A i, j \in 1 .. n + k : i < j => r[i] <= r[j]
  BY <1>1 DEF Ascends
<1> HIDE DEF n, k, u
<1> DEFINE mid == IF n = 0 THEN lo ELSE r[n]
<1>3. mid \in lo .. hi
  <2>1. n # 0 => n \in 1 .. n + k
    BY <1>1
  <2>2. lo \in lo .. hi
    OBVIOUS
  <2> QED BY <2>1, <2>2, <1>2
<1>4. \A i \in 1 .. n : i \in 1 .. n + k /\ r[i] \in lo .. mid /\ u[i] = s[i]
  <2> SUFFICES ASSUME NEW i \in 1 .. n
               PROVE  i \in 1 .. n + k /\ r[i] \in lo .. mid /\ u[i] = s[i]
    OBVIOUS
  <2>1. i \in 1 .. n + k /\ n \in 1 .. n + k /\ n # 0 /\ i <= n /\ (i = n \/ i < n)
    BY <1>1
  <2>2. r[i] <= r[n] /\ r[i] \in lo .. hi /\ r[n] \in lo .. hi
    <3>1. r[i] \in lo .. hi
      BY <2>1, <1>2
    <3> QED BY <3>1, <2>1, <1>2
  <2>3. r[i] \in lo .. mid
    BY <2>1, <2>2
  <2>4. u[i] = s[i]
    BY <2>1, <1>1
  <2> QED BY <2>1, <2>3, <2>4
<1>5. \A i \in 1 .. k : /\ n + i \in 1 .. n + k /\ r[n + i] \in mid .. hi /\ u[n + i] = t[i]
  <2> SUFFICES ASSUME NEW i \in 1 .. k
               PROVE  n + i \in 1 .. n + k /\ r[n + i] \in mid .. hi /\ u[n + i] = t[i]
    OBVIOUS
  <2>1. /\ n + i \in 1 .. n + k /\ ~(n + i <= n) /\ (n + i) - n = i
        /\ n # 0 => n \in 1 .. n + k /\ n < n + i
    BY <1>1
  <2>2. r[n + i] \in lo .. hi
    BY <2>1, <1>2
  <2>3. r[n + i] \in mid .. hi
    <3>1. CASE n = 0
      BY <3>1, <2>2
    <3>2. CASE n # 0
      <4>1. r[n] <= r[n + i] /\ r[n] \in lo .. hi
        BY <3>2, <2>1, <1>2
      <4> QED BY <3>2, <4>1, <2>2
    <3> QED BY <3>1, <3>2
  <2>4. u[n + i] = t[i]
    BY <2>1, <1>1
  <2> QED BY <2>1, <2>3, <2>4
<1> HIDE DEF mid
<1>6. Ascends(acc, s, lo, mid)
  <2> DEFINE p == [i \in 1 .. n |-> r[i]]
  <2>1. p \in [1 .. n -> lo .. mid] /\ \A i \in 1 .. n : p[i] = r[i]
    BY <1>4
  <2> HIDE DEF p
  <2>2. \A i \in 1 .. n : p[i] \in 1 .. Len(acc) /\ acc[p[i]] = s[i]
    BY <2>1, <1>2, <1>4
  <2>3. \A i, j \in 1 .. n : i < j => p[i] <= p[j]
    BY <2>1, <1>2, <1>4
  <2> QED BY <2>1, <2>2, <2>3 DEF Ascends, n
<1>7. Ascends(acc, t, mid, hi)
  <2> DEFINE p == [i \in 1 .. k |-> r[n + i]]
  <2>1. p \in [1 .. k -> mid .. hi] /\ \A i \in 1 .. k : p[i] = r[n + i]
    BY <1>5
  <2> HIDE DEF p
  <2>2. \A i \in 1 .. k : p[i] \in 1 .. Len(acc) /\ acc[p[i]] = t[i]
    BY <2>1, <1>2, <1>5
  <2>3. \A i, j \in 1 .. k : i < j => p[i] <= p[j]
    <3> SUFFICES ASSUME NEW i \in 1 .. k, NEW j \in 1 .. k, i < j PROVE p[i] <= p[j]
      OBVIOUS
    <3>1. n + i < n + j
      BY <1>1
    <3> QED BY <3>1, <2>1, <1>2, <1>5
  <2> QED BY <2>1, <2>2, <2>3 DEF Ascends, k
<1> QED BY <1>3, <1>6, <1>7

(* Adding messages of higher positions, third copies left out, keeps the order. *)
LEMMA AscendsAddAll ==
    ASSUME NEW acc, NEW s \in Seq(Messages), NEW ms \in Seq(Messages), NEW lo \in Nat,
           NEW mid \in Nat, NEW hi \in Nat, lo <= mid, mid <= hi,
           Ascends(acc, s, lo, mid), Ascends(acc, ms, mid, hi)
    PROVE  Ascends(acc, AddAll(s, ms), lo, hi)
<1> DEFINE n == Len(ms)
<1>1. n \in Nat /\ \A k \in 1 .. n : ms[k] \in Messages
  BY LenProperties, ElementOfSeq
<1>2. PICK c \in [0 .. n -> Seq(Messages)] :
         /\ c[0] = s /\ AddAll(s, ms) = c[n]
         /\ \A k \in 1 .. n : c[k] = Add(c[k - 1], ms[k])
  BY AddAllSteps
<1>3. PICK q \in [1 .. n -> mid .. hi] :
        /\ \A i \in 1 .. n : q[i] \in 1 .. Len(acc) /\ acc[q[i]] = ms[i]
        /\ \A i, j \in 1 .. n : i < j => q[i] <= q[j]
  BY DEF Ascends
<1> HIDE DEF n
<1> DEFINE high(k) == IF k = 0 THEN mid ELSE q[k]
           G == {k \in 0 .. n : Ascends(acc, c[k], lo, high(k))}
<1>4. 0 \in G
  BY <1>1, <1>2
<1>5. ASSUME NEW k \in 0 .. n, k < n, Ascends(acc, c[k], lo, high(k))
      PROVE  k + 1 \in 0 .. n /\ Ascends(acc, c[k + 1], lo, high(k + 1))
  <2>1. k + 1 \in 1 .. n /\ k + 1 \in 0 .. n /\ (k + 1) - 1 = k /\ k + 1 # 0
        /\ (k # 0 => k \in 1 .. n /\ k < k + 1)
    BY <1>1, <1>5
  <2>2. high(k + 1) \in mid .. hi /\ high(k + 1) = q[k + 1]
    BY <2>1, <1>3
  <2>3. high(k) \in mid .. hi /\ high(k) <= high(k + 1)
    <3>1. CASE k = 0
      BY <3>1, <2>2
    <3>2. CASE k # 0
      BY <3>2, <2>1, <2>2, <1>3
    <3> QED BY <3>1, <3>2
  <2>4. c[k + 1] = Add(c[k], ms[k + 1]) /\ ms[k + 1] \in Messages /\ c[k] \in Seq(Messages)
    BY <2>1, <1>1, <1>2
  <2>5. high(k + 1) \in 1 .. Len(acc) /\ acc[high(k + 1)] = ms[k + 1]
    BY <2>1, <2>2, <1>3
  <2> HIDE DEF high
  <2>6. high(k) \in Nat /\ high(k + 1) \in Nat /\ lo <= high(k + 1)
    BY <2>2, <2>3
  <2>7. Ascends(acc, c[k], lo, high(k + 1))
    BY <2>3, <2>6, <1>5, AscendsWiden
  <2>8. Ascends(acc, Append(c[k], ms[k + 1]), lo, high(k + 1))
    BY <2>4, <2>5, <2>6, <2>7, AscendsAppend
  <2> QED BY <2>1, <2>4, <2>7, <2>8, AddType
<1>6. Ascends(acc, c[n], lo, high(n))
  <2>1. n \in 0 .. n
    BY <1>1
  <2>2. \A k \in 0 .. n : k \in G /\ k < n => k + 1 \in G
    <3> HIDE DEF high
    <3> QED BY <1>5
  <2>3. n \in G
    <3> HIDE DEF G
    <3> QED BY <2>1, <2>2, <1>1, <1>4, BoundedInduction
  <2> QED BY <2>3
<1>7. high(n) \in mid .. hi
  <2>1. n # 0 => n \in 1 .. n
    BY <1>1
  <2> QED BY <2>1, <1>3
<1> HIDE DEF high
<1>8. high(n) \in Nat /\ high(n) <= hi
  BY <1>7
<1> QED BY <1>2, <1>6, <1>8, AscendsWiden

-----------------------------------------------------------------------------
(* The invariant of the files. *)

FileTypes ==
    /\ files \in Seq(LogFile) /\ buffer \in Seq(Messages)
    /\ stream => files # <<>>
    /\ file_size \in Nat /\ max_file_size \in MaxFileSizes
    /\ stream \in BOOLEAN /\ enospc \in BOOLEAN /\ fresh \in BOOLEAN
    /\ disk_full \in BOOLEAN /\ fills \in 0 .. MaxFills
    /\ size_checked \in BOOLEAN /\ closed \in BOOLEAN

(* Without a stream nothing is buffered, and the size is that of no file. *)
ClosedStream == ~stream => buffer = <<>> /\ file_size = 0

DiskWorks == fills = 0 => ~disk_full /\ ~enospc

(* What flush() returned for is in a file, and flushed in the open one. *)
SyncedInFile ==
    /\ files # <<>> => LastFile.durable <= Len(LastFile.data)
    /\ fills = 0 => flushed <= Len(AllData) - Unsynced

Ended == closed => apc = "exit" /\ buffer = <<>>

(* A message whose write failed may be in the buffer: it is the next one to *)
(* be written again.                                                        *)
InAcceptedOrder == Ascends(accepted, AllData \o buffer, 1, Len(stored) + 1)

LoggerInv ==
    /\ IInv /\ FileTypes /\ ClosedStream /\ DiskWorks /\ ExactWhileDiskWorks
    /\ SyncedInFile /\ FileSizeExact /\ Ended /\ InAcceptedOrder

-----------------------------------------------------------------------------
(* The steps by what they do to the files. *)

(* The last file with what write(2) took of the buffer. *)
Written(out) == SetLast(files, AddAll(LastData, out))

Still ==
    /\ UNCHANGED <<stream, file_size, files, buffer, stored, flushed>>
    /\ closed' => closed
    /\ fills' = 0 => fills = 0 /\ (~disk_full => ~disk_full') /\ enospc' = enospc

(* fs are the files left when a new one is created, or fails to be. *)
Creates(fs) ==
    /\ buffer' = <<>>
    /\ files' = IF stream' THEN Append(fs, NewFile) ELSE fs
    /\ file_size' = IF stream' THEN HeaderLen ELSE 0
    /\ stream' \in BOOLEAN
    /\ UNCHANGED <<stored, flushed, closed, disk_full, fills>>
    /\ fills = 0 /\ ~disk_full /\ (~enospc) => ~enospc'

WritesEntry ==
    /\ apc = "writing"
    /\ Fwrite(Head(table), MessageLen[Head(table)], ~enospc')
    /\ stored' = IF enospc' THEN stored ELSE Append(stored, Head(table))
    /\ UNCHANGED <<flushed, closed, diskVars>>

Flushes ==
    /\ FlushFile
    /\ stored' = stored /\ flushed' \in {flushed, Len(stored)}
    /\ UNCHANGED diskVars

(* A step of a caller, or of the async thread between its file operations, *)
(* moves no entry to the file.                                              *)
LEMMA CallersStill == Callers \/ AsyncElsewhere => Still
<1> USE DEF fileSide, fileVars, diskVars, disk, Still
<1>1. ASSUME Callers PROVE Still
  <2>1. UNCHANGED fileSide
    BY <1>1 DEF Callers
  <2>2. UNCHANGED <<stored, flushed>>
    <3>1. ASSUME NEW l \in Levels, SetLogLevel(l) \/ SetSyncLoglevel(l)
          PROVE  UNCHANGED <<stored, flushed>>
      BY <3>1 DEF SetLogLevel, SetSyncLoglevel
    <3>2. ASSUME NEW w \in Writers, NEW l \in Levels, BeginLog(w, l)
          PROVE  UNCHANGED <<stored, flushed>>
      BY <3>2 DEF BeginLog
    <3>3. ASSUME NEW w \in Writers, WriterStep(w) \/ RacingDeallocate(w)
          PROVE  UNCHANGED <<stored, flushed>>
      BY <3>3, WriterFrame DEF RacingDeallocate
    <3>4. ASSUME NEW t \in cv, StopWaiting(t) PROVE UNCHANGED <<stored, flushed>>
      BY <3>4 DEF StopWaiting, EndWait
    <3>5. CASE Deinit
      BY <3>5 DEF Deinit
    <3> QED BY <1>1, <3>1, <3>2, <3>3, <3>4, <3>5 DEF Callers
  <2> QED BY <2>1, <2>2
<1>2. ASSUME AsyncElsewhere PROVE Still
  <2>1. UNCHANGED fileSide
    BY <1>2 DEF AsyncElsewhere
  <2>2. UNCHANGED <<stored, flushed>>
    BY <1>2 DEF AsyncElsewhere, AsyncLock, AsyncWait, WaitWhile, AsyncBackoff,
       AsyncExit, ExitIf, AsyncTake, AsyncDeallocate, AsyncRelock, Relock
  <2> QED BY <2>1, <2>2
<1> QED BY <1>1, <1>2

(* A file is created behind those left by the caller. *)
LEMMA CreateEffect ==
    ASSUME NEW ok \in BOOLEAN, NEW fs, NEW err \in BOOLEAN,
           CreateFile(ok, fs, err),
           UNCHANGED <<stored, flushed, closed, diskVars>>,
           ~disk_full /\ ~enospc => ~err
    PROVE  Creates(fs)
<1> USE DEF CreateFile, CreateSized, Creates, NewFile, diskVars
<1>1. CASE ok
  <2>1. /\ buffer' = <<>> /\ stream' = TRUE /\ file_size' = 0 + HeaderLen
        /\ files' = Append(fs, NewFile)
        /\ enospc' \in IF disk_full THEN {TRUE} ELSE {err, FALSE}
    BY <1>1
  <2>2. ~disk_full /\ ~enospc => enospc' = FALSE
    BY <2>1
  <2> QED BY <2>1, <2>2, FileAssumption
<1>2. CASE ~ok
  BY <1>2
<1> QED BY <1>1, <1>2

(* Every step does one of four things to the files. *)
LEMMA FileSteps ==
    ASSUME TypeOK, FileTypes, ClosedStream, Ended, [LoggerNext]_loggerVars
    PROVE  \/ Still
           \/ stream /\ \E out \in Taken : Creates(Written(out))
           \/ ~stream /\ Creates(files)
           \/ WritesEntry
           \/ Flushes /\ closed' = closed
           \/ Flushes /\ apc = "exit" /\ apc' = "exit"
<1>1. CASE UNCHANGED loggerVars \/ Closed
  BY <1>1 DEF loggerVars, Closed, vars, disk, fileVars, diskVars, Still
<1>2. CASE AsyncRotate
  <2>1. PICK out \in Taken, ok \in BOOLEAN : CreateFile(ok, Written(out), enospc \/ NoRoom)
    BY <1>2 DEF AsyncRotate, Rotate, Written
  <2>2. UNCHANGED <<stored, flushed, closed, diskVars>>
    BY <1>2 DEF AsyncRotate, vars, disk
  <2>3. ~disk_full /\ ~enospc => ~(enospc \/ NoRoom)
    BY DEF NoRoom
  <2>4. (enospc \/ NoRoom) \in BOOLEAN
    OBVIOUS
  <2>5. stream
    <3>1. file_size > max_file_size /\ max_file_size \in Nat
      BY <1>2, LoggerAssumption DEF AsyncRotate, OverSize, FileTypes
    <3> QED BY <3>1 DEF ClosedStream
  <2> QED BY <2>1, <2>2, <2>3, <2>4, <2>5, CreateEffect
<1>3. CASE AsyncReopen
  <2>1. ~stream /\ CreateFile(TRUE, files, enospc)
    BY <1>3 DEF AsyncReopen, Reopen
  <2>2. UNCHANGED <<stored, flushed, closed, diskVars>>
    BY <1>3 DEF AsyncReopen, vars, disk
  <2> QED BY <2>1, <2>2, CreateEffect DEF FileTypes
<1>4. CASE AsyncWriteFile
  <2>1. PICK ok \in BOOLEAN :
           /\ AsyncWrite(ok)
           /\ \/ Fwrite(Head(table), MessageLen[Head(table)], ok)
              \/ ~ok /\ Reopen(FALSE)
    BY <1>4 DEF AsyncWriteFile
  <2>2. /\ apc = "writing" /\ UNCHANGED <<flushed, closed, diskVars>>
        /\ stored' = IF ok THEN Append(stored, Head(table)) ELSE stored
    BY <1>4, <2>1 DEF AsyncWriteFile, AsyncWrite
  <2>3. CASE Fwrite(Head(table), MessageLen[Head(table)], ok)
    <3>1. ok = ~enospc'
      BY <2>3 DEF Fwrite
    <3> QED BY <2>2, <2>3, <3>1 DEF WritesEntry
  <2>4. CASE ~ok /\ Reopen(FALSE)
    <3>1. ~stream /\ CreateFile(FALSE, files, enospc) /\ stored' = stored
      BY <2>2, <2>4 DEF Reopen
    <3> QED BY <2>2, <3>1, CreateEffect DEF FileTypes
  <2> QED BY <2>1, <2>3, <2>4
<1>5. CASE AsyncFlushFile
  BY <1>5 DEF AsyncFlushFile, AsyncFlush, Flushes
<1>6. CASE CloseFile
  BY <1>6 DEF CloseFile, Flushes, vars, disk
<1>7. CASE Callers \/ AsyncElsewhere
  BY <1>7, CallersStill
<1>8. ASSUME NEW n \in MaxFileSizes, SetFileRotateSize(n) PROVE Still
  BY <1>8 DEF SetFileRotateSize, vars, disk, fileVars, diskVars, Still
<1>9. CASE World
  <2>1. fills \in Nat
    BY FileAssumption DEF FileTypes
  <2> QED BY <1>9, <2>1 DEF World, DiskFills, DiskFrees, Tick, vars, disk, fileVars,
                            diskVars, Still
<1> QED BY <1>1, <1>2, <1>3, <1>4, <1>5, <1>6, <1>7, <1>8, <1>9
        DEF LoggerNext, LoggerAsyncStep

LEMMA AddAllGrows ==
    ASSUME NEW s \in Seq(Messages), NEW ms \in Seq(Messages)
    PROVE  AddAll(s, ms) \in Seq(Messages) /\ Len(s) <= Len(AddAll(s, ms))
<1> DEFINE n == Len(ms)
<1>1. n \in Nat /\ Len(s) \in Nat /\ \A k \in 1 .. n : ms[k] \in Messages
  BY LenProperties, ElementOfSeq
<1>2. PICK c \in [0 .. n -> Seq(Messages)] :
         /\ c[0] = s /\ AddAll(s, ms) = c[n]
         /\ \A k \in 1 .. n : c[k] = Add(c[k - 1], ms[k])
  BY AddAllSteps
<1> HIDE DEF n
<1> DEFINE G == {k \in 0 .. n : Len(s) <= Len(c[k])}
<1>3. 0 \in G
  BY <1>1, <1>2
<1>4. ASSUME NEW k \in 0 .. n, k < n, Len(s) <= Len(c[k])
      PROVE  k + 1 \in 0 .. n /\ Len(s) <= Len(c[k + 1])
  <2>1. k + 1 \in 1 .. n /\ k + 1 \in 0 .. n /\ (k + 1) - 1 = k
    BY <1>1, <1>4
  <2>2. /\ c[k + 1] = Add(c[k], ms[k + 1]) /\ ms[k + 1] \in Messages
        /\ c[k] \in Seq(Messages) /\ Len(c[k]) \in Nat
    BY <2>1, <1>1, <1>2, LenProperties
  <2>3. Len(Append(c[k], ms[k + 1])) = Len(c[k]) + 1
    BY <2>2, AppendProperties
  <2>4. c[k + 1] = c[k] \/ c[k + 1] = Append(c[k], ms[k + 1])
    BY <2>2, AddType
  <2> QED BY <2>1, <2>2, <2>3, <2>4, <1>1, <1>4
<1>5. n \in 0 .. n
  BY <1>1
<1>6. n \in G
  <2>1. \A k \in 0 .. n : k \in G /\ k < n => k + 1 \in G
    BY <1>4
  <2> HIDE DEF G
  <2> QED BY <2>1, <1>1, <1>3, <1>5, BoundedInduction
<1> QED BY <1>2, <1>5, <1>6

(* write(2) takes the front of the buffer, and all of it while the disk works. *)
LEMMA TakenType ==
    ASSUME FileTypes, NEW out \in Taken
    PROVE  /\ out \in Seq(Messages)
           /\ \E k \in 0 .. Len(buffer) : out = SubSeq(buffer, 1, k)
           /\ ~disk_full => out = buffer
<1>1. buffer \in Seq(Messages) /\ Len(buffer) \in Nat
  BY LenProperties DEF FileTypes
<1>2. CASE disk_full
  <2>1. PICK k \in 0 .. Len(buffer) : out = SubSeq(buffer, 1, k)
    BY <1>2 DEF Taken
  <2>2. \A i \in 1 .. k : buffer[i] \in Messages
    BY <1>1, <2>1, ElementOfSeq, SMTT(30)
  <2> QED BY <1>1, <1>2, <2>1, <2>2, SubSeqProperties
<1>3. CASE ~disk_full
  <2>1. out = buffer
    BY <1>3 DEF Taken
  <2>2. buffer = SubSeq(buffer, 1, Len(buffer)) /\ Len(buffer) \in 0 .. Len(buffer)
    BY <1>1, SubSeqFull
  <2> QED BY <1>1, <2>1, <2>2
<1> QED BY <1>2, <1>3

(* What the files hold together. *)
LEMMA AllType ==
    ASSUME FileTypes
    PROVE  AllData \in Seq(Messages) /\ AllData = AllOf(files)
<1>1. AllData = AllOf(files)
  BY DEF AllData, AllOf
<1>2. AllOf(files) \in Seq(Messages)
  BY PilesExist DEF FileTypes
<1> QED BY <1>1, <1>2

(* The last file, if there is one. *)
LEMMA LastType ==
    ASSUME FileTypes, files # <<>>
    PROVE  /\ LastData \in Seq(Messages) /\ LastFile \in LogFile /\ LastFile.data = LastData
           /\ Len(files) \in Nat \ {0}
<1>1. Len(files) \in Nat \ {0} /\ files[Len(files)] \in LogFile
  <2>1. Len(files) \in Nat \ {0}
    BY EmptySeq DEF FileTypes
  <2>2. Len(files) \in 1 .. Len(files)
    BY <2>1
  <2> QED BY <2>1, <2>2, ElementOfSeq DEF FileTypes
<1> QED BY <1>1 DEF LastData, LastFile, LogFile

(* The last file is written at its end, whatever write(2) takes. *)
LEMMA WrittenType ==
    ASSUME FileTypes, files # <<>>, NEW out \in Taken
    PROVE  /\ Written(out) \in Seq(LogFile) /\ Written(out) # <<>>
           /\ Len(Written(out)) = Len(files)
           /\ Written(out)[Len(files)].data = AddAll(LastData, out)
           /\ Written(out)[Len(files)].durable = LastFile.durable
           /\ AddAll(LastData, out) \in Seq(Messages)
           /\ Len(LastData) <= Len(AddAll(LastData, out))
<1>1. LastData \in Seq(Messages) /\ out \in Seq(Messages)
  BY LastType, TakenType
<1>2. AddAll(LastData, out) \in Seq(Messages) /\ Len(LastData) <= Len(AddAll(LastData, out))
  BY <1>1, AddAllGrows
<1> QED BY <1>2, SetLastType DEF FileTypes, Written, LastFile

LEMMA WrittenEnd ==
    ASSUME FileTypes, files # <<>>
    PROVE  \E p \in Seq(Messages) :
              /\ AllData = p \o LastData
              /\ \A out \in Taken :
                    /\ AllOf(Written(out)) = p \o AddAll(LastData, out)
                    /\ AllOf(SyncLast(Written(out))) = p \o AddAll(LastData, out)
<1>1. files \in Seq(LogFile) /\ files # <<>>
  BY DEF FileTypes
<1>2. PICK p \in Seq(Messages) :
              /\ AllOf(files) = p \o files[Len(files)].data
              /\ \A gs \in Seq(LogFile) :
                    /\ Len(gs) = Len(files)
                    /\ \A i \in 1 .. Len(files) - 1 : gs[i].data = files[i].data
                    => AllOf(gs) = p \o gs[Len(files)].data
  BY <1>1, LastIsEnd
<1>3. ASSUME NEW out \in Taken
      PROVE  /\ AllOf(Written(out)) = p \o AddAll(LastData, out)
             /\ AllOf(SyncLast(Written(out))) = p \o AddAll(LastData, out)
  <2> DEFINE w == Written(out)
             z == SyncLast(Written(out))
  <2>1. /\ w \in Seq(LogFile) /\ w # <<>> /\ Len(w) = Len(files)
        /\ w[Len(files)].data = AddAll(LastData, out)
    BY WrittenType
  <2>2. \A i \in 1 .. Len(files) - 1 : w[i].data = files[i].data
    BY <1>1, LastType, TakenType, AddAllGrows, SetLastType DEF Written
  <2>3. /\ z \in Seq(LogFile) /\ Len(z) = Len(w)
        /\ z[Len(w)].data = w[Len(w)].data
        /\ \A i \in 1 .. Len(w) - 1 : z[i].data = w[i].data
    <3> HIDE DEF w
    <3> QED BY <2>1, SyncLastType DEF w
  <2> HIDE DEF w, z
  <2>4. AllOf(w) = p \o AddAll(LastData, out)
    BY <2>1, <2>2, <1>2
  <2>5. AllOf(z) = p \o AddAll(LastData, out)
    <3>1. \A i \in 1 .. Len(files) - 1 : z[i].data = files[i].data
      BY <2>1, <2>2, <2>3
    <3>2. Len(z) = Len(files) /\ z[Len(files)].data = AddAll(LastData, out)
      BY <2>1, <2>3
    <3> QED BY <2>3, <3>1, <3>2, <1>2
  <2> QED BY <2>4, <2>5 DEF w, z
<1> QED BY <1>2, <1>3, AllType DEF LastData

(* The plain variables keep their types. *)
LEMMA SmallTypes ==
    ASSUME FileTypes, [LoggerNext]_loggerVars
    PROVE  /\ max_file_size' \in MaxFileSizes
           /\ stream' \in BOOLEAN /\ enospc' \in BOOLEAN /\ fresh' \in BOOLEAN
           /\ disk_full' \in BOOLEAN /\ fills' \in 0 .. MaxFills
           /\ size_checked' \in BOOLEAN /\ closed' \in BOOLEAN
<1> USE DEF FileTypes, fileVars, diskVars
<1>1. /\ max_file_size' \in MaxFileSizes /\ size_checked' \in BOOLEAN
      /\ closed' \in BOOLEAN
  BY DEF LoggerNext, loggerVars, LoggerAsyncStep, AsyncRotate, AsyncReopen, AsyncWriteFile,
         AsyncFlushFile, AsyncElsewhere, fileSide, Callers, SetFileRotateSize, CloseFile,
         World, Closed
<1>2. disk_full' \in BOOLEAN /\ fills' \in 0 .. MaxFills
  <2>1. CASE World
    <3>1. MaxFills \in Nat /\ fills \in 0 .. MaxFills /\ disk_full \in BOOLEAN
      BY FileAssumption
    <3>2. CASE DiskFills
      <4>1. disk_full' = TRUE
        BY <3>2 DEF DiskFills
      <4>2. fills' = fills + 1 /\ fills < MaxFills
        BY <3>2 DEF DiskFills
      <4>3. fills' \in 0 .. MaxFills
        BY ONLY <3>1, <4>2
      <4> QED BY <4>1, <4>3
    <3>3. CASE DiskFrees \/ Tick
      BY <3>1, <3>3 DEF DiskFrees, Tick
    <3> QED BY <2>1, <3>2, <3>3 DEF World
  <2>2. CASE ~World
    BY <2>2 DEF LoggerNext, loggerVars, LoggerAsyncStep, AsyncRotate, AsyncReopen,
         AsyncWriteFile, AsyncFlushFile, AsyncElsewhere, fileSide, Callers,
         SetFileRotateSize, CloseFile, Closed
  <2> QED BY <2>1, <2>2
<1>3. stream' \in BOOLEAN /\ enospc' \in BOOLEAN /\ fresh' \in BOOLEAN
  <2>1. ASSUME NEW ok \in BOOLEAN, NEW fs, NEW err \in BOOLEAN, CreateFile(ok, fs, err)
        PROVE  stream' \in BOOLEAN /\ enospc' \in BOOLEAN /\ fresh' \in BOOLEAN
    BY <2>1 DEF CreateFile, CreateSized
  <2>2. ASSUME NEW m, NEW len, NEW ok \in BOOLEAN, Fwrite(m, len, ok)
        PROVE  stream' \in BOOLEAN /\ enospc' \in BOOLEAN /\ fresh' \in BOOLEAN
    BY <2>2 DEF Fwrite
  <2>3. ASSUME FlushFile
        PROVE  stream' \in BOOLEAN /\ enospc' \in BOOLEAN /\ fresh' \in BOOLEAN
    BY <2>3 DEF FlushFile, FlushWith, NoRoom
  <2>4. CASE AsyncRotate
    <3>1. (enospc \/ NoRoom) \in BOOLEAN
      OBVIOUS
    <3> QED BY <2>1, <2>4, <3>1 DEF AsyncRotate, Rotate
  <2>5. CASE AsyncReopen
    BY <2>1, <2>5 DEF AsyncReopen, Reopen
  <2>6. CASE AsyncWriteFile
    BY <2>1, <2>2, <2>6 DEF AsyncWriteFile, Reopen
  <2>7. CASE AsyncFlushFile \/ CloseFile
    BY <2>3, <2>7 DEF AsyncFlushFile, CloseFile
  <2>8. CASE World
    BY <2>8 DEF World, DiskFills, DiskFrees, Tick
  <2>9. CASE ~(AsyncRotate \/ AsyncReopen \/ AsyncWriteFile \/ AsyncFlushFile
               \/ CloseFile \/ World)
    BY <2>9 DEF LoggerNext, loggerVars, LoggerAsyncStep, AsyncElsewhere, fileSide,
         Callers, SetFileRotateSize, Closed
  <2> QED BY <2>4, <2>5, <2>6, <2>7, <2>8, <2>9
<1> QED BY <1>1, <1>2, <1>3

(* A file that is created is behind the others, and adds no message. *)
LEMMA CreatesType ==
    ASSUME NEW fs \in Seq(LogFile), Creates(fs)
    PROVE  /\ files' \in Seq(LogFile) /\ (stream' => files' # <<>>)
           /\ AllOf(files') = AllOf(fs)
           /\ buffer' = <<>> /\ buffer' \in Seq(Messages) /\ file_size' \in Nat
           /\ stream' => LastFile' = NewFile
           /\ ~stream' => files' = fs
<1>1. /\ Append(fs, NewFile) \in Seq(LogFile)
      /\ Len(Append(fs, NewFile)) = Len(fs) + 1
      /\ Append(fs, NewFile)[Len(fs) + 1] = NewFile
      /\ AllOf(Append(fs, NewFile)) = AllOf(fs)
  BY NewFileAddsNothing
<1>2. Append(fs, NewFile) # <<>>
  BY <1>1, LenProperties, EmptySeq
<1> QED BY <1>1, <1>2, EmptySeq, FileAssumption DEF Creates, LastFile

(* What a write(2) and a flush leave. *)
LEMMA WritesType ==
    ASSUME TypeOK, FileTypes, files # <<>>, WritesEntry \/ (Flushes /\ stream)
    PROVE  /\ files' \in Seq(LogFile) /\ files' # <<>> /\ buffer' \in Seq(Messages)
           /\ file_size' \in Nat
<1>0. files \in Seq(LogFile) /\ files # <<>> /\ buffer \in Seq(Messages) /\ file_size \in Nat
  BY DEF FileTypes
<1>1. ASSUME NEW out \in Taken
      PROVE  /\ Written(out) \in Seq(LogFile) /\ Written(out) # <<>>
             /\ SyncLast(Written(out)) \in Seq(LogFile) /\ SyncLast(Written(out)) # <<>>
  <2>1. Written(out) \in Seq(LogFile) /\ Written(out) # <<>>
    BY WrittenType
  <2> QED BY <2>1, SyncLastType
<1>2. CASE WritesEntry
  <2>1. Head(table) \in Messages /\ MessageLen[Head(table)] \in Nat
    BY <1>2, HeadIsMessage DEF WritesEntry
  <2>2. Fwrite(Head(table), MessageLen[Head(table)], ~enospc')
    BY <1>2 DEF WritesEntry
  <2>3. file_size' \in Nat
    BY <1>0, <2>1, <2>2 DEF Fwrite
  <2>4. CASE buffer' = Add(buffer, Head(table)) /\ files' = files
    BY <2>1, <2>3, <2>4, <1>0, AddType
  <2>5. ASSUME NEW out \in Taken, files' = Written(out),
               buffer' = IF disk_full THEN <<>> ELSE <<Head(table)>>
        PROVE  /\ files' \in Seq(LogFile) /\ files' # <<>> /\ buffer' \in Seq(Messages)
               /\ file_size' \in Nat
    BY <2>1, <2>3, <2>5, <1>1, EmptySeq
  <2> QED BY <2>2, <2>4, <2>5 DEF Fwrite, Written
<1>3. CASE Flushes /\ stream
  <2>1. /\ \E out \in Taken : files' = SyncLast(Written(out))
        /\ buffer' = <<>> /\ file_size' = file_size
    BY <1>3 DEF Flushes, FlushFile, FlushWith, Written
  <2> QED BY <2>1, <1>0, <1>1, EmptySeq
<1> QED BY <1>2, <1>3

LEMMA FileTypesNext ==
    ASSUME TypeOK, FileTypes, ClosedStream, Ended, [LoggerNext]_loggerVars
    PROVE  FileTypes'
<1>1. /\ max_file_size' \in MaxFileSizes
      /\ stream' \in BOOLEAN /\ enospc' \in BOOLEAN /\ fresh' \in BOOLEAN
      /\ disk_full' \in BOOLEAN /\ fills' \in 0 .. MaxFills
      /\ size_checked' \in BOOLEAN /\ closed' \in BOOLEAN
  BY SmallTypes
<1>0. /\ files \in Seq(LogFile) /\ (stream => files # <<>>)
      /\ buffer \in Seq(Messages) /\ file_size \in Nat
  BY DEF FileTypes
<1>2. /\ files' \in Seq(LogFile) /\ (stream' => files' # <<>>)
      /\ buffer' \in Seq(Messages) /\ file_size' \in Nat
  <2>1. CASE Still
    BY <2>1, <1>0 DEF Still
  <2>2. ASSUME stream, NEW out \in Taken, Creates(Written(out))
        PROVE  /\ files' \in Seq(LogFile) /\ (stream' => files' # <<>>)
               /\ buffer' \in Seq(Messages) /\ file_size' \in Nat
    <3>1. Written(out) \in Seq(LogFile)
      BY <1>0, <2>2, WrittenType
    <3> QED BY <2>2, <3>1, CreatesType
  <2>3. CASE Creates(files)
    BY <2>3, <1>0, CreatesType
  <2>4. CASE WritesEntry \/ (Flushes /\ stream)
    <3>1. stream
      BY <2>4 DEF WritesEntry, Fwrite
    <3> QED BY <1>0, <2>4, <3>1, WritesType
  <2>5. CASE Flushes /\ ~stream
    BY <2>5, <1>0 DEF Flushes, FlushFile, FlushWith, fileVars
  <2> QED BY <2>1, <2>2, <2>3, <2>4, <2>5, FileSteps
<1> QED BY <1>1, <1>2 DEF FileTypes

LEMMA ClosedStreamNext ==
    ASSUME TypeOK, FileTypes, ClosedStream, Ended, [LoggerNext]_loggerVars
    PROVE  ClosedStream'
<1> USE DEF ClosedStream
<1>1. CASE Still
  BY <1>1 DEF Still
<1>2. ASSUME NEW fs, Creates(fs) PROVE ClosedStream'
  BY <1>2 DEF Creates
<1>3. CASE WritesEntry
  BY <1>3 DEF WritesEntry, Fwrite
<1>4. CASE Flushes
  BY <1>4 DEF Flushes, FlushFile, FlushWith, fileVars
<1> QED BY <1>1, <1>2, <1>3, <1>4, FileSteps

LEMMA DiskWorksNext ==
    ASSUME TypeOK, FileTypes, ClosedStream, Ended, DiskWorks, [LoggerNext]_loggerVars
    PROVE  DiskWorks'
<1> USE DEF DiskWorks
<1>1. CASE Still
  BY <1>1 DEF Still
<1>2. ASSUME NEW fs, Creates(fs) PROVE DiskWorks'
  BY <1>2 DEF Creates
<1>3. CASE WritesEntry
  BY <1>3 DEF WritesEntry, Fwrite, diskVars
<1>4. CASE Flushes
  BY <1>4 DEF Flushes, FlushFile, FlushWith, fileVars, diskVars, NoRoom
<1> QED BY <1>1, <1>2, <1>3, <1>4, FileSteps
-----------------------------------------------------------------------------
(* While the disk works. *)

(* No message is written twice, nor was the one that is written next. *)
LEMMA FileUnrepeated ==
    ASSUME IInv
    PROVE  /\ stored \in Seq(Messages) /\ Unrepeated(stored)
           /\ apc = "writing" => Unrepeated(Append(stored, Head(table)))
<1>1. /\ stored \in Seq(Messages) /\ table \in Seq(Messages) /\ memtable \in Seq(Messages)
      /\ Unstored \in Seq(Messages)
  BY UnstoredType DEF IInv, TypeOK, QueueTypes
<1>2. stored \o Unstored \in Seq(Messages)
  BY <1>1, ConcatProperties
<1>3. Unrepeated((stored \o Unstored) \o memtable)
  BY DEF IInv, OrderInv, Numbered
<1>4. Unrepeated(stored \o Unstored)
  BY ONLY <1>1, <1>2, <1>3, UnrepeatedParts
<1>5. Unrepeated(stored)
  BY ONLY <1>1, <1>4, UnrepeatedParts
<1>6. ASSUME apc = "writing" PROVE Unrepeated(Append(stored, Head(table)))
  <2>1. Unstored = table
    BY <1>6 DEF Unstored
  <2>2. table # <<>> /\ Head(table) \in Messages /\ Tail(table) \in Seq(Messages)
    BY <1>6, HeadIsMessage DEF IInv
  <2>3. Append(stored, Head(table)) \o Tail(table) = stored \o table
    BY ONLY <1>1, <2>2, HeadToFirst
  <2>4. Append(stored, Head(table)) \in Seq(Messages)
    BY <1>1, <2>2, AppendProperties
  <2>5. Unrepeated(Append(stored, Head(table)) \o Tail(table))
    BY ONLY <1>4, <2>1, <2>3
  <2> QED BY ONLY <2>2, <2>4, <2>5, UnrepeatedParts
<1> QED BY <1>1, <1>5, <1>6

(* write(2) takes all of the buffer, and there is no third copy in it. *)
LEMMA WrittenExact ==
    ASSUME IInv, FileTypes, files # <<>>, DiskWorks, ExactWhileDiskWorks, fills = 0, NEW out \in Taken
    PROVE  /\ out = buffer /\ AddAll(LastData, out) = LastData \o buffer
           /\ AllOf(Written(out)) = stored /\ AllOf(SyncLast(Written(out))) = stored
<1>1. out = buffer
  BY TakenType DEF DiskWorks
<1>2. PICK p \in Seq(Messages) :
              /\ AllData = p \o LastData
              /\ AllOf(Written(out)) = p \o AddAll(LastData, out)
              /\ AllOf(SyncLast(Written(out))) = p \o AddAll(LastData, out)
  BY WrittenEnd
<1>3. LastData \in Seq(Messages) /\ buffer \in Seq(Messages)
  BY LastType DEF FileTypes
<1>4. (p \o LastData) \o buffer = p \o (LastData \o buffer) /\ LastData \o buffer \in Seq(Messages)
  BY <1>2, <1>3, ConcatAssociative, ConcatProperties
<1>5. stored = p \o (LastData \o buffer)
  BY <1>2, <1>4 DEF ExactWhileDiskWorks
<1>6. Unrepeated(p \o (LastData \o buffer))
  BY <1>5, FileUnrepeated
<1>7. Unrepeated(LastData \o buffer)
  BY ONLY <1>2, <1>4, <1>6, UnrepeatedParts
<1>8. AddAll(LastData, buffer) = LastData \o buffer
  BY ONLY <1>3, <1>7, AddAllPlain
<1> QED BY <1>1, <1>2, <1>5, <1>8

(* fwrite() takes the entry. *)
LEMMA EntryExact ==
    ASSUME IInv, FileTypes, DiskWorks, ExactWhileDiskWorks, fills = 0, WritesEntry
    PROVE  /\ enospc' = FALSE /\ stored' = Append(stored, Head(table)) /\ fills' = fills
           /\ Head(table) \in Messages /\ MessageLen[Head(table)] \in Nat
           /\ Add(buffer, Head(table)) = Append(buffer, Head(table))
           /\ AllData \o Append(buffer, Head(table)) = Append(stored, Head(table))
           /\ file_size' = file_size + MessageLen[Head(table)]
           /\ stream /\ stream'
           /\ \/ buffer' = Append(buffer, Head(table)) /\ files' = files
              \/ \E out \in Taken : files' = Written(out) /\ buffer' = <<Head(table)>>
<1>1. Head(table) \in Messages /\ MessageLen[Head(table)] \in Nat
  BY HeadIsMessage DEF IInv, WritesEntry
<1>2. Fwrite(Head(table), MessageLen[Head(table)], ~enospc') /\ fills' = fills
  BY DEF WritesEntry, diskVars
<1>3. enospc' = FALSE /\ ~disk_full
  BY <1>2 DEF Fwrite, DiskWorks, FileTypes
<1>4. AllData \in Seq(Messages) /\ buffer \in Seq(Messages)
  BY AllType DEF FileTypes
<1>5. AllData \o Append(buffer, Head(table)) = Append(stored, Head(table))
  <2>1. Append(AllData \o buffer, Head(table)) = AllData \o Append(buffer, Head(table))
    <3>1. <<Head(table)>> \in Seq(Messages) /\ AllData \o buffer \in Seq(Messages)
      BY <1>1, <1>4, ConcatProperties
    <3>2. /\ Append(AllData \o buffer, Head(table)) = (AllData \o buffer) \o <<Head(table)>>
          /\ Append(buffer, Head(table)) = buffer \o <<Head(table)>>
      BY <3>1, <1>1, <1>4, AppendIsConcat
    <3> DEFINE e == <<Head(table)>>
    <3>3. (AllData \o buffer) \o e = AllData \o (buffer \o e)
      <4>1. e \in Seq(Messages)
        BY <3>1
      <4> HIDE DEF e
      <4> QED BY ONLY <4>1, <1>4, ConcatAssociative, SMTT(30)
    <3> QED BY ONLY <3>2, <3>3
  <2> QED BY <2>1 DEF ExactWhileDiskWorks
<1>6. Unrepeated(Append(buffer, Head(table)))
  <2>1. Unrepeated(AllData \o Append(buffer, Head(table)))
    BY <1>5, FileUnrepeated DEF WritesEntry
  <2>2. Append(buffer, Head(table)) \in Seq(Messages)
    BY <1>1, <1>4, AppendProperties
  <2> QED BY ONLY <1>4, <2>1, <2>2, UnrepeatedParts
<1>7. Add(buffer, Head(table)) = Append(buffer, Head(table))
  BY ONLY <1>1, <1>4, <1>6, AddPlain
<1>8. stored' = Append(stored, Head(table))
  BY <1>3 DEF WritesEntry
<1> QED BY <1>1, <1>2, <1>3, <1>5, <1>7, <1>8 DEF Fwrite, Written

LEMMA ExactNext ==
    ASSUME IInv, FileTypes, ClosedStream, Ended, DiskWorks, ExactWhileDiskWorks,
           [LoggerNext]_loggerVars
    PROVE  ExactWhileDiskWorks'
<1> SUFFICES ASSUME fills' = 0 PROVE AllData' \o buffer' = stored'
  BY DEF ExactWhileDiskWorks
<1>0. /\ files \in Seq(LogFile) /\ (stream => files # <<>>) /\ buffer \in Seq(Messages)
      /\ AllData = AllOf(files) /\ AllData \in Seq(Messages)
      /\ stored \in Seq(Messages)
  BY AllType, FileUnrepeated DEF FileTypes
<1>1. AllData' = AllOf(files')
  BY DEF AllData, AllOf
<1>2. CASE Still
  BY <1>0, <1>1, <1>2 DEF Still, ExactWhileDiskWorks
<1>3. ASSUME stream, NEW out \in Taken, Creates(Written(out)) PROVE AllData' \o buffer' = stored'
  <2>1. fills = 0 /\ stored' = stored
    BY <1>3 DEF Creates
  <2>2. Written(out) \in Seq(LogFile) /\ files # <<>>
    BY <1>0, <1>3, WrittenType
  <2>3. AllOf(files') = AllOf(Written(out)) /\ buffer' = <<>>
    BY <1>3, <2>2, CreatesType
  <2>4. AllOf(Written(out)) = stored
    BY <2>1, <2>2, WrittenExact
  <2> QED BY <1>0, <1>1, <2>1, <2>3, <2>4, ConcatEmptySeq
<1>4. CASE ~stream /\ Creates(files)
  <2>1. fills = 0 /\ stored' = stored /\ buffer = <<>>
    BY <1>4 DEF Creates, ClosedStream
  <2>2. AllOf(files') = AllOf(files) /\ buffer' = <<>>
    BY <1>0, <1>4, CreatesType
  <2> QED BY <1>0, <1>1, <2>1, <2>2 DEF ExactWhileDiskWorks
<1>5. CASE WritesEntry
  <2>0. fills = 0
    BY <1>5 DEF WritesEntry, diskVars
  <2>1. /\ stored' = Append(stored, Head(table)) /\ Head(table) \in Messages
        /\ AllData \o Append(buffer, Head(table)) = Append(stored, Head(table))
        /\ \/ buffer' = Append(buffer, Head(table)) /\ files' = files
           \/ \E out \in Taken : files' = Written(out) /\ buffer' = <<Head(table)>>
        /\ files # <<>>
    BY <1>0, <1>5, <2>0, EntryExact
  <2>2. CASE buffer' = Append(buffer, Head(table)) /\ files' = files
    BY <1>0, <1>1, <2>1, <2>2
  <2>3. ASSUME NEW out \in Taken, files' = Written(out), buffer' = <<Head(table)>>
        PROVE  AllData' \o buffer' = stored'
    <3>1. AllOf(Written(out)) = stored
      BY <2>0, <2>1, WrittenExact
    <3> QED BY <1>0, <1>1, <2>1, <2>3, <3>1, AppendIsConcat
  <2> QED BY <2>1, <2>2, <2>3
<1>6. CASE Flushes
  <2>0. fills = 0 /\ stored' = stored
    BY <1>6 DEF Flushes, diskVars
  <2>1. CASE stream
    <3>1. PICK out \in Taken : files' = SyncLast(Written(out)) /\ buffer' = <<>>
      BY <1>6, <2>1 DEF Flushes, FlushFile, FlushWith, Written
    <3>2. AllOf(SyncLast(Written(out))) = stored
      BY <1>0, <2>0, <2>1, WrittenExact
    <3> QED BY <1>0, <1>1, <2>0, <3>1, <3>2, ConcatEmptySeq
  <2>2. CASE ~stream
    BY <1>0, <1>1, <1>6, <2>0, <2>2 DEF Flushes, FlushFile, FlushWith, fileVars,
       ExactWhileDiskWorks
  <2> QED BY <2>1, <2>2
<1> QED BY <1>2, <1>3, <1>4, <1>5, <1>6, FileSteps DEF IInv

(* What is not flushed of the open file. *)
LEMMA UnsyncedType ==
    ASSUME FileTypes, SyncedInFile
    PROVE  /\ files # <<>> => /\ LastFile.durable \in Nat /\ Len(LastData) \in Nat
                              /\ LastFile.durable <= Len(LastData)
                              /\ LastFile.data = LastData
           /\ Unsynced = IF stream THEN Len(LastData) - LastFile.durable ELSE 0
           /\ Unsynced \in Nat /\ Len(AllData) \in Nat /\ Len(buffer) \in Nat
<1>1. ASSUME files # <<>>
      PROVE  /\ LastFile.durable \in Nat /\ Len(LastData) \in Nat
             /\ LastFile.durable <= Len(LastData) /\ LastFile.data = LastData
  <2>1. LastFile \in LogFile /\ LastFile.data = LastData /\ LastData \in Seq(Messages)
    BY <1>1, LastType
  <2>2. LastFile.durable \in Nat /\ Len(LastData) \in Nat
    BY <2>1, LenProperties DEF LogFile
  <2> QED BY <1>1, <2>1, <2>2 DEF SyncedInFile
<1>2. Len(AllData) \in Nat /\ Len(buffer) \in Nat
  BY AllType, LenProperties DEF FileTypes
<1>3. Unsynced = IF stream THEN Len(LastData) - LastFile.durable ELSE 0
  BY <1>1 DEF Unsynced, FileTypes
<1>4. Unsynced \in Nat
  BY <1>1, <1>3 DEF FileTypes
<1> QED BY <1>1, <1>2, <1>3, <1>4

LEMMA SyncedInFileNext ==
    ASSUME IInv, FileTypes, ClosedStream, Ended, DiskWorks, ExactWhileDiskWorks,
           SyncedInFile, [LoggerNext]_loggerVars
    PROVE  SyncedInFile'
<1>0. /\ files \in Seq(LogFile) /\ (stream => files # <<>>) /\ AllData = AllOf(files)
      /\ AllData \in Seq(Messages) /\ buffer \in Seq(Messages)
      /\ flushed \in Nat /\ LastFile = files[Len(files)]
  BY AllType DEF FileTypes, IInv, TypeOK, QueueTypes, LastFile
<1>1. /\ AllData' = AllOf(files') /\ LastFile' = files'[Len(files')]
      /\ Unsynced' = IF stream' THEN Len(LastFile'.data) - LastFile'.durable ELSE 0
  BY DEF AllData, AllOf, LastFile, Unsynced
<1>2. /\ files # <<>> => /\ LastFile.durable \in Nat /\ Len(LastData) \in Nat
                         /\ LastFile.durable <= Len(LastData)
                         /\ LastFile.data = LastData
      /\ Unsynced = IF stream THEN Len(LastData) - LastFile.durable ELSE 0
      /\ Unsynced \in Nat /\ Len(AllData) \in Nat /\ Len(buffer) \in Nat
  BY UnsyncedType
<1>3. fills = 0 => Len(stored) = Len(AllData) + Len(buffer)
  BY <1>0, ConcatProperties DEF ExactWhileDiskWorks
<1>4. fills = 0 => flushed <= Len(AllData) - Unsynced
  BY DEF SyncedInFile
<1>5. fills' = 0 => Len(AllData') = Len(stored') - Len(buffer')
  <2>1. ExactWhileDiskWorks' /\ FileTypes'
    BY ExactNext, FileTypesNext DEF IInv
  <2>2. AllData' \in Seq(Messages) /\ buffer' \in Seq(Messages)
    BY <2>1, <1>1, PilesExist DEF FileTypes
  <2>3. fills' = 0 => stored' = AllData' \o buffer'
    BY <2>1 DEF ExactWhileDiskWorks
  <2>4. fills' = 0 => Len(stored') = Len(AllData') + Len(buffer')
    BY <2>2, <2>3, ConcatProperties
  <2> QED BY <2>2, <2>4, LenProperties
<1>6. ASSUME files # <<>>, NEW out \in Taken
      PROVE  /\ Written(out) \in Seq(LogFile) /\ Written(out) # <<>>
             /\ Len(Written(out)) = Len(files)
             /\ Written(out)[Len(Written(out))].data = AddAll(LastData, out)
             /\ Written(out)[Len(Written(out))].durable = LastFile.durable
             /\ Len(LastData) <= Len(AddAll(LastData, out))
             /\ Len(AddAll(LastData, out)) \in Nat
  <2>1. AddAll(LastData, out) \in Seq(Messages)
    BY <1>6, WrittenType
  <2> QED BY <1>6, <2>1, WrittenType, LenProperties
<1>7. CASE Still
  <2>1. LastFile' = LastFile /\ Unsynced' = Unsynced /\ AllData' = AllData /\ flushed' = flushed
    BY <1>7 DEF Still, LastFile, Unsynced, AllData
  <2> QED BY <1>7, <2>1 DEF Still, SyncedInFile
<1>8. ASSUME NEW fs \in Seq(LogFile), Creates(fs),
             fs # <<>> => fs[Len(fs)].durable <= Len(fs[Len(fs)].data)
      PROVE  SyncedInFile'
  <2>1. /\ buffer' = <<>>
        /\ stream' => LastFile' = NewFile
        /\ ~stream' => files' = fs
    BY <1>8, CreatesType
  <2>2. /\ flushed' = flushed /\ stored' = stored /\ fills' = fills /\ stream' \in BOOLEAN
    BY <1>8 DEF Creates
  <2>3. Len(<<>>) = 0
    OBVIOUS
  <2>a. NewFile.data = <<>> /\ NewFile.durable = 0
    BY DEF NewFile
  <2>4. Unsynced' = 0 /\ (files' # <<>> => LastFile'.durable <= Len(LastFile'.data))
    <3>1. CASE stream'
      <4>1. Len(LastFile'.data) = 0 /\ LastFile'.durable = 0
        BY <2>1, <2>3, <2>a, <3>1
      <4> QED BY <4>1, <1>1, <3>1
    <3>2. CASE ~stream'
      BY <3>2, <1>1, <1>8, <2>1
    <3> QED BY <3>1, <3>2
  <2>5. fills' = 0 => Len(AllData') = Len(stored)
    BY <1>3, <1>5, <2>1, <2>2, <2>3, <1>2
  <2>6. fills' = 0 => flushed' <= Len(AllData') - Unsynced'
    <3> SUFFICES ASSUME fills' = 0 PROVE flushed' <= Len(AllData') - Unsynced'
      OBVIOUS
    <3>1. flushed' = flushed /\ Unsynced' = 0 /\ Len(AllData') = Len(AllData) + Len(buffer)
      BY <2>2, <2>4, <2>5, <1>3
    <3>2. flushed <= Len(AllData) - Unsynced
      BY <2>2, <1>4
    <3>3. /\ flushed \in Nat /\ Unsynced \in Nat
          /\ Len(AllData) \in Nat /\ Len(buffer) \in Nat
      BY <1>0, <1>2
    <3> QED BY ONLY <3>1, <3>2, <3>3
  <2> QED BY <2>4, <2>6 DEF SyncedInFile
<1>9. ASSUME stream, NEW out \in Taken, Creates(Written(out)) PROVE SyncedInFile'
  <2>0. files # <<>>
    BY <1>0, <1>9
  <2>1. Written(out)[Len(Written(out))].durable <= Len(Written(out)[Len(Written(out))].data)
    BY <2>0, <1>6, <1>2
  <2> QED BY <2>0, <2>1, <1>6, <1>8, <1>9
<1>10. CASE Creates(files)
  BY <1>0, <1>2, <1>8, <1>10
<1>11. CASE WritesEntry
  <2>1. /\ stream' = stream /\ stream = TRUE /\ flushed' = flushed /\ fills' = fills
        /\ files # <<>>
    BY <1>11 DEF WritesEntry, Fwrite, diskVars, FileTypes
  <2>2. \/ files' = files
        \/ \E out \in Taken : files' = Written(out)
    BY <1>11 DEF WritesEntry, Fwrite, Written
  <2>3. CASE files' = files
    <3>1. LastFile' = LastFile /\ Unsynced' = Unsynced /\ AllData' = AllData
      BY <2>1, <2>3 DEF LastFile, Unsynced, AllData
    <3> QED BY <2>1, <3>1 DEF SyncedInFile
  <2>4. ASSUME NEW out \in Taken, files' = Written(out) PROVE SyncedInFile'
    <3>1. /\ LastFile'.data = AddAll(LastData, out) /\ LastFile'.durable = LastFile.durable
      BY <2>1, <2>4, <1>1, <1>6
    <3>2. LastFile'.durable <= Len(LastFile'.data)
      BY <2>1, <3>1, <1>2, <1>6
    <3>3. ASSUME fills' = 0 PROVE flushed' <= Len(AllData') - Unsynced'
      <4>1. fills = 0
        BY <2>1, <3>3
      <4>2. AddAll(LastData, out) = LastData \o buffer /\ AllOf(Written(out)) = stored
        BY <2>1, <4>1, WrittenExact
      <4>3. Len(LastData \o buffer) = Len(LastData) + Len(buffer)
        BY <1>0, <2>1, LastType, ConcatProperties
      <4>4. Unsynced' = Len(LastData) + Len(buffer) - LastFile.durable
        <5>1. Len(LastFile'.data) = Len(LastData) + Len(buffer)
          BY <3>1, <4>2, <4>3
        <5>2. Unsynced' = Len(LastFile'.data) - LastFile'.durable
          BY <1>1, <2>1
        <5> QED BY <5>1, <5>2, <2>1, <3>1, <1>2
      <4>5. Len(AllData') = Len(AllData) + Len(buffer)
        BY <1>1, <1>3, <2>4, <4>1, <4>2
      <4>6. flushed <= Len(AllData) - (Len(LastData) - LastFile.durable)
        BY <4>1, <2>1, <1>2, <1>4
      <4>7. flushed' = flushed
        BY <2>1
      <4>8. /\ flushed \in Nat /\ Len(AllData) \in Nat /\ Len(buffer) \in Nat
            /\ Len(LastData) \in Nat /\ LastFile.durable \in Nat
        BY <1>0, <1>2, <2>1
      <4> QED BY ONLY <4>4, <4>5, <4>6, <4>7, <4>8
    <3> QED BY <3>2, <3>3 DEF SyncedInFile
  <2> QED BY <2>2, <2>3, <2>4
<1>12. CASE Flushes
  <2>0. fills' = fills /\ stored' = stored /\ flushed' \in {flushed, Len(stored)}
    BY <1>12 DEF Flushes, diskVars
  <2>1. CASE stream
    <3>1. PICK out \in Taken : files' = SyncLast(Written(out)) /\ buffer' = <<>>
      BY <1>12, <2>1 DEF Flushes, FlushFile, FlushWith, Written
    <3> DEFINE w == Written(out)
    <3>0. files # <<>>
      BY <1>0, <2>1
    <3>2. w \in Seq(LogFile) /\ w # <<>>
      BY <1>6, <3>0
    <3>3. /\ Len(SyncLast(w)) = Len(w)
          /\ SyncLast(w)[Len(w)].data = w[Len(w)].data
          /\ SyncLast(w)[Len(w)].durable = Len(w[Len(w)].data)
      <4> HIDE DEF w
      <4> QED BY <3>2, SyncLastType
    <3>4. /\ LastFile'.durable = Len(LastFile'.data) /\ Len(LastFile'.data) \in Nat
      BY <1>1, <1>6, <3>0, <3>1, <3>3
    <3>5. Unsynced' = 0
      BY <1>1, <3>4
    <3>6. ASSUME fills' = 0 PROVE flushed' <= Len(AllData') - Unsynced'
      <4>1. AllData' = stored
        BY <1>1, <2>0, <3>0, <3>1, <3>6, WrittenExact
      <4> QED BY <4>1, <2>0, <3>5, <3>6, <1>0, <1>2, <1>3, <1>4
    <3> QED BY <3>4, <3>6 DEF SyncedInFile
  <2>2. CASE ~stream
    <3>1. files' = files /\ stream' = stream /\ buffer = <<>>
      BY <1>12, <2>2 DEF Flushes, FlushFile, FlushWith, fileVars, ClosedStream
    <3>2. LastFile' = LastFile /\ AllData' = AllData /\ Unsynced' = 0 /\ Unsynced = 0
      BY <2>2, <3>1, <1>1 DEF LastFile, AllData, Unsynced
    <3>3. fills = 0 => Len(stored) = Len(AllData)
      BY <1>2, <1>3, <3>1
    <3>4. files' # <<>> => LastFile'.durable <= Len(LastFile'.data)
      BY <3>1, <3>2 DEF SyncedInFile
    <3>5. fills' = 0 => flushed' <= Len(AllData') - Unsynced'
      BY <2>0, <3>2, <3>3, <1>0, <1>2, <1>4
    <3> QED BY <3>4, <3>5 DEF SyncedInFile
  <2> QED BY <2>1, <2>2
<1> QED BY <1>7, <1>9, <1>10, <1>11, <1>12, FileSteps DEF IInv

(* The size of no message, and of one more. *)
LEMMA SizeEmpty == Size(<<>>) = 0
<1>1. <<>> \in Seq(Messages) /\ Len(<<>>) = 0
  BY EmptySeq
<1>2. \E b \in [0 .. Len(<<>>) -> Nat] : b[0] = 0 /\ Size(<<>>) = b[Len(<<>>)]
  BY ONLY <1>1, SizeSteps
<1> QED BY <1>1, <1>2

LEMMA SizeGrows ==
    ASSUME NEW ms \in Seq(Messages), NEW m \in Messages
    PROVE  /\ Size(ms) \in Nat
           /\ Size(Append(ms, m)) = Size(ms) + MessageLen[m]
<1> DEFINE n == Len(ms)
           u == Append(ms, m)
<1>1. /\ n \in Nat /\ u \in Seq(Messages) /\ Len(u) = n + 1 /\ u[n + 1] = m
      /\ \A i \in 1 .. n : u[i] = ms[i]
  BY LenProperties, AppendProperties
<1>2. PICK c \in [0 .. n -> Nat] :
         /\ c[0] = 0 /\ Size(ms) = c[n]
         /\ \A k \in 1 .. n : c[k] = c[k - 1] + MessageLen[ms[k]]
  BY SizeSteps
<1> HIDE DEF n, u
<1>3. PICK d \in [0 .. n + 1 -> Nat] :
         /\ d[0] = 0 /\ Size(u) = d[n + 1]
         /\ \A k \in 1 .. n + 1 : d[k] = d[k - 1] + MessageLen[u[k]]
  <2>1. \E d \in [0 .. Len(u) -> Nat] :
           /\ d[0] = 0 /\ Size(u) = d[Len(u)]
           /\ \A k \in 1 .. Len(u) : d[k] = d[k - 1] + MessageLen[u[k]]
    BY ONLY <1>1, SizeSteps
  <2> QED BY ONLY <2>1, <1>1
<1> DEFINE G == {k \in 0 .. n : c[k] = d[k]}
<1>4. 0 \in G
  BY <1>1, <1>2, <1>3
<1>5. \A k \in 0 .. n : k \in G /\ k < n => k + 1 \in G
  <2> SUFFICES ASSUME NEW k \in 0 .. n, k \in G, k < n PROVE k + 1 \in G
    OBVIOUS
  <2>1. k + 1 \in 1 .. n /\ k + 1 \in 1 .. n + 1 /\ (k + 1) - 1 = k /\ k + 1 \in 0 .. n
    BY <1>1
  <2>2. c[k] = d[k]
    OBVIOUS
  <2>3. c[k + 1] = d[k + 1]
    BY <2>1, <2>2, <1>1, <1>2, <1>3
  <2> QED BY <2>1, <2>3
<1>6. n \in G
  <2>1. n \in 0 .. n
    BY <1>1
  <2> HIDE DEF G
  <2> QED BY <2>1, <1>1, <1>4, <1>5, BoundedInduction
<1>7. Size(u) = Size(ms) + MessageLen[m]
  <2>1. n + 1 \in 1 .. n + 1 /\ (n + 1) - 1 = n
    BY <1>1
  <2>2. d[n + 1] = d[n] + MessageLen[m]
    BY <2>1, <1>1, <1>3
  <2> QED BY <2>2, <1>2, <1>3, <1>6
<1>8. Size(ms) \in Nat
  <2>1. n \in 0 .. n
    BY <1>1
  <2> QED BY <2>1, <1>2
<1> QED BY <1>7, <1>8 DEF u

LEMMA FileSizeExactNext ==
    ASSUME IInv, FileTypes, ClosedStream, Ended, DiskWorks, ExactWhileDiskWorks,
           FileSizeExact, [LoggerNext]_loggerVars
    PROVE  FileSizeExact'
<1> SUFFICES ASSUME fills' = 0, stream'
             PROVE  file_size' = HeaderLen + Size(LastFile'.data \o buffer')
  BY DEF FileSizeExact
<1>a. files \in Seq(LogFile) /\ buffer \in Seq(Messages) /\ (stream => files # <<>>)
  BY DEF FileTypes
<1>0. stream => /\ files # <<>> /\ LastData \in Seq(Messages)
                /\ LastFile.data = LastData /\ LastData \o buffer \in Seq(Messages)
  BY <1>a, LastType, ConcatProperties
<1>1. LastFile' = files'[Len(files')]
  BY DEF LastFile
<1>2. fills = 0 /\ stream => file_size = HeaderLen + Size(LastData \o buffer)
  BY <1>0 DEF FileSizeExact
<1>3. ASSUME stream, NEW out \in Taken, fills = 0
      PROVE  /\ Written(out) \in Seq(LogFile) /\ Written(out) # <<>>
             /\ Written(out)[Len(Written(out))].data = LastData \o buffer
  BY <1>0, <1>3, WrittenType, WrittenExact
<1>4. CASE Still
  <2>1. LastFile' = LastFile /\ buffer' = buffer /\ stream' = stream /\ fills = 0
        /\ file_size' = file_size
    BY <1>4 DEF Still, LastFile
  <2> QED BY <2>1, <1>0, <1>2
<1>5. ASSUME NEW fs \in Seq(LogFile), Creates(fs)
      PROVE  file_size' = HeaderLen + Size(LastFile'.data \o buffer')
  <2>1. LastFile' = NewFile /\ buffer' = <<>> /\ file_size' = HeaderLen
    BY <1>5, CreatesType DEF Creates
  <2>2. <<>> \o <<>> = <<>> /\ Size(<<>>) = 0
    BY EmptySeq, ConcatEmptySeq, SizeEmpty
  <2> QED BY <2>1, <2>2, FileAssumption DEF NewFile
<1>6. ASSUME stream, NEW out \in Taken, Creates(Written(out))
      PROVE  file_size' = HeaderLen + Size(LastFile'.data \o buffer')
  BY <1>0, <1>5, <1>6, WrittenType
<1>7. CASE Creates(files)
  BY <1>a, <1>5, <1>7
<1>8. CASE WritesEntry
  <2>0. fills = 0
    BY <1>8 DEF WritesEntry, diskVars
  <2> DEFINE m == Head(table)
             e == <<m>>
  <2>1. /\ m \in Messages /\ MessageLen[m] \in Nat
        /\ file_size' = file_size + MessageLen[m] /\ stream
        /\ \/ buffer' = Append(buffer, m) /\ files' = files
           \/ \E out \in Taken : files' = Written(out) /\ buffer' = e
    BY <1>0, <1>8, <2>0, EntryExact
  <2>2. e \in Seq(Messages) /\ e = <<m>>
    BY <2>1
  <2> HIDE DEF m, e
  <2>3. LastFile'.data \o buffer' = Append(LastData \o buffer, m)
    <3>1. /\ Append(LastData \o buffer, m) = (LastData \o buffer) \o e
          /\ Append(buffer, m) = buffer \o e
      BY <2>1, <2>2, <1>a, <1>0, AppendIsConcat
    <3>2. (LastData \o buffer) \o e = LastData \o (buffer \o e)
      BY <1>a, <1>0, <2>1, <2>2, ConcatAssociative
    <3>3. CASE buffer' = Append(buffer, m) /\ files' = files
      BY <3>1, <3>2, <3>3, <2>1, <1>0, <1>1 DEF LastFile
    <3>4. ASSUME NEW out \in Taken, files' = Written(out), buffer' = e
          PROVE  LastFile'.data \o buffer' = Append(LastData \o buffer, m)
      BY <3>1, <3>4, <2>0, <2>1, <1>1, <1>3
    <3> QED BY <3>3, <3>4, <2>1
  <2>4. Size(Append(LastData \o buffer, m)) = Size(LastData \o buffer) + MessageLen[m]
        /\ Size(LastData \o buffer) \in Nat
    BY <1>0, <2>1, SizeGrows
  <2> QED BY <2>0, <2>1, <2>3, <2>4, <1>2, FileAssumption
<1>9. CASE Flushes
  <2>0. fills = 0
    BY <1>9 DEF Flushes, diskVars
  <2>1. stream /\ file_size' = file_size
    BY <1>9 DEF Flushes, FlushFile, FlushWith, fileVars
  <2>2. PICK out \in Taken : files' = SyncLast(Written(out)) /\ buffer' = <<>>
    BY <1>9, <2>1 DEF Flushes, FlushFile, FlushWith, Written
  <2> DEFINE w == Written(out)
  <2>3. w \in Seq(LogFile) /\ w # <<>> /\ w[Len(w)].data = LastData \o buffer
    BY <1>3, <2>0, <2>1
  <2>4. Len(SyncLast(w)) = Len(w) /\ SyncLast(w)[Len(w)].data = w[Len(w)].data
    <3> HIDE DEF w
    <3> QED BY <2>3, SyncLastType
  <2>5. LastFile'.data = LastData \o buffer
    BY <1>1, <2>2, <2>3, <2>4
  <2>6. (LastData \o buffer) \o <<>> = LastData \o buffer
    BY <1>0, <2>1, ConcatEmptySeq
  <2> QED BY <2>0, <2>1, <2>2, <2>5, <2>6, <1>2
<1> QED BY <1>4, <1>6, <1>7, <1>8, <1>9, FileSteps DEF IInv

LEMMA EndedNext ==
    ASSUME IInv, FileTypes, ClosedStream, Ended, [LoggerNext]_loggerVars
    PROVE  Ended'
<1> SUFFICES ASSUME closed' PROVE apc' = "exit" /\ buffer' = <<>>
  BY DEF Ended
<1>1. apc = "exit" => apc' = "exit"
  BY LoggerSteps, ExitFrame DEF AsyncExit, ExitIf, AGoto
<1>2. CASE Still
  BY <1>1, <1>2 DEF Still, Ended
<1>3. ASSUME NEW fs, Creates(fs) PROVE apc' = "exit" /\ buffer' = <<>>
  BY <1>1, <1>3 DEF Creates, Ended
<1>4. CASE WritesEntry
  BY <1>4 DEF WritesEntry, Ended
<1>5. CASE Flushes /\ (closed' = closed \/ apc = "exit")
  BY <1>1, <1>5 DEF Flushes, FlushFile, FlushWith, fileVars, Ended, ClosedStream
<1> QED BY <1>2, <1>3, <1>4, <1>5, FileSteps DEF IInv
-----------------------------------------------------------------------------
(* The order of the messages, with a full disk too. *)

(* The entry to write is the first one accepted after those written. *)
LEMMA NextPosition ==
    ASSUME IInv, apc = "writing"
    PROVE  Len(stored) + 1 \in 1 .. Len(accepted) /\ accepted[Len(stored) + 1] = Head(table)
<1> DEFINE n == Len(stored)
           rest == table \o memtable
<1>1. /\ stored \in Seq(Messages) /\ table \in Seq(Messages) /\ memtable \in Seq(Messages)
      /\ table # <<>>
  BY HeadIsMessage DEF IInv, TypeOK, QueueTypes
<1>2. rest \in Seq(Messages) /\ rest # <<>> /\ Head(rest) = Head(table)
  BY <1>1, HeadTailConcat, ConcatProperties
<1>3. accepted = stored \o rest
  <2>1. accepted = (stored \o table) \o memtable
    BY DEF IInv, OrderInv, Unstored
  <2> QED BY <1>1, <2>1, ConcatAssociative
<1> HIDE DEF rest
<1>4. /\ Len(stored) \in Nat /\ Len(rest) \in Nat \ {0} /\ rest[1] = Head(rest)
      /\ Len(stored \o rest) = Len(stored) + Len(rest)
      /\ \A i \in 1 .. Len(stored) + Len(rest) :
            (stored \o rest)[i] = IF i <= Len(stored) THEN stored[i] ELSE rest[i - Len(stored)]
  BY <1>1, <1>2, EmptySeq, LenProperties, ConcatProperties
<1> HIDE DEF n
<1>5. /\ n + 1 \in 1 .. n + Len(rest) /\ ~(n + 1 <= n) /\ (n + 1) - n = 1
  BY <1>4 DEF n
<1> QED BY <1>2, <1>3, <1>4, <1>5 DEF n

(* Nobody takes back what was accepted. *)
LEMMA AcceptedGrows ==
    ASSUME TypeOK, [LoggerNext]_loggerVars
    PROVE  \/ accepted' = accepted
           \/ \E m \in Messages : accepted' = Append(accepted, m)
<1>1. ASSUME NEW w \in Writers, Pushes(w)
      PROVE  \E m \in Messages : accepted' = Append(accepted, m)
  BY <1>1, PushTypes DEF Pushes, PushMessage
<1>2. CASE AsyncTake \/ Leaves \/ AsyncFlush \/ AsyncRelock \/ Quiet
  BY <1>2 DEF AsyncTake, Leaves, AsyncFlush, AsyncRelock, Relock, Quiet, queue
<1>3. ASSUME NEW ok \in BOOLEAN, AsyncWrite(ok) PROVE accepted' = accepted
  BY <1>3 DEF AsyncWrite, queue
<1> QED BY <1>1, <1>2, <1>3, LoggerSteps, Classified

(* What write(2) took is in order, whether or not the disk is full. *)
LEMMA WrittenAscends ==
    ASSUME IInv, FileTypes, files # <<>>, InAcceptedOrder, NEW out \in Taken
    PROVE  /\ Ascends(accepted, AllOf(Written(out)), 1, Len(stored) + 1)
           /\ Ascends(accepted, AllOf(SyncLast(Written(out))), 1, Len(stored) + 1)
<1> DEFINE K == Len(stored) + 1
           acc == accepted
<1>0. K \in Nat /\ 1 <= K /\ 1 \in Nat
  BY LenProperties DEF IInv, TypeOK, QueueTypes
<1>1. PICK p \in Seq(Messages) :
              /\ AllData = p \o LastData
              /\ AllOf(Written(out)) = p \o AddAll(LastData, out)
              /\ AllOf(SyncLast(Written(out))) = p \o AddAll(LastData, out)
  BY WrittenEnd
<1>2. /\ LastData \in Seq(Messages) /\ buffer \in Seq(Messages) /\ out \in Seq(Messages)
      /\ p \o LastData \in Seq(Messages) /\ AddAll(LastData, out) \in Seq(Messages)
  BY LastType, TakenType, WrittenType, ConcatProperties DEF FileTypes
<1>3. Ascends(acc, (p \o LastData) \o buffer, 1, K)
  BY <1>1 DEF InAcceptedOrder
<1> HIDE DEF K, acc
<1>4. PICK mid \in 1 .. K : /\ Ascends(acc, p \o LastData, 1, mid)
                            /\ Ascends(acc, buffer, mid, K)
  BY ONLY <1>0, <1>2, <1>3, AscendsSplit
<1>5. mid \in Nat /\ 1 <= mid /\ mid <= K
  BY <1>0
<1>6. PICK low \in 1 .. mid : Ascends(acc, p, 1, low) /\ Ascends(acc, LastData, low, mid)
  BY ONLY <1>0, <1>1, <1>2, <1>4, <1>5, AscendsSplit
<1>7. low \in Nat /\ 1 <= low /\ low <= mid /\ low <= K
  BY <1>0, <1>5
<1>8. Ascends(acc, out, mid, K)
  <2>1. PICK k \in 0 .. Len(buffer) : out = SubSeq(buffer, 1, k)
    BY TakenType
  <2>2. Ascends(acc, SubSeq(buffer, 1, k), mid, K)
    BY ONLY <2>1, <1>0, <1>2, <1>4, <1>5, AscendsPrefix
  <2> QED BY <2>1, <2>2
<1>9. Ascends(acc, AddAll(LastData, out), low, K)
  BY ONLY <1>0, <1>2, <1>5, <1>6, <1>7, <1>8, AscendsAddAll
<1>10. Ascends(acc, p \o AddAll(LastData, out), 1, K)
  BY ONLY <1>0, <1>1, <1>2, <1>6, <1>7, <1>9, AscendsJoin
<1> QED BY <1>1, <1>10 DEF K, acc

(* The messages stay in order: what failed to be written is the next to be. *)
LEMMA InAcceptedOrderNext ==
    ASSUME IInv, FileTypes, ClosedStream, Ended, InAcceptedOrder, [LoggerNext]_loggerVars
    PROVE  InAcceptedOrder'
<1> DEFINE K == Len(stored) + 1
           d == AllData' \o buffer'
           Kn == Len(stored') + 1
<1>0. /\ files \in Seq(LogFile) /\ (stream => files # <<>>) /\ buffer \in Seq(Messages)
      /\ AllData = AllOf(files) /\ AllData \in Seq(Messages)
      /\ stored \in Seq(Messages) /\ accepted \in Seq(Messages)
  BY AllType DEF FileTypes, IInv, TypeOK, QueueTypes
<1>1. AllData' = AllOf(files') /\ AllData' \in Seq(Messages) /\ buffer' \in Seq(Messages)
      /\ stored' \in Seq(Messages)
  <2>1. FileTypes' /\ QueueTypes'
    BY FileTypesNext, QueueNext, LoggerSteps DEF IInv
  <2> QED BY <2>1, PilesExist DEF AllData, AllOf, FileTypes, QueueTypes
<1>2. K \in Nat /\ 1 <= K /\ Kn \in Nat /\ 1 \in Nat
  BY <1>0, <1>1, LenProperties
<1>3. ASSUME Ascends(accepted, d, 1, Kn) PROVE InAcceptedOrder'
  <2>1. ASSUME NEW m \in Messages, accepted' = Append(accepted, m)
        PROVE  Ascends(accepted', d, 1, Kn)
    <3> HIDE DEF d, Kn
    <3>1. Ascends(Append(accepted, m), d, 1, Kn)
      BY <1>0, <1>2, <1>3, AscendsGrows
    <3> QED BY <2>1, <3>1
  <2>2. Ascends(accepted', d, 1, Kn)
    <3>1. accepted' = accepted \/ \E m \in Messages : accepted' = Append(accepted, m)
      BY AcceptedGrows DEF IInv
    <3> HIDE DEF d, Kn
    <3> QED BY <3>1, <2>1, <1>3
  <2> QED BY <2>2 DEF InAcceptedOrder
<1>4. CASE Still
  <2>1. d = AllData \o buffer /\ Kn = K
    BY <1>4 DEF Still, AllData
  <2>2. Ascends(accepted, AllData \o buffer, 1, K)
    BY DEF InAcceptedOrder
  <2> HIDE DEF d, K, Kn
  <2> QED BY <2>1, <2>2, <1>3
<1>5. ASSUME NEW fs, AllOf(files') = AllOf(fs), buffer' = <<>>, stored' = stored,
             Ascends(accepted, AllOf(fs), 1, K)
      PROVE  InAcceptedOrder'
  <2>1. d = AllOf(fs) /\ Kn = K
    BY <1>1, <1>5, ConcatEmptySeq
  <2> HIDE DEF d, K, Kn
  <2> QED BY <2>1, <1>3, <1>5
<1>6. ASSUME stream, NEW out \in Taken, Creates(Written(out)) PROVE InAcceptedOrder'
  <2>1. Written(out) \in Seq(LogFile) /\ files # <<>>
    BY <1>0, <1>6, WrittenType
  <2>2. AllOf(files') = AllOf(Written(out)) /\ buffer' = <<>> /\ stored' = stored
    BY <1>6, <2>1, CreatesType DEF Creates
  <2>3. Ascends(accepted, AllOf(Written(out)), 1, K)
    BY <2>1, WrittenAscends
  <2> HIDE DEF K
  <2> QED BY <1>5, <2>2, <2>3
<1>7. CASE ~stream /\ Creates(files)
  <2>1. AllOf(files') = AllOf(files) /\ buffer' = <<>> /\ stored' = stored
    BY <1>0, <1>7, CreatesType DEF Creates
  <2>2. AllData \o buffer = AllOf(files)
    BY <1>0, <1>7, ConcatEmptySeq DEF ClosedStream
  <2>3. Ascends(accepted, AllOf(files), 1, K)
    BY <2>2 DEF InAcceptedOrder
  <2> HIDE DEF K
  <2> QED BY <1>5, <2>1, <2>3
<1>8. CASE WritesEntry
  <2> DEFINE m == Head(table)
             e == <<m>>
  <2>1. /\ K \in 1 .. Len(accepted) /\ accepted[K] = m /\ m \in Messages
    BY <1>8, NextPosition, HeadIsMessage DEF WritesEntry, IInv
  <2>2. e \in Seq(Messages) /\ e = <<m>>
    BY <2>1
  <2>3. K <= Kn
    <3>1. Len(Append(stored, m)) = Len(stored) + 1
      BY <1>0, <2>1, AppendProperties
    <3>2. stored' = stored \/ stored' = Append(stored, m)
      BY <1>8 DEF WritesEntry
    <3> QED BY <3>1, <3>2, <1>0, LenProperties
  <2>4. \/ files' = files /\ buffer' = Add(buffer, m)
        \/ \E out \in Taken : /\ files' = Written(out)
                              /\ buffer' = IF disk_full THEN <<>> ELSE e
    BY <1>8 DEF WritesEntry, Fwrite, Written
  <2>b. files # <<>>
    BY <1>0, <1>8 DEF WritesEntry, Fwrite
  <2>a. Ascends(accepted, AllData \o buffer, 1, K)
    BY DEF InAcceptedOrder
  <2> HIDE DEF m, e, K
  (* What is in order may be followed by the entry. *)
  <2>5. ASSUME NEW s \in Seq(Messages), NEW t \in Seq(Messages),
               Ascends(accepted, s \o t, 1, K)
        PROVE  Ascends(accepted, s \o t, 1, Kn) /\ Ascends(accepted, s \o Append(t, m), 1, Kn)
    <3>1. s \o t \in Seq(Messages) /\ Append(s \o t, m) \in Seq(Messages)
      BY <2>1, ConcatProperties, AppendProperties
    <3>2. Append(s \o t, m) = s \o Append(t, m)
      <4>1. Append(s \o t, m) = (s \o t) \o e /\ Append(t, m) = t \o e
        BY <2>1, <2>2, <3>1, AppendIsConcat
      <4> QED BY ONLY <4>1, <2>2, ConcatAssociative
    <3> HIDE DEF Kn
    <3>3. Ascends(accepted, Append(s \o t, m), 1, K)
      BY <2>1, <2>5, <3>1, <1>2, AscendsAppend
    <3> QED BY <2>3, <2>5, <3>2, <3>3, <1>2, AscendsWiden
  <2>6. CASE files' = files /\ buffer' = Add(buffer, m)
    <3>1. d = AllData \o buffer \/ d = AllData \o Append(buffer, m)
      BY <2>1, <2>6, <1>0, <1>1, AddType
    <3> HIDE DEF d, Kn
    <3> QED BY <3>1, <2>5, <2>a, <1>0, <1>3
  <2>7. ASSUME NEW out \in Taken, files' = Written(out),
               buffer' = IF disk_full THEN <<>> ELSE e
        PROVE  InAcceptedOrder'
    <3> DEFINE a == AllOf(Written(out))
    <3>1. a \in Seq(Messages) /\ Ascends(accepted, a, 1, K)
      BY <2>b, WrittenType, PilesExist, WrittenAscends DEF K
    <3>2. a \o <<>> = a /\ <<>> \in Seq(Messages) /\ Append(<<>>, m) = e
      BY <3>1, <2>2, EmptySeq, ConcatEmptySeq
    <3>3. d = a \o <<>> \/ d = a \o Append(<<>>, m)
      BY <2>7, <3>2, <1>1
    <3> HIDE DEF a, d, Kn
    <3> QED BY <3>1, <3>2, <3>3, <2>5, <1>3
  <2> QED BY <2>4, <2>6, <2>7
<1>9. CASE Flushes
  <2>0. stored' = stored
    BY <1>9 DEF Flushes
  <2>1. CASE stream
    <3>1. PICK out \in Taken : files' = SyncLast(Written(out)) /\ buffer' = <<>>
      BY <1>9, <2>1 DEF Flushes, FlushFile, FlushWith, Written
    <3>2. Ascends(accepted, AllOf(SyncLast(Written(out))), 1, K)
      BY <1>0, <2>1, WrittenAscends
    <3> HIDE DEF K
    <3> QED BY <1>5, <2>0, <3>1, <3>2
  <2>2. CASE ~stream
    <3>1. d = AllData \o buffer /\ Kn = K
      BY <1>9, <2>0, <2>2 DEF Flushes, FlushFile, FlushWith, fileVars, AllData
    <3>2. Ascends(accepted, AllData \o buffer, 1, K)
      BY DEF InAcceptedOrder
    <3> HIDE DEF d, K, Kn
    <3> QED BY <3>1, <3>2, <1>3
  <2> QED BY <2>1, <2>2
<1> QED BY <1>4, <1>6, <1>7, <1>8, <1>9, FileSteps DEF IInv
-----------------------------------------------------------------------------
(* The invariant holds. *)

(* The constructor leaves one file, with a header and no message, or none. *)
LEMMA LoggerInitInv == LoggerInit => LoggerInv
<1> SUFFICES ASSUME LoggerInit PROVE LoggerInv
  OBVIOUS
<1>1. IInv
  BY InitIInv DEF LoggerInit
<1>2. /\ buffer = <<>> /\ enospc = FALSE /\ fresh = FALSE /\ disk_full = FALSE /\ fills = 0
      /\ size_checked = FALSE /\ closed = FALSE
      /\ max_file_size = DEFAULT_MAX_FILE_SIZE
      /\ stored = <<>> /\ accepted = <<>> /\ flushed = 0
      /\ \/ stream = TRUE /\ file_size = HeaderLen /\ files = <<NewFile>>
         \/ stream = FALSE /\ file_size = 0 /\ files = <<>>
  BY DEF LoggerInit, FileInit, Init
<1>3. DEFAULT_MAX_FILE_SIZE \in MaxFileSizes
  BY LoggerAssumption DEF DEFAULT_MAX_FILE_SIZE
<1> DEFINE none == <<>>
<1>a. none \in Seq(LogFile) /\ Len(none) = 0 /\ Append(none, NewFile) = <<NewFile>>
  BY EmptySeq
<1>b. AllOf(none) = <<>>
  <2>1. PICK c : Piles(c, none)
    BY ONLY <1>a, PilesExist
  <2> QED BY <2>1, <1>a DEF Piles
<1>4. /\ files \in Seq(LogFile) /\ AllOf(files) = <<>>
      /\ (stream => files # <<>>) /\ (files # <<>> => stream /\ LastFile = NewFile)
  <2>1. CASE stream = TRUE /\ files = <<NewFile>>
    <3> HIDE DEF none
    <3>1. /\ files \in Seq(LogFile) /\ Len(files) = 0 + 1 /\ files[0 + 1] = NewFile
          /\ AllOf(files) = <<>>
      BY <2>1, <1>a, <1>b, NewFileAddsNothing
    <3> QED BY <2>1, <3>1, EmptySeq DEF LastFile
  <2>2. CASE stream = FALSE /\ files = <<>>
    BY <2>2, <1>a, <1>b
  <2> QED BY <2>1, <2>2, <1>2
<1> HIDE DEF none
<1>5. FileTypes
  <2>1. buffer \in Seq(Messages) /\ file_size \in Nat
    BY <1>2, EmptySeq, FileAssumption
  <2>2. fills \in 0 .. MaxFills
    BY <1>2, FileAssumption
  <2>3. max_file_size \in MaxFileSizes
    BY <1>2, <1>3
  <2> QED BY <2>1, <2>2, <2>3, <1>2, <1>4 DEF FileTypes
<1>6. ClosedStream /\ DiskWorks /\ Ended
  BY <1>2 DEF ClosedStream, DiskWorks, Ended
<1>7. AllData = <<>> /\ <<>> \o <<>> = <<>> /\ Len(<<>>) = 0
  BY <1>4, EmptySeq, ConcatEmptySeq DEF AllData, AllOf
<1>8. ExactWhileDiskWorks
  BY <1>2, <1>7 DEF ExactWhileDiskWorks
<1>9. SyncedInFile
  <2>1. files # <<>> => LastFile.data = <<>> /\ LastFile.durable = 0
    BY <1>4 DEF NewFile
  <2>2. Unsynced = 0
    BY <2>1, <1>4, <1>7 DEF Unsynced
  <2> QED BY <2>1, <2>2, <1>2, <1>7 DEF SyncedInFile
<1>10. FileSizeExact
  <2>1. stream => LastFile.data \o buffer = <<>> /\ file_size = HeaderLen
    BY <1>2, <1>4, <1>7 DEF NewFile
  <2> QED BY <2>1, SizeEmpty, FileAssumption DEF FileSizeExact
<1>11. InAcceptedOrder
  <2>1. Ascends(<<>>, <<>>, 1, 1)
    BY AscendsEmpty
  <2>2. AllData \o buffer = <<>> /\ Len(stored) + 1 = 1
    BY <1>2, <1>7
  <2> QED BY <2>1, <2>2, <1>2 DEF InAcceptedOrder
<1> QED BY <1>1, <1>5, <1>6, <1>8, <1>9, <1>10, <1>11 DEF LoggerInv

LEMMA LoggerNextInv == LoggerInv /\ [LoggerNext]_loggerVars => LoggerInv'
  BY LoggerSteps, NextIInv, FileTypesNext, ClosedStreamNext, DiskWorksNext, ExactNext,
     SyncedInFileNext, FileSizeExactNext, EndedNext, InAcceptedOrderNext
  DEF LoggerInv, IInv

LEMMA LoggerInvariance == LoggerSpec => []LoggerInv
  BY LoggerInitInv, LoggerNextInv, PTL DEF LoggerSpec

(* With its files the logger still does what LogWritter does alone: a       *)
(* write() fails or succeeds as AsyncWrite() allows, so that what is proved *)
(* of the threads holds of the whole logger.                                *)
THEOREM LoggerImplementsLogWritter == LoggerSpec => Spec
<1>1. LoggerInit => Init
  BY DEF LoggerInit
<1> QED BY <1>1, LoggerSteps, PTL DEF LoggerSpec, Spec

(* So it implements LogService too: what a client of the logger relies on,  *)
(* whatever the disk does to the files.                                     *)
THEOREM LoggerServes == LoggerSpec => ImplementsLogService
  BY LoggerImplementsLogWritter, LoggerImplementsService

(* The variables of FileWritter have their types; no file holds anything    *)
(* but messages.                                                            *)
THEOREM LoggerTypeCorrect == LoggerSpec => []LoggerTypeOK
<1>1. LoggerInv => LoggerTypeOK
  <2> SUFFICES ASSUME LoggerInv PROVE LoggerTypeOK
    OBVIOUS
  <2>1. TypeOK /\ FileTypes
    BY DEF LoggerInv, IInv
  <2>2. ASSUME NEW i \in DOMAIN files
        PROVE  files[i].data \in Seq(Messages) /\ files[i].durable \in Nat
    <3>1. files[i] \in LogFile
      BY <2>1, ElementOfSeq, LenProperties DEF FileTypes
    <3> QED BY <3>1 DEF LogFile
  <2> QED BY <2>1, <2>2 DEF LoggerTypeOK, FileTypes
<1> QED BY <1>1, LoggerInvariance, PTL

(* Until the disk fills up, the files and the stdio buffer hold what        *)
(* write() reported, once and in order, through every rotation, every one   *)
(* that fails because the name is taken, and every reopening after it.      *)
THEOREM FilesHoldWhatWasWritten == LoggerSpec => []ExactWhileDiskWorks
  BY LoggerInvariance, PTL DEF LoggerInv

(* Until the disk fills up, what flushed_log_index counts is in a file, and *)
(* flushed unless fclose() of a rotation wrote it.                           *)
THEOREM FlushedIsInFile == LoggerSpec => []FlushedInFile
<1>1. LoggerInv => FlushedInFile
  <2> SUFFICES ASSUME LoggerInv, fills = 0
               PROVE  flushed_log_index <= Len(AllData) - Unsynced
    BY DEF FlushedInFile
  <2>1. flushed <= Len(AllData) - Unsynced
    BY DEF LoggerInv, SyncedInFile
  <2>2. Unsynced \in Nat /\ Len(AllData) \in Nat
    BY UnsyncedType DEF LoggerInv
  <2>3. flushed_log_index <= flushed /\ flushed_log_index \in Nat /\ flushed \in Nat
    BY DEF LoggerInv, IInv, FlushInv, TypeOK, QueueTypes
  <2> QED BY <2>1, <2>2, <2>3
<1> QED BY <1>1, LoggerInvariance, PTL

(* However often the disk fills up, and whatever write(2) takes of a        *)
(* buffer then, no message stands in the files before one accepted earlier. *)
THEOREM MessagesStayInOrder == LoggerSpec => []InOrder
<1>1. LoggerInv => InOrder
  <2> SUFFICES ASSUME LoggerInv PROVE InOrder
    OBVIOUS
  <2> DEFINE d == AllData \o buffer
             n == Len(accepted)
  <2>1. /\ accepted \in Seq(Messages) /\ Unrepeated(accepted)
        /\ d \in Seq(Messages)
    BY AllType, ConcatProperties DEF LoggerInv, IInv, TypeOK, QueueTypes, Numbered, FileTypes
  <2>2. n \in Nat /\ DOMAIN accepted = 1 .. n /\ DOMAIN d = 1 .. Len(d) /\ Len(stored) \in Nat
    BY <2>1, LenProperties DEF LoggerInv, IInv, TypeOK, QueueTypes
  <2>3. PICK r \in [1 .. Len(d) -> 1 .. Len(stored) + 1] :
          /\ \A i \in 1 .. Len(d) : r[i] \in 1 .. n /\ accepted[r[i]] = d[i]
          /\ \A i, j \in 1 .. Len(d) : i < j => r[i] <= r[j]
    BY DEF LoggerInv, InAcceptedOrder, Ascends
  <2> HIDE DEF d, n
  <2>4. ASSUME NEW i \in 1 .. Len(d) PROVE Position(d[i]) = r[i]
    <3>1. r[i] \in DOMAIN accepted /\ accepted[r[i]] = d[i]
      BY <2>2, <2>3
    <3>2. Position(d[i]) \in DOMAIN accepted /\ accepted[Position(d[i])] = d[i]
      BY <3>1 DEF Position
    <3> QED BY <3>1, <3>2, <2>1, <2>2 DEF Unrepeated, n
  <2>5. \A i, j \in DOMAIN d : i < j => Position(d[i]) <= Position(d[j])
    BY <2>2, <2>3, <2>4
  <2> QED BY <2>5 DEF InOrder, d
<1> QED BY <1>1, LoggerInvariance, PTL

(* file_size, on which the rotation depends, is the length of the open      *)
(* file: no header or entry is counted twice or forgotten by a rotation.    *)
THEOREM FileSizeIsExact == LoggerSpec => []FileSizeExact
  BY LoggerInvariance, PTL DEF LoggerInv

(* A rotation finds a stream: after a creation that failed file_size is 0,  *)
(* which is over no limit.                                                  *)
THEOREM RotationFindsStream == LoggerSpec => []RotatesOpenFile
<1>1. LoggerInv => RotatesOpenFile
  <2> SUFFICES ASSUME LoggerInv, OverSize, ~stream PROVE FALSE
    BY DEF RotatesOpenFile
  <2>1. file_size = 0 /\ max_file_size \in Nat /\ file_size > max_file_size
    BY LoggerAssumption DEF LoggerInv, ClosedStream, FileTypes, OverSize
  <2> QED BY <2>1
<1> QED BY <1>1, LoggerInvariance, PTL

(* Once the logger is deleted, and unless the disk was full, every message  *)
(* accepted is in a file: neither a batch in hand, nor the memtable, nor    *)
(* the stdio buffer is forgotten.                                           *)
THEOREM NothingIsLeftBehind == LoggerSpec => []CompleteAtClose
<1>1. LoggerInv => CompleteAtClose
  <2> SUFFICES ASSUME LoggerInv, closed, fills = 0 PROVE AllData = accepted
    BY DEF CompleteAtClose
  <2>1. apc = "exit" /\ buffer = <<>> /\ memtable = <<>> /\ table = <<>>
    BY DEF LoggerInv, IInv, Ended, ShutDown, NoBatch, Between
  <2>2. Unstored = <<>>
    BY <2>1 DEF Unstored
  <2>3. AllData \in Seq(Messages) /\ stored \in Seq(Messages)
    BY AllType DEF LoggerInv, IInv, TypeOK, QueueTypes
  <2>4. stored = AllData
    BY <2>1, <2>3, ConcatEmptySeq DEF LoggerInv, ExactWhileDiskWorks
  <2>5. accepted = stored
    BY <2>1, <2>2, <2>3, ConcatEmptySeq DEF LoggerInv, IInv, OrderInv
  <2> QED BY <2>4, <2>5
<1> QED BY <1>1, LoggerInvariance, PTL
=============================================================================
