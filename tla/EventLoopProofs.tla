--------------------------- MODULE EventLoopProofs ---------------------------
(***************************************************************************)
(* The safety of the loop, for any programs, descriptors, timers and width  *)
(* of the clock.                                                            *)
(***************************************************************************)
EXTENDS EventLoop, FiniteSetTheorems, WellFoundedInduction, TLAPS

(* A finite queue that is not empty has a latest timer. *)
LEMMA LatestExists ==
    ASSUME NEW S, IsFiniteSet(S), NEW f \in [S -> Int], S # {}
    PROVE  \E t \in S : \A u \in S : f[u] <= f[t]
<1> DEFINE HasMax(T) == \E t \in T : \A u \in T : f[u] <= f[t]
           G == {n \in Nat : \A T \in SUBSET S :
                    T # {} /\ Cardinality(T) = n => HasMax(T)}
<1>1. \A T \in SUBSET S : IsFiniteSet(T) /\ Cardinality(T) \in Nat
  BY FS_Subset, FS_CardinalityType
<1>2. 0 \in G
  BY <1>1, FS_EmptySet
<1>3. ASSUME NEW n \in Nat, n \in G PROVE n + 1 \in G
  <2> SUFFICES ASSUME NEW T \in SUBSET S, T # {}, Cardinality(T) = n + 1
               PROVE  HasMax(T)
    OBVIOUS
  <2>1. PICK x \in T : TRUE
    OBVIOUS
  <2> DEFINE R == T \ {x}
  <2>2. R \in SUBSET S /\ Cardinality(R) = n
    BY <1>1, FS_RemoveElement
  <2>3. CASE R = {}
    <3>1. \A u \in T : u = x
      BY <2>3
    <3> QED BY <2>1, <3>1
  <2>4. CASE R # {}
    <3>1. PICK t \in R : \A u \in R : f[u] <= f[t]
      BY <1>3, <2>2, <2>4
    <3>2. /\ f[x] \in Int /\ f[t] \in Int /\ t \in T /\ \A u \in T : u = x \/ u \in R
          /\ \A u \in T : f[u] \in Int
      BY <3>1
    <3>3. CASE f[x] <= f[t]
      BY <3>1, <3>2, <3>3
    <3>4. CASE f[t] <= f[x]
      <4>1. \A u \in T : f[u] <= f[x]
        BY <3>1, <3>2, <3>4
      <4> QED BY <2>1, <4>1
    <3> QED BY <3>2, <3>3, <3>4
  <2> QED BY <2>3, <2>4
<1>4. \A n \in Nat : n \in G
  <2> SUFFICES ASSUME Nat \ G # {} PROVE FALSE
    OBVIOUS
  <2>1. PICK k \in Nat \ G : \A m \in Nat \ G : ~ (<<m, k>> \in OpToRel(<, Nat))
    BY NatLessThanWellFounded, WFMin
  <2>2. k # 0 /\ k - 1 \in Nat /\ (k - 1) + 1 = k
    BY <1>2
  <2>3. <<k - 1, k>> \in OpToRel(<, Nat)
    BY <2>2 DEF OpToRel
  <2> QED BY <1>3, <2>1, <2>2, <2>3
<1>5. Cardinality(S) \in G
  BY <1>1, <1>4
<1> QED BY <1>5

-----------------------------------------------------------------------------

LoopTyped ==
    /\ program \in [fds : SUBSET Fds, timers : SUBSET Timers]
    /\ when \in [Timers -> Int]
    /\ now \in Nat /\ back \in BOOLEAN

(* While mstime() has not gone back no timer is queued for later than now,  *)
(* and none for later than the reading a pass works with.                   *)
ArmedInThePast ==
    ~back =>
        /\ \A t \in Queued : when[t] <= mstime
        /\ pc = "steady" => \A t \in Queued : when[t] <= current

LoopInv == LoopTyped /\ ArmedInThePast

LEMMA ClockReading ==
    ASSUME NEW n \in Nat
    PROVE  ((n + HalfRange) % (2 * HalfRange)) - HalfRange \in Int
<1>1. HalfRange \in Nat /\ HalfRange > 0
  BY LoopAssumption
<1>2. \A a, b \in Nat : b > 0 => a % b \in Nat
  OBVIOUS
<1>3. n + HalfRange \in Nat /\ 2 * HalfRange \in Nat /\ 2 * HalfRange > 0
  BY <1>1
<1> QED BY <1>1, <1>2, <1>3

LEMMA NowIsInt == LoopTyped => mstime \in Int
  BY ClockReading DEF LoopTyped, mstime

-----------------------------------------------------------------------------
(* The clock and the timers. *)

(* Nothing that the timers' invariant speaks of changes, or pc leaves       *)
(* "steady".                                                                *)
Idle ==
    /\ UNCHANGED <<program, when, clock>>
    /\ pc' = "steady" => pc = "steady" /\ current' = current

LEMMA IdleKeeps == ASSUME LoopInv, Idle PROVE LoopInv'
<1>1. mstime' = mstime /\ Queued' = Queued
  BY DEF Idle, clock, mstime, Queued
<1> QED BY <1>1 DEF Idle, clock, LoopInv, LoopTyped, ArmedInThePast

LEMMA ClockKeeps ==
    ASSUME LoopInv, NEW n \in Nat, ClockTo(n) PROVE LoopInv'
<1>1. /\ now' = n /\ back' = (back \/ mstime' < mstime)
      /\ UNCHANGED <<program, when, pc, current>>
  BY DEF ClockTo, setup, files, thread, pass
<1>2. LoopTyped'
  BY <1>1 DEF LoopInv, LoopTyped
<1>3. mstime \in Int /\ mstime' \in Int
  <2>1. mstime' = ((n + HalfRange) % (2 * HalfRange)) - HalfRange
    BY <1>1 DEF mstime
  <2> QED BY <2>1, ClockReading, NowIsInt DEF LoopInv
<1>4. Queued' = Queued /\ \A t \in Queued : when[t] \in Int /\ when'[t] = when[t]
  BY <1>1 DEF Queued, LoopInv, LoopTyped
<1>5. ArmedInThePast'
  <2> SUFFICES ASSUME ~back'
               PROVE  (/\ \A t \in Queued : when[t] <= mstime
                       /\ pc = "steady" => \A t \in Queued : when[t] <= current)'
    BY Zenon DEF ArmedInThePast
  <2>1. ~back /\ ~(mstime' < mstime)
    BY <1>1
  <2>2. \A t \in Queued : when[t] <= mstime
    BY <2>1 DEF LoopInv, ArmedInThePast
  <2>3. pc = "steady" => \A t \in Queued : when[t] <= current
    BY <2>1 DEF LoopInv, ArmedInThePast
  <2>4. \A t \in Queued : when[t] <= mstime'
    BY <1>3, <1>4, <2>1, <2>2
  <2> QED BY <1>1, <1>4, <2>3, <2>4
<1> QED BY <1>1, <1>2, <1>5 DEF LoopInv

(* A timer is armed for now. *)
LEMMA ArmedKeeps ==
    ASSUME LoopInv, NEW t \in Timers, when' = [when EXCEPT ![t] = mstime],
           UNCHANGED <<program, clock>>,
           pc' = "steady" => current' = mstime
    PROVE  LoopInv'
<1>1. mstime' = mstime /\ mstime \in Int
  BY NowIsInt DEF clock, mstime, LoopInv
<1>2. when' \in [Timers -> Int] /\ when'[t] = mstime
      /\ \A u \in Timers : u # t => when'[u] = when[u]
  BY <1>1 DEF LoopInv, LoopTyped
<1>3. LoopTyped'
  BY <1>2 DEF LoopInv, LoopTyped, clock
<1>4. \A u \in Queued' : u = t \/ u \in Queued
  BY <1>2 DEF Queued
<1>5. Queued' \subseteq Timers
  BY DEF Queued
<1>6. ArmedInThePast'
  BY <1>1, <1>2, <1>4, <1>5 DEF ArmedInThePast, LoopInv, clock
<1> QED BY <1>3, <1>6 DEF LoopInv

(* The timers are read again at the start of a pass or after a function. *)
LEMMA RereadKeeps ==
    ASSUME LoopInv, UNCHANGED <<program, when, clock>>,
           pc' = "steady" => current' = mstime
    PROVE  LoopInv'
<1>1. mstime' = mstime /\ Queued' = Queued
  BY DEF clock, mstime, Queued
<1> QED BY <1>1 DEF clock, LoopInv, LoopTyped, ArmedInThePast

LEMMA RunTopKeeps == ASSUME LoopInv, run_top PROVE LoopInv'
<1>1. PICK t \in Timers : when' = [when EXCEPT ![t] = Unarmed]
  BY DEF run_top
<1>2. pc' = "fn" /\ UNCHANGED <<program, clock>>
  BY DEF run_top, setup, files
<1>3. Unarmed \in Int
  BY LoopAssumption DEF Unarmed
<1>4. when' \in [Timers -> Int] /\ \A u \in Queued' : u \in Queued /\ when'[u] = when[u]
  BY <1>1, <1>3 DEF LoopInv, LoopTyped, Queued
<1>5. mstime' = mstime
  BY <1>2 DEF clock, mstime
<1>6. ArmedInThePast'
  BY <1>2, <1>4, <1>5 DEF ArmedInThePast, LoopInv, clock
<1> QED BY <1>2, <1>4, <1>6 DEF LoopInv, LoopTyped, clock

LEMMA FunctionReturnKeeps == ASSUME LoopInv, fn_returns PROVE LoopInv'
<1>1. /\ UNCHANGED <<program, clock>> /\ current' = mstime
      /\ when' = Rearmed(event)
  BY DEF fn_returns, setup, files
<1>2. CASE event \in Periodic
  <2>1. event \in Timers /\ when' = [when EXCEPT ![event] = mstime]
    BY <1>1, <1>2, LoopAssumption DEF Rearmed
  <2>2. PICK t \in Timers : t = event
    BY <2>1
  <2> QED BY <1>1, <2>1, <2>2, ArmedKeeps
<1>3. CASE event \notin Periodic
  BY <1>1, <1>3, RereadKeeps DEF Rearmed
<1> QED BY <1>2, <1>3

-----------------------------------------------------------------------------

LEMMA LoopInit == Init => LoopInv
<1> SUFFICES ASSUME Init PROVE LoopInv
  OBVIOUS
<1>1. program \in [fds : SUBSET Fds, timers : SUBSET Timers]
  BY LoopAssumption DEF Init
<1>2. Queued = {}
  BY DEF Init, Queued
<1>3. Unarmed \in Int
  BY LoopAssumption DEF Unarmed
<1> QED BY <1>1, <1>2, <1>3 DEF Init, LoopInv, LoopTyped, ArmedInThePast

(* What a step is, for what the invariant speaks of. *)
LEMMA LoopStep == ASSUME LoopInv, [Next]_vars PROVE LoopInv'
<1> USE DEF setup, files, clock, pass, thread
<1>1. CASE UNCHANGED vars
  BY <1>1, IdleKeeps DEF vars, Idle
<1>2. CASE \/ polling_turn \/ before_returns \/ wait_refused \/ after_returns
          \/ skew_top \/ skewfn_returns \/ skew_ends \/ steady_ends
  <2>1. Idle
    BY <1>2 DEF polling_turn, before_returns, wait_refused, after_returns, skew_top,
                skewfn_returns, skew_ends, steady_ends, Woken, Return, Step, Goto, Idle
  <2> QED BY <2>1, IdleKeeps
<1>3. CASE \/ polling_start \/ processEvents \/ wait_fails \/ init \/ stop
          \/ setBeforeSleep \/ setAfterSleep
  <2>1. Idle
    BY <1>3 DEF polling_start, processEvents, wait_fails, init, stop, setBeforeSleep,
                setAfterSleep, InProgram, Woken, Step, Goto, Idle
  <2> QED BY <2>1, IdleKeeps
<1>4. CASE check_clock
  <2>1. UNCHANGED <<program, when, clock>> /\ (pc' = "steady" => current' = mstime)
    BY <1>4 DEF check_clock, Goto
  <2> QED BY <2>1, RereadKeeps
<1>5. CASE run_top
  BY <1>5, RunTopKeeps
<1>6. CASE fn_returns
  BY <1>6, FunctionReturnKeeps
<1>7. CASE Tick \/ SetBack
  <2>1. PICK n \in Nat : ClockTo(n)
    BY <1>7 DEF Tick, SetBack, LoopInv, LoopTyped
  <2> QED BY <2>1, ClockKeeps
<1>8. ASSUME NEW t \in Timers, addTimerEvent(t) PROVE LoopInv'
  <2>1. /\ when' = [when EXCEPT ![t] = mstime] /\ UNCHANGED <<program, clock>>
        /\ pc' # "steady"
    BY <1>8 DEF addTimerEvent, InProgram
  <2> QED BY <2>1, ArmedKeeps
<1>9. ASSUME NEW f \in Fds, NEW i, addFileEvent(f, i) \/ delFileEvent(f, i) \/ close(f)
      PROVE  LoopInv'
  <2>1. Idle
    BY <1>9 DEF addFileEvent, delFileEvent, close, Idle
  <2> QED BY <2>1, IdleKeeps
<1> HIDE DEF setup, files, clock, pass, thread
<1> QED BY <1>1, <1>2, <1>3, <1>4, <1>5, <1>6, <1>7, <1>8, <1>9 DEF Next, Loop

LEMMA LoopInvariant == Spec => []LoopInv
  BY LoopInit, LoopStep, PTL DEF Spec

(* While mstime() does not go back a pass of processTimeEvents() returns    *)
(* only when no timer is left in the queue, for any number of timers.       *)
THEOREM PassLeavesNoTimer == Spec => PassEmptiesQueue
<1>1. ASSUME LoopInv, [Next]_vars, pc = "steady", pc' \in {"top", "user"}, ~back, Queued # {}
      PROVE  FALSE
  <2>1. \A t \in Timers : ~Due(t)
    <3>1. steady_ends \/ pc' \notin {"top", "user"}
      BY <1>1 DEF Next, Loop, vars, thread, polling_turn, before_returns, wait_refused,
                  after_returns, check_clock, run_top, fn_returns, skew_top, skewfn_returns,
                  skew_ends, polling_start, processEvents, wait_fails, init, stop,
                  setBeforeSleep, setAfterSleep, Tick, SetBack, ClockTo, addTimerEvent,
                  addFileEvent, delFileEvent, close, Woken, Step, Goto
    <3> QED BY <1>1, <3>1 DEF steady_ends
  <2>2. \A t \in Queued : when[t] <= current
    BY <1>1 DEF LoopInv, ArmedInThePast
  <2>3. IsFiniteSet(Queued) /\ Queued \subseteq Timers
    <3>1. Queued \in SUBSET Timers
      BY DEF Queued
    <3> QED BY <3>1, LoopAssumption, FS_Subset
  <2>4. \E t \in Queued : \A u \in Queued : when[u] <= when[t]
    <3> DEFINE f == [t \in Queued |-> when[t]]
    <3>1. f \in [Queued -> Int]
      BY <1>1, <2>3 DEF LoopInv, LoopTyped
    <3>2. \E t \in Queued : \A u \in Queued : f[u] <= f[t]
      <4> HIDE DEF f
      <4> QED BY <1>1, <2>3, <3>1, LatestExists
    <3> QED BY <3>2
  <2>5. PICK t \in Queued : Top(t)
    BY <2>4 DEF Top
  <2> QED BY <2>1, <2>2, <2>3, <2>5 DEF Due
<1>2. LoopInv /\ [Next]_vars =>
        [pc = "steady" /\ pc' \in {"top", "user"} => back \/ Queued = {}]_vars
  BY <1>1
<1> QED BY <1>2, LoopInvariant, PTL DEF Spec, PassEmptiesQueue
=============================================================================
