----------------------------- MODULE EventLoop -----------------------------
(***************************************************************************)
(* EventLoop (src/eventloop.cpp): one thread that calls polling() or         *)
(* processEvents(), the vector of file events and the kernel's epoll set, a *)
(* priority queue of timers, and a wall clock that may be set back.  The    *)
(* callbacks (before_sleep, after_sleep, the timers' functions) belong to   *)
(* the program: each may call the loop's methods before it returns.         *)
(*                                                                          *)
(* epoll_events is never given a size, so epoll_wait() gets a NULL buffer   *)
(* and never returns a positive number: no file function is ever called,    *)
(* and which functions the elements hold is left out.                       *)
(***************************************************************************)
EXTENDS Integers, FiniteSets

CONSTANTS
    Programs,     \* what a program uses: records of descriptors and timers
    Fds, Timers,  \* all of them
    Periodic,     \* timers whose function does not return -1
    Sec,          \* ticks of the clock in a second
    HalfRange,    \* mstime() is an int: it wraps to -HalfRange at HalfRange
    MaxTime       \* bound on the clock

ASSUME LoopAssumption ==
    /\ Fds \subseteq Nat /\ Periodic \subseteq Timers /\ IsFiniteSet(Timers)
    /\ Sec \in Nat \ {0} /\ HalfRange \in Nat \ {0} /\ MaxTime \in Nat
    /\ Programs \subseteq [fds : SUBSET Fds, timers : SUBSET Timers]

NONE == "none"
Interests == {"pri", "out"}    \* EPOLLIN is redefined as what Linux calls EPOLLPRI
Unregistered == {NONE}
Unarmed == HalfRange           \* not a value of mstime()

VARIABLES
    program,
    open,          \* init() has made the epoll set
    size, masks,   \* events.size(), and the mask of each of its elements
    kernel,        \* the interest registered for each descriptor
    when,          \* the timers in the queue, and for what reading of mstime()
    event,         \* the timer whose function runs
    now, back,     \* the clock; mstime() has gone back, by a wrap or a setting
    last_time, current,
    running, polling, before_sleep, after_sleep,
    pc
files == <<size, masks, kernel>>
clock == <<now, back>>
hooks == <<before_sleep, after_sleep>>
setup == <<program, open, hooks>>
pass == <<event, last_time, current>>
thread == <<pass, running, polling, pc>>
vars == <<setup, files, when, clock, thread>>

mstime == ((now + HalfRange) % (2 * HalfRange)) - HalfRange
time == now \div Sec
Queued == {t \in Timers : when[t] # Unarmed}

(* last_time is not initialised. *)
Init ==
    /\ program \in Programs
    /\ open = FALSE
    /\ size = 0 /\ masks = [f \in Fds |-> {}]
    /\ kernel = [f \in Fds |-> Unregistered]
    /\ when = [t \in Timers |-> Unarmed] /\ event = NONE
    /\ now = 0 /\ back = FALSE
    /\ last_time \in 0 .. MaxTime \div Sec + 1 /\ current = 0
    /\ running = TRUE /\ polling = FALSE
    /\ before_sleep = FALSE /\ after_sleep = FALSE
    /\ pc = "user"

(* Where code of the program runs, and may call the loop. *)
InProgram == pc \in {"user", "before", "after", "fn", "skewfn"}

init ==
    /\ ~open /\ open' = TRUE /\ pc = "user"
    /\ UNCHANGED <<program, hooks, files, when, clock, thread>>

-----------------------------------------------------------------------------
(* File events. *)

Grown(fd) == IF fd < size THEN size ELSE IF fd > 2 * size THEN fd ELSE 2 * size

(* What epoll_ctl() does: MOD and DEL want a registered descriptor, ADD one *)
(* that is not.                                                             *)
Control(op, fd, interests) ==
    kernel' = IF open /\ (op = "ADD" <=> kernel[fd] = Unregistered)
              THEN [kernel EXCEPT ![fd] = interests] ELSE kernel

(* ADD or MOD by the element's mask, which no call writes.  Behind the end  *)
(* of the vector the mask is whatever lies there.                           *)
addFileEvent(fd, interests) ==
    /\ InProgram /\ fd \in program.fds
    /\ size' = Grown(fd)
    /\ IF fd < Grown(fd)
       THEN Control(IF masks[fd] = {} THEN "ADD" ELSE "MOD", fd, interests)
       ELSE \E op \in {"ADD", "MOD"} : Control(op, fd, interests)
    /\ UNCHANGED <<setup, masks, when, clock, thread>>

Reduced(fd, mask, interests) ==
    LET left == mask \ interests
    IN IF left = {} THEN Control("DEL", fd, Unregistered) ELSE Control("MOD", fd, left)

(* Nothing is done for an empty mask, and every mask in the vector is; the  *)
(* element at the very end has any, or bits that are no interest.           *)
delFileEvent(fd, interests) ==
    /\ InProgram /\ fd \in program.fds /\ fd <= size
    /\ IF fd < size
       THEN masks[fd] # {} /\ Reduced(fd, masks[fd], interests)
       ELSE \/ UNCHANGED kernel
            \/ \E mask \in SUBSET Interests : Reduced(fd, mask, interests)
            \/ Control("MOD", fd, {})
    /\ UNCHANGED <<setup, size, masks, when, clock, thread>>

(* The program closes the descriptor, and the kernel forgets its interest;  *)
(* the number may come back as that of another file.                        *)
close(fd) ==
    /\ InProgram /\ fd \in program.fds /\ kernel[fd] # Unregistered
    /\ kernel' = [kernel EXCEPT ![fd] = Unregistered]
    /\ UNCHANGED <<setup, size, masks, when, clock, thread>>

-----------------------------------------------------------------------------
(* Timers and the clock. *)

(* The interval asked for is not used. *)
addTimerEvent(t) ==
    /\ InProgram /\ t \in program.timers \ (Queued \union {event})
    /\ when' = [when EXCEPT ![t] = mstime]
    /\ UNCHANGED <<setup, files, clock, thread>>

ClockTo(n) ==
    /\ now' = n
    /\ back' = (back \/ mstime' < mstime)
    /\ UNCHANGED <<setup, files, when, thread>>
Tick == now < MaxTime /\ ClockTo(now + 1)
SetBack == \E n \in 0 .. now - 1 : ClockTo(n)

stop ==
    /\ running /\ running' = FALSE
    /\ UNCHANGED <<setup, files, when, clock, pass, polling, pc>>

setBeforeSleep ==
    /\ InProgram /\ ~before_sleep /\ before_sleep' = TRUE
    /\ UNCHANGED <<program, open, after_sleep, files, when, clock, thread>>
setAfterSleep ==
    /\ InProgram /\ ~after_sleep /\ after_sleep' = TRUE
    /\ UNCHANGED <<program, open, before_sleep, files, when, clock, thread>>

-----------------------------------------------------------------------------
(* The loop. *)

Goto(from, to) == pc = from /\ pc' = to /\ UNCHANGED <<setup, files, when, clock>>
Step(from, to) == Goto(from, to) /\ UNCHANGED <<pass, running, polling>>

polling_start ==
    /\ Goto("user", "top") /\ polling' = TRUE /\ running' = TRUE /\ UNCHANGED pass
DeafTurn ==
    /\ Goto("top", IF before_sleep THEN "before" ELSE "top")
    /\ running' = TRUE /\ UNCHANGED <<pass, polling>>
polling_turn ==
    /\ Goto("top", IF ~running THEN "user" ELSE IF before_sleep THEN "before" ELSE "top")
    /\ polling' = running /\ UNCHANGED <<pass, running>>
(* before_sleep returns, or ends with its call of processEvents(). *)
before_returns == Step("before", "top")

processEvents == Step(IF polling THEN "before" ELSE "user", "wait")

Woken == Step("wait", IF after_sleep THEN "after" ELSE "check")
(* EBADF, or EINVAL for a vector of no elements. *)
wait_refused == (~open \/ size = 0) /\ Woken
(* EINTR, or EFAULT when a registered descriptor is ready. *)
wait_fails == open /\ size > 0 /\ Woken
after_returns == Step("after", "check")

Return == IF polling THEN "top" ELSE "user"

(* processTimeEvents(): has the clock gone back since the last pass? *)
check_clock ==
    /\ IF time < last_time
       THEN Goto("check", "skew") /\ UNCHANGED <<last_time, current>>
       ELSE Goto("check", "steady") /\ last_time' = time /\ current' = mstime
    /\ UNCHANGED <<event, running, polling>>

(* The comparison makes the latest timer the top of the queue. *)
Top(t) == t \in Queued /\ \A u \in Queued : when[u] <= when[t]
LateDue(t) == Top(t) /\ when[t] < current
Due(t) == Top(t) /\ when[t] <= current

run_top ==
    /\ pc = "steady"
    /\ \E t \in Timers :
        /\ Due(t)
        /\ when' = [when EXCEPT ![t] = Unarmed] /\ event' = t
    /\ pc' = "fn"
    /\ UNCHANGED <<setup, files, clock, last_time, current, running, polling>>
(* A function that does not return -1 is armed again for now. *)
Rearmed(t) == IF t \in Periodic THEN [when EXCEPT ![t] = mstime] ELSE when
fn_returns ==
    /\ pc = "fn" /\ pc' = "steady"
    /\ current' = mstime /\ when' = Rearmed(event) /\ event' = NONE
    /\ UNCHANGED <<setup, files, clock, last_time, running, polling>>
steady_ends == (\A t \in Timers : ~Due(t)) /\ Step("steady", Return)

(* After a skew: the top of the queue is run, and not popped. *)
skew_top ==
    /\ \E t \in Timers : Top(t) /\ event' = t
    /\ Goto("skew", "skewfn")
    /\ UNCHANGED <<last_time, current, running, polling>>
skewfn_returns ==
    /\ Goto("skewfn", "skew") /\ event' = NONE
    /\ UNCHANGED <<last_time, current, running, polling>>
skew_ends == Queued = {} /\ Step("skew", Return)

Loop ==
    \/ polling_turn \/ before_returns \/ wait_refused \/ after_returns
    \/ check_clock \/ run_top \/ fn_returns \/ steady_ends
    \/ skew_top \/ skewfn_returns \/ skew_ends

Next ==
    \/ Loop \/ polling_start \/ processEvents \/ wait_fails
    \/ init \/ stop \/ setBeforeSleep \/ setAfterSleep \/ Tick \/ SetBack
    \/ \E t \in Timers : addTimerEvent(t)
    \/ \E f \in Fds : close(f)
    \/ \E f \in Fds, i \in {{"pri"}, {"out"}, Interests} :
        addFileEvent(f, i) \/ delFileEvent(f, i)

(* The thread runs, and the callbacks of the program return. *)
Spec == Init /\ [][Next]_vars /\ WF_vars(Loop)

-----------------------------------------------------------------------------
(* addTimerEvent() does not use its interval, and what is armed again is    *)
(* due at once: while mstime() does not go back, a pass returns only with   *)
(* the queue empty, so a loop that returns from its passes has no periodic  *)
(* timer.                                                                   *)
PassEmptiesQueue ==
    [][pc = "steady" /\ pc' \in {"top", "user"} => back \/ Queued = {}]_vars

(* A stop() that finds polling() in its loop ends it, unless the pass it    *)
(* finds is held for good: in epoll_wait(), which has no timeout, by a      *)
(* skew, or by a periodic timer; or functions go on arming timers for ever. *)
Held ==
    \/ pc = "wait" /\ open /\ size > 0
    \/ pc \in {"skew", "skewfn"} /\ Queued # {}
    \/ pc \in {"steady", "fn"} /\ Periodic \intersect (Queued \union {event}) # {}
Arms == pc' = pc /\ when' # when
StopIsHeard ==
    <>[][~Arms]_vars => ((polling /\ ~running) ~> (~polling \/ []Held))
=============================================================================
