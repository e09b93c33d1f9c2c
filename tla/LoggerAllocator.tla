--------------------------- MODULE LoggerAllocator ---------------------------
(***************************************************************************)
(* LoggerAllocator: a std::list of free buffers.  allocate() takes the      *)
(* front of the list under the allocator's mutex; deallocate(), called by   *)
(* the async thread alone, pushes to the back and takes no mutex.  The two  *)
(* are split into the loads and stores of the links that libstdc++'s hook   *)
(* and unhook make, in their order.  Node 0 is the sentinel of the list;    *)
(* the node of a buffer has the buffer's number.  One process stands for    *)
(* whichever thread holds the mutex.                                        *)
(***************************************************************************)
EXTENDS Naturals, FiniteSets

CONSTANT MAX_LOG_ENTRY

ASSUME EntriesAssumption == MAX_LOG_ENTRY \in Nat \ {0}

S == 0
Buffers == 1 .. MAX_LOG_ENTRY
Nodes == {S} \union Buffers

VARIABLES
    next, prev,     \* links of the nodes
    used,           \* buffers handed out
    ppc, front, after, before,   \* allocate(): pc, the node and its neighbours
    dpc, pushed, back,           \* deallocate(): pc, the node, the old back
    raced,          \* history: the two overlapped with at most one free buffer
    twice           \* history: a buffer was handed out that was in use

vars == <<next, prev, used, ppc, front, after, before,
          dpc, pushed, back, raced, twice>>

(* LoggerAllocator(): the buffers in a row. *)
InitWith(successor) ==
    /\ next = successor
    /\ prev = [x \in Nodes |-> (x + MAX_LOG_ENTRY) % (MAX_LOG_ENTRY + 1)]
    /\ used = {}
    /\ ppc = "idle" /\ front = S /\ after = S /\ before = S
    /\ dpc = "idle" /\ pushed = S /\ back = S
    /\ raced = FALSE /\ twice = FALSE

OpenInit == InitWith([x \in Nodes |-> x + 1])          \* the row is not closed
Init == InitWith([x \in Nodes |-> (x + 1) % (MAX_LOG_ENTRY + 1)])

Pushing == IF dpc = "idle" THEN {} ELSE {pushed}
Free == Buffers \ (used \union Pushing)

(* Conjoined to every step of either process.  A buffer handed out twice    *)
(* has had its node deleted twice, and free() aborts the process.           *)
Step ==
    /\ ~twice
    /\ raced' = (raced \/ (ppc' # "idle" /\ dpc' # "idle" /\ Cardinality(Free') <= 1))

Popper == <<ppc, front, after, before>>
Pusher == <<dpc, pushed, back>>
-----------------------------------------------------------------------------
(* allocate() *)

(* freelist.empty() *)
AllocateEmpty ==
    /\ ppc = "idle"
    /\ ppc' = IF next[S] = S THEN "null" ELSE "front"
    /\ UNCHANGED <<next, prev, used, front, after, before, Pusher, twice>>
    /\ Step

AllocateNull ==
    /\ ppc = "null"
    /\ ppc' = "idle"
    /\ UNCHANGED <<next, prev, used, front, after, before, Pusher, twice>>
    /\ Step

(* front(), and begin() in pop_front() *)
AllocateFront ==
    /\ ppc = "front"
    /\ front' = next[S]
    /\ ppc' = "next"
    /\ UNCHANGED <<next, prev, used, after, before, Pusher, twice>>
    /\ Step

UnhookReadNext ==
    /\ ppc = "next"
    /\ after' = next[front]
    /\ ppc' = "prev"
    /\ UNCHANGED <<next, prev, used, front, before, Pusher, twice>>
    /\ Step

UnhookReadPrev ==
    /\ ppc = "prev"
    /\ before' = prev[front]
    /\ ppc' = "linkNext"
    /\ UNCHANGED <<next, prev, used, front, after, Pusher, twice>>
    /\ Step

UnhookLinkNext ==
    /\ ppc = "linkNext"
    /\ next' = [next EXCEPT ![before] = after]
    /\ ppc' = "linkPrev"
    /\ UNCHANGED <<prev, used, front, after, before, Pusher, twice>>
    /\ Step

(* The last store, and the return of the buffer. *)
UnhookLinkPrev ==
    /\ ppc = "linkPrev"
    /\ prev' = [prev EXCEPT ![after] = before]
    /\ used' = used \union {front}
    /\ twice' = (twice \/ front \in used)
    /\ ppc' = "idle" /\ front' = S /\ after' = S /\ before' = S
    /\ UNCHANGED <<next, Pusher>>
    /\ Step
-----------------------------------------------------------------------------
(* deallocate() *)

HookNext(b) ==
    /\ dpc = "idle" /\ b \in used
    /\ used' = used \ {b}
    /\ pushed' = b
    /\ next' = [next EXCEPT ![b] = S]
    /\ dpc' = "prev"
    /\ UNCHANGED <<prev, back, Popper, twice>>
    /\ Step

HookPrevTo(x) ==
    /\ dpc = "prev"
    /\ prev' = [prev EXCEPT ![pushed] = x]
    /\ dpc' = "back"
    /\ UNCHANGED <<next, used, pushed, back, Popper, twice>>
    /\ Step

FrontHookPrev == HookPrevTo(S)                          \* as if it came first
HookPrev == HookPrevTo(prev[S])

HookReadBack ==
    /\ dpc = "back"
    /\ back' = prev[S]
    /\ dpc' = "linkNext"
    /\ UNCHANGED <<next, prev, used, pushed, Popper, twice>>
    /\ Step

HookLinkNext ==
    /\ dpc = "linkNext"
    /\ next' = [next EXCEPT ![back] = pushed]
    /\ dpc' = "linkPrev"
    /\ UNCHANGED <<prev, used, pushed, back, Popper, twice>>
    /\ Step

HookLinkPrev ==
    /\ dpc = "linkPrev"
    /\ prev' = [prev EXCEPT ![S] = pushed]
    /\ dpc' = "idle" /\ pushed' = S /\ back' = S
    /\ UNCHANGED <<next, used, Popper, twice>>
    /\ Step
-----------------------------------------------------------------------------
Allocate ==
    \/ AllocateEmpty \/ AllocateNull \/ AllocateFront
    \/ UnhookReadNext \/ UnhookReadPrev \/ UnhookLinkNext \/ UnhookLinkPrev

Deallocate ==
    \/ \E b \in used : HookNext(b)
    \/ HookPrev \/ HookReadBack \/ HookLinkNext \/ HookLinkPrev

Next == Allocate \/ Deallocate

Spec == Init /\ [][Next]_vars
-----------------------------------------------------------------------------
TypeOK ==
    /\ next \in [Nodes -> Nodes] /\ prev \in [Nodes -> Nodes]
    /\ used \subseteq Buffers
    /\ ppc \in {"idle", "null", "front", "next", "prev", "linkNext", "linkPrev"}
    /\ dpc \in {"idle", "prev", "back", "linkNext", "linkPrev"}
    /\ front \in Nodes /\ after \in Nodes /\ before \in Nodes
    /\ pushed \in Nodes /\ back \in Nodes
    /\ raced \in BOOLEAN /\ twice \in BOOLEAN

(* The k-th node of the list from its front, going on from S to S. *)
Nth[k \in 0 .. MAX_LOG_ENTRY + 1] == IF k = 0 THEN S ELSE next[Nth[k - 1]]
Linked == {Nth[k] : k \in 1 .. MAX_LOG_ENTRY + 1} \ {S}

Quiescent == ppc = "idle" /\ dpc = "idle"

(* The free buffers, and no other, are on the list, linked both ways. *)
WellLinked ==
    /\ Linked = Free
    /\ \A x \in Linked \union {S} : prev[next[x]] = x

(* The missing lock is harmless as long as two buffers are free whenever    *)
(* the two calls overlap: no buffer is handed out twice, and the list is    *)
(* sound again each time both are over.                                     *)
HarmlessWhileTwoFree ==
    ~raced => ~twice /\ (Quiescent => WellLinked)

(* writeLog() (logger.cpp:364-365) takes a null for a busy log thread: no   *)
(* buffer is free when allocate() finds the list empty.                     *)
NoSpaceMeansBusy == [][ppc = "idle" /\ ppc' = "null" => Free = {}]_vars
=============================================================================
