----------------------- MODULE LoggerAllocatorProofs -----------------------
(***************************************************************************)
(* The free list of LoggerAllocator, for any number of buffers: as long as  *)
(* two of them are free whenever the two calls overlap, the links describe  *)
(* one chain through the free buffers, but for the stores that the calls    *)
(* have still to make.                                                      *)
(***************************************************************************)
EXTENDS LoggerAllocator, FunctionTheorems, FiniteSetTheorems, SequenceTheorems,
        WellFoundedInduction, TLAPS

(* Induction on the natural numbers, for a set of numbers: the least number *)
(* outside of G would be neither 0 nor the successor of one in G.           *)
LEMMA NatSetInduction ==
    ASSUME NEW G, 0 \in G, \A n \in Nat : n \in G => n + 1 \in G
    PROVE  \A n \in Nat : n \in G
<1> SUFFICES ASSUME Nat \ G # {} PROVE FALSE
  OBVIOUS
<1> DEFINE R == OpToRel(<, Nat)
<1>1. \A m, k \in Nat : m < k => <<m, k>> \in R
  BY DEF OpToRel
<1>2. PICK k \in Nat \ G : \A m \in Nat \ G : ~ (<<m, k>> \in R)
  <2>1. IsWellFoundedOn(R, Nat)
    BY NatLessThanWellFounded
  <2> HIDE DEF R
  <2> QED BY <2>1, WFMin
<1> HIDE DEF R
<1>3. k # 0 /\ k - 1 \in Nat /\ (k - 1) + 1 = k /\ k - 1 < k
  OBVIOUS
<1>4. k - 1 \in G
  BY <1>1, <1>2, <1>3
<1> QED BY <1>3, <1>4

Unhooking == {"next", "prev", "linkNext", "linkPrev"}

(* c is the chain of the free buffers from the sentinel to the sentinel.    *)
Chain(n, c) ==
    /\ c[0] = S /\ c[n + 1] = S
    /\ \A i \in 1 .. n : c[i] \in Free
    /\ \A x \in Free : \E i \in 1 .. n : c[i] = x
    /\ \A i, j \in 1 .. n : c[i] = c[j] => i = j

(* The links follow it, except where a call has just turned one.            *)
Links(n, c) ==
    /\ \A i \in 0 .. n : prev[c[i + 1]] = c[i]
    /\ \A i \in 0 .. n :
          \/ i = 0 /\ ppc = "linkPrev"
          \/ i = n /\ dpc = "linkPrev"
          \/ next[c[i]] = c[i + 1]
    /\ ppc = "linkPrev" => next[S] = c[2]
    /\ dpc = "linkPrev" => next[c[n]] = pushed

(* What allocate() holds is the front of the chain and its neighbours.      *)
PopperView(n, c) ==
    /\ ppc \in {"front"} \union Unhooking => n >= 1
    /\ ppc \in Unhooking => front = c[1]
    /\ ppc \in Unhooking \ {"next"} => after = c[2]
    /\ ppc \in {"linkNext", "linkPrev"} => before = S

(* What deallocate() holds is its node, not on the chain, and the chain's end. *)
PusherView(n, c) ==
    /\ dpc # "idle" => pushed \in Buffers \ used /\ next[pushed] = S
    /\ dpc \in {"back", "linkNext", "linkPrev"} => prev[pushed] = c[n]
    /\ dpc \in {"linkNext", "linkPrev"} => back = c[n]
    /\ dpc # "idle" /\ ppc # "idle" => n >= 2

List(n, c) == Chain(n, c) /\ Links(n, c) /\ PopperView(n, c) /\ PusherView(n, c)

Sound == \E n \in Nat : \E c \in [0 .. n + 1 -> Nodes] : List(n, c)

(* allocate() never takes the sentinel for a buffer, raced or not.          *)
FrontIsBuffer ==
    /\ ppc = "front" => next[S] # S
    /\ ppc \in Unhooking => front # S
    /\ dpc # "idle" => pushed # S

IInv == TypeOK /\ FrontIsBuffer /\ (~raced => ~twice /\ Sound)
-----------------------------------------------------------------------------
(* There is a buffer, and the sentinel is none. *)
LEMMA RowFacts ==
    /\ MAX_LOG_ENTRY \in Nat \ {0} /\ S = 0 /\ S \notin Buffers
    /\ \A b \in Buffers : b \in Nodes /\ b # S
    /\ S \in Nodes
  BY EntriesAssumption DEF S, Buffers, Nodes

(* A row that names every buffer of a set once is as long as the set. *)
LEMMA RowLength ==
    ASSUME NEW n \in Nat, NEW c, NEW F \in SUBSET Buffers,
           \A i \in 1 .. n : c[i] \in F,
           \A x \in F : \E i \in 1 .. n : c[i] = x,
           \A i, j \in 1 .. n : c[i] = c[j] => i = j
    PROVE  Cardinality(F) = n /\ n <= MAX_LOG_ENTRY
<1> DEFINE f == [i \in 1 .. n |-> c[i]]
<1>1. f \in Bijection(1 .. n, F)
  <2>1. f \in [1 .. n -> F]
    OBVIOUS
  <2>2. \A i, j \in 1 .. n : f[i] = f[j] => i = j
    OBVIOUS
  <2>3. \A x \in F : \E i \in 1 .. n : f[i] = x
    OBVIOUS
  <2> HIDE DEF f
  <2> QED BY <2>1, <2>2, <2>3 DEF Bijection, Injection, Surjection, IsInjective
<1>2. Cardinality(F) = n
  <2>1. ExistsBijection(1 .. n, F)
    BY <1>1 DEF ExistsBijection
  <2> QED BY <2>1, FS_CountingElements
<1>3. Cardinality(F) <= MAX_LOG_ENTRY
  <2>1. IsFiniteSet(Buffers) /\ Cardinality(Buffers) = MAX_LOG_ENTRY
    BY EntriesAssumption, FS_Interval DEF Buffers
  <2> QED BY <2>1, FS_Subset
<1> QED BY <1>2, <1>3

(* The row that the constructor makes is a chain. *)
LEMMA InitIInv == Init => IInv
<1> SUFFICES ASSUME Init PROVE IInv
  OBVIOUS
<1> DEFINE m == MAX_LOG_ENTRY
           c == [i \in 0 .. m + 1 |-> IF i = m + 1 THEN S ELSE i]
<1>1. m \in Nat \ {0} /\ S = 0 /\ Nodes = 0 .. m /\ Buffers = 1 .. m
  BY EntriesAssumption DEF S, Nodes, Buffers
<1> HIDE DEF m
<1>2. \A x \in 0 .. m : (x + 1) % (m + 1) = (IF x = m THEN 0 ELSE x + 1)
  BY <1>1
<1>3. \A x \in 0 .. m : (x + m) % (m + 1) = (IF x = 0 THEN m ELSE x - 1)
  BY <1>1
<1>4. /\ next = [x \in 0 .. m |-> IF x = m THEN 0 ELSE x + 1]
      /\ prev = [x \in 0 .. m |-> IF x = 0 THEN m ELSE x - 1]
  <2>1. /\ next = [x \in 0 .. m |-> (x + 1) % (m + 1)]
        /\ prev = [x \in 0 .. m |-> (x + m) % (m + 1)]
    BY <1>1 DEF Init, InitWith, m
  <2> QED BY <2>1, <1>2, <1>3
<1>5. /\ used = {} /\ ppc = "idle" /\ front = S /\ after = S /\ before = S
      /\ dpc = "idle" /\ pushed = S /\ back = S /\ raced = FALSE /\ twice = FALSE
  BY DEF Init, InitWith
<1>6. TypeOK /\ FrontIsBuffer
  <2>1. next \in [Nodes -> Nodes] /\ prev \in [Nodes -> Nodes]
    BY <1>1, <1>4
  <2> QED BY <2>1, <1>5, RowFacts DEF TypeOK, FrontIsBuffer, Unhooking
<1>7. c \in [0 .. m + 1 -> Nodes] /\ c[0] = S /\ c[m + 1] = S
      /\ \A i \in 0 .. m : c[i] = i
  BY <1>1
<1> HIDE DEF c
<1>8. Free = 1 .. m
  BY <1>1, <1>5 DEF Free, Pushing
<1>9. Chain(m, c)
  BY <1>1, <1>7, <1>8 DEF Chain
<1>10. Links(m, c)
  <2>1. ASSUME NEW i \in 0 .. m PROVE prev[c[i + 1]] = c[i]
    <3>1. CASE i = m
      <4>1. c[i + 1] = 0 /\ c[i] = m
        BY <3>1, <1>1, <1>7
      <4> QED BY <4>1, <1>1, <1>4
    <3>2. CASE i # m
      <4>1. i + 1 \in 1 .. m /\ c[i + 1] = i + 1 /\ c[i] = i
        BY <3>2, <1>1, <1>7
      <4> QED BY <4>1, <1>1, <1>4
    <3> QED BY <3>1, <3>2
  <2>2. ASSUME NEW i \in 0 .. m PROVE next[c[i]] = c[i + 1]
    <3>1. CASE i = m
      BY <3>1, <1>1, <1>4, <1>7
    <3>2. CASE i # m
      BY <3>2, <1>1, <1>4, <1>7
    <3> QED BY <3>1, <3>2
  <2> QED BY <2>1, <2>2, <1>5 DEF Links
<1>11. PopperView(m, c) /\ PusherView(m, c)
  BY <1>5 DEF PopperView, PusherView, Unhooking
<1> QED BY <1>1, <1>6, <1>7, <1>9, <1>10, <1>11, <1>5 DEF IInv, Sound, List

(* Types, and that the buffer taken is none: no race can change that.       *)
LEMMA NextTypes ==
    ASSUME TypeOK, FrontIsBuffer, [Next]_vars
    PROVE  TypeOK' /\ FrontIsBuffer'
<1> USE RowFacts
<1>1. CASE UNCHANGED vars
  BY <1>1 DEF vars, TypeOK, FrontIsBuffer
<1>2. CASE AllocateEmpty \/ AllocateNull
  BY <1>2 DEF AllocateEmpty, AllocateNull, Step, Pusher, TypeOK, FrontIsBuffer, Unhooking
<1>3. CASE AllocateFront
  BY <1>3 DEF AllocateFront, Step, Pusher, TypeOK, FrontIsBuffer, Unhooking
<1>4. CASE UnhookReadNext \/ UnhookReadPrev
  BY <1>4 DEF UnhookReadNext, UnhookReadPrev, Step, Pusher, TypeOK, FrontIsBuffer, Unhooking
<1>5. CASE UnhookLinkNext
  BY <1>5 DEF UnhookLinkNext, Step, Pusher, TypeOK, FrontIsBuffer, Unhooking
<1>6. CASE UnhookLinkPrev
  <2>1. front \in Buffers
    BY <1>6 DEF UnhookLinkPrev, TypeOK, FrontIsBuffer, Unhooking, Nodes
  <2> QED BY <1>6, <2>1 DEF UnhookLinkPrev, Step, Pusher, TypeOK, FrontIsBuffer, Unhooking
<1>7. ASSUME NEW b \in used, HookNext(b) PROVE TypeOK' /\ FrontIsBuffer'
  <2>1. b \in Buffers
    BY DEF TypeOK
  <2> QED BY <1>7, <2>1 DEF HookNext, Step, Popper, TypeOK, FrontIsBuffer, Unhooking
<1>8. CASE HookPrev
  BY <1>8 DEF HookPrev, HookPrevTo, Step, Popper, TypeOK, FrontIsBuffer, Unhooking
<1>9. CASE HookReadBack
  BY <1>9 DEF HookReadBack, Step, Popper, TypeOK, FrontIsBuffer, Unhooking
<1>10. CASE HookLinkNext
  BY <1>10 DEF HookLinkNext, Step, Popper, TypeOK, FrontIsBuffer, Unhooking
<1>11. CASE HookLinkPrev
  BY <1>11 DEF HookLinkPrev, Step, Popper, TypeOK, FrontIsBuffer, Unhooking
<1> QED BY <1>1, <1>2, <1>3, <1>4, <1>5, <1>6, <1>7, <1>8, <1>9, <1>10, <1>11
        DEF Next, Allocate, Deallocate

(* What a step that has not raced says of the chain it leaves.              *)
LEMMA TwoFree ==
    ASSUME Step, raced' = FALSE, NEW n \in Nat, NEW c, Chain(n, c)',
           ppc' # "idle", dpc' # "idle"
    PROVE  n >= 2
<1>1. ~(Cardinality(Free') <= 1)
  BY DEF Step
<1>2. Free' \in SUBSET Buffers
  BY DEF Free
<1>3. Cardinality(Free') = n
  <2> DEFINE F == Free'
  <2>1. /\ \A i \in 1 .. n : c[i] \in F
        /\ \A x \in F : \E i \in 1 .. n : c[i] = x
        /\ \A i, j \in 1 .. n : c[i] = c[j] => i = j
    BY DEF Chain
  <2>2. F \in SUBSET Buffers
    BY <1>2
  <2> HIDE DEF F
  <2>3. Cardinality(F) = n
    BY <2>1, <2>2, RowLength
  <2> QED BY <2>3 DEF F
<1> QED BY <1>1, <1>3

(* A step that frees nothing and takes nothing keeps the chain. *)
LEMMA SameChain ==
    ASSUME NEW n \in Nat, NEW c, Chain(n, c), Free' = Free
    PROVE  Chain(n, c)'
  BY DEF Chain

(* The nodes of the chain are apart from each other and from the sentinel. *)
LEMMA ChainNodes ==
    ASSUME NEW n \in Nat, NEW c, Chain(n, c)
    PROVE  /\ \A i \in 1 .. n : c[i] \in Buffers /\ c[i] # S
                 /\ c[i] \notin used /\ (dpc # "idle" => c[i] # pushed)
           /\ \A i \in 0 .. n + 1 : c[i] = S => i = 0 \/ i = n + 1
           /\ \A i, j \in 0 .. n : c[i] = c[j] => i = j
           /\ \A i, j \in 1 .. n + 1 : c[i] = c[j] => i = j
<1>1. \A i \in 1 .. n : c[i] \in Buffers /\ c[i] # S
                 /\ c[i] \notin used /\ (dpc # "idle" => c[i] # pushed)
  BY RowFacts DEF Chain, Free, Pushing
<1>2. \A i \in 0 .. n + 1 : i \in 1 .. n \/ i = 0 \/ i = n + 1
  OBVIOUS
<1>3. c[0] = S /\ c[n + 1] = S /\ \A i, j \in 1 .. n : c[i] = c[j] => i = j
  BY DEF Chain
<1> QED BY <1>1, <1>2, <1>3
(* The steps of allocate() that only read.                                  *)
LEMMA PopperReads ==
    ASSUME TypeOK, FrontIsBuffer, raced' = FALSE,
           NEW n \in Nat, NEW c \in [0 .. n + 1 -> Nodes], List(n, c),
           AllocateEmpty \/ AllocateNull \/ AllocateFront \/ UnhookReadNext \/ UnhookReadPrev
    PROVE  List(n, c)'
<1>1. UNCHANGED <<next, prev, used, dpc, pushed, back>> /\ Step
  BY DEF AllocateEmpty, AllocateNull, AllocateFront, UnhookReadNext, UnhookReadPrev, Pusher
<1>2. ppc # "linkPrev" /\ ppc' # "linkPrev"
  BY DEF AllocateEmpty, AllocateNull, AllocateFront, UnhookReadNext, UnhookReadPrev
<1>3. Chain(n, c)'
  <2>1. Free' = Free
    BY <1>1 DEF Free, Pushing
  <2> QED BY <2>1, SameChain DEF List
<1>4. Links(n, c)'
  BY <1>1, <1>2 DEF List, Links
<1>5. PusherView(n, c)'
  <2>1. dpc' # "idle" /\ ppc' # "idle" => n >= 2
    BY <1>1, <1>3, TwoFree
  <2> QED BY <1>1, <2>1 DEF List, PusherView
<1>6. PopperView(n, c)'
  <2>1. c[0] = S /\ c[n + 1] = S /\ 0 \in 0 .. n
    BY DEF List, Chain
  <2>2. CASE AllocateEmpty
    <3>1. CASE ppc' = "front"
      <4>1. next[S] # S
        BY <2>2, <3>1 DEF AllocateEmpty
      <4>2. n >= 1
        <5>1. CASE dpc = "linkPrev"
          BY <5>1, <1>1, <3>1, <1>5 DEF PusherView
        <5>2. CASE dpc # "linkPrev"
          <6>1. next[c[0]] = c[0 + 1]
            BY <5>2, <1>2, <2>1 DEF List, Links
          <6> QED BY <6>1, <2>1, <4>1
        <5> QED BY <5>1, <5>2
      <4> QED BY <3>1, <4>2 DEF PopperView, Unhooking
    <3>2. CASE ppc' # "front"
      BY <2>2, <3>2 DEF AllocateEmpty, PopperView, Unhooking
    <3> QED BY <3>1, <3>2
  <2>3. CASE AllocateNull
    BY <2>3 DEF AllocateNull, PopperView, Unhooking
  <2>4. CASE AllocateFront
    <3>1. n >= 1 /\ ppc' = "next" /\ front' = next[S]
      BY <2>4 DEF AllocateFront, List, PopperView
    <3>2. dpc = "linkPrev" => n >= 2
      BY <2>4 DEF AllocateFront, List, PusherView
    <3>3. next[c[0]] = c[0 + 1]
      BY <1>2, <2>1, <3>1, <3>2 DEF List, Links
    <3>4. front' = c[1]
      BY <3>1, <3>3, <2>1
    <3> QED BY <3>1, <3>4 DEF PopperView, Unhooking
  <2>5. CASE UnhookReadNext
    <3>1. n >= 1 /\ ppc' = "prev" /\ after' = next[c[1]] /\ front' = c[1]
      BY <2>5 DEF UnhookReadNext, List, PopperView, Unhooking
    <3>2. dpc = "linkPrev" => n >= 2
      BY <2>5 DEF UnhookReadNext, List, PusherView
    <3>3. next[c[1]] = c[1 + 1]
      BY <1>2, <3>1, <3>2 DEF List, Links
    <3> QED BY <3>1, <3>3 DEF PopperView, Unhooking
  <2>6. CASE UnhookReadPrev
    <3>1. /\ n >= 1 /\ ppc' = "linkNext" /\ before' = prev[c[1]]
          /\ front' = c[1] /\ after' = c[2]
      BY <2>6 DEF UnhookReadPrev, List, PopperView, Unhooking
    <3>2. prev[c[0 + 1]] = c[0]
      BY <2>1 DEF List, Links
    <3> QED BY <3>1, <3>2, <2>1 DEF PopperView, Unhooking
  <2> QED BY <2>2, <2>3, <2>4, <2>5, <2>6
<1> QED BY <1>3, <1>4, <1>5, <1>6 DEF List

(* The sentinel now leads past the front.                                   *)
LEMMA PopperLinksNext ==
    ASSUME TypeOK, FrontIsBuffer, raced' = FALSE,
           NEW n \in Nat, NEW c \in [0 .. n + 1 -> Nodes], List(n, c), UnhookLinkNext
    PROVE  List(n, c)'
<1>1. /\ ppc = "linkNext" /\ ppc' = "linkPrev" /\ Step
      /\ UNCHANGED <<prev, used, front, after, before, dpc, pushed, back>>
      /\ next' = [next EXCEPT ![before] = after]
  BY DEF UnhookLinkNext, Pusher
<1>2. n >= 1 /\ front = c[1] /\ after = c[2] /\ before = S
  BY <1>1 DEF List, PopperView, Unhooking
<1>3. next' = [next EXCEPT ![S] = c[2]] /\ next \in [Nodes -> Nodes] /\ S \in Nodes
  BY <1>1, <1>2, RowFacts DEF TypeOK
<1>4. next'[S] = c[2] /\ \A x \in Nodes : x # S => next'[x] = next[x]
  BY <1>3
<1>5. Chain(n, c)'
  <2>1. Free' = Free
    BY <1>1 DEF Free, Pushing
  <2> QED BY <2>1, SameChain DEF List
<1>6. \A i \in 1 .. n : c[i] \in Nodes /\ c[i] # S
  BY ChainNodes DEF List
<1>7. dpc # "idle" => n >= 2
  BY <1>1 DEF List, PusherView
<1>8. Links(n, c)'
  <2>1. \A i \in 0 .. n : prev'[c[i + 1]] = c[i]
    BY <1>1 DEF List, Links
  <2>2. ASSUME NEW i \in 0 .. n, i # 0, ~(i = n /\ dpc' = "linkPrev")
        PROVE  next'[c[i]] = c[i + 1]
    <3>1. next[c[i]] = c[i + 1]
      BY <2>2, <1>1 DEF List, Links
    <3> QED BY <3>1, <2>2, <1>4, <1>6
  <2>3. dpc' = "linkPrev" => next'[c[n]] = pushed'
    <3>1. dpc' = "linkPrev" => next[c[n]] = pushed /\ n \in 1 .. n
      BY <1>1, <1>7 DEF List, Links
    <3> QED BY <3>1, <1>1, <1>4, <1>6
  <2> QED BY <2>1, <2>2, <2>3, <1>1, <1>4 DEF Links
<1>9. PopperView(n, c)'
  BY <1>1, <1>2 DEF PopperView, Unhooking
<1>10. PusherView(n, c)'
  <2>1. dpc # "idle" => pushed \in Buffers \ used /\ next[pushed] = S
    BY DEF List, PusherView
  <2>2. dpc # "idle" => next'[pushed] = S
    BY <2>1, <1>4, RowFacts
  <2> QED BY <2>1, <2>2, <1>1, <1>7 DEF List, PusherView
<1> QED BY <1>5, <1>8, <1>9, <1>10 DEF List
(* The front is off the chain: what is left is the chain without it, and    *)
(* the buffer handed out was in no use.                                     *)
LEMMA PopperLinksPrev ==
    ASSUME TypeOK, FrontIsBuffer, raced' = FALSE,
           NEW n \in Nat, NEW c \in [0 .. n + 1 -> Nodes], List(n, c), UnhookLinkPrev
    PROVE  front \notin used /\ Sound'
<1>1. /\ ppc = "linkPrev" /\ ppc' = "idle" /\ Step
      /\ UNCHANGED <<next, dpc, pushed, back>>
      /\ prev' = [prev EXCEPT ![after] = before] /\ used' = used \union {front}
  BY DEF UnhookLinkPrev, Pusher
<1>2. n >= 1 /\ front = c[1] /\ after = c[2] /\ before = S
  BY <1>1 DEF List, PopperView, Unhooking
<1> DEFINE k == n - 1
           d == [i \in 0 .. k + 1 |-> IF i = 0 THEN S ELSE c[i + 1]]
<1>3. /\ k \in Nat /\ n = k + 1 /\ d \in [0 .. k + 1 -> Nodes]
      /\ d[0] = S /\ \A i \in 1 .. k + 1 : d[i] = c[i + 1]
  BY <1>2, RowFacts
<1> HIDE DEF k, d
<1>4. /\ \A i \in 1 .. n : c[i] \in Buffers /\ c[i] # S
            /\ c[i] \notin used /\ (dpc # "idle" => c[i] # pushed)
      /\ \A i \in 0 .. n + 1 : c[i] = S => i = 0 \/ i = n + 1
      /\ \A i, j \in 1 .. n + 1 : c[i] = c[j] => i = j
  BY ChainNodes DEF List
<1>5. front \notin used
  BY <1>2, <1>4
<1>6. c[0] = S /\ c[n + 1] = S /\ d[k + 1] = S
  BY <1>3 DEF List, Chain
<1>7. Free' = Free \ {c[1]}
  BY <1>1, <1>2 DEF Free, Pushing
<1>8. Chain(k, d)'
  <2>1. ASSUME NEW i \in 1 .. k PROVE d[i] \in Free'
    <3>1. c[i + 1] \in Free /\ c[i + 1] # c[1]
      BY <1>3, <1>4 DEF List, Chain
    <3> QED BY <3>1, <1>3, <1>7
  <2>2. ASSUME NEW x \in Free' PROVE \E i \in 1 .. k : d[i] = x
    <3>1. PICK j \in 1 .. n : c[j] = x
      BY <1>7 DEF List, Chain
    <3>2. j # 1
      BY <3>1, <1>7
    <3>3. j - 1 \in 1 .. k /\ d[j - 1] = x
      BY <3>1, <3>2, <1>3
    <3> QED BY <3>3
  <2>3. ASSUME NEW i \in 1 .. k, NEW j \in 1 .. k, d[i] = d[j] PROVE i = j
    <3>1. c[i + 1] = c[j + 1] /\ i + 1 \in 1 .. n + 1 /\ j + 1 \in 1 .. n + 1
      BY <2>3, <1>3
    <3>2. i + 1 = j + 1
      BY <3>1, <1>4
    <3> QED BY <3>2
  <2> QED BY <2>1, <2>2, <2>3, <1>3, <1>6 DEF Chain
<1>9. Links(k, d)'
  <2>1. prev' = [prev EXCEPT ![c[2]] = S] /\ prev \in [Nodes -> Nodes] /\ c[2] \in Nodes
    BY <1>1, <1>2 DEF TypeOK
  <2>2. prev'[c[2]] = S /\ \A x \in Nodes : x # c[2] => prev'[x] = prev[x]
    BY <2>1
  <2>3. ASSUME NEW i \in 0 .. k PROVE prev'[d[i + 1]] = d[i]
    <3>1. d[i + 1] = c[i + 2]
      BY <1>3
    <3>2. CASE i = 0
      BY <3>1, <3>2, <2>2, <1>3
    <3>3. CASE i # 0
      <4>1. d[i] = c[i + 1] /\ i + 1 \in 0 .. n
        BY <3>3, <1>3
      <4>2. prev[c[(i + 1) + 1]] = c[i + 1]
        BY <4>1 DEF List, Links
      <4>3. c[i + 2] \in Nodes /\ c[i + 2] # c[2]
        BY <3>3, <1>3, <1>4
      <4> QED BY <3>1, <4>1, <4>2, <4>3, <2>2
    <3> QED BY <3>2, <3>3
  <2>4. next[S] = c[2]
    BY <1>1 DEF List, Links
  <2>5. ASSUME NEW i \in 0 .. k, ~(i = k /\ dpc' = "linkPrev")
        PROVE  next'[d[i]] = d[i + 1]
    <3>1. d[i + 1] = c[i + 2]
      BY <1>3
    <3>2. CASE i = 0
      BY <3>1, <3>2, <2>4, <1>1, <1>3
    <3>3. CASE i # 0
      <4>1. d[i] = c[i + 1] /\ i + 1 \in 0 .. n /\ i + 1 # 0
            /\ ~(i + 1 = n /\ dpc = "linkPrev")
        BY <3>3, <2>5, <1>1, <1>3
      <4>2. next[c[i + 1]] = c[(i + 1) + 1]
        BY <4>1 DEF List, Links
      <4> QED BY <3>1, <4>1, <4>2, <1>1
    <3> QED BY <3>2, <3>3
  <2>6. dpc' = "linkPrev" => next'[d[k]] = pushed'
    <3>1. dpc' = "linkPrev" => next[c[n]] = pushed /\ d[k] = c[n]
      <4>1. n >= 2 => d[k] = c[n]
        BY <1>3
      <4> QED BY <4>1, <1>1 DEF List, Links, PusherView
    <3> QED BY <3>1, <1>1
  <2> QED BY <2>3, <2>5, <2>6, <1>1 DEF Links
<1>10. PopperView(k, d)'
  BY <1>1 DEF PopperView, Unhooking
<1>11. PusherView(k, d)'
  <2>2. dpc # "idle" => d[k] = c[n]
    <3>1. dpc # "idle" => n >= 2
      BY <1>1 DEF List, PusherView
    <3>2. n >= 2 => d[k] = c[n]
      BY <1>3
    <3> QED BY <3>1, <3>2
  <2>3. dpc # "idle" => pushed \in Buffers \ used' /\ next'[pushed] = S
    <3>1. dpc # "idle" => pushed \in Buffers \ used /\ next[pushed] = S /\ c[1] # pushed
      BY <1>2, <1>4 DEF List, PusherView
    <3> QED BY <3>1, <1>1, <1>2
  <2>4. dpc \in {"back", "linkNext", "linkPrev"} => prev'[pushed] = c[n]
    <3>1. dpc # "idle" => c[2] # pushed
      <4>1. dpc # "idle" => n >= 2
        BY <1>1 DEF List, PusherView
      <4> QED BY <4>1, <1>4
    <3>2. dpc # "idle" => pushed \in Nodes /\ prev'[pushed] = prev[pushed]
      <4>1. dpc # "idle" => pushed \in Nodes
        BY RowFacts DEF List, PusherView
      <4> QED BY <4>1, <3>1, <1>1, <1>2 DEF TypeOK
    <3> QED BY <3>2 DEF List, PusherView
  <2>5. dpc \in {"linkNext", "linkPrev"} => back = c[n]
    BY DEF List, PusherView
  <2> QED BY <2>2, <2>3, <2>4, <2>5, <1>1 DEF PusherView
<1>12. List(k, d)'
  BY <1>8, <1>9, <1>10, <1>11 DEF List
<1> QED BY <1>3, <1>5, <1>12 DEF Sound
(* The node of the buffer given back is off the chain: its own links and    *)
(* what deallocate() reads disturb nobody.                                  *)
LEMMA PusherPrepares ==
    ASSUME TypeOK, FrontIsBuffer, raced' = FALSE,
           NEW n \in Nat, NEW c \in [0 .. n + 1 -> Nodes], List(n, c),
           (\E b \in used : HookNext(b)) \/ HookPrev \/ HookReadBack
    PROVE  List(n, c)'
<1>1. UNCHANGED <<ppc, front, after, before>> /\ Step /\ dpc # "linkPrev" /\ dpc' # "linkPrev"
      /\ dpc' # "idle"
  BY DEF HookNext, HookPrev, HookPrevTo, HookReadBack, Popper
<1>2. Free' = Free
  <2>1. ASSUME NEW b \in used, HookNext(b) PROVE Free' = Free
    BY <2>1 DEF HookNext, Free, Pushing
  <2>2. CASE HookPrev \/ HookReadBack
    BY <2>2 DEF HookPrev, HookPrevTo, HookReadBack, Free, Pushing
  <2> QED BY <2>1, <2>2
<1>3. Chain(n, c)'
  BY <1>2, SameChain DEF List
<1>4. ppc' # "idle" => n >= 2
  BY <1>1, <1>3, TwoFree
<1>5. /\ \A i \in 0 .. n + 1 : c[i] \in Nodes /\ c[i] \notin used
      /\ dpc # "idle" => \A i \in 0 .. n + 1 : c[i] # pushed
      /\ c[0] = S /\ c[n + 1] = S
  <2>1. \A i \in 0 .. n + 1 : i \in 1 .. n \/ i = 0 \/ i = n + 1
    OBVIOUS
  <2>2. \A i \in 1 .. n : c[i] \in Buffers /\ c[i] \notin used /\ (dpc # "idle" => c[i] # pushed)
    BY ChainNodes DEF List
  <2>3. c[0] = S /\ c[n + 1] = S /\ S \notin used /\ (dpc # "idle" => pushed # S)
    BY RowFacts DEF List, Chain, TypeOK, FrontIsBuffer
  <2> QED BY <2>1, <2>2, <2>3, RowFacts
<1>6. /\ \A i \in 0 .. n + 1 : next'[c[i]] = next[c[i]] /\ prev'[c[i]] = prev[c[i]]
  <2>1. ASSUME NEW b \in used, HookNext(b)
        PROVE  \A i \in 0 .. n + 1 : next'[c[i]] = next[c[i]] /\ prev'[c[i]] = prev[c[i]]
    BY <2>1, <1>5 DEF HookNext, TypeOK
  <2>2. CASE HookPrev
    BY <2>2, <1>5 DEF HookPrev, HookPrevTo, TypeOK
  <2>3. CASE HookReadBack
    BY <2>3 DEF HookReadBack
  <2> QED BY <2>1, <2>2, <2>3
<1>7. Links(n, c)'
  <2>1. \A i \in 0 .. n : prev'[c[i + 1]] = c[i]
    <3>1. \A i \in 0 .. n : i + 1 \in 0 .. n + 1
      OBVIOUS
    <3> QED BY <3>1, <1>6 DEF List, Links
  <2>2. \A i \in 0 .. n : (i = 0 /\ ppc = "linkPrev") \/ next'[c[i]] = c[i + 1]
    <3>1. \A i \in 0 .. n : i \in 0 .. n + 1
      OBVIOUS
    <3> QED BY <3>1, <1>1, <1>6 DEF List, Links
  <2>3. ppc = "linkPrev" => next'[S] = c[2]
    <3>1. next'[S] = next[S]
      BY <1>5, <1>6
    <3> QED BY <3>1 DEF List, Links
  <2> QED BY <2>1, <2>2, <2>3, <1>1 DEF Links
<1>8. PopperView(n, c)'
  BY <1>1 DEF List, PopperView
<1>9. PusherView(n, c)'
  <2>1. prev[S] = c[n]
    <3>1. prev[c[n + 1]] = c[n]
      BY DEF List, Links
    <3> QED BY <3>1, <1>5
  <2>2. ASSUME NEW b \in used, HookNext(b) PROVE PusherView(n, c)'
    <3>1. dpc' = "prev" /\ pushed' = b /\ used' = used \ {b} /\ next' = [next EXCEPT ![b] = S]
      BY <2>2 DEF HookNext
    <3>2. b \in Buffers /\ b \in Nodes /\ next'[b] = S
      BY <3>1, RowFacts DEF TypeOK
    <3> QED BY <3>1, <3>2, <1>4 DEF PusherView
  <2>3. CASE HookPrev
    <3>1. dpc = "prev" /\ dpc' = "back" /\ prev' = [prev EXCEPT ![pushed] = prev[S]]
          /\ UNCHANGED <<next, used, pushed>>
      BY <2>3 DEF HookPrev, HookPrevTo
    <3>2. pushed \in Buffers \ used /\ next[pushed] = S /\ pushed \in Nodes
      BY <3>1, RowFacts DEF List, PusherView
    <3>3. prev'[pushed] = c[n]
      BY <3>1, <3>2, <2>1 DEF TypeOK
    <3> QED BY <3>1, <3>2, <3>3, <1>4 DEF PusherView
  <2>4. CASE HookReadBack
    <3>1. dpc = "back" /\ dpc' = "linkNext" /\ back' = prev[S]
          /\ UNCHANGED <<next, prev, used, pushed>>
      BY <2>4 DEF HookReadBack
    <3> QED BY <3>1, <2>1, <1>4 DEF List, PusherView
  <2> QED BY <2>2, <2>3, <2>4
<1> QED BY <1>3, <1>7, <1>8, <1>9 DEF List

(* The end of the chain now leads to the new node.                          *)
LEMMA PusherLinksNext ==
    ASSUME TypeOK, FrontIsBuffer, raced' = FALSE,
           NEW n \in Nat, NEW c \in [0 .. n + 1 -> Nodes], List(n, c), HookLinkNext
    PROVE  List(n, c)'
<1>1. /\ dpc = "linkNext" /\ dpc' = "linkPrev" /\ Step
      /\ UNCHANGED <<prev, used, ppc, front, after, before, pushed, back>>
      /\ next' = [next EXCEPT ![back] = pushed]
  BY DEF HookLinkNext, Popper
<1>2. back = c[n] /\ prev[pushed] = c[n] /\ pushed \in Buffers \ used /\ next[pushed] = S
  BY <1>1 DEF List, PusherView
<1>3. Chain(n, c)'
  <2>1. Free' = Free
    BY <1>1 DEF Free, Pushing
  <2> QED BY <2>1, SameChain DEF List
<1>4. ppc # "idle" => n >= 2
  BY <1>1 DEF List, PusherView
<1>5. next'[c[n]] = pushed /\ \A x \in Nodes : x # c[n] => next'[x] = next[x]
  BY <1>1, <1>2 DEF TypeOK
<1>6. /\ \A i, j \in 0 .. n : c[i] = c[j] => i = j
      /\ \A i \in 0 .. n : c[i] \in Nodes /\ c[i] # pushed
  <2>1. \A i \in 0 .. n : i \in 1 .. n \/ i = 0
    OBVIOUS
  <2>2. \A i \in 1 .. n : c[i] # pushed
    BY <1>1, ChainNodes DEF List
  <2>3. c[0] = S /\ S # pushed
    BY <1>1 DEF List, Chain, FrontIsBuffer
  <2> QED BY <2>1, <2>2, <2>3, ChainNodes DEF List
<1>7. Links(n, c)'
  <2>1. \A i \in 0 .. n : prev'[c[i + 1]] = c[i]
    BY <1>1 DEF List, Links
  <2>2. ASSUME NEW i \in 0 .. n, ~(i = 0 /\ ppc' = "linkPrev"), i # n
        PROVE  next'[c[i]] = c[i + 1]
    <3>1. next[c[i]] = c[i + 1]
      BY <2>2, <1>1 DEF List, Links
    <3>2. c[i] # c[n]
      BY <2>2, <1>6
    <3> QED BY <3>1, <3>2, <1>5
  <2>3. ppc' = "linkPrev" => next'[S] = c[2]
    <3>1. ppc' = "linkPrev" => next[S] = c[2] /\ n >= 2
      BY <1>1, <1>4 DEF List, Links
    <3>2. n >= 2 => c[0] # c[n]
      <4>1. 0 \in 0 .. n /\ n \in 0 .. n
        OBVIOUS
      <4> QED BY <4>1, <1>6
    <3>3. c[0] = S
      BY DEF List, Chain
    <3> QED BY <3>1, <3>2, <3>3, <1>5, RowFacts
  <2> QED BY <2>1, <2>2, <2>3, <1>1, <1>5 DEF Links
<1>8. PopperView(n, c)'
  BY <1>1 DEF List, PopperView
<1>9. PusherView(n, c)'
  <2>1. next'[pushed] = S
    <3>1. n \in 0 .. n /\ pushed \in Nodes
      BY <1>2, RowFacts
    <3> QED BY <3>1, <1>2, <1>5, <1>6
  <2> QED BY <2>1, <1>1, <1>2, <1>4 DEF PusherView
<1> QED BY <1>3, <1>7, <1>8, <1>9 DEF List

(* The new node ends the chain.                                             *)
LEMMA PusherLinksPrev ==
    ASSUME TypeOK, FrontIsBuffer, raced' = FALSE,
           NEW n \in Nat, NEW c \in [0 .. n + 1 -> Nodes], List(n, c), HookLinkPrev
    PROVE  Sound'
<1>1. /\ dpc = "linkPrev" /\ dpc' = "idle" /\ Step
      /\ UNCHANGED <<next, used, ppc, front, after, before>>
      /\ prev' = [prev EXCEPT ![S] = pushed]
  BY DEF HookLinkPrev, Popper
<1>2. prev[pushed] = c[n] /\ pushed \in Buffers \ used /\ next[pushed] = S
  BY <1>1 DEF List, PusherView
<1>3. ppc # "idle" => n >= 2
  BY <1>1 DEF List, PusherView
<1>0. PICK node : node = pushed
  OBVIOUS
<1> DEFINE k == n + 1
           d == [i \in 0 .. k + 1 |-> IF i = k THEN node ELSE IF i = k + 1 THEN S ELSE c[i]]
<1>4. /\ k \in Nat /\ k = n + 1 /\ d \in [0 .. k + 1 -> Nodes]
      /\ d[k] = pushed /\ d[k + 1] = S /\ \A i \in 0 .. n : d[i] = c[i]
  BY <1>0, <1>2, RowFacts
<1> HIDE DEF k, d
<1>5. /\ \A i \in 1 .. n : c[i] \in Buffers /\ c[i] # S
            /\ c[i] \notin used /\ c[i] # pushed
      /\ \A i, j \in 1 .. n : c[i] = c[j] => i = j
      /\ c[0] = S /\ c[n + 1] = S /\ d[0] = S
  <2>1. c[0] = S /\ c[n + 1] = S /\ \A i, j \in 1 .. n : c[i] = c[j] => i = j
    BY DEF List, Chain
  <2>2. 0 \in 0 .. n
    OBVIOUS
  <2> QED BY <2>1, <2>2, <1>1, <1>4, ChainNodes DEF List
<1>6. Free' = Free \union {pushed} /\ pushed \notin Free
  BY <1>1, <1>2 DEF Free, Pushing
<1>7. Chain(k, d)'
  <2>0. \A i \in 1 .. k : i = k \/ (i \in 1 .. n /\ i \in 0 .. n)
    BY <1>4
  <2>1. \A i \in 1 .. k : d[i] \in Free'
    BY <2>0, <1>4, <1>6 DEF List, Chain
  <2>2. ASSUME NEW x \in Free' PROVE \E i \in 1 .. k : d[i] = x
    <3>1. CASE x = pushed
      BY <3>1, <1>4
    <3>2. CASE x \in Free
      <4>1. PICK i \in 1 .. n : c[i] = x
        BY <3>2 DEF List, Chain
      <4>2. i \in 1 .. k /\ d[i] = x
        BY <4>1, <1>4
      <4> QED BY <4>2
    <3> QED BY <3>1, <3>2, <1>6
  <2>3. \A i, j \in 1 .. k : d[i] = d[j] => i = j
    BY <2>0, <1>4, <1>5
  <2> QED BY <2>1, <2>2, <2>3, <1>4, <1>5 DEF Chain
<1>8. prev'[S] = pushed /\ \A x \in Nodes : x # S => prev'[x] = prev[x]
  BY <1>1, RowFacts DEF TypeOK
<1>9. Links(k, d)'
  <2>1. ASSUME NEW i \in 0 .. k PROVE prev'[d[i + 1]] = d[i]
    <3>1. CASE i = k
      BY <3>1, <1>4, <1>8
    <3>2. CASE i = n
      <4>1. pushed \in Nodes /\ pushed # S
        BY <1>2, RowFacts
      <4> QED BY <4>1, <3>2, <1>2, <1>4, <1>8
    <3>3. CASE i \in 0 .. n - 1
      <4>1. i + 1 \in 1 .. n /\ i + 1 \in 0 .. n /\ i \in 0 .. n
        BY <3>3
      <4>2. prev[c[i + 1]] = c[i]
        BY <4>1 DEF List, Links
      <4>3. c[i + 1] \in Nodes /\ c[i + 1] # S
        BY <4>1, <1>5
      <4> QED BY <4>1, <4>2, <4>3, <1>4, <1>8
    <3> QED BY <3>1, <3>2, <3>3, <1>4
  <2>2. ASSUME NEW i \in 0 .. k, ~(i = 0 /\ ppc' = "linkPrev")
        PROVE  next'[d[i]] = d[i + 1]
    <3>1. CASE i = k
      BY <3>1, <1>1, <1>2, <1>4
    <3>2. CASE i = n
      <4>1. next[c[n]] = pushed
        BY <1>1 DEF List, Links
      <4> QED BY <4>1, <3>2, <1>1, <1>4
    <3>3. CASE i \in 0 .. n - 1
      <4>1. i + 1 \in 0 .. n /\ i \in 0 .. n /\ i # n
        BY <3>3
      <4>2. next[c[i]] = c[i + 1]
        BY <4>1, <2>2, <1>1 DEF List, Links
      <4> QED BY <4>1, <4>2, <1>1, <1>4
    <3> QED BY <3>1, <3>2, <3>3, <1>4
  <2>3. ppc' = "linkPrev" => next'[S] = d[2]
    <3>1. n >= 2 => d[2] = c[2]
      BY <1>4
    <3> QED BY <3>1, <1>1, <1>3 DEF List, Links
  <2> QED BY <2>1, <2>2, <2>3, <1>1 DEF Links
<1>10. PopperView(k, d)'
  <2>1. n >= 2 => d[1] = c[1] /\ d[2] = c[2] /\ k >= 1
    BY <1>4
  <2>2. ppc = "idle" => PopperView(k, d)'
    BY <1>1 DEF PopperView, Unhooking
  <2> QED BY <2>1, <2>2, <1>1, <1>3 DEF List, PopperView
<1>11. PusherView(k, d)'
  BY <1>1 DEF PusherView
<1>12. List(k, d)'
  BY <1>7, <1>9, <1>10, <1>11 DEF List
<1> QED BY <1>4, <1>12 DEF Sound
(* Every step keeps the invariant: a race that is recorded is recorded for  *)
(* good, and without one the chain survives the step.                       *)
LEMMA NextIInv == IInv /\ [Next]_vars => IInv'
<1> SUFFICES ASSUME IInv, [Next]_vars PROVE IInv'
  OBVIOUS
<1>1. TypeOK /\ FrontIsBuffer /\ TypeOK' /\ FrontIsBuffer'
  BY NextTypes DEF IInv
<1> SUFFICES ASSUME raced' = FALSE PROVE twice' = FALSE /\ Sound'
  BY <1>1 DEF IInv, TypeOK
<1>2. CASE UNCHANGED vars
  <2>1. twice = FALSE /\ Sound
    BY <1>2, <1>1 DEF IInv, vars, TypeOK
  <2>2. Sound'
    <3>1. PICK n \in Nat : \E c \in [0 .. n + 1 -> Nodes] : List(n, c)
      BY <2>1 DEF Sound
    <3>2. PICK c \in [0 .. n + 1 -> Nodes] : List(n, c)
      BY <3>1
    <3>3. Chain(n, c)'
      BY <3>2, <1>2 DEF vars, List, Chain, Free, Pushing
    <3>4. Links(n, c)'
      BY <3>2, <1>2 DEF vars, List, Links
    <3>5. PopperView(n, c)' /\ PusherView(n, c)'
      BY <3>2, <1>2 DEF vars, List, PopperView, PusherView
    <3> QED BY <3>3, <3>4, <3>5 DEF Sound, List
  <2> QED BY <2>1, <2>2, <1>2 DEF vars
<1>3. CASE Next
  <2>1. Step
    BY <1>3 DEF Next, Allocate, Deallocate, AllocateEmpty, AllocateNull, AllocateFront,
       UnhookReadNext, UnhookReadPrev, UnhookLinkNext, UnhookLinkPrev, HookNext, HookPrev,
       HookPrevTo, HookReadBack, HookLinkNext, HookLinkPrev
  <2>2. raced = FALSE /\ twice = FALSE
    BY <2>1, <1>1 DEF Step, TypeOK
  <2>3. PICK n \in Nat : \E c \in [0 .. n + 1 -> Nodes] : List(n, c)
    BY <2>2 DEF IInv, Sound
  <2>4. PICK c \in [0 .. n + 1 -> Nodes] : List(n, c)
    BY <2>3
  <2>5. CASE \/ AllocateEmpty \/ AllocateNull \/ AllocateFront \/ UnhookReadNext
             \/ UnhookReadPrev
    <3>1. List(n, c)'
      BY <2>4, <2>5, <1>1, PopperReads
    <3>2. twice' = twice
      BY <2>5 DEF AllocateEmpty, AllocateNull, AllocateFront, UnhookReadNext, UnhookReadPrev
    <3> QED BY <3>1, <3>2, <2>2 DEF Sound
  <2>6. CASE UnhookLinkNext
    <3>1. List(n, c)'
      BY <2>4, <2>6, <1>1, PopperLinksNext
    <3>2. twice' = twice
      BY <2>6 DEF UnhookLinkNext
    <3> QED BY <3>1, <3>2, <2>2 DEF Sound
  <2>7. CASE UnhookLinkPrev
    <3>1. front \notin used /\ Sound'
      BY <2>4, <2>7, <1>1, PopperLinksPrev
    <3>2. twice' = (twice \/ front \in used)
      BY <2>7 DEF UnhookLinkPrev
    <3> QED BY <3>1, <3>2, <2>2
  <2>8. CASE (\E b \in used : HookNext(b)) \/ HookPrev \/ HookReadBack
    <3>1. List(n, c)'
      BY <2>4, <2>8, <1>1, PusherPrepares
    <3>2. twice' = twice
      BY <2>8 DEF HookNext, HookPrev, HookPrevTo, HookReadBack
    <3> QED BY <3>1, <3>2, <2>2 DEF Sound
  <2>9. CASE HookLinkNext
    <3>1. List(n, c)'
      BY <2>4, <2>9, <1>1, PusherLinksNext
    <3>2. twice' = twice
      BY <2>9 DEF HookLinkNext
    <3> QED BY <3>1, <3>2, <2>2 DEF Sound
  <2>10. CASE HookLinkPrev
    <3>1. Sound'
      BY <2>4, <2>10, <1>1, PusherLinksPrev
    <3>2. twice' = twice
      BY <2>10 DEF HookLinkPrev
    <3> QED BY <3>1, <3>2, <2>2
  <2> QED BY <1>3, <2>5, <2>6, <2>7, <2>8, <2>9, <2>10 DEF Next, Allocate, Deallocate
<1> QED BY <1>2, <1>3
-----------------------------------------------------------------------------
(* The walk of WellLinked exists: one step per number. *)
LEMMA WalkSteps ==
    ASSUME next \in [Nodes -> Nodes]
    PROVE  /\ Nth[0] = S
           /\ \A k \in 1 .. MAX_LOG_ENTRY + 1 : Nth[k] = next[Nth[k - 1]]
<1> DEFINE M == MAX_LOG_ENTRY + 1
           Walk(g, m) == g[0] = S /\ \A k \in 1 .. m : g[k] = next[g[k - 1]]
           G == {m \in Nat : \E g \in [0 .. m -> Nodes] : Walk(g, m)}
<1>1. M \in Nat
  BY EntriesAssumption
<1>2. 0 \in G
  <2>1. [i \in 0 .. 0 |-> S] \in [0 .. 0 -> Nodes] /\ Walk([i \in 0 .. 0 |-> S], 0)
    BY RowFacts
  <2> QED BY <2>1
<1>3. ASSUME NEW m \in Nat, m \in G PROVE m + 1 \in G
  <2>1. PICK g \in [0 .. m -> Nodes] : Walk(g, m)
    BY <1>3
  <2> DEFINE h == [i \in 0 .. m + 1 |-> IF i = m + 1 THEN next[g[m]] ELSE g[i]]
  <2>2. h \in [0 .. m + 1 -> Nodes]
    BY <2>1
  <2>3. Walk(h, m + 1)
    <3>1. h[0] = S
      BY <2>1
    <3>2. ASSUME NEW k \in 1 .. m + 1 PROVE h[k] = next[h[k - 1]]
      <4>1. CASE k = m + 1
        BY <4>1
      <4>2. CASE k # m + 1
        <5>1. k \in 1 .. m /\ k \in 0 .. m /\ k - 1 \in 0 .. m
          BY <4>2
        <5>2. h[k] = g[k] /\ h[k - 1] = g[k - 1]
          BY <5>1, <4>2
        <5> HIDE DEF h
        <5> QED BY <5>1, <5>2, <2>1
      <4> QED BY <4>1, <4>2
    <3> QED BY <3>1, <3>2
  <2>4. m + 1 \in Nat
    OBVIOUS
  <2> HIDE DEF h
  <2> QED BY <2>2, <2>3, <2>4
<1> HIDE DEF G
<1>4. M \in G
  BY <1>1, <1>2, <1>3, NatSetInduction
<1>5. PICK g \in [0 .. M -> Nodes] : Walk(g, M)
  BY <1>4 DEF G
<1> HIDE DEF M
<1>6. g = [k \in 0 .. M |-> IF k = 0 THEN S ELSE next[g[k - 1]]]
  BY <1>1, <1>5
<1>7. Nth = [k \in 0 .. M |-> IF k = 0 THEN S ELSE next[Nth[k - 1]]]
  <2> DEFINE Is(f) == f = [k \in 0 .. M |-> IF k = 0 THEN S ELSE next[f[k - 1]]]
  <2>1. Nth = CHOOSE f : Is(f)
    BY DEF Nth, M
  <2>2. Is(g)
    BY <1>6
  <2> HIDE DEF Is
  <2>3. Is(Nth)
    BY <2>1, <2>2, Zenon
  <2> QED BY <2>3 DEF Is
<1> HIDE DEF Nth
<1>8. Nth[0] = S /\ \A k \in 1 .. M : Nth[k] = next[Nth[k - 1]]
  BY <1>1, <1>7
<1> QED BY <1>8 DEF M

(* With both calls over, the walk goes along the chain.                     *)
LEMMA ChainIsLinked ==
    ASSUME TypeOK, Quiescent, NEW n \in Nat, NEW c \in [0 .. n + 1 -> Nodes], List(n, c)
    PROVE  WellLinked
<1>1. /\ \A i \in 0 .. n : prev[c[i + 1]] = c[i] /\ next[c[i]] = c[i + 1]
      /\ c[0] = S /\ c[n + 1] = S
  BY DEF Quiescent, List, Links, Chain
<1>2. n <= MAX_LOG_ENTRY /\ MAX_LOG_ENTRY \in Nat
  <2>1. Free \in SUBSET Buffers
    BY DEF Free
  <2>2. n <= MAX_LOG_ENTRY
    <3> DEFINE F == Free
    <3>1. /\ \A i \in 1 .. n : c[i] \in F
          /\ \A x \in F : \E i \in 1 .. n : c[i] = x
          /\ \A i, j \in 1 .. n : c[i] = c[j] => i = j
      BY DEF List, Chain
    <3>2. F \in SUBSET Buffers
      BY <2>1
    <3> HIDE DEF F
    <3> QED BY <3>1, <3>2, RowLength
  <2> QED BY <2>2, EntriesAssumption
<1>3. Nth[0] = S /\ \A k \in 1 .. MAX_LOG_ENTRY + 1 : Nth[k] = next[Nth[k - 1]]
  BY WalkSteps DEF TypeOK
<1> DEFINE M == MAX_LOG_ENTRY + 1
           A == {k \in Nat : k <= n => Nth[k] = c[k]}
           B == {k \in Nat : k <= M => \E i \in 0 .. n : Nth[k] = c[i]}
<1>4. M \in Nat /\ n < M
  BY <1>2
<1>5. \A k \in 0 .. n : Nth[k] = c[k]
  <2>1. 0 \in A
    BY <1>1, <1>3
  <2>2. ASSUME NEW k \in Nat, k \in A PROVE k + 1 \in A
    <3> SUFFICES ASSUME k + 1 <= n PROVE Nth[k + 1] = c[k + 1]
      BY <2>2
    <3>1. Nth[k] = c[k] /\ k \in 0 .. n
      BY <2>2
    <3>2. k + 1 \in 1 .. M
      BY <1>4
    <3>3. Nth[k + 1] = next[Nth[(k + 1) - 1]]
      BY <3>2, <1>3
    <3> QED BY <3>1, <3>3, <1>1
  <2> HIDE DEF A
  <2>3. \A k \in Nat : k \in A
    BY <2>1, <2>2, NatSetInduction
  <2> QED BY <2>3 DEF A
<1>6. \A k \in 0 .. M : \E i \in 0 .. n : Nth[k] = c[i]
  <2>1. 0 \in B
    BY <1>1, <1>3
  <2>2. ASSUME NEW k \in Nat, k \in B PROVE k + 1 \in B
    <3> SUFFICES ASSUME k + 1 <= M PROVE \E i \in 0 .. n : Nth[k + 1] = c[i]
      BY <2>2
    <3>1. PICK i \in 0 .. n : Nth[k] = c[i]
      BY <2>2, <1>4
    <3>2. k + 1 \in 1 .. M
      BY <1>4
    <3>3. Nth[k + 1] = next[Nth[(k + 1) - 1]]
      BY <3>2, <1>3
    <3>4. Nth[k + 1] = c[i + 1]
      BY <3>1, <3>3, <1>1
    <3>5. CASE i = n
      BY <3>4, <3>5, <1>1
    <3>6. CASE i # n
      <4>1. i + 1 \in 0 .. n
        BY <3>6
      <4> QED BY <4>1, <3>4
    <3> QED BY <3>5, <3>6
  <2> HIDE DEF B
  <2>3. \A k \in Nat : k \in B
    BY <2>1, <2>2, NatSetInduction
  <2> QED BY <2>3, <1>4 DEF B
<1>7. Linked = Free
  <2>1. ASSUME NEW x \in Linked PROVE x \in Free
    <3>1. PICK k \in 1 .. M : x = Nth[k] /\ x # S
      BY DEF Linked
    <3>2. PICK i \in 0 .. n : x = c[i]
      <4>1. k \in 0 .. M
        BY <1>4
      <4> QED BY <4>1, <3>1, <1>6
    <3>3. i \in 1 .. n
      BY <3>1, <3>2, <1>1
    <3> QED BY <3>2, <3>3 DEF List, Chain
  <2>2. ASSUME NEW x \in Free PROVE x \in Linked
    <3>1. PICK i \in 1 .. n : c[i] = x
      BY DEF List, Chain
    <3>2. Nth[i] = x /\ i \in 1 .. M
      BY <3>1, <1>4, <1>5
    <3>3. x # S
      BY RowFacts DEF Free
    <3> QED BY <3>2, <3>3 DEF Linked
  <2> QED BY <2>1, <2>2
<1>8. ASSUME NEW x \in Linked \union {S} PROVE prev[next[x]] = x
  <2>1. PICK i \in 0 .. n : c[i] = x
    <3>1. CASE x = S
      <4>1. 0 \in 0 .. n
        OBVIOUS
      <4> QED BY <4>1, <3>1, <1>1
    <3>2. CASE x \in Free
      <4>1. \A i \in 1 .. n : i \in 0 .. n
        OBVIOUS
      <4> QED BY <3>2, <4>1 DEF List, Chain
    <3> QED BY <3>1, <3>2, <1>7
  <2> QED BY <2>1, <1>1
<1> QED BY <1>7, <1>8 DEF WellLinked

(* Every variable of the free list keeps its type, however the two calls    *)
(* overlap: no interleaving of loads and stores makes a link leave the list *)
(* of nodes.                                                                *)
THEOREM AllocatorTypeCorrect == Spec => []TypeOK
<1>1. IInv => TypeOK
  BY DEF IInv
<1> QED BY <1>1, InitIInv, NextIInv, PTL DEF Spec

(* For any number of buffers: as long as two are free whenever allocate()   *)
(* and the unlocked deallocate() overlap, no buffer is handed out twice,    *)
(* and each time both are over the list links exactly the free buffers.     *)
THEOREM TwoFreeBuffersSuffice == Spec => []HarmlessWhileTwoFree
<1>1. IInv => HarmlessWhileTwoFree
  <2> SUFFICES ASSUME IInv, ~raced PROVE ~twice /\ (Quiescent => WellLinked)
    BY DEF HarmlessWhileTwoFree
  <2>1. ~twice /\ TypeOK
    BY DEF IInv
  <2>2. PICK n \in Nat : \E c \in [0 .. n + 1 -> Nodes] : List(n, c)
    BY DEF IInv, Sound
  <2>3. PICK c \in [0 .. n + 1 -> Nodes] : List(n, c)
    BY <2>2
  <2> QED BY <2>1, <2>3, ChainIsLinked
<1> QED BY <1>1, InitIInv, NextIInv, PTL DEF Spec
=============================================================================
