--------------------------- MODULE RaftNodeProofs ---------------------------
(***************************************************************************)
(* What RaftNode and Anet promise, for every table of descriptors, every    *)
(* number of addresses, every reply length and every bound.                 *)
(***************************************************************************)
EXTENDS RaftNode, TLAPS

Owners == {"free", "other", "call", "program", "node"}
Before == {"idle", "resolve", "try", "create"}         \* no socket yet
Holding ==                                             \* a socket for sure
    {"setup", "source", "bind", "connect", "listen", "created"}

(* The part of a type invariant that the proofs need. *)
AnetTyped ==
    /\ owner \in [Fds -> Owners]
    /\ lists \subseteq {"info", "source info"}
    /\ call \in Calls
    /\ pc \in Before \union Holding \union {"error", "end", "return"}
    /\ s \in Fds \union {ANET_ERR}
    /\ v6failed \in BOOLEAN

(* The socket of the call is the only descriptor it owns; s names it, or    *)
(* nothing, or what anetV6Only() has closed.                                *)
OneSocket ==
    /\ \A f \in Fds : owner[f] = "call" => f = s
    /\ pc \in Before => s = ANET_ERR
    /\ pc \in Holding => s # ANET_ERR /\ owner[s] = "call"
    /\ s # ANET_ERR => v6failed \/ owner[s] = "call"

(* Where there is no address list. *)
ListFreed ==
    /\ pc \in {"idle", "resolve", "create", "created", "return"} => lists = {}
    /\ pc = "connect" /\ call.kind = "unixConnect" => lists = {}
    /\ "source info" \in lists => pc = "bind"
    /\ pc \in {"source", "bind"} => call.kind = "connect"

AnetInv == AnetTyped /\ OneSocket /\ ListFreed

NodeTyped ==
    /\ replys \in Seq(Nat) /\ reply_written \in Int /\ gone \in Nat /\ origin \in {"memory", "pop"}
    /\ accepted \in Seq([at : Int, units : Int])

(* Once a reply has been popped, reply_written counts units of the next     *)
(* one, and the last write that was accepted ended there.                   *)
CountHolds ==
    /\ origin = "pop" => reply_written >= 0
    /\ origin = "pop" /\ reply_written > 0 => replys # <<>> /\ reply_written < Head(replys)
    /\ accepted # <<>> =>
         /\ origin = "pop"
         /\ accepted[Len(accepted)].at + accepted[Len(accepted)].units = gone + reply_written

NodeInv == NodeTyped /\ CountHolds /\ StreamUnbroken

-----------------------------------------------------------------------------
LEMMA ErrIsNoDescriptor == ANET_ERR \notin Fds
  BY AnetAssumption DEF ANET_ERR

(* A flag of a call may be changed. *)
LEMMA FlagsOfCalls ==
    ASSUME NEW c \in Calls, NEW v \in BOOLEAN, NEW w \in BOOLEAN
    PROVE  /\ [c EXCEPT !.source = v, !.best = w] \in Calls
           /\ [c EXCEPT !.nonblock = v] \in Calls /\ [c EXCEPT !.v6 = v] \in Calls
           /\ [c EXCEPT !.source = v] \in Calls
<1>1. /\ [c EXCEPT !.nonblock = v] \in Calls /\ [c EXCEPT !.v6 = v] \in Calls
      /\ [c EXCEPT !.source = v] \in Calls
  BY SMT DEF Calls
<1>2. \A d \in Calls : [d EXCEPT !.best = w] \in Calls
  BY SMT DEF Calls
<1>3. [[c EXCEPT !.source = v] EXCEPT !.best = w] \in Calls
  BY <1>1, <1>2
<1>4. [c EXCEPT !.source = v, !.best = w] = [[c EXCEPT !.source = v] EXCEPT !.best = w]
  OBVIOUS
<1> QED BY <1>1, <1>3, <1>4

LEMMA SimpleCalls ==
    ASSUME NEW kind \in Kinds, NEW for \in {"program", "node"}
    PROVE  Simple(kind, for) \in Calls
  BY DEF Simple, Calls

LEMMA NonBlockCalls ==
    ASSUME NEW for \in {"program", "node"}
    PROVE  NonBlockConnect(for) \in Calls
<1>1. Simple("connect", for) \in Calls
  BY SimpleCalls DEF Kinds
<1> QED BY <1>1, FlagsOfCalls DEF NonBlockConnect

(* The calls that start are calls. *)
LEMMA PublicCallsAreCalls ==
    /\ PublicCalls \subseteq Calls
    /\ NonBlockConnect("node") \in Calls /\ NoCall \in Calls
<1>1. NonBlockConnect("node") \in Calls /\ NoCall \in Calls
  BY NonBlockCalls, SimpleCalls DEF NoCall, Kinds
<1>2. ASSUME NEW c \in PublicCalls PROVE c \in Calls
  <2>1. CASE \E kind \in Kinds : c = Simple(kind, "program")
    BY <2>1, SimpleCalls
  <2>2. CASE c = Tcp6Server
    <3>1. Simple("server", "program") \in Calls
      BY SimpleCalls DEF Kinds
    <3> QED BY <2>2, <3>1, FlagsOfCalls DEF Tcp6Server
  <2>3. CASE c = UnixNonBlockConnect
    <3>1. Simple("unixConnect", "program") \in Calls
      BY SimpleCalls DEF Kinds
    <3> QED BY <2>3, <3>1, FlagsOfCalls DEF UnixNonBlockConnect
  <2>4. ASSUME NEW source \in BOOLEAN, NEW best \in BOOLEAN,
               c = NonBlockBindConnect(source, best)
        PROVE  c \in Calls
    <3>1. NonBlockConnect("program") \in Calls
      BY NonBlockCalls
    <3> QED BY <2>4, <3>1, FlagsOfCalls DEF NonBlockBindConnect
  <2> QED BY <2>1, <2>2, <2>3, <2>4 DEF PublicCalls
<1> QED BY <1>1, <1>2

(* No call runs at first. *)
LEMMA InitAnet == AnetInit => AnetInv
<1> SUFFICES ASSUME AnetInit PROVE AnetInv
  OBVIOUS
<1>1. AnetTyped
  BY PublicCallsAreCalls DEF AnetInit, AnetTyped, Owners, Before
<1>2. OneSocket /\ ListFreed
  BY DEF AnetInit, OneSocket, ListFreed, Before, Holding
<1> QED BY <1>1, <1>2 DEF AnetInv

(* A call starts with nothing, and getaddrinfo() gives it its list. *)
LEMMA StartAnet ==
    ASSUME AnetInv, NEW c \in Calls, Start(c) PROVE AnetInv'
  BY DEF Start, AnetInv, AnetTyped, OneSocket, ListFreed, Before, Holding

LEMMA ResolveAnet ==
    ASSUME AnetInv, Resolve PROVE AnetInv'
<1>1. /\ pc = "resolve" /\ UNCHANGED <<call, owner, s, v6failed>>
      /\ \/ pc' \in {"end", "try"} /\ lists' = lists \union {"info"}
         \/ pc' = "return" /\ lists' = lists
  BY DEF Resolve, Goto, Keep
<1>2. AnetTyped'
  BY <1>1 DEF AnetInv, AnetTyped, Before
<1>3. OneSocket' /\ ListFreed'
  BY <1>1 DEF AnetInv, OneSocket, ListFreed, Before, Holding
<1> QED BY <1>2, <1>3 DEF AnetInv

(* What is opened was free: it is the call's only descriptor. *)
LEMMA OpenedByCall ==
    ASSUME AnetInv, NEW f \in Fds, owner[f] = "free", pc \in {"try", "create"},
           owner' = Opened(f, "call"), s' = f
    PROVE  /\ owner' \in [Fds -> Owners] /\ s' # ANET_ERR /\ owner'[s'] = "call"
           /\ \A g \in Fds : owner'[g] = "call" => g = s'
<1>1. owner \in [Fds -> Owners] /\ \A g \in Fds : owner[g] # "call"
  BY ErrIsNoDescriptor DEF AnetInv, AnetTyped, OneSocket, Before
<1> QED BY <1>1, ErrIsNoDescriptor DEF Opened, Owners

LEMMA OpenAnet ==
    ASSUME AnetInv, TryAddress \/ Create PROVE AnetInv'
<1>1. /\ call' = call /\ lists' = lists /\ v6failed' = v6failed
      /\ \/ pc = "try" /\ pc' \in {"try", "setup", "error"}
         \/ pc = "create" /\ pc' \in {"created", "return"} /\ lists = {}
  BY DEF TryAddress, Create, SocketInto, Goto, Keep, AnetInv, ListFreed
<1>2. \/ UNCHANGED owner /\ s' = ANET_ERR /\ pc' \in {"try", "error", "return"}
      \/ /\ pc' \in {"setup", "created", "return"}
         /\ \E f \in Fds : Lowest(f) /\ owner' = Opened(f, "call") /\ s' = f
  BY DEF TryAddress, Create, SocketInto, Goto, Keep, AnetInv, OneSocket, Before
<1>3. AnetTyped' /\ OneSocket'
  <2>1. CASE UNCHANGED owner /\ s' = ANET_ERR /\ pc' \in {"try", "error", "return"}
    <3>1. AnetTyped'
      BY <1>1, <2>1 DEF AnetInv, AnetTyped, Before, Holding
    <3>2. \A f \in Fds : owner[f] # "call"
      BY <1>1, ErrIsNoDescriptor DEF AnetInv, OneSocket, Before
    <3> QED BY <2>1, <3>1, <3>2 DEF OneSocket, Before, Holding
  <2>2. ASSUME NEW f \in Fds, Lowest(f), owner' = Opened(f, "call"), s' = f,
               pc' \in {"setup", "created", "return"}
        PROVE  AnetTyped' /\ OneSocket'
    <3>1. /\ owner' \in [Fds -> Owners] /\ s' # ANET_ERR /\ owner'[s'] = "call"
          /\ \A g \in Fds : owner'[g] = "call" => g = s'
      BY <1>1, <2>2, OpenedByCall DEF Lowest, FreeFds
    <3>2. AnetTyped'
      BY <1>1, <2>2, <3>1 DEF AnetInv, AnetTyped, Before, Holding
    <3> QED BY <2>2, <3>1, <3>2 DEF OneSocket, Before, Holding
  <2> QED BY <1>2, <2>1, <2>2
<1>4. ListFreed'
  BY <1>1, <1>2 DEF ListFreed, AnetInv
<1> QED BY <1>3, <1>4 DEF AnetInv

(* Setting a socket up keeps it, closes it and forgets it, or, when         *)
(* anetV6Only() fails, closes it and does not.                              *)
LEMMA SetupAnet ==
    ASSUME AnetInv,
           \/ ConnectSetup \/ ResolveSource \/ BindSource
           \/ Connect \/ ServerSetup \/ Listen \/ Created \/ UnixConnect
    PROVE  AnetInv'
<1> USE ErrIsNoDescriptor
        DEF Goto, Keep, CloseAndGoto, Closed, AnetInv, AnetTyped, Owners,
            OneSocket, ListFreed, Before, Holding
<1>1. CASE ConnectSetup
  BY <1>1 DEF ConnectSetup
<1>2. CASE Connect
  BY <1>2 DEF Connect
<1>3. CASE ServerSetup
  BY <1>3 DEF ServerSetup
<1>4. CASE Listen
  BY <1>4 DEF Listen
<1>5. CASE Created
  BY <1>5 DEF Created
<1>6. CASE UnixConnect
  BY <1>6 DEF UnixConnect
<1>7. CASE ResolveSource
  BY <1>7 DEF ResolveSource
<1>8. CASE BindSource
  <2>1. /\ pc = "bind" /\ pc' \in {"connect", "error"} /\ UNCHANGED <<owner, call, s, v6failed>>
        /\ lists' = lists \ {"source info"} /\ call.kind # "unixConnect"
    BY <1>8 DEF BindSource
  <2>2. AnetTyped' /\ OneSocket'
    BY <2>1
  <2>3. ListFreed'
    BY <2>1
  <2> QED BY <2>2, <2>3
<1> QED BY <1>1, <1>2, <1>3, <1>4, <1>5, <1>6, <1>7, <1>8

(* The common end frees the list and closes the socket of a failed call. *)
LEMMA EndAnet ==
    ASSUME AnetInv, Error \/ End PROVE AnetInv'
<1> USE DEF Goto, Keep, AnetInv
<1>1. CASE Error
  BY <1>1, ErrIsNoDescriptor
     DEF Error, CloseAndGoto, Closed, AnetTyped, Owners, OneSocket, ListFreed,
         Before, Holding
<1>2. CASE End
  <2>1. call' \in Calls
    BY <1>2, FlagsOfCalls DEF End, AnetTyped
  <2>2. UNCHANGED <<owner, s, v6failed>> /\ lists' = {}
        /\ pc = "end" /\ (pc' = "return" \/ (pc' = "resolve" /\ s = ANET_ERR))
    BY <1>2 DEF End, AnetTyped, ListFreed
  <2> QED BY <2>1, <2>2 DEF AnetTyped, OneSocket, ListFreed, Before, Holding
<1> QED BY <1>1, <1>2

(* The socket that is returned is the caller's: the call has none left. *)
LEMMA FinishAnet ==
    ASSUME AnetInv, Finish, pc = "return" PROVE AnetInv'
<1>1. call.for \in {"program", "node"}
  BY DEF AnetInv, AnetTyped, Calls
<1>2. owner' \in [Fds -> Owners] /\ \A f \in Fds : owner'[f] # "call"
  <2>1. /\ owner \in [Fds -> Owners] /\ s \in Fds \union {ANET_ERR}
        /\ \A f \in Fds : owner[f] = "call" => f = s
        /\ owner' = IF s = ANET_ERR THEN owner ELSE [owner EXCEPT ![s] = call.for]
    BY DEF Finish, Handed, AnetInv, AnetTyped, OneSocket
  <2> QED BY <1>1, <2>1, ErrIsNoDescriptor DEF Owners
<1>3. lists' = {} /\ pc' = "idle" /\ s' = ANET_ERR /\ call' \in Calls /\ ~v6failed'
  BY PublicCallsAreCalls DEF Finish, AnetInv, ListFreed
<1> QED
  BY <1>2, <1>3 DEF Finish, AnetInv, AnetTyped, OneSocket, ListFreed, Before, Holding

(* What the rest of the process opens was free, and what it closes was not  *)
(* the call's.                                                              *)
LEMMA RestAnet ==
    ASSUME AnetInv, Rest PROVE AnetInv'
  BY DEF Rest, OtherOpens, Closes, Lowest, FreeFds, Opened, Closed, AnetInv,
         AnetTyped, Owners, OneSocket, ListFreed, Before, Holding

LEMMA StepAnet ==
    ASSUME AnetInv, Step PROVE AnetInv'
<1>1. CASE Return
  BY <1>1, FinishAnet DEF Return
<1> QED BY <1>1, ResolveAnet, OpenAnet, SetupAnet, EndAnet DEF Step

(* The node's own steps leave the helpers alone, or start or end a call. *)
LEMMA NextAnet == AnetInv /\ [Next]_vars => AnetInv'
<1> SUFFICES ASSUME AnetInv, [Next]_vars PROVE AnetInv'
  OBVIOUS
<1>1. CASE UNCHANGED anet_vars
  BY <1>1 DEF anet_vars, AnetInv, AnetTyped, OneSocket, ListFreed
<1>2. CASE nonblockConnect
  BY <1>2, PublicCallsAreCalls, StartAnet DEF nonblockConnect
<1>3. CASE connect_returns
  BY <1>3, FinishAnet DEF connect_returns
<1>4. CASE \E c \in PublicCalls : Start(c)
  BY <1>4, PublicCallsAreCalls, StartAnet
<1>5. CASE Step \/ Rest
  BY <1>5, StepAnet, RestAnet
<1>6. CASE writeHandler \/ write_turn \/ readFromSocket \/ \E n \in ReplySizes : QueueReply(n)
  BY <1>6, <1>1 DEF writeHandler, write_turn, readFromSocket, QueueReply
<1> QED BY <1>1, <1>2, <1>3, <1>4, <1>5, <1>6 DEF Next, vars

(* Every state of the node keeps the table. *)
LEMMA AnetInvariant == Spec => []AnetInv
<1>1. Init => AnetInv
  BY InitAnet DEF Init
<1> QED BY <1>1, NextAnet, PTL DEF Spec

-----------------------------------------------------------------------------
(* Error paths: a call of anet.cpp that is over, however it went, holds     *)
(* neither a socket nor an address list.                                    *)
THEOREM CallsLeaveNothingOpen == Spec => []NothingLeftOpen
<1>1. AnetInv => NothingLeftOpen
  BY ErrIsNoDescriptor
     DEF AnetInv, AnetTyped, OneSocket, ListFreed, NothingLeftOpen, Before
<1> QED BY <1>1, AnetInvariant, PTL

(* What a step of a call closes is the socket the call has opened, unless   *)
(* anetV6Only() has closed it before.                                       *)
LEMMA StepClosesItsOwn ==
    ASSUME AnetInv, Step, NEW f \in Fds, owner[f] # "call", owner'[f] = "free"
    PROVE  owner[f] = "free" \/ v6failed
<1>1. CASE Resolve \/ ConnectSetup \/ ResolveSource \/ BindSource \/ End
  BY <1>1 DEF Resolve, ConnectSetup, ResolveSource, BindSource, End, Goto, Keep
<1>2. CASE TryAddress \/ Create
  BY <1>2 DEF TryAddress, Create, SocketInto, Goto, Keep, Lowest, FreeFds, Opened,
              AnetInv, AnetTyped
<1>3. CASE Connect \/ ServerSetup \/ Listen \/ Created \/ UnixConnect
  BY <1>3 DEF Connect, ServerSetup, Listen, Created, UnixConnect, CloseAndGoto, Closed,
              Goto, Keep, AnetInv, AnetTyped, OneSocket, Holding
<1>4. CASE Error
  BY <1>4 DEF Error, CloseAndGoto, Closed, Goto, Keep, AnetInv, AnetTyped, OneSocket
<1>5. CASE Return
  <2>1. call.for # "free"
    BY DEF AnetInv, AnetTyped, Calls
  <2> QED BY <1>5, <2>1 DEF Return, Finish, Handed, AnetInv, AnetTyped
<1> QED BY <1>1, <1>2, <1>3, <1>4, <1>5 DEF Step

(* No call closes a descriptor of another thread or of the program, unless  *)
(* anetV6Only() has failed.                                                 *)
THEOREM CallsCloseTheirOwn == Spec => ClosesOnlyItsOwn
<1>1. AnetInv => [\A f \in Fds : Step /\ owner[f] # "call" /\ owner'[f] = "free" =>
                      owner[f] = "free" \/ v6failed]_anet_vars
  BY StepClosesItsOwn
<1> QED BY <1>1, AnetInvariant, PTL DEF ClosesOnlyItsOwn

-----------------------------------------------------------------------------
(* A turn of the write loop starts where the last accepted write ended. *)
LEMMA TurnKeepsStream ==
    ASSUME NodeInv, write_turn PROVE NodeInv'
<1> USE DEF history
<1>1. CASE replys = <<>>
  BY <1>1 DEF write_turn, NodeInv, NodeTyped, CountHolds, StreamUnbroken
<1>2. CASE replys # <<>>
  <2>1. PICK ret \in -1 .. MostTaken :
          /\ Wrote(ret) /\ Accept(ret)
          /\ IF Busy(ret)
             THEN reply_written' = Written(ret) /\ UNCHANGED <<replys, origin, gone>>
             ELSE /\ replys' = Tail(replys) /\ reply_written' = 0
                  /\ origin' = "pop" /\ gone' = gone + Head(replys)
    BY <1>2 DEF write_turn
  <2>2. /\ Head(replys) \in Nat /\ Tail(replys) \in Seq(Nat)
        /\ reply_written \in Int /\ gone \in Nat /\ origin \in {"memory", "pop"}
        /\ accepted \in Seq([at : Int, units : Int])
    BY <1>2 DEF NodeInv, NodeTyped
  <2>3. /\ ret \in Int /\ ret >= -1
        /\ origin = "pop" => reply_written >= 0 /\ reply_written <= Head(replys)
                     /\ (ret = -1 \/ ret <= Head(replys) - reply_written)
    <3>1. MostTaken \in Int
      BY <2>2, NodeAssumption DEF MostTaken, should_write
    <3>2. origin = "pop" => reply_written >= 0 /\ reply_written <= Head(replys)
      BY <2>2 DEF NodeInv, CountHolds
    <3> QED BY <2>1, <2>2, <3>1, <3>2 DEF MostTaken, should_write
  <2>4. Written(ret) \in Int
    BY <2>2, <2>3 DEF Written
  <2>5. NodeTyped'
    <3>1. accepted' \in Seq([at : Int, units : Int])
      <4>1. [at |-> gone + reply_written, units |-> ret] \in [at : Int, units : Int]
        BY <2>2, <2>3
      <4> DEFINE w == [at |-> gone + reply_written, units |-> ret]
      <4>2. accepted' = accepted \/ accepted' = Append(accepted, w)
        BY <2>1 DEF Accept
      <4> DEFINE R == [at : Int, units : Int]
      <4>3. w \in R /\ accepted \in Seq(R)
        BY <2>2, <4>1
      <4>4. accepted' \in Seq(R)
        <5> HIDE DEF w, R
        <5> QED BY <4>2, <4>3
      <4> QED BY <4>4
    <3>2. gone + Head(replys) \in Nat
      BY <2>2
    <3>3. /\ replys \in Seq(Nat)
          /\ replys' \in Seq(Nat) /\ reply_written' \in Int /\ gone' \in Nat /\ origin' \in {"memory", "pop"}
      <4>1. CASE Busy(ret)
        BY <2>1, <2>2, <2>4, <4>1 DEF NodeInv, NodeTyped
      <4>2. CASE ~Busy(ret)
        <5>1. replys' = Tail(replys) /\ reply_written' = 0
              /\ gone' = gone + Head(replys) /\ origin' = "pop"
          BY <2>1, <4>2
        <5>2. replys \in Seq(Nat)
          BY DEF NodeInv, NodeTyped
        <5> QED BY <2>2, <3>2, <5>1, <5>2
      <4> QED BY <4>1, <4>2
    <3> QED BY <3>1, <3>3 DEF NodeTyped
  <2>6. \/ origin' = origin /\ gone' = gone /\ reply_written' = Written(ret)
           /\ replys' = replys /\ (ret = -1 \/ Written(ret) \in 0 .. Head(replys) - 1)
        \/ origin' = "pop" /\ reply_written' = 0 /\ gone' = gone + Head(replys)
           /\ ret # -1 /\ Written(ret) = reply_written + ret
           /\ (origin = "pop" => reply_written + ret = Head(replys))
    <3>1. CASE Busy(ret)
      BY <2>1, <3>1 DEF Busy
    <3>2. CASE ~Busy(ret)
      <4>1. ret # -1 /\ Written(ret) = reply_written + ret
            /\ Written(ret) \notin 0 .. Head(replys) - 1
        BY <3>2 DEF Busy, Written
      <4>2. origin = "pop" => reply_written + ret = Head(replys)
        BY <2>2, <2>3, <4>1
      <4> QED BY <2>1, <3>2, <4>1, <4>2
    <3> QED BY <3>1, <3>2
  <2>7. accepted # <<>> =>
          /\ origin = "pop" /\ Len(accepted) >= 1
          /\ accepted[Len(accepted)].at + accepted[Len(accepted)].units = gone + reply_written
    BY <2>2 DEF NodeInv, CountHolds
  <2>8. CASE origin = "pop" /\ ret > 0
    <3> DEFINE w == [at |-> gone + reply_written, units |-> ret]
               n == Len(accepted)
    <3>1. accepted' = Append(accepted, w) /\ w.at = gone + reply_written /\ w.units = ret
      BY <2>1, <2>8 DEF Accept
    <3>2. /\ n \in Nat /\ Len(accepted') = n + 1 /\ accepted'[n + 1] = w
          /\ \A i \in 1 .. n : accepted'[i] = accepted[i]
          /\ accepted' # <<>> /\ (n > 0 => accepted # <<>>)
      BY <2>2, <3>1
    <3> HIDE DEF w, n
    <3>3. StreamUnbroken'
      <4> SUFFICES ASSUME NEW i \in 1 .. n
                   PROVE  accepted'[i + 1].at = accepted'[i].at + accepted'[i].units
        BY <3>2 DEF StreamUnbroken
      <4>1. CASE i = n
        BY <2>7, <3>1, <3>2, <4>1 DEF n
      <4>2. CASE i # n
        <5>1. i \in 1 .. n - 1 /\ i + 1 \in 1 .. n
          BY <3>2, <4>2
        <5>2. accepted[i + 1].at = accepted[i].at + accepted[i].units
          BY <5>1 DEF NodeInv, StreamUnbroken, n
        <5> QED BY <3>2, <5>1, <5>2
      <4> QED BY <4>1, <4>2
    <3>4. gone' + reply_written' = gone + reply_written + ret
      <4>1. CASE origin' = origin /\ gone' = gone /\ reply_written' = Written(ret)
        BY <2>8, <4>1, <2>2, <2>3 DEF Written
      <4>2. CASE reply_written' = 0 /\ gone' = gone + Head(replys)
                 /\ (origin = "pop" => reply_written + ret = Head(replys))
        BY <2>8, <4>2, <2>2, <2>3
      <4> QED BY <2>6, <4>1, <4>2
    <3>5. CountHolds'
      <4>1. /\ origin' = "pop" => reply_written' >= 0
            /\ origin' = "pop" /\ reply_written' > 0 => replys' # <<>> /\ reply_written' < Head(replys')
        BY <1>2, <2>2, <2>3, <2>6, <2>8 DEF Written
      <4>2. origin' = "pop"
        BY <2>6, <2>8
      <4>3. accepted'[Len(accepted')].at + accepted'[Len(accepted')].units
              = gone' + reply_written'
        BY <2>2, <2>3, <3>1, <3>2, <3>4
      <4> QED BY <4>1, <4>2, <4>3 DEF CountHolds
    <3> QED BY <2>5, <3>3, <3>5 DEF NodeInv
  <2>9. CASE ~(origin = "pop" /\ ret > 0)
    <3>1. accepted' = accepted
      BY <2>1, <2>9 DEF Accept
    <3>2. StreamUnbroken'
      BY <3>1 DEF NodeInv, StreamUnbroken
    <3>3. origin = "pop" => gone' + reply_written' = gone + reply_written
      <4> SUFFICES ASSUME origin = "pop"
                   PROVE  gone' + reply_written' = gone + reply_written
        OBVIOUS
      <4>1. ret = -1 \/ ret = 0
        BY <2>3, <2>9
      <4>2. CASE ret = -1
        BY <2>2, <2>6, <4>2 DEF Written
      <4>3. CASE ret = 0
        BY <2>2, <2>6, <4>3 DEF Written
      <4> QED BY <4>1, <4>2, <4>3
    <3>4. /\ origin' = "pop" => reply_written' >= 0
          /\ origin' = "pop" /\ reply_written' > 0 => replys' # <<>> /\ reply_written' < Head(replys')
      <4>1. CASE ret = -1
        BY <1>2, <2>2, <2>6, <4>1 DEF Written, NodeInv, CountHolds
      <4>2. CASE ret # -1
        BY <1>2, <2>2, <2>3, <2>6, <2>9, <4>2 DEF Written
      <4> QED BY <4>1, <4>2
    <3>5. accepted # <<>> => origin = "pop" /\ origin' = "pop"
      BY <2>6, <2>7
    <3> QED BY <2>5, <2>7, <3>1, <3>2, <3>3, <3>4, <3>5 DEF NodeInv, CountHolds
  <2> QED BY <2>8, <2>9
<1> QED BY <1>1, <1>2

LEMMA NextNode == NodeInv /\ [Next]_vars => NodeInv'
<1> SUFFICES ASSUME NodeInv, [Next]_vars PROVE NodeInv'
  OBVIOUS
<1>1. CASE UNCHANGED <<replys, reply_written, history>>
  BY <1>1 DEF history, NodeInv, NodeTyped, CountHolds, StreamUnbroken
<1>2. CASE write_turn
  BY <1>2, TurnKeepsStream
<1>3. ASSUME NEW n \in ReplySizes, QueueReply(n) PROVE NodeInv'
  <2>1. n \in Nat
    BY NodeAssumption
  <2>2. /\ replys \in Seq(Nat) /\ replys' = Append(replys, n)
        /\ UNCHANGED <<reply_written, history>>
    BY <1>3 DEF QueueReply, NodeInv, NodeTyped
  <2>3. replys' \in Seq(Nat) /\ replys' # <<>>
        /\ (replys # <<>> => Head(replys') = Head(replys))
    BY <2>1, <2>2
  <2> QED BY <2>2, <2>3 DEF history, NodeInv, NodeTyped, CountHolds, StreamUnbroken
<1>4. CASE connect_returns
  <2>1. accepted' = <<>> /\ UNCHANGED <<replys, reply_written, origin, gone>>
    BY <1>4 DEF connect_returns
  <2> QED BY <2>1 DEF NodeInv, NodeTyped, CountHolds, StreamUnbroken
<1> QED
  BY <1>1, <1>2, <1>3, <1>4
     DEF Next, vars, node_vars, nonblockConnect, writeHandler, readFromSocket

(* On each connection the replies behind the first reach the socket in      *)
(* order, each unit once and without a gap, for any replies and whatever    *)
(* the sockets take; reply_written may start as any number.                 *)
THEOREM RepliesUnbroken == Spec => []StreamUnbroken
<1>1. Init => NodeInv
  BY NodeAssumption DEF Init, NodeInv, NodeTyped, CountHolds, StreamUnbroken
<1>2. NodeInv => StreamUnbroken
  BY DEF NodeInv
<1> QED BY <1>1, <1>2, NextNode, PTL DEF Spec
=============================================================================
