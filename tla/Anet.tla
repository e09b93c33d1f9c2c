-------------------------------- MODULE Anet --------------------------------
(***************************************************************************)
(* The socket helpers (src/anet.cpp), one call at a time, over a table of    *)
(* descriptors that other threads use too.  Each system call may fail, and  *)
(* another thread may open or close a descriptor between any two of them.   *)
(* A descriptor that is opened is the lowest free one.                      *)
(***************************************************************************)
EXTENDS Integers, FiniteSets, Sequences

CONSTANTS
    Fds,          \* the descriptors the process may have
    MaxAddrs      \* bound on the addresses a name resolves to

ASSUME AnetAssumption == Fds \subseteq Nat /\ IsFiniteSet(Fds) /\ MaxAddrs \in Nat \ {0}

ANET_ERR == -1
Kinds == {"resolve", "connect", "unixConnect", "server", "unixServer", "accept"}
(* source: a source address is given; best: without it if need be.          *)
Calls == [kind : Kinds, nonblock : BOOLEAN, source : BOOLEAN, best : BOOLEAN,
          v6 : BOOLEAN, for : {"program", "node"}]
Simple(kind, for) ==
    [kind |-> kind, nonblock |-> FALSE, source |-> FALSE, best |-> FALSE,
     v6 |-> FALSE, for |-> for]
NoCall == Simple("resolve", "program")
NonBlockConnect(for) == [Simple("connect", for) EXCEPT !.nonblock = TRUE]
NonBlockBindConnect(source, best) ==
    [NonBlockConnect("program") EXCEPT !.source = source, !.best = best]
Tcp6Server == [Simple("server", "program") EXCEPT !.v6 = TRUE]
UnixNonBlockConnect == [Simple("unixConnect", "program") EXCEPT !.nonblock = TRUE]
(* The calls of anet.hpp. *)
PublicCalls ==
    {Simple(kind, "program") : kind \in Kinds}
    \union {Tcp6Server, UnixNonBlockConnect}
    \union {NonBlockBindConnect(source, best) : source \in BOOLEAN, best \in BOOLEAN}

VARIABLES
    owner,        \* of each descriptor: "free", "other", "call", "program", "node"
    lists,        \* the getaddrinfo() results not yet freed
    call, pc, s,  \* the call that runs, where it is, its socket
    left,         \* addresses not yet tried
    v6failed      \* anetV6Only() has closed s
anet_vars == <<owner, lists, call, pc, s, left, v6failed>>

AnetInit ==
    /\ owner = [f \in Fds |-> "free"] /\ lists = {}
    /\ call = NoCall /\ pc = "idle"
    /\ s = ANET_ERR /\ left = 0 /\ v6failed = FALSE

FreeFds == {f \in Fds : owner[f] = "free"}
Lowest(f) == f \in FreeFds /\ \A g \in FreeFds : f <= g
Opened(f, who) == [owner EXCEPT ![f] = who]
Closed(f) == [owner EXCEPT ![f] = "free"]

Goto(to) == pc' = to /\ UNCHANGED call
Keep == UNCHANGED <<owner, lists, s, left, v6failed>>

(* socket() or accept() may fail; what they open is the call's. *)
SocketInto(to, failed) ==
    \/ /\ \E f \in Fds : Lowest(f) /\ owner' = Opened(f, "call") /\ s' = f
       /\ Goto(to) /\ UNCHANGED <<lists, left, v6failed>>
    \/ Goto(failed) /\ s' = ANET_ERR /\ UNCHANGED <<owner, lists, left, v6failed>>

CloseAndGoto(to) ==
    /\ owner' = Closed(s) /\ s' = ANET_ERR /\ Goto(to)
    /\ UNCHANGED <<lists, left, v6failed>>

-----------------------------------------------------------------------------
Start(c) ==
    /\ pc = "idle" /\ call' = c
    /\ pc' = IF c.kind \in {"resolve", "connect", "server"} THEN "resolve" ELSE "create"
    /\ UNCHANGED <<owner, lists, s, left, v6failed>>

(* getaddrinfo() *)
Resolve ==
    /\ pc = "resolve"
    /\ \/ /\ lists' = lists \union {"info"} /\ left' \in 1 .. MaxAddrs
          /\ Goto(IF call.kind = "resolve" THEN "end" ELSE "try")
          /\ UNCHANGED <<owner, s, v6failed>>
       \/ Goto("return") /\ Keep

(* The loop over the addresses: the next one whose socket can be made. *)
TryAddress ==
    /\ pc = "try"
    /\ IF left = 0 THEN Goto("error") /\ Keep
       ELSE /\ left' = left - 1 /\ UNCHANGED <<lists, v6failed>>
            /\ \/ /\ \E f \in Fds : Lowest(f) /\ owner' = Opened(f, "call") /\ s' = f
                  /\ Goto("setup")
               \/ Goto("try") /\ s' = ANET_ERR /\ UNCHANGED owner

(* anetTcpGenericConnect(): SO_REUSEADDR and O_NONBLOCK. *)
ConnectSetup ==
    /\ pc = "setup" /\ call.kind = "connect" /\ Keep
    /\ (Goto(IF call.source THEN "source" ELSE "connect") \/ Goto("error"))
(* The source address has an address list of its own ... *)
ResolveSource ==
    /\ pc = "source"
    /\ \/ /\ lists' = lists \union {"source info"} /\ Goto("bind")
          /\ UNCHANGED <<owner, s, left, v6failed>>
       \/ Goto("error") /\ Keep
(* ... which is freed before it matters whether one of it could be bound.   *)
LeakyBindSource ==
    /\ pc = "bind"
    /\ \/ lists' = lists \ {"source info"} /\ Goto("connect")
       \/ Goto("error") /\ UNCHANGED lists
    /\ UNCHANGED <<owner, s, left, v6failed>>
BindSource ==
    /\ pc = "bind" /\ lists' = lists \ {"source info"}
    /\ (Goto("connect") \/ Goto("error"))
    /\ UNCHANGED <<owner, s, left, v6failed>>

(* A refused address is given up for the next; EINPROGRESS is a success.    *)
Connect ==
    /\ pc = "connect" /\ call.kind = "connect"
    /\ \/ Goto("end") /\ Keep
       \/ CloseAndGoto("try")

(* _anetTcpServer(): a failure of anetV6Only() closes the socket and leaves *)
(* its number in s.                                                         *)
ServerSetup ==
    /\ pc = "setup" /\ call.kind = "server"
    /\ \/ /\ call.v6
          /\ owner' = Closed(s) /\ v6failed' = TRUE /\ Goto("error")
          /\ UNCHANGED <<lists, s, left>>
       \/ Goto("listen") /\ Keep
       \/ Goto("error") /\ Keep

(* anetListen() closes what it cannot bind or listen on, and _anetTcpServer *)
(* forgets it: no other address is tried.                                   *)
TwiceClosingListen ==
    /\ pc = "listen"
    /\ \/ Goto("end") /\ Keep
       \/ owner' = Closed(s) /\ Goto("error") /\ UNCHANGED <<lists, s, left, v6failed>>
Listen ==
    /\ pc = "listen"
    /\ \/ Goto("end") /\ Keep
       \/ CloseAndGoto("end")

Error ==
    /\ pc = "error"
    /\ IF s # ANET_ERR THEN CloseAndGoto("end") ELSE Goto("end") /\ Keep

(* The list is freed; best effort binding starts over without the source.   *)
End ==
    /\ pc = "end"
    /\ lists' = lists \ {"info"}
    /\ IF call.kind = "connect" /\ s = ANET_ERR /\ call.source /\ call.best
       THEN pc' = "resolve" /\ call' = [call EXCEPT !.source = FALSE]
       ELSE Goto("return")
    /\ UNCHANGED <<owner, s, left, v6failed>>

(* Unix sockets and accept(): anetCreateSocket() closes a socket that does  *)
(* not take SO_REUSEADDR; accept() is tried again on EINTR.                 *)
Create == pc = "create" /\ SocketInto(IF call.kind = "accept" THEN "return" ELSE "created", "return")
Created ==
    /\ pc = "created"
    /\ \/ Goto(IF call.kind = "unixServer" THEN "listen" ELSE "connect") /\ Keep
       \/ CloseAndGoto("return")
(* O_NONBLOCK and connect() of a Unix socket. *)
UnixConnect ==
    /\ pc = "connect" /\ call.kind = "unixConnect"
    /\ \/ Goto("return") /\ Keep
       \/ CloseAndGoto("return")

(* The socket that is returned belongs to the caller. *)
Handed == IF s = ANET_ERR THEN owner ELSE [owner EXCEPT ![s] = call.for]
Finish ==
    /\ pc' = "idle" /\ owner' = Handed
    /\ call' = NoCall /\ s' = ANET_ERR /\ left' = 0 /\ v6failed' = FALSE
    /\ UNCHANGED lists
Return == pc = "return" /\ call.for = "program" /\ Finish

Step ==
    \/ Resolve \/ TryAddress \/ ConnectSetup \/ ResolveSource \/ BindSource
    \/ Connect \/ ServerSetup \/ Listen
    \/ Error \/ End \/ Create \/ Created \/ UnixConnect \/ Return

(* The rest of the process: other threads, and the program with a socket it *)
(* was given.                                                               *)
OtherOpens == \E f \in Fds : Lowest(f) /\ owner' = Opened(f, "other")
Closes(who) == \E f \in Fds : owner[f] = who /\ owner' = Closed(f)
Rest == (OtherOpens \/ Closes("other") \/ Closes("program"))
        /\ UNCHANGED <<lists, call, pc, s, left, v6failed>>

-----------------------------------------------------------------------------
(* Error paths: whatever fails, when a call is over it holds no socket and  *)
(* no address list, neither the one of the address nor that of the source.  *)
NothingLeftOpen ==
    pc = "idle" => lists = {} /\ \A f \in Fds : owner[f] # "call"

(* A call closes what it has opened and nothing else, as long as            *)
(* anetV6Only() does not fail: then s is closed a second time, and may be   *)
(* the new descriptor of another thread.                                    *)
ClosesOnlyItsOwn ==
    [][\A f \in Fds : Step /\ owner[f] # "call" /\ owner'[f] = "free" =>
            owner[f] = "free" \/ v6failed]_anet_vars
=============================================================================
