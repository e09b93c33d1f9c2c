------------------------------ MODULE RaftNode ------------------------------
(***************************************************************************)
(* A raftNode and its Connection (src/connection.cpp): a queue of replies   *)
(* that writeHandler() writes to a non-blocking socket, which may take part *)
(* of what it is given, nothing for now, or fail.  A reply is its length,   *)
(* in units; the socket comes from Anet.  connection.cpp is a draft (it     *)
(* does not compile): what is modelled is what its text says.               *)
(***************************************************************************)
EXTENDS Anet

CONSTANTS ReplySizes, MaxReplies, MaxUnits
ASSUME NodeAssumption ==
    ReplySizes \subseteq Nat /\ MaxReplies \in Nat \ {0} /\ MaxUnits \in Nat

VARIABLES
    fd, status,       \* of the Connection
    replys, reply_written,
    writing,          \* writeHandler() is in its loop
    origin,           \* of reply_written: "memory" at first, "pop" from the first pop on
    gone,             \* units of the replies that were popped
    accepted          \* history: what the socket took of the replies behind the first
history == <<origin, gone, accepted>>
connection == <<fd, status>>
node_vars == <<connection, replys, reply_written, writing, history>>
vars == <<anet_vars, node_vars>>

(* No constructor sets fd, status or reply_written: each starts as what lies *)
(* in memory, reply_written within a bound.                                 *)
Init ==
    /\ AnetInit
    /\ fd \in Fds \union {ANET_ERR}
    /\ status \in {"not_connectted", "connectting", "connectted", "error"}
    /\ replys = <<>> /\ reply_written \in -1 .. MaxUnits
    /\ writing = FALSE /\ origin = "memory" /\ gone = 0 /\ accepted = <<>>

(* nonblockConnect(): the old descriptor is overwritten, not closed. *)
nonblockConnect ==
    /\ ~writing /\ Start(NonBlockConnect("node"))
    /\ status' = "connectting"
    /\ UNCHANGED <<fd, replys, reply_written, writing, history>>
connect_returns ==
    /\ pc = "return" /\ call.for = "node" /\ Finish
    /\ fd' = s /\ accepted' = <<>>
    /\ UNCHANGED <<status, replys, reply_written, writing, origin, gone>>

QueueReply(n) ==
    /\ pc = "idle" /\ ~writing /\ Len(replys) < MaxReplies /\ gone < MaxUnits
    /\ replys' = Append(replys, n)
    /\ UNCHANGED <<anet_vars, connection, reply_written, writing, history>>

writeHandler ==
    /\ pc = "idle" /\ ~writing /\ replys # <<>> /\ writing' = TRUE
    /\ UNCHANGED <<anet_vars, connection, replys, reply_written, history>>

should_write == Head(replys) - reply_written
(* A negative length is a huge size_t: the socket takes what it can read.   *)
MostTaken == IF should_write < 0 THEN MaxUnits ELSE should_write

(* A failed write drops the descriptor without closing it. *)
Dropped == fd' = ANET_ERR /\ status' = "not_connectted"

(* What writeToSocket() returns, and what it does to the connection. *)
Wrote(ret) ==
    /\ ret \in {-1} \union 0 .. MostTaken
    /\ \/ ret = -1 /\ Dropped                              \* EBADF, EPIPE, EFAULT
       \/ /\ fd # ANET_ERR /\ owner[fd] # "free"
          /\ \/ ret = -1 /\ UNCHANGED connection           \* EAGAIN, EINTR
             \/ ret = 0 /\ should_write = 0 /\ Dropped     \* taken for a close
             \/ ret > 0 /\ UNCHANGED connection

WrittenAgain(ret) == IF ret = -1 THEN 0 ELSE reply_written + ret
(* A failure keeps the count: the rest goes to the next connection. *)
Written(ret) == IF ret = -1 THEN reply_written ELSE reply_written + ret
(* An int is compared to a size_t: a negative count is a large one. *)
Busy(ret) == ret = -1 \/ Written(ret) \in 0 .. Head(replys) - 1

(* Where a write starts in the text of all replies, and how much it takes.  *)
Accept(ret) ==
    accepted' = IF origin = "pop" /\ ret > 0
                THEN Append(accepted, [at |-> gone + reply_written, units |-> ret])
                ELSE accepted

(* One turn of the loop: it ends after a failure, when the socket is busy   *)
(* with part of a reply, or when there is no reply left.                    *)
write_turn ==
    /\ writing
    /\ IF replys = <<>>
       THEN writing' = FALSE /\ UNCHANGED <<connection, replys, reply_written, history>>
       ELSE \E ret \in -1 .. MostTaken :
            /\ Wrote(ret) /\ Accept(ret)
            /\ IF Busy(ret)
               THEN /\ writing' = FALSE /\ reply_written' = Written(ret)
                    /\ UNCHANGED <<replys, origin, gone>>
               ELSE /\ replys' = Tail(replys) /\ reply_written' = 0
                    /\ origin' = "pop" /\ gone' = gone + Head(replys) /\ UNCHANGED writing
    /\ UNCHANGED anet_vars

(* readFromSocket(): the first read tells that the connection is there, the *)
(* end of the stream that it is over.  What is read is left out.            *)
readFromSocket ==
    /\ pc = "idle" /\ ~writing /\ fd # ANET_ERR
    /\ \/ status' = IF status = "connectting" THEN "connectted" ELSE status
       \/ status' = "not_connectted"
    /\ UNCHANGED <<anet_vars, fd, replys, reply_written, writing, history>>

Next ==
    \/ nonblockConnect \/ connect_returns \/ writeHandler \/ write_turn \/ readFromSocket
    \/ \E n \in ReplySizes : QueueReply(n)
    \/ \E c \in PublicCalls : ~writing /\ Start(c) /\ UNCHANGED node_vars
    \/ (Step \/ Rest) /\ UNCHANGED node_vars
Spec == Init /\ [][Next]_vars

-----------------------------------------------------------------------------
(* On one connection each write starts where the one before it ended, in    *)
(* the text of all replies in their order: over partial writes and failures *)
(* nothing is repeated, left out or overtaken.  The first reply, whose      *)
(* count starts as anything, is left out; and a connection may begin in the *)
(* middle of a reply that the one before it was sent a part of.             *)
StreamUnbroken ==
    \A i \in 1 .. Len(accepted) - 1 :
        accepted[i + 1].at = accepted[i].at + accepted[i].units
=============================================================================
