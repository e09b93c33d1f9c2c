----------------------------- MODULE LogService -----------------------------
(***************************************************************************)
(* What the logger keeps to towards its callers, with no threads, locks,   *)
(* buffers or files: an accepted entry is stored once and in the order of  *)
(* acceptance; a caller that asked to be held is held until flush() has    *)
(* been called with its entry among those stored; and the service is not   *)
(* closed before it has flushed all that it accepted.  flush() reports no  *)
(* failure: none of this says that an entry is on the disk.                *)
(***************************************************************************)
EXTENDS Naturals, Sequences

CONSTANTS Clients, Entries

VARIABLES
    pending,   \* entries accepted and not stored yet, oldest first
    stored,    \* entries handed to the log file, oldest first
    flushed,   \* how many entries were stored when flush() was last called
    owed,      \* [Clients -> Nat]: position a held caller waits for, 0 if none
    open       \* FALSE once the service has shut down

serviceVars == <<pending, stored, flushed, owed, open>>

ServiceInit ==
    /\ pending = <<>>
    /\ stored = <<>>
    /\ flushed = 0
    /\ owed = [c \in Clients |-> 0]
    /\ open = TRUE

(* c logs e; if hold, c is not let go before flush() follows e. *)
Accept(c, e, hold) ==
    /\ open
    /\ owed[c] = 0
    /\ pending' = Append(pending, e)
    /\ owed' = [owed EXCEPT ![c] =
                    IF hold THEN Len(stored) + Len(pending) + 1 ELSE 0]
    /\ UNCHANGED <<stored, flushed, open>>

Store ==
    /\ pending # <<>>
    /\ stored' = Append(stored, Head(pending))
    /\ pending' = Tail(pending)
    /\ UNCHANGED <<flushed, owed, open>>

Flush ==
    /\ flushed' = Len(stored)
    /\ UNCHANGED <<pending, stored, owed, open>>

LetGo(c) ==
    /\ owed[c] > 0
    /\ owed[c] <= flushed
    /\ owed' = [owed EXCEPT ![c] = 0]
    /\ UNCHANGED <<pending, stored, flushed, open>>

Close ==
    /\ open
    /\ pending = <<>>
    /\ flushed = Len(stored)
    /\ \A c \in Clients : owed[c] = 0
    /\ open' = FALSE
    /\ UNCHANGED <<pending, stored, flushed, owed>>

ServiceNext ==
    \/ \E c \in Clients, e \in Entries, hold \in BOOLEAN : Accept(c, e, hold)
    \/ Store
    \/ Flush
    \/ \E c \in Clients : LetGo(c)
    \/ Close

ServiceSpec == ServiceInit /\ [][ServiceNext]_serviceVars
=============================================================================
