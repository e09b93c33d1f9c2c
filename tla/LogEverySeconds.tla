--------------------------- MODULE LogEverySeconds ---------------------------
(***************************************************************************)
(* One site of the logEverySeconds macro of src/logger.hpp: the static      *)
(* atomic of the site, and the threads that pass it.  A pass reads the      *)
(* clock, loads the atomic, compares, and tries to replace what it loaded   *)
(* by what it read; the thread whose exchange succeeds logs.  The clock is  *)
(* gettimeofday(): a read returns any time, later or earlier than the one   *)
(* before.  Period is seconds * 1000000, for seconds below 2148: beyond     *)
(* that the product overflows the int it is computed in.                    *)
(***************************************************************************)
EXTENDS Naturals, FiniteSets, Sequences

CONSTANTS
    Threads,
    Period,
    Times          \* what the clock shows

ASSUME PeriodAssumption == Period \in Nat \ {0} /\ Times \subseteq Nat

VARIABLES
    last,          \* the static atomic, log_static_<line>
    pc, current, seen,
    granted        \* history: the stamp of each pass that logs, in order

vars == <<last, pc, current, seen, granted>>

Init ==
    /\ last = 0
    /\ pc = [t \in Threads |-> "idle"]
    /\ current = [t \in Threads |-> 0]
    /\ seen = [t \in Threads |-> 0]
    /\ granted = <<>>

Goto(t, l) == pc' = [pc EXCEPT ![t] = l]

ReadClock(t) ==
    /\ pc[t] = "idle"
    /\ \E now \in Times : current' = [current EXCEPT ![t] = now]
    /\ Goto(t, "load")
    /\ UNCHANGED <<last, seen, granted>>

LoadSeen(t) ==
    /\ pc[t] = "load"
    /\ seen' = [seen EXCEPT ![t] = last]
    /\ Goto(t, "compare")
    /\ UNCHANGED <<last, current, granted>>

(* The period is not over: nothing is logged. *)
TooEarly(t) ==
    /\ pc[t] = "compare"
    /\ current[t] < seen[t] + Period
    /\ Goto(t, "idle")
    /\ UNCHANGED <<last, current, seen, granted>>

Stamp(t, time) ==
    /\ last' = time
    /\ granted' = Append(granted, current[t])
    /\ Goto(t, "log")
    /\ UNCHANGED <<current, seen>>

Due(t) == pc[t] = "compare" /\ current[t] >= seen[t] + Period

BlindExchange(t) == Due(t) /\ Stamp(t, current[t])       \* a store
DriftingExchange(t) == Due(t) /\ last = seen[t] /\ Stamp(t, seen[t] + Period)
Exchange(t) == Due(t) /\ last = seen[t] /\ Stamp(t, current[t])

(* compare_exchange_weak fails when another thread was faster, or for no    *)
(* reason; it is not tried again.                                           *)
ExchangeFails(t) ==
    /\ Due(t)
    /\ Goto(t, "idle")
    /\ UNCHANGED <<last, current, seen, granted>>

Log(t) ==
    /\ pc[t] = "log"
    /\ Goto(t, "idle")
    /\ UNCHANGED <<last, current, seen, granted>>

Next ==
    \E t \in Threads :
        \/ ReadClock(t) \/ LoadSeen(t) \/ TooEarly(t)
        \/ Exchange(t) \/ ExchangeFails(t) \/ Log(t)

Spec == Init /\ [][Next]_vars
-----------------------------------------------------------------------------
TypeOK ==
    /\ last \in Times \union {0}
    /\ pc \in [Threads -> {"idle", "load", "compare", "log"}]
    /\ current \in [Threads -> Times \union {0}]
    /\ seen \in [Threads -> Times \union {0}]
    /\ granted \in Seq(Times)

(* Any two passes that log, of one thread or of two, have stamps at least a *)
(* period apart: no two of them share a stamp either, however long a thread *)
(* is held between its load and its exchange, and although the clock may    *)
(* stand still and go back.                                                 *)
PeriodApart ==
    \A i, j \in DOMAIN granted :
        i < j => \/ granted[j] >= granted[i] + Period
                 \/ granted[i] >= granted[j] + Period

(* A pass that logs has a later stamp than every pass that logged before.   *)
StampsAdvance ==
    [][granted' # granted =>
         \A i \in DOMAIN granted : granted'[Len(granted')] > granted[i]]_vars
=============================================================================
