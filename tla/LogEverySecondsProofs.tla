------------------------ MODULE LogEverySecondsProofs ------------------------
(* One logEverySeconds site with any number of threads and any clock.       *)
EXTENDS LogEverySeconds, TLAPS

(* What the exchange keeps: the atomic is as late as every stamp, and each *)
(* stamp is a period after those before it.                               *)
LatestStamp == \A i \in DOMAIN granted : granted[i] <= last

StampsApart ==
    \A i, j \in DOMAIN granted : i < j => granted[j] >= granted[i] + Period

IInv == TypeOK /\ LatestStamp /\ StampsApart

(* The step that logs stamps a period after everything stamped before it,   *)
(* since the exchange finds what the thread had loaded.                     *)
LEMMA ExchangeIsLater ==
    ASSUME IInv, NEW t \in Threads, Exchange(t)
    PROVE  /\ current[t] \in Times /\ last' = current[t]
           /\ granted' = Append(granted, current[t])
           /\ \A i \in DOMAIN granted :
                 granted[i] \in Nat /\ current[t] \in Nat /\ current[t] >= granted[i] + Period
<1>1. /\ last' = current[t] /\ granted' = Append(granted, current[t])
      /\ last = seen[t] /\ current[t] >= seen[t] + Period
  BY DEF Exchange, Due, Stamp
<1>2. /\ last \in Nat /\ Period \in Nat \ {0} /\ Times \subseteq Nat
      /\ current[t] \in Times \union {0}
  <2>1. last \in Times \union {0} /\ current[t] \in Times \union {0}
    BY DEF IInv, TypeOK
  <2> QED BY <2>1, PeriodAssumption
<1>3. current[t] \in Nat /\ seen[t] \in Nat
  <2>1. \A x \in Times \union {0} : x \in Nat
    BY PeriodAssumption
  <2>2. current[t] \in Nat
    BY <1>2, <2>1
  <2> QED BY <1>1, <1>2, <2>2
<1>4. current[t] \in Times
  <2>1. current[t] # 0
    BY <1>1, <1>2, <1>3
  <2> QED BY <2>1, <1>2
<1>5. ASSUME NEW i \in DOMAIN granted
      PROVE  granted[i] \in Nat /\ current[t] \in Nat /\ current[t] >= granted[i] + Period
  <2>1. granted[i] \in Nat /\ granted[i] <= last
    <3>1. granted \in Seq(Times)
      BY DEF IInv, TypeOK
    <3>2. granted[i] \in Times
      BY <3>1
    <3> QED BY <3>2, <1>2 DEF IInv, LatestStamp
  <2>2. last \in Nat /\ Period \in Nat /\ current[t] \in Nat /\ current[t] >= last + Period
    BY <1>1, <1>2, <1>3
  <2> QED BY <2>1, <2>2
<1> QED BY <1>1, <1>4, <1>5

(* The invariant holds before the first pass. *)
LEMMA InitIInv == Init => IInv
  BY PeriodAssumption DEF Init, IInv, TypeOK, LatestStamp, StampsApart

(* Every step of a pass keeps the invariant: only a successful exchange *)
(* changes the atomic.                                                  *)
LEMMA NextIInv == IInv /\ [Next]_vars => IInv'
<1> SUFFICES ASSUME IInv, [Next]_vars PROVE IInv'
  OBVIOUS
<1> USE DEF IInv
<1>1. CASE UNCHANGED vars
  BY <1>1 DEF vars, TypeOK, LatestStamp, StampsApart
<1>2. ASSUME NEW t \in Threads, Exchange(t) PROVE IInv'
  <2>1. TypeOK'
    <3>1. pc' = [pc EXCEPT ![t] = "log"] /\ UNCHANGED <<current, seen>>
      BY <1>2 DEF Exchange, Stamp, Goto
    <3>2. /\ granted \in Seq(Times) /\ current[t] \in Times
          /\ last' = current[t] /\ granted' = Append(granted, current[t])
      BY <1>2, ExchangeIsLater DEF TypeOK
    <3>3. granted' \in Seq(Times) /\ last' \in Times \union {0}
      BY <3>2
    <3> QED BY <3>1, <3>3 DEF TypeOK
  <2> DEFINE stamp == current[t]
             n == Len(granted)
  <2>a. /\ last' = stamp /\ granted' = Append(granted, stamp) /\ stamp \in Times
        /\ stamp \in Nat /\ Period \in Nat \ {0} /\ granted \in Seq(Times)
        /\ \A i \in DOMAIN granted : granted[i] \in Nat /\ stamp >= granted[i] + Period
    BY <1>2, ExchangeIsLater, PeriodAssumption DEF TypeOK
  <2> HIDE DEF stamp
  <2>b. /\ n \in Nat /\ DOMAIN granted = 1..n /\ DOMAIN granted' = 1..(n + 1)
        /\ granted'[n + 1] = stamp
        /\ \A i \in 1..n : granted'[i] = granted[i]
    BY <2>a
  <2> HIDE DEF n
  <2>2. LatestStamp'
    <3> SUFFICES ASSUME NEW i \in 1..(n + 1) PROVE granted'[i] <= last'
      BY <2>b DEF LatestStamp
    <3>1. CASE i \in 1..n
      BY <3>1, <2>a, <2>b
    <3>2. CASE i = n + 1
      BY <3>2, <2>a, <2>b
    <3> QED BY <3>1, <3>2, <2>b
  <2>3. StampsApart'
    <3> SUFFICES ASSUME NEW i \in 1..(n + 1), NEW j \in 1..(n + 1), i < j
                 PROVE  granted'[j] >= granted'[i] + Period
      BY <2>b DEF StampsApart
    <3>1. i \in 1..n
      BY <2>b
    <3>2. CASE j \in 1..n
      BY <3>1, <3>2, <2>b DEF StampsApart
    <3>3. CASE j = n + 1
      BY <3>1, <3>3, <2>a, <2>b
    <3> QED BY <3>2, <3>3, <2>b
  <2> QED BY <2>1, <2>2, <2>3
<1>3. ASSUME NEW t \in Threads,
             ReadClock(t) \/ LoadSeen(t) \/ TooEarly(t) \/ ExchangeFails(t) \/ Log(t)
      PROVE  IInv'
  <2>1. UNCHANGED <<last, granted>>
    BY <1>3 DEF ReadClock, LoadSeen, TooEarly, ExchangeFails, Log
  <2>2. TypeOK'
    <3>1. pc' \in [Threads -> {"idle", "load", "compare", "log"}]
      BY <1>3 DEF TypeOK, ReadClock, LoadSeen, TooEarly, ExchangeFails, Log, Goto
    <3>2. current' \in [Threads -> Times \union {0}]
      BY <1>3 DEF TypeOK, ReadClock, LoadSeen, TooEarly, ExchangeFails, Log
    <3>3. seen' \in [Threads -> Times \union {0}]
      BY <1>3 DEF TypeOK, ReadClock, LoadSeen, TooEarly, ExchangeFails, Log
    <3> QED BY <2>1, <3>1, <3>2, <3>3 DEF TypeOK
  <2> QED BY <2>1, <2>2 DEF LatestStamp, StampsApart
<1> QED BY <1>1, <1>2, <1>3 DEF Next

(* Whatever the threads and the clock do, the state of a site has its type: *)
(* a stamp is a time that some thread read.                                 *)
THEOREM TypeCorrect == Spec => []TypeOK
<1>1. IInv => TypeOK
  BY DEF IInv
<1> QED BY <1>1, InitIInv, NextIInv, PTL DEF Spec

(* Any two passes that log have stamps at least a period apart; two with    *)
(* the same stamp are two entries of granted, and excluded too.             *)
THEOREM StampsAPeriodApart == Spec => []PeriodApart
<1>1. IInv => PeriodApart
  BY DEF IInv, StampsApart, PeriodApart
<1> QED BY <1>1, InitIInv, NextIInv, PTL DEF Spec

(* A pass that logs has a later stamp than every pass that logged before.   *)
THEOREM LaterPassLaterStamp == Spec => StampsAdvance
<1> DEFINE Advance == granted' # granted =>
                        \A i \in DOMAIN granted : granted'[Len(granted')] > granted[i]
<1>1. IInv /\ [Next]_vars => [Advance]_vars
  <2> SUFFICES ASSUME IInv, Next, granted' # granted, NEW i \in DOMAIN granted
               PROVE  granted'[Len(granted')] > granted[i]
    OBVIOUS
  <2>1. PICK t \in Threads : Exchange(t)
    BY DEF Next, ReadClock, LoadSeen, TooEarly, ExchangeFails, Log
  <2>2. /\ granted' = Append(granted, current[t])
        /\ granted[i] \in Nat /\ current[t] \in Nat /\ current[t] >= granted[i] + Period
    BY <2>1, ExchangeIsLater
  <2>3. granted'[Len(granted')] = current[t]
    BY <2>2 DEF IInv, TypeOK
  <2> QED BY <2>2, <2>3, PeriodAssumption
<1> HIDE DEF Advance
<1>2. Spec => [][Advance]_vars
  BY <1>1, InitIInv, NextIInv, PTL DEF Spec
<1> QED BY <1>2 DEF StampsAdvance, Advance
=============================================================================
