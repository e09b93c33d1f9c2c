----------------------------- MODULE SliceProofs -----------------------------
(***************************************************************************)
(* Who owns which block, for any number of slices and blocks, any texts and *)
(* any sizes of the header types.  The state is described by what a program *)
(* that has done nothing wrong relies on, Clean, over a heap hp, pointers   *)
(* d, constructed slices bn and lost blocks ls: every call is a few of the  *)
(* steps below, and each step keeps Clean.                                  *)
(***************************************************************************)
EXTENDS Slice, SdsHeaderProofs, FiniteSetTheorems

Cells == [used : BOOLEAN, h : Headers, text : Seq(Nat)]
(* A block tells the length of its text and the room it has. *)
Sound(c) == HeaderOK(c.h) /\ c.h.len = Len(c.text) /\ Len(c.text) <= MaxLen

Clean(hp, d, bn, ls) ==
    /\ hp \in [Blocks -> Cells] /\ d \in [Slices -> Blocks \union {NULL}]
    /\ bn \subseteq Slices /\ ls \subseteq Blocks
    /\ \A b \in Blocks : hp[b].used => Sound(hp[b])
    /\ \A s \in bn : d[s] # NULL => hp[d[s]].used /\ d[s] \notin ls
    /\ \A s, r \in bn : d[s] = d[r] /\ d[s] # NULL => s = r
    /\ \A b \in Blocks : hp[b].used /\ b \notin ls => \E s \in bn : d[s] = b
    /\ \A b \in ls : hp[b].used

Wrong == {"stale", "self", "dropped"}
(* While the program runs and has done nothing wrong the heap is clean;     *)
(* what it died of is among the causes.                                     *)
SliceInv ==
    /\ causes = {} => Running /\ Clean(heap, data, born, lost)
    /\ Running => causes \subseteq Wrong
    /\ FaultsExplained

-----------------------------------------------------------------------------
(* Blocks. *)

LEMMA FreedCell == Freed \in Cells /\ Freed.used = FALSE
<1>1. HeaderOK(sdsnewlen(0))
  BY NewLenOK, TypeMaxOrder DEF SDS_TYPE_64
<1>2. sdsnewlen(0) \in Headers
  BY <1>1 DEF HeaderOK
<1> HIDE DEF Headers
<1> QED BY <1>2 DEF Freed, Cells

LEMMA HeldCell ==
    ASSUME NEW h, HeaderOK(h), NEW t \in Seq(Nat), h.len = Len(t), Len(t) <= MaxLen
    PROVE  /\ Held(h, t) \in Cells /\ Held(h, t).used = TRUE
           /\ Held(h, t).h = h /\ Held(h, t).text = t /\ Sound(Held(h, t))
<1>1. h \in Headers
  BY DEF HeaderOK
<1>2. /\ Held(h, t).used = TRUE /\ Held(h, t).h = h /\ Held(h, t).text = t
  BY DEF Held
<1>3. Held(h, t) \in Cells
  BY <1>1 DEF Held, Cells
<1>4. Sound(Held(h, t))
  BY <1>2 DEF Sound
<1> QED BY <1>2, <1>3, <1>4

LEMMA Bounds ==
    /\ MaxLen \in Nat /\ MaxLen <= TypeMax[SDS_TYPE_64] /\ NULL \notin Blocks
    /\ \A t \in Texts : t \in Seq(Nat) /\ Len(t) \in Nat /\ Len(t) <= MaxLen
    /\ <<>> \in Texts
<1>1. MaxLen \in Nat
  BY SliceAssumption
<1>2. MaxLen + 1 <= Enlarged(MaxLen + 1) /\ Enlarged(MaxLen + 1) \in Nat
  BY <1>1, EnlargedIsLarger
<1>3. TypeMax[SDS_TYPE_64] \in Nat
  BY TypeMaxOrder DEF SDS_TYPE_64
<1>4. Enlarged(MaxLen + 1) <= TypeMax[SDS_TYPE_64]
  BY SliceAssumption
<1>5. MaxLen <= TypeMax[SDS_TYPE_64]
  BY <1>1, <1>2, <1>3, <1>4
<1> QED BY <1>1, <1>5, SliceAssumption

LEMMA NewStringCell ==
    ASSUME NEW t \in Seq(Nat), Len(t) <= MaxLen
    PROVE  /\ NewString(t) \in Cells /\ NewString(t).used = TRUE
           /\ NewString(t).text = t /\ Sound(NewString(t))
<1>1. Len(t) \in Nat /\ Len(t) <= TypeMax[SDS_TYPE_64]
  BY Bounds, TypeMaxOrder DEF SDS_TYPE_64
<1>2. HeaderOK(sdsnewlen(Len(t))) /\ sdsnewlen(Len(t)).len = Len(t)
  BY <1>1, NewLenOK
<1> QED BY <1>2, HeldCell DEF NewString

Put(f, x, v) == [f EXCEPT ![x] = v]

LEMMA PutTwice == \A f, x, v, w : Put(Put(f, x, v), x, w) = Put(f, x, w)
  BY DEF Put

(* Room is asked for as far as the largest header type goes. *)
LEMMA RoomForText ==
    ASSUME NEW k \in Nat, NEW n \in Nat, NEW m \in Sizes \union {1}, k + n <= MaxLen + m
    PROVE  Enlarged(k + n) <= TypeMax[SDS_TYPE_64]
<1>0. MaxLen \in Nat /\ m \in Nat
  BY SliceAssumption
<1>1. Enlarged(k + n) <= Enlarged(MaxLen + m)
  BY <1>0, HeaderAssumption DEF Enlarged
<1>2. Enlarged(MaxLen + m) <= TypeMax[SDS_TYPE_64]
  BY SliceAssumption
<1>3. Enlarged(MaxLen + m) \in Nat /\ Enlarged(k + n) \in Nat
  BY <1>0, EnlargedIsLarger
<1>4. TypeMax[SDS_TYPE_64] \in Nat
  BY TypeMaxOrder DEF SDS_TYPE_64
<1> QED BY <1>1, <1>2, <1>3, <1>4

-----------------------------------------------------------------------------
(* What the calls are made of. *)

(* The block of s is freed and its pointer reset. *)
LEMMA ReleaseStep ==
    ASSUME NEW hp, NEW d, NEW bn, NEW ls, Clean(hp, d, bn, ls),
           NEW s \in bn, d[s] # NULL
    PROVE  LET hq == Put(hp, d[s], Freed)
               dq == Put(d, s, NULL)
           IN Clean(hq, dq, bn, ls)
<1> DEFINE b == d[s]
           hq == [hp EXCEPT ![b] = Freed]
           dq == [d EXCEPT ![s] = NULL]
<1>1. b \in Blocks /\ s \in Slices /\ b # NULL /\ hp[b].used /\ b \notin ls
  BY Bounds DEF Clean
<1>2. /\ hq \in [Blocks -> Cells] /\ dq \in [Slices -> Blocks \union {NULL}]
  BY <1>1, FreedCell DEF Clean
<1>3. ~hq[b].used /\ dq[s] = NULL
  BY <1>1, FreedCell DEF Clean
<1>4. \A c \in Blocks : c # b => hq[c] = hp[c]
  BY DEF Clean
<1>5. \A r \in Slices : r # s => dq[r] = d[r]
  BY DEF Clean
<1>6. \A r \in bn : r # s => d[r] # b
  BY <1>1 DEF Clean
<1> HIDE DEF hq, dq
<1>7. Clean(hq, dq, bn, ls)
  <2>1. \A c \in Blocks : hq[c].used => Sound(hq[c])
    BY <1>1, <1>3, <1>4 DEF Clean
  <2>2. \A r \in bn : dq[r] # NULL => hq[dq[r]].used /\ dq[r] \notin ls
    BY <1>1, <1>2, <1>3, <1>4, <1>5, <1>6 DEF Clean
  <2>3. \A q, r \in bn : dq[q] = dq[r] /\ dq[q] # NULL => q = r
    BY <1>3, <1>5 DEF Clean
  <2>4. \A c \in Blocks : hq[c].used /\ c \notin ls => \E r \in bn : dq[r] = c
    BY <1>1, <1>3, <1>4, <1>5 DEF Clean
  <2>5. \A c \in ls : hq[c].used
    BY <1>1, <1>4 DEF Clean
  <2> QED BY <1>2, <2>1, <2>2, <2>3, <2>4, <2>5 DEF Clean
<1> QED BY <1>7 DEF hq, dq, Put

(* Storage that holds nothing is given a block that was free. *)
LEMMA StoreStep ==
    ASSUME NEW hp, NEW d, NEW bn, NEW ls, Clean(hp, d, bn, ls),
           NEW s \in Slices, s \notin bn \/ d[s] = NULL,
           NEW b \in Blocks, ~hp[b].used,
           NEW new \in Cells, new.used, Sound(new)
    PROVE  LET hq == Put(hp, b, new)
               dq == Put(d, s, b)
           IN Clean(hq, dq, bn \union {s}, ls)
<1> DEFINE hq == [hp EXCEPT ![b] = new]
           dq == [d EXCEPT ![s] = b]
           bq == bn \union {s}
<1>1. /\ hq \in [Blocks -> Cells] /\ dq \in [Slices -> Blocks \union {NULL}]
      /\ bq \subseteq Slices
  BY DEF Clean
<1>2. hq[b] = new /\ dq[s] = b /\ b # NULL /\ b \notin ls
  BY Bounds DEF Clean
<1>3. \A c \in Blocks : c # b => hq[c] = hp[c]
  BY DEF Clean
<1>4. \A r \in Slices : r # s => dq[r] = d[r]
  BY DEF Clean
<1>5. \A r \in bn : d[r] # b
  BY <1>2 DEF Clean
<1> HIDE DEF hq, dq
<1>6. Clean(hq, dq, bq, ls)
  <2>1. \A c \in Blocks : hq[c].used => Sound(hq[c])
    BY <1>2, <1>3 DEF Clean
  <2>2. \A r \in bq : dq[r] # NULL => hq[dq[r]].used /\ dq[r] \notin ls
    <3>1. ASSUME NEW r \in bn, r # s, d[r] # NULL
          PROVE  hq[d[r]].used /\ d[r] \notin ls
      BY <1>3, <1>5, <3>1 DEF Clean
    <3> QED BY <1>1, <1>2, <1>4, <3>1
  <2>3. \A q, r \in bq : dq[q] = dq[r] /\ dq[q] # NULL => q = r
    <3>1. \A r \in bn : r # s => dq[r] # b
      BY <1>1, <1>4, <1>5
    <3> QED BY <1>1, <1>2, <1>4, <3>1 DEF Clean
  <2>4. \A c \in Blocks : hq[c].used /\ c \notin ls => \E r \in bq : dq[r] = c
    <3>1. ASSUME NEW c \in Blocks, c # b, hp[c].used, c \notin ls
          PROVE  \E r \in bq : dq[r] = c
      <4>1. PICK r \in bn : d[r] = c
        BY <3>1 DEF Clean
      <4>2. r # s
        <5>1. c # NULL
          BY Bounds
        <5> QED BY <4>1, <5>1
      <4> QED BY <1>1, <1>4, <4>1, <4>2
    <3> QED BY <1>2, <1>3, <3>1
  <2>5. \A c \in ls : hq[c].used
    BY <1>2, <1>3 DEF Clean
  <2> QED BY <1>1, <2>1, <2>2, <2>3, <2>4, <2>5 DEF Clean
<1> QED BY <1>6 DEF hq, dq, Put

(* The string of s is written where it is. *)
LEMMA WriteStep ==
    ASSUME NEW hp, NEW d, NEW bn, NEW ls, Clean(hp, d, bn, ls),
           NEW s \in bn, d[s] # NULL, NEW new \in Cells, new.used, Sound(new)
    PROVE  LET hq == Put(hp, d[s], new)
           IN Clean(hq, d, bn, ls)
<1> DEFINE b == d[s]
           hq == [hp EXCEPT ![b] = new]
<1>1. b \in Blocks /\ s \in Slices /\ b # NULL /\ hp[b].used
  BY Bounds DEF Clean
<1>2. hq \in [Blocks -> Cells] /\ hq[b] = new
  BY <1>1 DEF Clean
<1>3. \A c \in Blocks : c # b => hq[c] = hp[c]
  BY DEF Clean
<1>4. \A c \in Blocks : hq[c].used <=> hp[c].used
  BY <1>1, <1>2, <1>3
<1>5. \A r \in bn : r # s => d[r] # b
  BY <1>1 DEF Clean
<1> HIDE DEF hq
<1>6. Clean(hq, d, bn, ls)
  <2>1. \A c \in Blocks : hq[c].used => Sound(hq[c])
    BY <1>2, <1>3 DEF Clean
  <2>2. \A r \in bn : d[r] # NULL => hq[d[r]].used /\ d[r] \notin ls
    BY <1>4 DEF Clean
  <2> QED BY <1>2, <1>4, <2>1, <2>2 DEF Clean
<1> QED BY <1>6 DEF hq, Put

(* Storage that holds nothing is left with nothing. *)
LEMMA NothingStep ==
    ASSUME NEW hp, NEW d, NEW bn, NEW ls, Clean(hp, d, bn, ls),
           NEW s \in Slices, s \notin bn \/ d[s] = NULL
    PROVE  LET dq == Put(d, s, NULL)
           IN Clean(hp, dq, bn \union {s}, ls)
<1> DEFINE dq == [d EXCEPT ![s] = NULL]
           bq == bn \union {s}
<1>1. /\ dq \in [Slices -> Blocks \union {NULL}] /\ bq \subseteq Slices /\ dq[s] = NULL
  BY DEF Clean
<1>2. \A r \in Slices : r # s => dq[r] = d[r]
  BY DEF Clean
<1> HIDE DEF dq
<1>3. Clean(hp, dq, bq, ls)
  <2>1. \A r \in bq : dq[r] # NULL => hp[dq[r]].used /\ dq[r] \notin ls
    BY <1>1, <1>2 DEF Clean
  <2>2. \A q, r \in bq : dq[q] = dq[r] /\ dq[q] # NULL => q = r
    BY <1>1, <1>2 DEF Clean
  <2>3. \A c \in Blocks : hp[c].used /\ c \notin ls => \E r \in bq : dq[r] = c
    <3>1. \A r \in bn : d[r] \in Blocks => dq[r] = d[r]
      BY <1>2, Bounds DEF Clean
    <3> QED BY <3>1 DEF Clean
  <2> QED BY <1>1, <2>1, <2>2, <2>3 DEF Clean
<1> QED BY <1>3 DEF dq, Put

(* The pointer of r goes to storage that holds nothing. *)
LEMMA HandOverStep ==
    ASSUME NEW hp, NEW d, NEW bn, NEW ls, Clean(hp, d, bn, ls),
           NEW s \in Slices, s \notin bn \/ d[s] = NULL, NEW r \in bn, s # r
    PROVE  LET dq == Put(Put(d, s, d[r]), r, NULL)
           IN Clean(hp, dq, bn \union {s}, ls)
<1> DEFINE dq == [d EXCEPT ![s] = d[r], ![r] = NULL]
           bq == bn \union {s}
<1>1. /\ dq \in [Slices -> Blocks \union {NULL}] /\ bq \subseteq Slices
      /\ dq[s] = d[r] /\ dq[r] = NULL /\ r \in Slices
  BY DEF Clean
<1>2. \A q \in Slices : q # s /\ q # r => dq[q] = d[q]
  BY DEF Clean
<1> HIDE DEF dq
<1>3. Clean(hp, dq, bq, ls)
  <2>1. \A q \in bq : dq[q] # NULL => hp[dq[q]].used /\ dq[q] \notin ls
    BY <1>1, <1>2 DEF Clean
  <2>2. \A p, q \in bq : dq[p] = dq[q] /\ dq[p] # NULL => p = q
    BY <1>1, <1>2 DEF Clean
  <2>3. \A c \in Blocks : hp[c].used /\ c \notin ls => \E q \in bq : dq[q] = c
    <3>1. \A q \in bn : d[q] \in Blocks => dq[q] = d[q] \/ (q = r /\ dq[s] = d[q])
      BY <1>1, <1>2, Bounds DEF Clean
    <3> QED BY <3>1 DEF Clean
  <2> QED BY <1>1, <2>1, <2>2, <2>3 DEF Clean
<1> QED BY <1>3 DEF dq, Put

(* A pointer is overwritten by a NULL: the block is lost. *)
LEMMA LoseStep ==
    ASSUME NEW hp, NEW d, NEW bn, NEW ls, Clean(hp, d, bn, ls),
           NEW s \in bn, d[s] # NULL
    PROVE  LET dq == Put(d, s, NULL)
           IN Clean(hp, dq, bn, ls \union {d[s]})
<1> DEFINE b == d[s]
           dq == [d EXCEPT ![s] = NULL]
           lq == ls \union {b}
<1>1. b \in Blocks /\ s \in Slices /\ b # NULL /\ hp[b].used
  BY Bounds DEF Clean
<1>2. dq \in [Slices -> Blocks \union {NULL}] /\ dq[s] = NULL /\ lq \subseteq Blocks
  BY <1>1 DEF Clean
<1>3. \A r \in Slices : r # s => dq[r] = d[r]
  BY DEF Clean
<1>4. \A r \in bn : r # s => d[r] # b
  BY <1>1 DEF Clean
<1> HIDE DEF dq
<1>5. Clean(hp, dq, bn, lq)
  <2>1. \A r \in bn : dq[r] # NULL => hp[dq[r]].used /\ dq[r] \notin lq
    BY <1>2, <1>3, <1>4 DEF Clean
  <2>2. \A q, r \in bn : dq[q] = dq[r] /\ dq[q] # NULL => q = r
    BY <1>2, <1>3 DEF Clean
  <2>3. \A c \in Blocks : hp[c].used /\ c \notin lq => \E r \in bn : dq[r] = c
    BY <1>3 DEF Clean
  <2>4. \A c \in lq : hp[c].used
    BY <1>1 DEF Clean
  <2> QED BY <1>2, <2>1, <2>2, <2>3, <2>4 DEF Clean
<1> QED BY <1>5 DEF dq, Put

(* A slice that holds nothing is destroyed. *)
LEMMA ForgetStep ==
    ASSUME NEW hp, NEW d, NEW bn, NEW ls, NEW s \in bn, d[s] = NULL, Clean(hp, d, bn, ls)
    PROVE  Clean(hp, d, bn \ {s}, ls)
<1>1. \A c \in Blocks : hp[c].used /\ c \notin ls => \E r \in bn \ {s} : d[r] = c
  BY Bounds DEF Clean
<1> QED BY <1>1 DEF Clean

-----------------------------------------------------------------------------
(* What a step may lead to: the program has gone wrong, and the causes say  *)
(* so, or the heap stays clean.                                             *)

Gone ==
    /\ causes' # {} /\ FaultsExplained'
    /\ fault' = "none" => causes' \subseteq Wrong
Stays ==
    /\ causes' = {} /\ fault' = "none"
    /\ Clean(heap', data', born', lost')

LEMMA GoneIsGood == ASSUME Gone PROVE SliceInv'
  BY DEF Gone, SliceInv, Running

LEMMA StaysIsGood == ASSUME Stays PROVE SliceInv'
  BY DEF Stays, SliceInv, Running, FaultsExplained

-----------------------------------------------------------------------------
(* The calls, in a program that has done nothing wrong so far. *)

Innocent == SliceInv /\ causes = {} /\ Running

LEMMA InnocentClean ==
    ASSUME Innocent
    PROVE  Clean(heap, data, born, lost) /\ fault = "none" /\ \A s \in born : Valid(s)
<1>1. Clean(heap, data, born, lost) /\ fault = "none"
  BY DEF Innocent, SliceInv, Running
<1> QED BY <1>1 DEF Valid, Freeable, Clean

(* After ~Slice(), clear() or at the start of an assignment: what the slice *)
(* held is freed.                                                           *)
LEMMA ReleasedClean ==
    ASSUME Innocent, NEW s \in Slices, s \in born
    PROVE  LET hq == Released(data[s])
           IN /\ Clean(hq, Put(data, s, NULL), born, lost)
              /\ \A b \in Blocks : b # data[s] => hq[b] = heap[b]
              /\ data[s] = NULL => hq = heap
<1>1. Clean(heap, data, born, lost)
  BY InnocentClean
<1>2. CASE data[s] = NULL
  <2>1. Released(data[s]) = heap /\ Put(data, s, NULL) = data
    BY <1>1, <1>2 DEF Released, Clean, Put
  <2> QED BY <1>1, <2>1
<1>3. CASE data[s] # NULL
  <2>1. Released(data[s]) = Put(heap, data[s], Freed) /\ data[s] \in Blocks
    BY <1>1, <1>3 DEF Released, Put, Clean
  <2>2. \A b \in Blocks : b # data[s] => Released(data[s])[b] = heap[b]
    BY <1>1, <2>1 DEF Clean, Put
  <2>3. Clean(Put(heap, data[s], Freed), Put(data, s, NULL), born, lost)
    BY <1>1, <1>3, ReleaseStep
  <2> QED BY <1>3, <2>1, <2>2, <2>3
<1> QED BY <1>2, <1>3

(* Storage without a slice is nobody's. *)
LEMMA UnbornStorage ==
    ASSUME NEW hp, NEW d, NEW bn, NEW ls, Clean(hp, d, bn, ls), NEW s \in Slices, s \notin bn
    PROVE  Clean(hp, Put(d, s, NULL), bn, ls)
<1> DEFINE dq == Put(d, s, NULL)
<1>1. dq \in [Slices -> Blocks \union {NULL}] /\ \A r \in bn : dq[r] = d[r]
  BY DEF Clean, Put
<1> HIDE DEF dq
<1>2. Clean(hp, dq, bn, ls)
  BY <1>1 DEF Clean
<1> QED BY <1>2 DEF dq

LEMMA DefaultGood ==
    ASSUME Innocent, NEW s \in Slices, Default(s) PROVE SliceInv'
<1>1. Clean(heap, Put(data, s, NULL), born \union {s}, lost)
  BY InnocentClean, NothingStep DEF Default
<1>2. Stays
  BY <1>1, InnocentClean DEF Default, Innocent, Stays, Put
<1> QED BY <1>2, StaysIsGood

(* A new string in s, when what s held before was freed: hp is the heap     *)
(* then.                                                                    *)
LEMMA StoreNewGood ==
    ASSUME Innocent, NEW s \in Slices, NEW hp, NEW t \in Seq(Nat), Len(t) <= MaxLen,
           Clean(hp, Put(data, s, NULL), born, lost),
           StoreNew(s, hp, t), born' = born \union {s}, lost' = lost,
           causes' = {}, fault' = fault
    PROVE  SliceInv'
<1> DEFINE dq == Put(data, s, NULL)
<1>1. dq[s] = NULL /\ \A v : Put(dq, s, v) = Put(data, s, v)
  BY InnocentClean DEF Clean, Put
<1>2. Clean(hp, dq, born, lost)
  OBVIOUS
<1> HIDE DEF dq
<1>3. ASSUME NEW b \in Blocks, ~hp[b].used, heap' = Put(hp, b, NewString(t)),
             data' = Put(data, s, b)
      PROVE  Stays
  <2>1. NewString(t) \in Cells /\ NewString(t).used = TRUE /\ Sound(NewString(t))
    BY NewStringCell
  <2>2. Clean(Put(hp, b, NewString(t)), Put(dq, s, b), born \union {s}, lost)
    BY <1>1, <1>2, <1>3, <2>1, StoreStep
  <2> QED BY <1>1, <1>3, <2>2, InnocentClean DEF Stays
<1>4. ASSUME heap' = hp, data' = Put(data, s, NULL)
      PROVE  Stays
  <2>1. Clean(hp, Put(dq, s, NULL), born \union {s}, lost)
    BY <1>1, <1>2, NothingStep
  <2> QED BY <1>1, <1>4, <2>1, InnocentClean DEF Stays
<1> QED BY <1>3, <1>4, StaysIsGood DEF StoreNew, Put

(* What a constructed slice holds, when it holds something. *)
LEMMA HeldText ==
    ASSUME Innocent, NEW r \in born, data[r] # NULL
    PROVE  /\ r \in Slices /\ data[r] \in Blocks /\ heap[data[r]].used /\ data[r] \notin lost
           /\ heap[data[r]].text \in Seq(Nat) /\ Len(heap[data[r]].text) <= MaxLen
           /\ heap[data[r]] \in Cells /\ Sound(heap[data[r]])
<1>1. /\ r \in Slices /\ data[r] \in Blocks /\ heap[data[r]].used /\ data[r] \notin lost
      /\ heap[data[r]] \in Cells /\ Sound(heap[data[r]])
  BY InnocentClean DEF Clean
<1>2. heap[data[r]].text \in Seq(Nat)
  BY <1>1 DEF Cells
<1> QED BY <1>1, <1>2 DEF Sound

LEMMA NewGood ==
    ASSUME Innocent, NEW s \in Slices, NEW t \in Texts, New(s, t) PROVE SliceInv'
<1>1. t \in Seq(Nat) /\ Len(t) <= MaxLen
  BY Bounds
<1>2. Clean(heap, Put(data, s, NULL), born, lost)
  BY InnocentClean, UnbornStorage DEF New
<1> QED BY <1>1, <1>2, StoreNewGood DEF New, Innocent

LEMMA DupGood ==
    ASSUME Innocent, NEW s \in Slices, NEW r \in Slices, Dup(s, r) PROVE SliceInv'
<1>1. CASE data[r] = NULL
  BY <1>1, GoneIsGood, InnocentClean
     DEF Dup, Fail, Gone, FaultsExplained, Innocent
<1>2. CASE data[r] # NULL
  <2>1. Clean(heap, Put(data, s, NULL), born, lost)
    BY InnocentClean, UnbornStorage DEF Dup
  <2> QED BY <1>2, <2>1, HeldText, StoreNewGood DEF Dup, Innocent
<1> QED BY <1>1, <1>2

(* The copy constructor on storage that holds NULL, and copy assignment;    *)
(* or a cause is recorded.                                                  *)
LEMMA CopyToGood ==
    ASSUME Innocent, NEW s \in Slices, NEW r \in Slices, NEW old, NEW why \in SUBSET Wrong,
           CopyTo(s, r, old, why),
           \/ why # {}
           \/ s \in born /\ s # r /\ old = data[s]
           \/ s \notin born /\ old = NULL
    PROVE  SliceInv'
<1>0. r \in born /\ Valid(r) /\ causes = {} /\ fault = "none" /\ (s \in born => Valid(s))
  BY InnocentClean DEF CopyTo, Innocent
<1>1. CASE why # {}
  <2>1. /\ causes' = why \/ (causes' = why \union {"null"} /\ fault' = "null")
        /\ fault' \in {"none", "null", "bad_free", "use_after_free"}
        /\ fault' = "null" => causes' = why \union {"null"}
    BY <1>0 DEF CopyTo, Fail
  <2> QED BY <1>1, <2>1, GoneIsGood DEF Gone, FaultsExplained, Wrong
<1>2. CASE why = {} /\ data[r] = NULL
  <2>1. Freeable(old)
    BY <1>0, <1>2 DEF Valid, Freeable
  <2>2. fault' = "null" /\ causes' = {"null"}
    BY <1>0, <1>2, <2>1 DEF CopyTo, Fail
  <2> QED BY <2>2, GoneIsGood DEF Gone, FaultsExplained
<1>3. CASE why = {} /\ data[r] # NULL
  <2>1. /\ data[r] \in Blocks /\ heap[data[r]].used
        /\ heap[data[r]].text \in Seq(Nat) /\ Len(heap[data[r]].text) <= MaxLen
    BY <1>0, <1>3, HeldText
  <2>2. /\ Freeable(old) /\ Released(old)[data[r]].used
        /\ Clean(Released(old), Put(data, s, NULL), born, lost)
    <3>1. CASE s \in born /\ s # r /\ old = data[s]
      <4>1. data[s] # data[r]
        BY <1>0, <1>3, <3>1, InnocentClean DEF Clean
      <4> QED BY <1>0, <2>1, <3>1, <4>1, ReleasedClean DEF Valid
    <3>2. CASE s \notin born /\ old = NULL
      BY <2>1, <3>2, InnocentClean, UnbornStorage DEF Freeable, Released
    <3> QED BY <1>3, <3>1, <3>2
  <2>3. /\ StoreNew(s, Released(old), heap[data[r]].text)
        /\ born' = born \union {s} /\ causes' = {} /\ UNCHANGED <<lost, fault>>
    BY <1>0, <1>3, <2>2 DEF CopyTo
  <2> QED BY <2>1, <2>2, <2>3, StoreNewGood
<1> QED BY <1>1, <1>2, <1>3

(* After an operator= without a return the process is over. *)
LEMMA NoReturnGood ==
    ASSUME NEW s, NEW r, NoReturn(s, r) PROVE SliceInv'
  BY GoneIsGood DEF NoReturn, Fail, Gone, FaultsExplained

LEMMA CopyGood ==
    ASSUME Innocent, NEW s \in Slices, NEW r \in Slices,
           CopyConstruct(s, r) \/ CopyAssign(s, r)
    PROVE  SliceInv'
<1>1. CASE CopyConstruct(s, r)
  <2>1. PICK old \in Found : s \notin born /\ CopyTo(s, r, old, StaleIf(old))
    BY <1>1 DEF CopyConstruct
  <2>2. StaleIf(old) \in SUBSET Wrong /\ (old = NULL \/ StaleIf(old) # {})
    BY DEF StaleIf, Wrong
  <2> QED BY <2>1, <2>2, CopyToGood
<1>2. CASE CopyAssign(s, r)
  <2> DEFINE why == IF s = r THEN {"self"} ELSE {}
  <2>1. s \in born /\ (CopyTo(s, r, data[s], why) \/ NoReturn(s, r))
    BY <1>2 DEF CopyAssign
  <2>2. why \in SUBSET Wrong /\ (s = r => why # {})
    BY DEF Wrong
  <2> HIDE DEF why
  <2> QED BY <2>1, <2>2, CopyToGood, NoReturnGood
<1> QED BY <1>1, <1>2

LEMMA MoveToGood ==
    ASSUME Innocent, NEW s \in Slices, NEW r \in Slices, NEW old, NEW why \in SUBSET Wrong,
           MoveTo(s, r, old, why),
           \/ why # {}
           \/ s \in born /\ old = data[s]
           \/ s \notin born /\ old = NULL
    PROVE  SliceInv'
<1>0. r \in born /\ causes = {} /\ fault = "none" /\ (s \in born => Valid(s))
  BY InnocentClean DEF MoveTo, Innocent
<1>1. CASE why # {}
  <2>1. causes' = why /\ fault' \in {"none", "bad_free"}
    BY <1>0 DEF MoveTo, Fail
  <2> QED BY <1>1, <2>1, GoneIsGood DEF Gone, FaultsExplained, Wrong
<1>2. CASE why = {}
  <2> DEFINE dq == Put(data, s, NULL)
             hq == Released(old)
  <2>1. Freeable(old) /\ Clean(hq, dq, born, lost)
    <3>1. CASE s \in born /\ old = data[s]
      BY <1>0, <3>1, ReleasedClean DEF Valid
    <3>2. CASE s \notin born /\ old = NULL
      BY <3>2, InnocentClean, UnbornStorage DEF Freeable, Released
    <3> QED BY <1>2, <3>1, <3>2
  <2>2. /\ heap' = hq /\ data' = Put(Put(data, s, data[r]), r, NULL)
        /\ born' = born \union {s} /\ causes' = {} /\ fault' = "none" /\ lost' = lost
    BY <1>0, <1>2, <2>1 DEF MoveTo, Put
  <2>3. dq[s] = NULL /\ data \in [Slices -> Blocks \union {NULL}]
    BY InnocentClean DEF Put, Clean
  <2>4. CASE s = r
    <3>1. data' = dq /\ born' = born
      BY <1>0, <2>2, <2>4, PutTwice
    <3>2. Stays
      BY <2>1, <2>2, <3>1 DEF Stays
    <3> QED BY <3>2, StaysIsGood
  <2>5. CASE s # r
    <3>1. data' = Put(Put(dq, s, dq[r]), r, NULL)
      <4>1. dq[r] = data[r]
        BY <2>3, <2>5 DEF Put
      <4> QED BY <2>2, <4>1, PutTwice
    <3> HIDE DEF dq, hq
    <3>2. Clean(hq, Put(Put(dq, s, dq[r]), r, NULL), born \union {s}, lost)
      BY <1>0, <2>1, <2>3, <2>5, HandOverStep, SMTT(30)
    <3>3. Stays
      BY <2>2, <3>1, <3>2 DEF Stays
    <3> QED BY <3>3, StaysIsGood
  <2> QED BY <2>4, <2>5
<1> QED BY <1>1, <1>2

LEMMA MoveGood ==
    ASSUME Innocent, NEW s \in Slices, NEW r \in Slices,
           MoveConstruct(s, r) \/ MoveAssign(s, r)
    PROVE  SliceInv'
<1>1. CASE MoveConstruct(s, r)
  <2>1. PICK old \in Found : s \notin born /\ MoveTo(s, r, old, StaleIf(old))
    BY <1>1 DEF MoveConstruct
  <2>2. StaleIf(old) \in SUBSET Wrong /\ (old = NULL \/ StaleIf(old) # {})
    BY DEF StaleIf, Wrong
  <2> QED BY <2>1, <2>2, MoveToGood
<1>2. CASE MoveAssign(s, r)
  BY <1>2, MoveToGood, NoReturnGood DEF MoveAssign
<1> QED BY <1>1, <1>2

LEMMA DestroyGood ==
    ASSUME Innocent, NEW s \in Slices, Destroy(s) \/ Clear(s) PROVE SliceInv'
<1> DEFINE dq == Put(data, s, NULL)
<1>1. /\ s \in born /\ heap' = Released(data[s]) /\ data' = dq
      /\ born' = born \/ born' = born \ {s}
      /\ UNCHANGED <<lost, causes, fault>>
  BY InnocentClean DEF Destroy, Clear, Release, Put
<1>2. Clean(Released(data[s]), dq, born, lost) /\ dq[s] = NULL
  BY <1>1, ReleasedClean, InnocentClean DEF Put, Clean
<1> HIDE DEF dq
<1>3. Clean(Released(data[s]), dq, born \ {s}, lost)
  BY <1>1, <1>2, ForgetStep
<1>4. Stays
  BY <1>1, <1>2, <1>3, InnocentClean DEF Stays, Innocent
<1> QED BY <1>4, StaysIsGood

-----------------------------------------------------------------------------
(* The calls that hand the string to sds and get a pointer back. *)

(* The text of a slice; one that holds nothing is given an empty text. *)
TextOf(s) == IF data[s] = NULL THEN <<>> ELSE heap[data[s]].text

LEMMA InitedClean ==
    ASSUME Innocent, NEW s \in Slices, s \in born, NEW x \in Inited(s)
    PROVE  LET dx == Put(data, s, x.block)
               old == x.heap[x.block]
           IN /\ x.block \in Blocks /\ dx[s] = x.block /\ Clean(x.heap, dx, born, lost)
              /\ old.used /\ old \in Cells /\ Sound(old) /\ old.text = TextOf(s)
              /\ old.text \in Seq(Nat) /\ Len(old.text) \in Nat /\ Len(old.text) <= MaxLen
<1> DEFINE dx == Put(data, s, x.block)
           old == x.heap[x.block]
<1>0. Clean(heap, data, born, lost)
  BY InnocentClean
<1>1. CASE data[s] # NULL
  <2>1. x.heap = heap /\ x.block = data[s]
    BY <1>1 DEF Inited
  <2>2. dx = data
    BY <1>0, <2>1 DEF Put, Clean
  <2>3. /\ data[s] \in Blocks /\ heap[data[s]].used /\ heap[data[s]] \in Cells
        /\ Sound(heap[data[s]]) /\ TextOf(s) = heap[data[s]].text
        /\ heap[data[s]].text \in Seq(Nat) /\ Len(heap[data[s]].text) <= MaxLen
    BY <1>1, HeldText DEF TextOf
  <2> QED BY <1>0, <2>1, <2>2, <2>3
<1>2. CASE data[s] = NULL
  <2>1. PICK b \in Free : x = [heap |-> [heap EXCEPT ![b] = NewString(<<>>)], block |-> b]
    BY <1>2 DEF Inited
  <2>2. x.heap = Put(heap, b, NewString(<<>>)) /\ x.block = b /\ b \in Blocks /\ ~heap[b].used
    BY <2>1 DEF Put, Free
  <2>3. <<>> \in Seq(Nat) /\ Len(<<>>) = 0 /\ Len(<<>>) <= MaxLen /\ TextOf(s) = <<>>
    BY <1>2, Bounds DEF TextOf
  <2>4. /\ NewString(<<>>) \in Cells /\ NewString(<<>>).used = TRUE
        /\ NewString(<<>>).text = <<>> /\ Sound(NewString(<<>>))
    BY <2>3, NewStringCell
  <2>5. born \union {s} = born
    OBVIOUS
  <2>6. Clean(x.heap, Put(data, s, b), born, lost)
    BY <1>0, <1>2, <2>2, <2>4, <2>5, StoreStep
  <2>7. x.heap[b] = NewString(<<>>) /\ Put(data, s, b)[s] = b
    BY <1>0, <2>2 DEF Put, Clean
  <2>8. old = NewString(<<>>) /\ dx = Put(data, s, b) /\ dx[s] = x.block
    BY <2>2, <2>7
  <2> HIDE DEF dx, old
  <2>9. x.block \in Blocks /\ dx[s] = x.block /\ Clean(x.heap, dx, born, lost)
    BY <2>2, <2>6, <2>8
  <2>10. /\ old.used /\ old \in Cells /\ Sound(old) /\ old.text = TextOf(s)
         /\ old.text \in Seq(Nat) /\ Len(old.text) \in Nat /\ Len(old.text) <= MaxLen
    BY <2>3, <2>4, <2>8
  <2> QED BY <2>9, <2>10 DEF dx, old
<1> QED BY <1>1, <1>2

(* The pointer to the block is overwritten by a NULL, for lack of memory. *)
LEMMA LostIsGood ==
    ASSUME Innocent, NEW s \in Slices, s \in born, born' = born, NEW x \in Inited(s),
           heap' = x.heap, data' = Put(data, s, NULL), lost' = lost \union {x.block},
           UNCHANGED <<causes, fault>>
    PROVE  SliceInv'
<1> DEFINE dx == Put(data, s, x.block)
<1>1. dx[s] = x.block /\ x.block # NULL /\ Clean(x.heap, dx, born, lost)
  BY InitedClean, Bounds
<1>2. Put(dx, s, NULL) = data'
  BY PutTwice
<1> HIDE DEF dx
<1>3. Clean(x.heap, Put(dx, s, NULL), born, lost \union {dx[s]})
  BY <1>1, LoseStep
<1>4. Stays
  BY <1>1, <1>2, <1>3, InnocentClean DEF Stays, Innocent
<1> QED BY <1>4, StaysIsGood

(* `new' is what the call makes of the string. *)
LEMMA ThroughGood ==
    ASSUME Innocent, NEW s \in Slices, s \in born, born' = born, NEW x \in Inited(s),
           NEW t \in Seq(Nat), NEW h, HeaderOK(h), h.len = Len(t), Len(t) <= MaxLen,
           NEW path, NEW use, NEW why \in SUBSET Wrong,
           Through(s, x.heap, x.block, path, Held(h, t), use, why)
    PROVE  SliceInv'
<1> DEFINE hx == x.heap
           b == x.block
           dx == Put(data, s, b)
           new == Held(h, t)
<1>0. causes = {} /\ fault = "none" /\ born \union {s} = born
  BY InnocentClean DEF Innocent
<1>1. new \in Cells /\ new.used = TRUE /\ Sound(new)
  BY HeldCell
<1>2. b \in Blocks /\ dx[s] = b /\ b # NULL /\ Clean(hx, dx, born, lost)
  BY InitedClean, Bounds
<1>3. \/ /\ heap' = Put(hx, b, new) /\ data' = dx
         /\ UNCHANGED <<lost, causes, fault>>
      \/ /\ \E c \in Blocks :
              /\ ~hx[c].used
              /\ heap' = Put(Put(hx, b, Freed), c, new)
              /\ data' = IF use = "dropped" THEN dx ELSE Put(data, s, c)
         /\ causes' = causes \union why \union IF use = "dropped" THEN {"dropped"} ELSE {}
         /\ fault' = IF why = {} THEN fault ELSE "use_after_free"
         /\ UNCHANGED lost
      \/ /\ heap' = hx
         /\ data' = IF use = "dropped" THEN dx ELSE Put(data, s, NULL)
         /\ lost' = IF use = "dropped" THEN lost ELSE lost \union {b}
         /\ IF use = "unchecked" THEN fault' = "null" /\ causes' = causes \union {"memory"}
            ELSE UNCHANGED <<causes, fault>>
  BY DEF Through, Put
<1>4. \A v : Put(dx, s, v) = Put(data, s, v)
  BY PutTwice
<1>5. ASSUME heap' = hx, data' = Put(data, s, NULL), lost' = lost \union {b},
             UNCHANGED <<causes, fault>>
      PROVE  SliceInv'
  BY <1>5, LostIsGood
<1> HIDE DEF hx, b, dx, new
<1>6. CASE heap' = Put(hx, b, new) /\ data' = dx /\ UNCHANGED <<lost, causes, fault>>
  <2>1. Clean(Put(hx, dx[s], new), dx, born, lost)
    <3>1. /\ s \in born /\ dx[s] # NULL /\ new \in Cells /\ new.used /\ Sound(new)
          /\ Clean(hx, dx, born, lost)
      BY <1>1, <1>2
    <3> QED BY ONLY <3>1, WriteStep
  <2>2. Stays
    BY <1>0, <1>2, <1>6, <2>1 DEF Stays
  <2> QED BY <2>2, StaysIsGood
<1>7. ASSUME NEW c \in Blocks, ~hx[c].used, heap' = Put(Put(hx, b, Freed), c, new),
             data' = IF use = "dropped" THEN dx ELSE Put(data, s, c),
             causes' = causes \union why \union IF use = "dropped" THEN {"dropped"} ELSE {},
             fault' = IF why = {} THEN fault ELSE "use_after_free",
             lost' = lost
      PROVE  SliceInv'
  <2>1. CASE use = "dropped" \/ why # {}
    BY <1>0, <1>7, <2>1, GoneIsGood DEF Gone, FaultsExplained, Wrong
  <2>2. CASE use # "dropped" /\ why = {}
    <3> DEFINE hq == Put(hx, b, Freed)
               dq == Put(dx, s, NULL)
    <3>1. Clean(hq, dq, born, lost)
      BY <1>2, ReleaseStep
    <3>2. dq[s] = NULL /\ ~hq[c].used
      BY <1>2, <1>7, FreedCell DEF Put, Clean
    <3>3. heap' = Put(hq, c, new) /\ data' = Put(dq, s, c)
      BY <1>4, <1>7, <2>2, PutTwice
    <3> HIDE DEF hq, dq
    <3>4. new \in Cells /\ new.used /\ Sound(new)
      BY <1>1
    <3>5. Clean(heap', data', born \union {s}, lost)
      BY <3>1, <3>2, <3>3, <3>4, StoreStep
    <3>6. Stays
      BY <1>0, <1>7, <2>2, <3>5 DEF Stays
    <3> QED BY <3>6, StaysIsGood
  <2> QED BY <2>1, <2>2
<1>8. ASSUME heap' = hx, data' = IF use = "dropped" THEN dx ELSE Put(data, s, NULL),
             lost' = IF use = "dropped" THEN lost ELSE lost \union {b},
             IF use = "unchecked" THEN fault' = "null" /\ causes' = causes \union {"memory"}
             ELSE UNCHANGED <<causes, fault>>
      PROVE  SliceInv'
  <2>1. CASE use = "unchecked"
    BY <1>0, <1>8, <2>1, GoneIsGood DEF Gone, FaultsExplained
  <2>2. CASE use = "dropped"
    <3>1. Stays
      BY <1>0, <1>2, <1>8, <2>2 DEF Stays
    <3> QED BY <3>1, StaysIsGood
  <2>3. CASE use # "unchecked" /\ use # "dropped"
    BY <1>5, <1>8, <2>3
  <2> QED BY <2>1, <2>2, <2>3
<1> QED BY <1>3, <1>6, <1>7, <1>8

LEMMA FitsText ==
    ASSUME Innocent, NEW s \in born, NEW t, Fits(s, t), Len(t) \in Nat, Len(t) <= MaxLen
    PROVE  Len(TextOf(s)) + Len(t) <= MaxLen
<1>1. CASE data[s] = NULL
  <2>1. TextOf(s) = <<>>
    BY <1>1 DEF TextOf
  <2> QED BY <2>1
<1>2. CASE data[s] # NULL
  BY <1>2, HeldText DEF Fits, Owned, TextOf
<1> QED BY <1>1, <1>2

LEMMA Lengths ==
    ASSUME NEW u \in Seq(Nat), NEW t \in Seq(Nat)
    PROVE  u \o t \in Seq(Nat) /\ Len(u \o t) = Len(u) + Len(t) /\ Len(u) \in Nat /\ Len(t) \in Nat
  OBVIOUS

LEMMA CattedGood ==
    ASSUME Innocent, NEW s \in Slices, NEW t \in Seq(Nat), Len(t) <= MaxLen, Fits(s, t),
           NEW use, NEW why \in SUBSET Wrong, Catted(s, t, use, why)
    PROVE  SliceInv'
<1>1. s \in born /\ born' = born
  BY DEF Catted, Ready
<1>2. PICK x \in Inited(s) :
        Through(s, x.heap, x.block, RoomPath(x.heap[x.block].h, Len(t)),
                Held(sdscatlen(x.heap[x.block].h, Len(t)), x.heap[x.block].text \o t), use, why)
  BY DEF Catted
<1> DEFINE old == x.heap[x.block]
<1>3. /\ old.text \in Seq(Nat) /\ TextOf(s) = old.text /\ HeaderOK(old.h) /\ old.h.len = Len(old.text)
  BY <1>1, InitedClean DEF Sound
<1>4. /\ old.text \o t \in Seq(Nat) /\ Len(old.text \o t) = Len(old.text) + Len(t)
      /\ Len(old.text) \in Nat /\ Len(t) \in Nat
  BY <1>3, Lengths
<1>5. Len(old.text) + Len(t) <= MaxLen
  BY <1>1, <1>3, <1>4, FitsText
<1>6. CanGrow(old.h, Len(t))
  <2>1. Len(old.text) + Len(t) <= MaxLen + 1
    BY <1>4, <1>5, Bounds
  <2> QED BY <1>3, <1>4, <2>1, RoomForText DEF CanGrow
<1>7. /\ HeaderOK(sdscatlen(old.h, Len(t))) /\ sdscatlen(old.h, Len(t)).len = Len(old.text \o t)
  BY <1>3, <1>4, <1>6, CatLenOK
<1> HIDE DEF old
<1>8. Len(old.text \o t) <= MaxLen
  BY <1>4, <1>5
<1> QED BY <1>1, <1>2, <1>4, <1>7, <1>8, ThroughGood DEF old

LEMMA AppendGood ==
    ASSUME Innocent, NEW s \in Slices, NEW t \in Texts, Fits(s, t),
           AppendText(s, t) \/ AppendDropped(s, t) \/ AppendPrintf(s, t)
    PROVE  SliceInv'
<1>1. t \in Seq(Nat) /\ Len(t) <= MaxLen /\ {} \in SUBSET Wrong
  BY Bounds
<1>2. ASSUME Catted(s, t, "kept", {}) PROVE SliceInv'
  BY <1>1, <1>2, CattedGood
<1>3. CASE AppendDropped(s, t)
  BY <1>1, <1>3, CattedGood DEF AppendDropped
<1>4. ASSUME Ready(s), NEW x \in Inited(s), heap' = x.heap,
             data' = [data EXCEPT ![s] = NULL], lost' = lost \union {x.block},
             UNCHANGED <<causes, fault>>
      PROVE  SliceInv'
  BY <1>4, LostIsGood DEF Ready, Put
<1> QED BY <1>2, <1>3, <1>4 DEF AppendText, AppendPrintf

LEMMA AppendSliceGood ==
    ASSUME Innocent, NEW s \in Slices, NEW r \in Slices, AppendSlice(s, r),
           Owned(r) => Fits(s, heap[data[r]].text)
    PROVE  SliceInv'
<1> DEFINE t == heap[data[r]].text
           why == IF s = r /\ t # <<>> THEN {"self"} ELSE {}
<1>1. r \in born /\ Owned(r) /\ data[r] # NULL /\ Catted(s, t, "kept", why)
  BY DEF AppendSlice, Owned
<1>2. t \in Seq(Nat) /\ Len(t) <= MaxLen
  BY <1>1, HeldText
<1>3. why \in SUBSET Wrong
  BY DEF Wrong
<1>4. Fits(s, t)
  BY <1>1
<1> HIDE DEF t, why
<1> QED BY <1>1, <1>2, <1>3, <1>4, CattedGood

LEMMA AppendFmtGood ==
    ASSUME Innocent, NEW s \in Slices, NEW t \in Texts, Fits(s, t), AppendFmt(s, t)
    PROVE  SliceInv'
<1>1. s \in born /\ born' = born /\ t \in Seq(Nat) /\ Len(t) <= MaxLen /\ {} \in SUBSET Wrong
  BY Bounds DEF AppendFmt, Ready
<1>2. PICK x \in Inited(s) :
        Through(s, x.heap, x.block, FormatPath(x.heap[x.block].h, Len(t)),
                Held(FormatItem(x.heap[x.block].h, Len(t)), x.heap[x.block].text \o t),
                "unchecked", {})
  BY DEF AppendFmt
<1> DEFINE old == x.heap[x.block]
<1>3. /\ old.text \in Seq(Nat) /\ TextOf(s) = old.text /\ HeaderOK(old.h)
      /\ old.h.len = Len(old.text) /\ Len(old.text) <= MaxLen
  BY <1>1, InitedClean DEF Sound
<1>4. /\ old.text \o t \in Seq(Nat) /\ Len(old.text \o t) = Len(old.text) + Len(t)
      /\ Len(old.text) \in Nat /\ Len(t) \in Nat
  BY <1>1, <1>3, Lengths
<1>5. Len(old.text) + Len(t) <= MaxLen
  BY <1>1, <1>3, <1>4, FitsText
<1>6. CanGrow(old.h, Len(t)) /\ CanGrow(old.h, 1)
  <2>1. Len(old.text) + Len(t) <= MaxLen + 1 /\ Len(old.text) + 1 <= MaxLen + 1
    BY <1>3, <1>4, <1>5, Bounds
  <2> QED BY <1>3, <1>4, <2>1, RoomForText DEF CanGrow
<1>7. /\ HeaderOK(FormatItem(old.h, Len(t))) /\ FormatItem(old.h, Len(t)).len = Len(old.text \o t)
  BY <1>3, <1>4, <1>6, FormatItemOK
<1> HIDE DEF old
<1>8. Len(old.text \o t) <= MaxLen
  BY <1>4, <1>5
<1> QED BY <1>1, <1>2, <1>4, <1>7, <1>8, ThroughGood DEF old

(* A call that keeps the text. *)
LEMMA KeepTextGood ==
    ASSUME Innocent, NEW s \in Slices, s \in born, born' = born, NEW x \in Inited(s),
           NEW h, HeaderOK(h), h.len = x.heap[x.block].h.len, NEW path,
           Through(s, x.heap, x.block, path, Held(h, x.heap[x.block].text), "dropped", {})
    PROVE  SliceInv'
<1>1. /\ x.heap[x.block].text \in Seq(Nat) /\ Len(x.heap[x.block].text) <= MaxLen
      /\ x.heap[x.block].h.len = Len(x.heap[x.block].text)
  BY InitedClean DEF Sound
<1>2. {} \in SUBSET Wrong
  OBVIOUS
<1> QED BY <1>1, <1>2, ThroughGood

LEMMA ReserveGood ==
    ASSUME Innocent, NEW s \in Slices, NEW n \in Sizes, Reserve(s, n)
    PROVE  SliceInv'
<1>1. s \in born /\ born' = born /\ n \in Nat
  BY SliceAssumption DEF Reserve, Ready
<1>2. PICK x \in Inited(s) :
        Through(s, x.heap, x.block, RoomPath(x.heap[x.block].h, n),
                Held(sdsMakeRoomFor(x.heap[x.block].h, n), x.heap[x.block].text), "dropped", {})
  BY DEF Reserve
<1> DEFINE old == x.heap[x.block]
<1>3. /\ HeaderOK(old.h) /\ old.h.len = Len(old.text) /\ Len(old.text) \in Nat
      /\ Len(old.text) <= MaxLen
  BY <1>1, InitedClean DEF Sound
<1>4. CanGrow(old.h, n)
  <2>1. Len(old.text) + n <= MaxLen + n
    BY <1>1, <1>3, Bounds
  <2> QED BY <1>1, <1>3, <2>1, RoomForText DEF CanGrow
<1>5. HeaderOK(sdsMakeRoomFor(old.h, n)) /\ sdsMakeRoomFor(old.h, n).len = old.h.len
  BY <1>1, <1>3, <1>4, MakeRoomOK
<1> QED BY <1>1, <1>2, <1>5, KeepTextGood

LEMMA ShrinkToFitGood ==
    ASSUME Innocent, NEW s \in Slices, ShrinkToFit(s)
    PROVE  SliceInv'
<1>1. s \in born /\ born' = born /\ data[s] # NULL
  BY DEF ShrinkToFit, Ready
<1> DEFINE old == heap[data[s]]
<1>2. PICK x \in Inited(s) : x.heap = heap /\ x.block = data[s]
  BY <1>1 DEF Inited
<1>3. Through(s, x.heap, x.block, ShrinkPath(old.h),
              Held(sdsRemoveFreeSpace(old.h), x.heap[x.block].text), "dropped", {})
  BY <1>2 DEF ShrinkToFit
<1>4. HeaderOK(old.h)
  BY <1>1, HeldText DEF Sound
<1>5. /\ HeaderOK(sdsRemoveFreeSpace(old.h))
      /\ sdsRemoveFreeSpace(old.h).len = x.heap[x.block].h.len
  BY <1>2, <1>4, RemoveFreeSpaceOK
<1> HIDE DEF old
<1> QED BY <1>1, <1>3, <1>5, KeepTextGood

-----------------------------------------------------------------------------
(* The invariant, and what follows from it. *)

LEMMA InnocentStep == ASSUME Innocent, Next PROVE SliceInv'
<1> PICK s \in Slices :
        \/ Default(s) \/ Destroy(s) \/ Clear(s) \/ ShrinkToFit(s)
        \/ InitFails(s) \/ UseFreed(s)
        \/ \E n \in Sizes : Reserve(s, n)
        \/ \E t \in Texts :
            \/ New(s, t)
            \/ /\ Fits(s, t)
               /\ \/ AppendText(s, t) \/ AppendDropped(s, t)
                  \/ AppendPrintf(s, t) \/ AppendFmt(s, t)
        \/ \E r \in Slices :
            \/ Dup(s, r) \/ CopyConstruct(s, r) \/ MoveConstruct(s, r)
            \/ CopyAssign(s, r) \/ MoveAssign(s, r)
            \/ (Owned(r) => Fits(s, heap[data[r]].text)) /\ AppendSlice(s, r)
  BY DEF Next
<1>1. CASE Default(s) \/ Destroy(s) \/ Clear(s) \/ ShrinkToFit(s)
  BY <1>1, DefaultGood, DestroyGood, ShrinkToFitGood
<1>2. CASE InitFails(s)
  BY <1>2, GoneIsGood DEF InitFails, Gone, FaultsExplained
<1>3. CASE UseFreed(s)
  BY <1>3, InnocentClean DEF UseFreed
<1>4. ASSUME NEW n \in Sizes, Reserve(s, n) PROVE SliceInv'
  BY <1>4, ReserveGood
<1>5. ASSUME NEW t \in Texts, New(s, t) PROVE SliceInv'
  BY <1>5, NewGood
<1>6. ASSUME NEW t \in Texts, Fits(s, t),
             \/ AppendText(s, t) \/ AppendDropped(s, t)
             \/ AppendPrintf(s, t) \/ AppendFmt(s, t)
      PROVE  SliceInv'
  BY <1>6, AppendGood, AppendFmtGood
<1>7. ASSUME NEW r \in Slices, Dup(s, r) \/ CopyConstruct(s, r) \/ CopyAssign(s, r)
      PROVE  SliceInv'
  BY <1>7, DupGood, CopyGood
<1>8. ASSUME NEW r \in Slices, MoveConstruct(s, r) \/ MoveAssign(s, r) PROVE SliceInv'
  BY <1>8, MoveGood
<1>9. ASSUME NEW r \in Slices, Owned(r) => Fits(s, heap[data[r]].text), AppendSlice(s, r)
      PROVE  SliceInv'
  BY <1>9, AppendSliceGood
<1> QED BY <1>1, <1>2, <1>3, <1>4, <1>5, <1>6, <1>7, <1>8, <1>9

(* Once the program has done something wrong, the causes only grow.  While  *)
(* it runs they explain whatever it dies of.                                *)
Blamed ==
    /\ causes \subseteq causes'
    /\ fault' = "none" => causes' \subseteq causes \union Wrong
    /\ fault' = "null" => causes' \intersect {"null", "memory"} # {}

LEMMA ThroughBlamed ==
    ASSUME NEW s, NEW hp, NEW b, NEW path, NEW new, NEW use, NEW why \in SUBSET Wrong,
           fault = "none", Through(s, hp, b, path, new, use, why)
    PROVE  Blamed
<1>1. \/ UNCHANGED <<causes, fault>>
      \/ /\ causes' = causes \union why \union IF use = "dropped" THEN {"dropped"} ELSE {}
         /\ fault' = IF why = {} THEN fault ELSE "use_after_free"
      \/ fault' = "null" /\ causes' = causes \union {"memory"}
  BY DEF Through
<1> QED BY <1>1 DEF Blamed, Wrong

LEMMA EveryStepBlamed == ASSUME Running, Next PROVE Blamed
<1>0. fault = "none"
  BY DEF Running
<1> PICK s \in Slices :
        \/ Default(s) \/ Destroy(s) \/ Clear(s) \/ ShrinkToFit(s)
        \/ InitFails(s) \/ UseFreed(s)
        \/ \E n \in Sizes : Reserve(s, n)
        \/ \E t \in Texts :
            \/ New(s, t)
            \/ /\ Fits(s, t)
               /\ \/ AppendText(s, t) \/ AppendDropped(s, t)
                  \/ AppendPrintf(s, t) \/ AppendFmt(s, t)
        \/ \E r \in Slices :
            \/ Dup(s, r) \/ CopyConstruct(s, r) \/ MoveConstruct(s, r)
            \/ CopyAssign(s, r) \/ MoveAssign(s, r)
            \/ (Owned(r) => Fits(s, heap[data[r]].text)) /\ AppendSlice(s, r)
  BY DEF Next
<1>1. CASE Default(s) \/ Destroy(s) \/ Clear(s) \/ InitFails(s) \/ UseFreed(s)
  BY <1>0, <1>1 DEF Default, Destroy, Clear, Release, InitFails, UseFreed, Blamed
<1>2. ASSUME NEW n \in Sizes, Reserve(s, n) PROVE Blamed
  <2>1. {} \in SUBSET Wrong
    OBVIOUS
  <2> QED BY <1>0, <1>2, <2>1, ThroughBlamed DEF Reserve
<1>3. CASE ShrinkToFit(s)
  <2>1. {} \in SUBSET Wrong
    OBVIOUS
  <2> QED BY <1>0, <1>3, <2>1, ThroughBlamed DEF ShrinkToFit
<1>4. ASSUME NEW t \in Texts, New(s, t) PROVE Blamed
  BY <1>0, <1>4 DEF New, Blamed
<1>5. ASSUME NEW t \in Texts,
             \/ AppendText(s, t) \/ AppendDropped(s, t)
             \/ AppendPrintf(s, t) \/ AppendFmt(s, t)
      PROVE  Blamed
  <2>1. {} \in SUBSET Wrong
    OBVIOUS
  <2>2. CASE AppendFmt(s, t)
    BY <1>0, <2>1, <2>2, ThroughBlamed DEF AppendFmt
  <2>3. CASE AppendText(s, t)
    BY <1>0, <2>1, <2>3, ThroughBlamed DEF AppendText, Catted
  <2>4. CASE AppendDropped(s, t)
    BY <1>0, <2>1, <2>4, ThroughBlamed DEF AppendDropped, Catted
  <2>5. CASE AppendPrintf(s, t)
    <3>1. CASE Catted(s, t, "kept", {})
      BY <1>0, <2>1, <3>1, ThroughBlamed DEF Catted
    <3>2. CASE UNCHANGED <<causes, fault>>
      BY <1>0, <3>2 DEF Blamed
    <3> QED BY <2>5, <3>1, <3>2 DEF AppendPrintf
  <2> QED BY <1>5, <2>2, <2>3, <2>4, <2>5
<1>6. ASSUME NEW r \in Slices, Dup(s, r) PROVE Blamed
  BY <1>0, <1>6 DEF Dup, Fail, Blamed
<1>a. ASSUME NEW r \in Slices, NoReturn(s, r) PROVE Blamed
  BY <1>0, <1>a DEF NoReturn, Fail, Blamed
<1>b. ASSUME NEW r \in Slices, NEW old, NEW why \in SUBSET Wrong,
             CopyTo(s, r, old, why) \/ MoveTo(s, r, old, why)
      PROVE  Blamed
  BY <1>0, <1>b DEF CopyTo, MoveTo, Fail, Blamed
<1>c. /\ \A old : StaleIf(old) \in SUBSET Wrong
      /\ \A r : (IF s = r THEN {"self"} ELSE {}) \in SUBSET Wrong
      /\ {} \in SUBSET Wrong
  BY DEF StaleIf, Wrong
<1>7. ASSUME NEW r \in Slices, CopyConstruct(s, r) \/ MoveConstruct(s, r) PROVE Blamed
  <2>1. PICK old \in Found :
          CopyTo(s, r, old, StaleIf(old)) \/ MoveTo(s, r, old, StaleIf(old))
    BY <1>7 DEF CopyConstruct, MoveConstruct
  <2> QED BY <2>1, <1>b, <1>c
<1>8. ASSUME NEW r \in Slices, CopyAssign(s, r) \/ MoveAssign(s, r) PROVE Blamed
  <2>1. \/ CopyTo(s, r, data[s], IF s = r THEN {"self"} ELSE {})
        \/ MoveTo(s, r, data[s], {})
        \/ NoReturn(s, r)
    BY <1>8 DEF CopyAssign, MoveAssign
  <2> QED BY <2>1, <1>a, <1>b, <1>c
<1>9. ASSUME NEW r \in Slices, AppendSlice(s, r) PROVE Blamed
  <2>1. PICK why \in SUBSET Wrong : Catted(s, heap[data[r]].text, "kept", why)
    <3>1. (IF s = r /\ heap[data[r]].text # <<>> THEN {"self"} ELSE {}) \in SUBSET Wrong
      BY DEF Wrong
    <3> QED BY <1>9, <3>1 DEF AppendSlice
  <2> QED BY <1>0, <2>1, ThroughBlamed DEF Catted
<1> QED BY <1>1, <1>2, <1>3, <1>4, <1>5, <1>6, <1>7, <1>8, <1>9

(* A program that has done something wrong. *)
LEMMA WildStep == ASSUME SliceInv, causes # {}, Next PROVE SliceInv'
<1>1. Running /\ causes \subseteq Wrong
  BY DEF Next, SliceInv
<1>2. Blamed
  BY <1>1, EveryStepBlamed
<1>3. Gone
  BY <1>1, <1>2 DEF Blamed, Gone, FaultsExplained, Wrong
<1> QED BY <1>3, GoneIsGood

LEMMA SliceInit == Init => SliceInv
<1> SUFFICES ASSUME Init PROVE SliceInv
  OBVIOUS
<1>1. Clean(heap, data, born, lost)
  BY FreedCell DEF Init, Clean
<1> QED BY <1>1 DEF Init, SliceInv, Running, FaultsExplained

LEMMA SliceStep == SliceInv /\ [Next]_vars => SliceInv'
<1> SUFFICES ASSUME SliceInv, [Next]_vars PROVE SliceInv'
  OBVIOUS
<1>1. CASE UNCHANGED vars
  BY <1>1 DEF vars, SliceInv, Running, FaultsExplained
<1>2. CASE Next /\ causes = {}
  BY <1>2, InnocentStep DEF Next, Innocent
<1>3. CASE Next /\ causes # {}
  BY <1>3, WildStep
<1> QED BY <1>1, <1>2, <1>3

LEMMA SliceInvariant == Spec => []SliceInv
  BY SliceInit, SliceStep, PTL DEF Spec

(* Whatever a program does with its slices and however malloc() and         *)
(* realloc() answer: until it makes one of the calls that are not survived, *)
(* each block in use has one owner or is a lost one, no slice points to a   *)
(* freed block, and every header tells the length of its text and no more   *)
(* room than there is.                                                      *)
THEOREM EveryBlockHasItsOwner == Spec => []OwnershipExact
<1>1. SliceInv => OwnershipExact
  <2> SUFFICES ASSUME SliceInv, causes = {} PROVE OwnershipExact
    BY DEF OwnershipExact
  <2>1. Clean(heap, data, born, lost) /\ \A s \in born : Valid(s)
    BY InnocentClean DEF Innocent, SliceInv
  <2>2. ASSUME NEW b \in Blocks, heap[b].used
        PROVE  /\ Cardinality({s \in born : data[s] = b}) = IF b \in lost THEN 0 ELSE 1
               /\ HeaderOK(heap[b].h) /\ heap[b].h.len = Len(heap[b].text)
    <3> DEFINE owners == {s \in born : data[s] = b}
    <3>1. b # NULL
      BY Bounds
    <3>2. CASE b \in lost
      <4>1. owners = {}
        BY <2>1, <3>1, <3>2 DEF Clean
      <4> QED BY <2>1, <2>2, <3>2, <4>1, FS_EmptySet DEF Clean, Sound
    <3>3. CASE b \notin lost
      <4>1. PICK s \in born : data[s] = b
        BY <2>1, <2>2, <3>3 DEF Clean
      <4>2. owners = {s}
        BY <2>1, <3>1, <4>1 DEF Clean
      <4>3. Cardinality(owners) = 1
        BY <4>2, FS_Singleton
      <4> QED BY <2>1, <2>2, <3>3, <4>3 DEF Clean, Sound
    <3> QED BY <3>2, <3>3
  <2> QED BY <2>1, <2>2 DEF OwnershipExact
<1> QED BY <1>1, SliceInvariant, PTL

(* Whatever the process dies of is among the known causes, and of the right *)
(* kind.                                                                    *)
THEOREM DeathsAreExplained == Spec => []FaultsExplained
<1>1. SliceInv => FaultsExplained
  BY DEF SliceInv
<1> QED BY <1>1, SliceInvariant, PTL
=============================================================================
