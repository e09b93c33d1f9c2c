--------------------------- MODULE SdsHeaderProofs ---------------------------
(***************************************************************************)
(* What the functions of sds.cpp leave of a header, for any sizes of the    *)
(* header types: the stored length is the right one, the capacity fits its  *)
(* field and the block.  The hypotheses on lengths say that the largest     *)
(* type can store what sdsMakeRoomFor() is about to reserve.                *)
(***************************************************************************)
EXTENDS SdsHeader, TLAPS

(* The types store more and more. *)
LEMMA TypeMaxOrder ==
    /\ TypeMax[0] \in Nat /\ TypeMax[1] \in Nat /\ TypeMax[2] \in Nat
    /\ TypeMax[3] \in Nat /\ TypeMax[4] \in Nat
    /\ TypeMax[0] < TypeMax[1] /\ TypeMax[1] < TypeMax[2]
    /\ TypeMax[2] < TypeMax[3] /\ TypeMax[3] < TypeMax[4]
<1>1. 0 \in HeaderTypes /\ 1 \in HeaderTypes /\ 2 \in HeaderTypes
      /\ 3 \in HeaderTypes /\ 4 \in HeaderTypes
  BY DEF HeaderTypes
<1>2. TypeMax[1 - 1] < TypeMax[1] /\ TypeMax[2 - 1] < TypeMax[2]
      /\ TypeMax[3 - 1] < TypeMax[3] /\ TypeMax[4 - 1] < TypeMax[4]
  BY HeaderAssumption
<1> QED BY <1>1, <1>2, HeaderAssumption

LEMMA HeaderConstants ==
    ASSUME NEW t \in HeaderTypes
    PROVE  TypeMax[t] \in Nat /\ HdrSize[t] \in Nat /\ TypeMax[t] <= TypeMax[SDS_TYPE_64]
<1>1. TypeMax[t] \in Nat /\ HdrSize[t] \in Nat
  BY HeaderAssumption
<1> QED BY <1>1, TypeMaxOrder DEF HeaderTypes, SDS_TYPE_64

(* The type that sdsReqType() chooses can store what was asked for. *)
LEMMA ReqTypeStores ==
    ASSUME NEW n \in Nat, n <= TypeMax[SDS_TYPE_64]
    PROVE  sdsReqType(n) \in HeaderTypes /\ n <= TypeMax[sdsReqType(n)]
<1>1. CASE n > TypeMax[3]
  BY <1>1 DEF sdsReqType, SDS_TYPE_64, HeaderTypes
<1>2. CASE n <= TypeMax[3]
  <2> DEFINE Holds(t) == n <= TypeMax[t] /\ \A u \in 0 .. t - 1 : n > TypeMax[u]
  <2>1. \E t \in 0 .. 3 : Holds(t)
    <3>1. CASE n <= TypeMax[0]
      <4>1. Holds(0)
        BY <3>1
      <4> QED BY <4>1
    <3>2. CASE n > TypeMax[0] /\ n <= TypeMax[1]
      <4>1. Holds(1)
        BY <3>2, TypeMaxOrder
      <4> QED BY <4>1
    <3>3. CASE n > TypeMax[1] /\ n <= TypeMax[2]
      <4>1. \A u \in 0 .. 2 - 1 : n > TypeMax[u]
        BY <3>3, TypeMaxOrder
      <4>2. Holds(2)
        BY <3>3, <4>1
      <4> QED BY <4>2
    <3>4. CASE n > TypeMax[2]
      <4>1. \A u \in 0 .. 3 - 1 : n > TypeMax[u]
        BY <3>4, TypeMaxOrder
      <4>2. Holds(3)
        BY <1>2, <4>1
      <4> QED BY <4>2
    <3> QED BY <3>1, <3>2, <3>3, <3>4, TypeMaxOrder
  <2>2. sdsReqType(n) = CHOOSE t \in 0 .. 3 : Holds(t)
    <3>1. ~(n > TypeMax[3])
      BY <1>2, TypeMaxOrder
    <3> QED BY <3>1, Zenon DEF sdsReqType
  <2>3. sdsReqType(n) \in 0 .. 3 /\ Holds(sdsReqType(n))
    <3> HIDE DEF Holds
    <3> QED BY <2>1, <2>2, Zenon
  <2> QED BY <2>3 DEF HeaderTypes
<1> QED BY <1>1, <1>2, TypeMaxOrder

LEMMA GrowTypeStores ==
    ASSUME NEW n \in Nat, n <= TypeMax[SDS_TYPE_64]
    PROVE  /\ GrowType(n) \in HeaderTypes /\ GrowType(n) # SDS_TYPE_5
           /\ n <= TypeMax[GrowType(n)]
  BY ReqTypeStores, TypeMaxOrder DEF GrowType, SDS_TYPE_5, SDS_TYPE_8, HeaderTypes

(* A field keeps what its type can store. *)
LEMMA StoredExactly ==
    ASSUME NEW t \in HeaderTypes, NEW n \in Nat, n <= TypeMax[t]
    PROVE  Stored(t, n) = n
<1>1. TypeMax[t] \in Nat
  BY HeaderConstants
<1>2. \A k \in Nat : n <= k => n % (k + 1) = n
  OBVIOUS
<1> QED BY <1>1, <1>2 DEF Stored

(* A new block of the right type. *)
LEMMA BlockOK ==
    ASSUME NEW t \in HeaderTypes, NEW len \in Nat, NEW alloc \in Nat,
           len <= alloc, alloc <= TypeMax[t]
    PROVE  LET b == Block(t, len, alloc) IN
           /\ HeaderOK(b) /\ b.type = t /\ b.len = len /\ Room(b) = alloc
           /\ t # SDS_TYPE_5 => b.alloc = alloc
<1>1. Stored(t, len) = len /\ Stored(t, alloc) = alloc
  BY HeaderConstants, StoredExactly
<1>2. Block(t, len, alloc) =
        [type |-> t, len |-> len, alloc |-> IF t = SDS_TYPE_5 THEN 0 ELSE alloc,
         size |-> HdrSize[t] + alloc + 1]
  BY <1>1 DEF Block
<1>3. HdrSize[t] \in Nat /\ TypeMax[t] \in Nat
  BY HeaderConstants
<1> QED BY <1>2, <1>3 DEF HeaderOK, Headers, Room, sdsalloc

(* What is asked of the largest type before n more bytes are made room for. *)
CanGrow(h, n) == Enlarged(h.len + n) <= TypeMax[SDS_TYPE_64]

LEMMA EnlargedIsLarger ==
    ASSUME NEW n \in Nat
    PROVE  Enlarged(n) \in Nat /\ n <= Enlarged(n)
  BY HeaderAssumption DEF Enlarged

LEMMA HeaderFields ==
    ASSUME NEW h, HeaderOK(h)
    PROVE  /\ h.type \in HeaderTypes /\ h.len \in Nat /\ h.alloc \in Nat /\ h.size \in Nat
           /\ h = [type |-> h.type, len |-> h.len, alloc |-> h.alloc, size |-> h.size]
           /\ HdrSize[h.type] \in Nat /\ TypeMax[h.type] \in Nat
           /\ h.len <= TypeMax[h.type] /\ h.len <= Room(h)
           /\ h.type # SDS_TYPE_5 => /\ h.len <= h.alloc /\ h.alloc <= TypeMax[h.type]
                                     /\ h.alloc <= Room(h)
<1>1. h \in Headers
  BY DEF HeaderOK
<1>2. h = [type |-> h.type, len |-> h.len, alloc |-> h.alloc, size |-> h.size]
  BY <1>1 DEF Headers
<1>3. /\ h.type \in HeaderTypes /\ h.len \in Nat /\ h.alloc \in Nat /\ h.size \in Nat
  BY <1>1 DEF Headers
<1>4. HdrSize[h.type] \in Nat /\ TypeMax[h.type] \in Nat
  BY <1>3, HeaderConstants
<1> QED BY <1>2, <1>3, <1>4 DEF HeaderOK, sdsalloc, Room

(* sdssetlen(): a length for which there is room is stored as it is, and    *)
(* nothing else changes.                                                    *)
THEOREM SetLenOK ==
    ASSUME NEW h, HeaderOK(h), NEW n \in Nat, n <= TypeMax[h.type], n <= Room(h),
           h.type = SDS_TYPE_5 \/ n <= h.alloc
    PROVE  LET g == sdssetlen(h, n) IN
           /\ HeaderOK(g) /\ g.len = n /\ g.type = h.type /\ Room(g) = Room(h)
           /\ g.alloc = h.alloc /\ g.size = h.size
<1>1. sdssetlen(h, n) = [type |-> h.type, len |-> n, alloc |-> h.alloc, size |-> h.size]
  BY HeaderFields, StoredExactly DEF sdssetlen
<1> QED BY <1>1, HeaderFields DEF HeaderOK, Headers, Room, sdsalloc

(* The block is resized under the same header. *)
LEMMA ResizedOK ==
    ASSUME NEW h, HeaderOK(h), NEW n \in Nat, h.len <= n, n <= TypeMax[h.type]
    PROVE  LET g == Resized(h, n) IN
           /\ HeaderOK(g) /\ g.len = h.len /\ g.type = h.type /\ Room(g) = n
           /\ h.type # SDS_TYPE_5 => g.alloc = n
<1> DEFINE size == HdrSize[h.type] + n + 1
<1>1. [h EXCEPT !.size = size]
        = [type |-> h.type, len |-> h.len, alloc |-> h.alloc, size |-> size]
  BY HeaderFields
<1>2. Resized(h, n)
        = [type |-> h.type, len |-> h.len,
           alloc |-> IF h.type = SDS_TYPE_5 THEN h.alloc ELSE n, size |-> size]
  <2> DEFINE g == [type |-> h.type, len |-> h.len, alloc |-> h.alloc, size |-> size]
  <2>1. Resized(h, n) = sdssetalloc(g, n)
    BY <1>1 DEF Resized
  <2>2. Stored(h.type, n) = n
    BY HeaderFields, StoredExactly
  <2> HIDE DEF size
  <2>3. CASE h.type = SDS_TYPE_5
    BY <2>1, <2>3 DEF sdssetalloc
  <2>4. CASE h.type # SDS_TYPE_5
    <3>1. sdssetalloc(g, n) = [g EXCEPT !.alloc = n]
      BY <2>2, <2>4 DEF sdssetalloc
    <3> QED BY <2>1, <2>4, <3>1
  <2> QED BY <2>3, <2>4
<1>3. /\ h.type \in HeaderTypes /\ h.len \in Nat /\ h.alloc \in Nat /\ size \in Nat
      /\ size - HdrSize[h.type] - 1 = n /\ h.len <= TypeMax[h.type]
  BY HeaderFields
<1> HIDE DEF size
<1> QED BY <1>2, <1>3 DEF HeaderOK, Headers, Room, sdsalloc

(* sdsnewlen(): the type it chooses stores the length, and the block has    *)
(* room for it.                                                             *)
THEOREM NewLenOK ==
    ASSUME NEW n \in Nat, n <= TypeMax[SDS_TYPE_64]
    PROVE  HeaderOK(sdsnewlen(n)) /\ sdsnewlen(n).len = n
<1> DEFINE t == IF n = 0 THEN SDS_TYPE_8 ELSE sdsReqType(n)
<1>1. t \in HeaderTypes /\ n <= TypeMax[t]
  BY ReqTypeStores, TypeMaxOrder DEF SDS_TYPE_8, HeaderTypes
<1> QED BY <1>1, BlockOK DEF sdsnewlen

(* sdsMakeRoomFor(): on each of its three paths the length is kept and the  *)
(* room asked for is there.                                                 *)
THEOREM MakeRoomOK ==
    ASSUME NEW h, HeaderOK(h), NEW n \in Nat, CanGrow(h, n)
    PROVE  LET g == sdsMakeRoomFor(h, n) IN
           /\ HeaderOK(g) /\ g.len = h.len /\ sdsavail(g) >= n
           /\ g.len + n <= Room(g) /\ g.len + n <= TypeMax[g.type]
           /\ n > 0 => g.type # SDS_TYPE_5
<1> DEFINE newlen == Enlarged(h.len + n)
           type == GrowType(newlen)
<1>1. newlen \in Nat /\ h.len + n <= newlen /\ newlen <= TypeMax[SDS_TYPE_64]
      /\ h.len \in Nat
  BY HeaderFields, EnlargedIsLarger DEF CanGrow
<1>2. type \in HeaderTypes /\ type # SDS_TYPE_5 /\ newlen <= TypeMax[type]
  BY <1>1, GrowTypeStores
<1>3. CASE RoomPath(h, n) = "stay"
  <2>1. sdsMakeRoomFor(h, n) = h /\ sdsavail(h) >= n
    BY <1>3 DEF sdsMakeRoomFor, RoomPath
  <2> HIDE DEF newlen, type
  <2>2. CASE h.type = SDS_TYPE_5
    <3>1. n = 0
      BY <2>1, <2>2 DEF sdsavail
    <3> QED BY <2>1, <3>1, HeaderFields
  <2>3. CASE h.type # SDS_TYPE_5
    <3>1. h.len + n <= h.alloc
      BY <2>1, <2>3, HeaderFields DEF sdsavail
    <3>2. Room(h) \in Int
      BY HeaderFields DEF Room
    <3> QED BY <2>1, <2>3, <3>1, <3>2, HeaderFields
  <2> QED BY <2>2, <2>3
<1>4. CASE RoomPath(h, n) = "realloc"
  <2>1. sdsMakeRoomFor(h, n) = Resized(h, newlen) /\ h.type = type
    BY <1>4 DEF sdsMakeRoomFor, RoomPath
  <2> HIDE DEF newlen, type
  <2>2. /\ HeaderOK(Resized(h, newlen)) /\ Resized(h, newlen).len = h.len
        /\ Resized(h, newlen).type = type /\ Room(Resized(h, newlen)) = newlen
        /\ Resized(h, newlen).alloc = newlen
    BY <1>1, <1>2, <2>1, ResizedOK
  <2> QED BY <1>1, <1>2, <2>1, <2>2, HeaderConstants DEF sdsavail
<1>5. CASE RoomPath(h, n) = "malloc"
  <2>1. sdsMakeRoomFor(h, n) = Block(type, h.len, newlen)
    BY <1>5 DEF sdsMakeRoomFor
  <2> HIDE DEF newlen, type
  <2>2. LET b == Block(type, h.len, newlen) IN
        /\ HeaderOK(b) /\ b.len = h.len /\ b.type = type /\ Room(b) = newlen
        /\ b.alloc = newlen
    BY <1>1, <1>2, BlockOK
  <2> QED BY <1>1, <1>2, <2>1, <2>2, HeaderConstants DEF sdsavail
<1> QED BY <1>3, <1>4, <1>5 DEF RoomPath

(* sdsRemoveFreeSpace(): whether the block is resized or replaced under a   *)
(* smaller header, the header stays right and the length is kept.           *)
THEOREM RemoveFreeSpaceOK ==
    ASSUME NEW h, HeaderOK(h)
    PROVE  HeaderOK(sdsRemoveFreeSpace(h)) /\ sdsRemoveFreeSpace(h).len = h.len
<1>1. h.len \in Nat /\ h.len <= TypeMax[h.type] /\ h.len <= TypeMax[SDS_TYPE_64]
  BY HeaderFields, HeaderConstants, TypeMaxOrder DEF SDS_TYPE_64
<1>2. CASE ShrinkPath(h) = "realloc"
  BY <1>1, <1>2, ResizedOK DEF sdsRemoveFreeSpace
<1>3. CASE ShrinkPath(h) # "realloc"
  <2>1. sdsReqType(h.len) \in HeaderTypes /\ h.len <= TypeMax[sdsReqType(h.len)]
    BY <1>1, ReqTypeStores
  <2> QED BY <1>1, <1>3, <2>1, BlockOK DEF sdsRemoveFreeSpace
<1> QED BY <1>2, <1>3

(* sdscatlen(): appending n bytes, room first and then the length, counts   *)
(* each of them once.                                                       *)
THEOREM CatLenOK ==
    ASSUME NEW h, HeaderOK(h), NEW n \in Nat, CanGrow(h, n)
    PROVE  HeaderOK(sdscatlen(h, n)) /\ sdscatlen(h, n).len = h.len + n
<1> DEFINE g == sdsMakeRoomFor(h, n)
<1>1. /\ HeaderOK(g) /\ g.len = h.len /\ sdsavail(g) >= n
      /\ g.len + n <= Room(g) /\ g.len + n <= TypeMax[g.type]
  BY MakeRoomOK
<1>2. sdscatlen(h, n) = sdssetlen(g, h.len + n)
  BY DEF sdscatlen
<1> HIDE DEF g
<1>3. g.type = SDS_TYPE_5 \/ g.len + n <= g.alloc
  BY <1>1, HeaderFields DEF sdsavail
<1>4. h.len + n \in Nat
  BY HeaderFields
<1> QED BY <1>1, <1>2, <1>3, <1>4, SetLenOK

(* sdsgrowzero(): the length becomes what was asked for if that is more. *)
THEOREM GrowZeroOK ==
    ASSUME NEW h, HeaderOK(h), NEW n \in Nat, n > h.len => CanGrow(h, n - h.len)
    PROVE  /\ HeaderOK(sdsgrowzero(h, n))
           /\ sdsgrowzero(h, n).len = IF n > h.len THEN n ELSE h.len
<1>1. h.len \in Nat
  BY HeaderFields
<1>2. CASE n <= h.len
  BY <1>1, <1>2 DEF sdsgrowzero
<1>3. CASE n > h.len
  <2>1. n - h.len \in Nat /\ h.len + (n - h.len) = n
    BY <1>1, <1>3
  <2> QED BY <1>1, <1>3, <2>1, CatLenOK DEF sdsgrowzero
<1> QED BY <1>1, <1>2, <1>3

(* sdscpylen(): the length becomes that of the copied bytes. *)
THEOREM CpyLenOK ==
    ASSUME NEW h, HeaderOK(h), NEW n \in Nat, n > h.len => CanGrow(h, n - h.len)
    PROVE  HeaderOK(sdscpylen(h, n)) /\ sdscpylen(h, n).len = n
<1>1. /\ h.len \in Nat /\ h.alloc \in Nat /\ h.len <= sdsalloc(h)
  BY HeaderFields DEF sdsalloc
<1>2. CASE sdsalloc(h) < n
  <2> DEFINE g == sdsMakeRoomFor(h, n - h.len)
  <2>1. n - h.len \in Nat /\ h.len + (n - h.len) = n /\ n > h.len
    BY <1>1, <1>2 DEF sdsalloc
  <2>2. /\ HeaderOK(g) /\ g.len = h.len /\ sdsavail(g) >= n - h.len
        /\ n <= Room(g) /\ n <= TypeMax[g.type]
    BY <2>1, MakeRoomOK
  <2>3. sdscpylen(h, n) = sdssetlen(g, n)
    BY <1>2 DEF sdscpylen
  <2> HIDE DEF g
  <2>4. g.type = SDS_TYPE_5 \/ n <= g.alloc
    BY <1>1, <2>2, HeaderFields DEF sdsavail
  <2> QED BY <2>2, <2>3, <2>4, SetLenOK
<1>3. CASE n <= sdsalloc(h)
  <2>1. sdscpylen(h, n) = sdssetlen(h, n)
    BY <1>1, <1>3 DEF sdscpylen, sdsalloc
  <2>2. n <= TypeMax[h.type] /\ n <= Room(h)
    <3>1. sdsalloc(h) <= TypeMax[h.type] /\ sdsalloc(h) <= Room(h) /\ Room(h) \in Int
          /\ TypeMax[h.type] \in Nat
      BY HeaderFields DEF HeaderOK, Room
    <3> QED BY <1>1, <1>3, <3>1 DEF sdsalloc
  <2>3. h.type = SDS_TYPE_5 \/ n <= h.alloc
    BY <1>3 DEF sdsalloc
  <2> QED BY <2>1, <2>2, <2>3, SetLenOK
<1> QED BY <1>1, <1>2, <1>3 DEF sdsalloc

(* sdscatfmt(): room for n characters of an item, and then their length:    *)
(* the room made for a single character before it is not lost.              *)
THEOREM FormatItemOK ==
    ASSUME NEW h, HeaderOK(h), NEW n \in Nat, CanGrow(h, 1), CanGrow(h, n)
    PROVE  HeaderOK(FormatItem(h, n)) /\ FormatItem(h, n).len = h.len + n
<1> DEFINE f == EnsureAvail(h, 1)
           g == EnsureAvail(f, n)
<1>4. FormatItem(h, n) = sdssetlen(g, g.len + n)
  BY DEF FormatItem, sdsinclen
<1>1. HeaderOK(f) /\ f.len = h.len /\ f.type # SDS_TYPE_5
  BY MakeRoomOK DEF EnsureAvail, sdsavail
<1> HIDE DEF f
<1>2. CanGrow(f, n)
  BY <1>1 DEF CanGrow
<1>3. /\ HeaderOK(g) /\ g.len = h.len /\ g.type # SDS_TYPE_5 /\ sdsavail(g) >= n
  <2>1. CASE sdsavail(f) < n
    <3>1. g = sdsMakeRoomFor(f, n)
      BY <2>1 DEF EnsureAvail
    <3>2. n > 0
      BY <2>1, <1>1, HeaderFields DEF sdsavail
    <3> QED BY <1>1, <1>2, <3>1, <3>2, MakeRoomOK
  <2>2. CASE ~(sdsavail(f) < n)
    <3>1. g = f
      BY <2>2 DEF EnsureAvail
    <3> QED BY <1>1, <2>2, <3>1, HeaderFields DEF sdsavail
  <2> QED BY <2>1, <2>2
<1> HIDE DEF g
<1>5. /\ g.len + n \in Nat /\ g.len + n <= TypeMax[g.type] /\ g.len + n <= Room(g)
      /\ g.len + n <= g.alloc
  <2>1. /\ g.len \in Nat /\ g.alloc \in Nat /\ TypeMax[g.type] \in Nat /\ Room(g) \in Int
        /\ g.alloc <= TypeMax[g.type] /\ g.alloc <= Room(g)
    BY <1>3, HeaderFields DEF Room
  <2> QED BY <1>3, <2>1 DEF sdsavail
<1>6. HeaderOK(sdssetlen(g, g.len + n)) /\ sdssetlen(g, g.len + n).len = g.len + n
  BY <1>3, <1>5, SetLenOK
<1> QED BY <1>3, <1>4, <1>6
=============================================================================
