----------------------------- MODULE SdsHeader -----------------------------
(***************************************************************************)
(* The header of an sds string (src/sds.hpp, src/sds.cpp): its type, the    *)
(* length and the capacity as that type stores them, and the size of the    *)
(* block behind it.  Each function of the library that touches a header is  *)
(* an operator from headers to headers.  What the library says of its       *)
(* layout is HeaderOK; it is what every reader of a string relies on.       *)
(***************************************************************************)
EXTENDS Integers

CONSTANTS
    TypeMax,           \* largest length a header type can store
    HdrSize,           \* its size in bytes: sdsHdrSize()
    SDS_MAX_PREALLOC

(* SDS_TYPE_5, 8, 16, 32 and 64 in the order of their sizes. *)
HeaderTypes == 0 .. 4
SDS_TYPE_5 == 0
SDS_TYPE_8 == 1
SDS_TYPE_64 == 4

ASSUME HeaderAssumption ==
    /\ TypeMax \in [HeaderTypes -> Nat]
    /\ HdrSize \in [HeaderTypes -> Nat \ {0}]
    /\ \A t \in 1 .. 4 : TypeMax[t - 1] < TypeMax[t]
    /\ SDS_MAX_PREALLOC \in Nat \ {0}

Headers == [type : HeaderTypes, len : Nat, alloc : Nat, size : Nat]

sdslen(h) == h.len
sdsavail(h) == IF h.type = SDS_TYPE_5 THEN 0 ELSE h.alloc - h.len
sdsalloc(h) == IF h.type = SDS_TYPE_5 THEN h.len ELSE h.alloc
sdsAllocSize(h) == HdrSize[h.type] + sdsalloc(h) + 1

(* The fields are as wide as the type: what does not fit is cut off. *)
Stored(t, n) == n % (TypeMax[t] + 1)
sdssetlen(h, n) == [h EXCEPT !.len = Stored(h.type, n)]
sdsinclen(h, n) == sdssetlen(h, h.len + n)
sdssetalloc(h, n) ==
    IF h.type = SDS_TYPE_5 THEN h ELSE [h EXCEPT !.alloc = Stored(h.type, n)]

(* The bytes the caller may use, and those behind the header in the block. *)
Room(h) == h.size - HdrSize[h.type] - 1
HeaderOK(h) ==
    /\ h \in Headers
    /\ h.len <= sdsalloc(h)
    /\ sdsalloc(h) <= TypeMax[h.type]
    /\ sdsalloc(h) <= Room(h)

TightReqType(n) ==
    IF n > TypeMax[3] + 1 THEN SDS_TYPE_64
    ELSE CHOOSE t \in 0 .. 3 : n <= TypeMax[t] + 1 /\ \A u \in 0 .. t - 1 : n > TypeMax[u] + 1
(* The smallest type that stores n. *)
sdsReqType(n) ==
    IF n > TypeMax[3] THEN SDS_TYPE_64
    ELSE CHOOSE t \in 0 .. 3 : n <= TypeMax[t] /\ \A u \in 0 .. t - 1 : n > TypeMax[u]

(* Types that remember free space, for strings that will grow. *)
SameGrowType(n) == sdsReqType(n)
GrowType(n) == IF sdsReqType(n) = SDS_TYPE_5 THEN SDS_TYPE_8 ELSE sdsReqType(n)

Block(t, len, alloc) ==
    [type |-> t, len |-> Stored(t, len),
     alloc |-> IF t = SDS_TYPE_5 THEN 0 ELSE Stored(t, alloc),
     size |-> HdrSize[t] + alloc + 1]

sdsnewlen(n) == Block(IF n = 0 THEN SDS_TYPE_8 ELSE sdsReqType(n), n, n)

-----------------------------------------------------------------------------
(* Growing and shrinking.  The string stays where it is, is given to        *)
(* realloc() under the same header, or is copied to a new block because the *)
(* header changes its size ("malloc").                                      *)

Enlarged(n) == IF n < SDS_MAX_PREALLOC THEN 2 * n ELSE n + SDS_MAX_PREALLOC

RoomPath(h, addlen) ==
    IF sdsavail(h) >= addlen THEN "stay"
    ELSE IF h.type = GrowType(Enlarged(h.len + addlen)) THEN "realloc"
    ELSE "malloc"

Resized(h, n) == sdssetalloc([h EXCEPT !.size = HdrSize[h.type] + n + 1], n)

sdsMakeRoomFor(h, addlen) ==
    LET newlen == Enlarged(h.len + addlen)
    IN CASE RoomPath(h, addlen) = "stay"    -> h
         [] RoomPath(h, addlen) = "realloc" -> Resized(h, newlen)
         [] RoomPath(h, addlen) = "malloc"  -> Block(GrowType(newlen), h.len, newlen)

(* A header that is larger than needed is kept when even the needed one is  *)
(* larger than the smallest two.                                            *)
ShrinkPath(h) ==
    IF h.type = sdsReqType(h.len) \/ sdsReqType(h.len) > SDS_TYPE_8
    THEN "realloc" ELSE "malloc"

sdsRemoveFreeSpace(h) ==
    IF ShrinkPath(h) = "realloc"
    THEN Resized(h, h.len)
    ELSE Block(sdsReqType(h.len), h.len, h.len)

-----------------------------------------------------------------------------
(* Changing the length. *)

(* The assertion of sdsIncrLen().  A type-5 string knows of no free space:  *)
(* the caller answers for the room, and a step of 0 is refused.             *)
IncrLegal(h, incr) ==
    IF h.type = SDS_TYPE_5
    THEN incr # 0 /\ h.len + incr \in 0 .. TypeMax[SDS_TYPE_5]
    ELSE IF incr >= 0 THEN h.alloc - h.len >= incr ELSE h.len >= -incr
sdsIncrLen(h, incr) == sdssetlen(h, h.len + incr)

sdscatlen(h, n) == sdssetlen(sdsMakeRoomFor(h, n), h.len + n)
sdsgrowzero(h, n) == IF n <= h.len THEN h ELSE sdscatlen(h, n - h.len)
sdscpylen(h, n) ==
    sdssetlen(IF sdsalloc(h) < n THEN sdsMakeRoomFor(h, n - h.len) ELSE h, n)
sdsclear(h) == sdssetlen(h, 0)

(* One item of a format: room for one character is made in any case, then   *)
(* for the argument, and the length is raised by what was copied.           *)
EnsureAvail(h, n) == IF sdsavail(h) < n THEN sdsMakeRoomFor(h, n) ELSE h
FormatItem(h, n) == sdsinclen(EnsureAvail(EnsureAvail(h, 1), n), n)
=============================================================================
