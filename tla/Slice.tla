------------------------------- MODULE Slice -------------------------------
(***************************************************************************)
(* Slice (src/slice.cpp), the owner of an sds string, over the heap.  A     *)
(* slice is storage for one pointer: NULL, or a block of the heap that      *)
(* holds a header and a text.  Storage without a slice holds anything, and  *)
(* the copy and move constructors read it: `data' says NULL of it, and the  *)
(* constructors choose what they find.  malloc() may fail, and realloc()    *)
(* may move the block or leave it.                                          *)
(*                                                                          *)
(* Some calls are not survived, or only by luck.  `causes' records which    *)
(* kinds of them the program has made:                                      *)
(*   "stale"    copy or move construction on storage that is not NULL       *)
(*   "self"     a slice assigned, or appended across a move, to itself      *)
(*   "null"     a copy of a slice that holds nothing                        *)
(*   "dropped"  a block moved by a call that does not keep the new pointer  *)
(*   "memory"   no memory for the string an append or appendFmt() writes to *)
(*   "no_return"  an assignment, which ends without returning its value     *)
(* and `fault' is how the process ended.  Slices are used as documented     *)
(* otherwise: constructed once, and destroyed once.                         *)
(***************************************************************************)
EXTENDS SdsHeader, Sequences, FiniteSets

CONSTANTS
    Slices, Blocks, NULL,
    JUNK,             \* a pointer to no block
    Texts,            \* that slices are made of and appended
    Sizes,            \* asked of reserve()
    MaxLen            \* bound on the length of a text

ASSUME SliceAssumption ==
    /\ NULL \notin Blocks /\ JUNK \notin Blocks \union {NULL}
    /\ <<>> \in Texts /\ \A t \in Texts : t \in Seq(Nat) /\ Len(t) <= MaxLen
    /\ MaxLen \in Nat /\ Sizes \subseteq Nat
    \* The largest type stores what is ever reserved: 2^64 - 1 in the code.
    /\ \A n \in Sizes \union {1} : Enlarged(MaxLen + n) <= TypeMax[SDS_TYPE_64]

VARIABLES
    heap,      \* what each block holds
    data,      \* the pointer in each slice
    born,      \* the slices constructed and not destroyed
    lost,      \* blocks whose only pointer was overwritten by a NULL
    causes, fault
vars == <<heap, data, born, lost, causes, fault>>

Held(h, t) == [used |-> TRUE, h |-> h, text |-> t]
Freed == [used |-> FALSE, h |-> sdsnewlen(0), text |-> <<>>]
(* sdsnewlen(): NUL bytes are part of the text. *)
NewString(t) == Held(sdsnewlen(Len(t)), t)

Init ==
    /\ heap = [b \in Blocks |-> Freed]
    /\ data = [s \in Slices |-> NULL]
    /\ born = {} /\ lost = {} /\ causes = {} /\ fault = "none"

Free == {b \in Blocks : ~heap[b].used}
(* sdsfree() of pointer p is survived. *)
Freeable(p) == p = NULL \/ (p \in Blocks /\ heap[p].used)
Valid(s) == Freeable(data[s])
Owned(s) == data[s] # NULL /\ heap[data[s]].used
Running == fault = "none"

Fail(kind, why) ==
    /\ fault' = kind /\ causes' = causes \union why
    /\ UNCHANGED <<heap, data, born, lost>>

(* The heap after sdsfree(p). *)
Released(p) == IF p = NULL THEN heap ELSE [heap EXCEPT ![p] = Freed]

(* A result that is stored in s: a new string in a free block of hp, or     *)
(* NULL for lack of memory.                                                 *)
StoreNew(s, hp, t) ==
    \/ \E b \in Blocks :
        /\ ~hp[b].used
        /\ heap' = [hp EXCEPT ![b] = NewString(t)]
        /\ data' = [data EXCEPT ![s] = b]
    \/ heap' = hp /\ data' = [data EXCEPT ![s] = NULL]

-----------------------------------------------------------------------------
(* Construction, copies, moves, destruction. *)

(* Slice(): data(NULL). *)
Default(s) ==
    /\ s \notin born /\ born' = born \union {s}
    /\ data' = [data EXCEPT ![s] = NULL]
    /\ UNCHANGED <<heap, lost, causes, fault>>

(* Made of a C string, or of so many bytes. *)
New(s, t) ==
    /\ s \notin born /\ born' = born \union {s}
    /\ StoreNew(s, heap, t)
    /\ UNCHANGED <<lost, causes, fault>>

(* dup(): a slice constructed from the bytes of another. *)
Dup(s, r) ==
    /\ s \notin born /\ r \in born /\ Valid(r)
    /\ IF data[r] = NULL THEN Fail("null", {"null"})
       ELSE /\ born' = born \union {s}
            /\ StoreNew(s, heap, heap[data[r]].text)
            /\ UNCHANGED <<lost, causes, fault>>

(* The copy constructor and copy assignment: `old', which the storage holds, *)
(* is freed first, then the other slice is read.                            *)
CopyTo(s, r, old, why) ==
    /\ r \in born /\ Valid(r)
    /\ IF ~Freeable(old) THEN Fail("bad_free", why)
       ELSE IF data[r] = NULL THEN Fail("null", why \union {"null"})
       ELSE IF ~Released(old)[data[r]].used THEN Fail("use_after_free", why)
       ELSE /\ StoreNew(s, Released(old), heap[data[r]].text)
            /\ born' = born \union {s} /\ causes' = causes \union why
            /\ UNCHANGED <<lost, fault>>

(* The move constructor and move assignment; a slice moved to itself is     *)
(* left with nothing.                                                       *)
CopyingMoveTo(s, r, old, why) ==
    /\ r \in born
    /\ IF ~Freeable(old) THEN Fail("bad_free", why)
       ELSE /\ heap' = Released(old)
            /\ data' = [data EXCEPT ![s] = data[r]]
            /\ born' = born \union {s} /\ causes' = causes \union why
            /\ UNCHANGED <<lost, fault>>
MoveTo(s, r, old, why) ==
    /\ r \in born
    /\ IF ~Freeable(old) THEN Fail("bad_free", why)
       ELSE /\ heap' = Released(old)
            /\ data' = [data EXCEPT ![s] = data[r], ![r] = NULL]
            /\ born' = born \union {s} /\ causes' = causes \union why
            /\ UNCHANGED <<lost, fault>>

(* What these constructors find in the member they have not initialised. *)
Found == Blocks \union {NULL, JUNK}
StaleIf(old) == IF old = NULL THEN {} ELSE {"stale"}
CopyConstruct(s, r) ==
    s \notin born /\ \E old \in Found : CopyTo(s, r, old, StaleIf(old))
MoveConstruct(s, r) ==
    s \notin born /\ \E old \in Found : MoveTo(s, r, old, StaleIf(old))

(* An operator= has no return statement.  The default build, -O0, comes     *)
(* back all the same, to a caller that does not use the result; for any     *)
(* other the process is over.                                               *)
NoReturn(s, r) == r \in born /\ Valid(s) /\ Fail("no_return", {"no_return"})
CopyAssign(s, r) ==
    /\ s \in born
    /\ \/ CopyTo(s, r, data[s], IF s = r THEN {"self"} ELSE {})
       \/ s # r /\ Owned(r) /\ NoReturn(s, r)
MoveAssign(s, r) ==
    s \in born /\ (MoveTo(s, r, data[s], {}) \/ NoReturn(s, r))

(* ~Slice() and clear() free what the slice holds. *)
Release(s) ==
    /\ s \in born
    /\ IF Valid(s) THEN heap' = Released(data[s]) /\ UNCHANGED <<lost, causes, fault>>
       ELSE fault' = "bad_free" /\ UNCHANGED <<heap, lost, causes>>
Destroy(s) == Release(s) /\ born' = born \ {s} /\ data' = [data EXCEPT ![s] = NULL]
DanglingClear(s) == Release(s) /\ UNCHANGED <<data, born>>
Clear(s) == Release(s) /\ data' = [data EXCEPT ![s] = NULL] /\ UNCHANGED born

-----------------------------------------------------------------------------
(* Calls that hand the string to sds and get a pointer back. *)

(* The string in block b of hp becomes `new', on the way sds takes.  The    *)
(* pointer that is returned is "kept" by the caller, "dropped", or used     *)
(* inside sds before it is returned, NULL or not: "unchecked".              *)
Through(s, hp, b, path, new, use, why) ==
    \/ /\ path # "malloc"                             \* the block stays
       /\ heap' = [hp EXCEPT ![b] = new]
       /\ data' = [data EXCEPT ![s] = b]
       /\ UNCHANGED <<lost, causes, fault>>
    \/ /\ path # "stay"                               \* it moves
       /\ \E c \in Blocks :
            /\ ~hp[c].used
            /\ heap' = [hp EXCEPT ![b] = Freed, ![c] = new]
            /\ data' = [data EXCEPT ![s] = IF use = "dropped" THEN b ELSE c]
            /\ causes' = causes \union why \union IF use = "dropped" THEN {"dropped"} ELSE {}
            /\ fault' = IF why = {} THEN fault ELSE "use_after_free"
            /\ UNCHANGED lost
    \/ /\ path # "stay"                               \* there is no memory
       /\ heap' = hp
       /\ data' = [data EXCEPT ![s] = IF use = "dropped" THEN b ELSE NULL]
       /\ lost' = IF use = "dropped" THEN lost ELSE lost \union {b}
       /\ IF use = "unchecked" THEN fault' = "null" /\ causes' = causes \union {"memory"}
          ELSE UNCHANGED <<causes, fault>>

(* What a call works on after _initIfNeed(): the heap, and the block of the  *)
(* slice in it.                                                             *)
Inited(s) ==
    IF data[s] # NULL THEN {[heap |-> heap, block |-> data[s]]}
    ELSE {[heap |-> [heap EXCEPT ![b] = NewString(<<>>)], block |-> b] : b \in Free}
InitFails(s) ==
    /\ s \in born /\ data[s] = NULL
    /\ fault' = "null" /\ causes' = causes \union {"memory"}
    /\ UNCHANGED <<heap, data, born, lost>>
Ready(s) == s \in born /\ Valid(s) /\ UNCHANGED born

Catted(s, t, use, why) ==
    /\ Ready(s)
    /\ \E x \in Inited(s) :
        LET old == x.heap[x.block]
        IN Through(s, x.heap, x.block, RoomPath(old.h, Len(t)),
                   Held(sdscatlen(old.h, Len(t)), old.text \o t), use, why)

(* append() of a C string, of so many bytes or of a std::string; append()   *)
(* of a char and of a number drop the pointer.                              *)
AppendText(s, t) == Catted(s, t, "kept", {})
AppendDropped(s, t) == t # <<>> /\ Catted(s, t, "dropped", {})

(* appendPrintf(): what vsnprintf() wrote up to the first NUL.  A format or  *)
(* a result that is too long for the stack needs a buffer of its own, and   *)
(* without memory for it NULL is stored although the string may have room.  *)
AppendPrintf(s, t) ==
    /\ \A i \in DOMAIN t : t[i] # 0
    /\ \/ Catted(s, t, "kept", {})
       \/ /\ Ready(s)
          /\ \E x \in Inited(s) :
                /\ heap' = x.heap /\ data' = [data EXCEPT ![s] = NULL]
                /\ lost' = lost \union {x.block}
                /\ UNCHANGED <<causes, fault>>

(* append() of a slice: of itself, the bytes are read after a move.         *)
AppendSlice(s, r) ==
    /\ r \in born /\ Owned(r)
    /\ Catted(s, heap[data[r]].text, "kept",
              IF s = r /\ heap[data[r]].text # <<>> THEN {"self"} ELSE {})

(* appendFmt() with one argument: two requests for room in turn.            *)
FormatPath(h, n) == IF RoomPath(h, 1) = "stay" THEN RoomPath(h, n) ELSE RoomPath(h, 1)
AppendFmt(s, t) ==
    /\ Ready(s)
    /\ \E x \in Inited(s) :
        LET old == x.heap[x.block]
        IN Through(s, x.heap, x.block, FormatPath(old.h, Len(t)),
                   Held(FormatItem(old.h, Len(t)), old.text \o t), "unchecked", {})

Reserve(s, n) ==
    /\ Ready(s)
    /\ \E x \in Inited(s) :
        LET old == x.heap[x.block]
        IN Through(s, x.heap, x.block, RoomPath(old.h, n),
                   Held(sdsMakeRoomFor(old.h, n), old.text), "dropped", {})

ShrinkToFit(s) ==
    /\ Ready(s) /\ data[s] # NULL
    /\ LET old == heap[data[s]]
       IN Through(s, heap, data[s], ShrinkPath(old.h),
                  Held(sdsRemoveFreeSpace(old.h), old.text), "dropped", {})

(* Any call that follows a pointer to a freed block. *)
UseFreed(s) ==
    /\ s \in born /\ ~Valid(s)
    /\ fault' = "use_after_free"
    /\ UNCHANGED <<heap, data, born, lost, causes>>

Fits(s, t) == Owned(s) => Len(heap[data[s]].text) + Len(t) <= MaxLen
Next ==
    /\ Running
    /\ \E s \in Slices :
        \/ Default(s) \/ Destroy(s) \/ Clear(s) \/ ShrinkToFit(s)
        \/ InitFails(s) \/ UseFreed(s)
        \/ \E n \in Sizes : Reserve(s, n)
        \/ \E t \in Texts :
            \/ New(s, t)
            \/ /\ Fits(s, t)
               /\ \/ AppendText(s, t) \/ AppendDropped(s, t)
                  \/ AppendPrintf(s, t) \/ AppendFmt(s, t)
        \/ \E r \in Slices :
            \/ Dup(s, r) \/ CopyConstruct(s, r) \/ MoveConstruct(s, r)
            \/ CopyAssign(s, r) \/ MoveAssign(s, r)
            \/ (Owned(r) => Fits(s, heap[data[r]].text)) /\ AppendSlice(s, r)

Spec == Init /\ [][Next]_vars

-----------------------------------------------------------------------------
(* Who owns what: until the program does one of the things that are not     *)
(* survived, each block in use has exactly one owner among the constructed  *)
(* slices, or is one that was lost for lack of memory; no slice points to a *)
(* freed block, and the header in every block still tells the length of its *)
(* text and room it really has.                                             *)
OwnershipExact ==
    causes = {} =>
        /\ \A b \in Blocks : heap[b].used =>
            /\ Cardinality({s \in born : data[s] = b}) = IF b \in lost THEN 0 ELSE 1
            /\ HeaderOK(heap[b].h) /\ heap[b].h.len = Len(heap[b].text)
        /\ \A s \in born : Valid(s)

(* The process only ever dies of one of the known causes, and of the right  *)
(* one: a NULL that is followed comes of a copy of nothing or of memory     *)
(* that ran out; a block used or freed after it was freed comes of stale    *)
(* storage, of a slice used on itself, or of a pointer that was dropped.    *)
FaultsExplained ==
    /\ fault = "null" => causes \intersect {"null", "memory"} # {}
    /\ fault \in {"use_after_free", "bad_free"} =>
        causes \intersect {"stale", "self", "dropped"} # {}
=============================================================================
