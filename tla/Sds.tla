-------------------------------- MODULE Sds --------------------------------
(***************************************************************************)
(* One sds string and the calls of src/sds.cpp a program makes on it: the   *)
(* header and the text, which every call has to keep in agreement.  A call  *)
(* that returns a new pointer is used as documented, "s = call(s)"; what    *)
(* happens when it is not, and when memory runs out, is in Slice.           *)
(***************************************************************************)
EXTENDS SdsHeader, SdsText

CONSTANTS
    Corpus,       \* texts a string is created with
    Bytes,        \* bound: strings with other bytes are not appended to
    Pieces,       \* texts appended and copied
    Outputs,      \* of formatted printing
    Formats,      \* of sdscatfmt(): sequences of literal bytes and arguments
    Numbers,      \* of sdsfromlonglong()
    Separators,   \* of sdssplitlen(), and sets of sdstrim()
    Indices,      \* of sdsrange()
    Sizes,        \* of sdsMakeRoomFor() and sdsgrowzero()
    MaxLen        \* bound: longest text an appending call leaves

(* The largest header type stores what sdsMakeRoomFor() may reserve for the *)
(* longest string of the program.                                           *)
ASSUME SdsAssumption ==
    /\ Corpus \subseteq Seq(Byte) /\ Pieces \subseteq Seq(Byte) /\ Outputs \subseteq Seq(Byte)
    /\ Formats \subseteq Seq(Seq(Byte)) /\ Separators \subseteq Seq(Byte) \ {<<>>}
    /\ Numbers \subseteq -(LongLongs \div 2) .. (LongLongs \div 2) - 1
    /\ Indices \subseteq Int /\ Sizes \subseteq Nat /\ MaxLen \in Nat
    /\ \E longest \in SDS_LLSTR_SIZE .. TypeMax[SDS_TYPE_64] :
          /\ MaxLen <= longest /\ \A n \in Sizes : n <= longest
          /\ \A t \in Corpus \union Pieces : Len(t) <= longest
          /\ Enlarged(2 * longest) <= TypeMax[SDS_TYPE_64]

VARIABLES h, text
vars == <<h, text>>

(* sdsnewlen(), sdsnew(), sdsempty() *)
Init == text \in Corpus /\ h = sdsnewlen(Len(text))

(* sdsdup(): the header that fits. *)
Dup == h' = sdsnewlen(Len(text)) /\ UNCHANGED text

FromLongLong(v) ==
    /\ text' = sdsll2str(v)
    /\ h' = sdsnewlen(Len(text'))

(* sdscatlen(), sdscat(), sdscatsds() *)
Cat(t) == text' = text \o t /\ h' = sdscatlen(h, Len(t))

CatPrintf(out) ==
    /\ text' = sdscatvprintf(text, out)
    /\ h' = sdscatlen(h, Len(text') - Len(text))

(* sdscatfmt(): an item is a literal byte or an argument, a text or the     *)
(* digits of a number.                                                      *)
CatFmt(items) ==
    /\ text' = text \o FlattenSeq(items)
    /\ h' = FoldLeft(LAMBDA g, item : FormatItem(g, Len(item)), h, items)

Cpy(t) == text' = t /\ h' = sdscpylen(h, Len(t))

GrowZero(n) ==
    /\ text' = text \o [i \in 1 .. n - Len(text) |-> NUL]
    /\ h' = sdsgrowzero(h, n)

Clear == text' = <<>> /\ h' = sdsclear(h)

(* The caller has stored a NUL in the string; strlen() finds it. *)
UpdateLen(i) ==
    /\ i \in DOMAIN text
    /\ text' = CString(SubSeq(text, 1, i - 1))
    /\ h' = sdssetlen(h, Len(text'))

MakeRoomFor(n) == h' = sdsMakeRoomFor(h, n) /\ UNCHANGED text
RemoveFreeSpace == h' = sdsRemoveFreeSpace(h) /\ UNCHANGED text

(* The caller has written t into the free space, as the comment of          *)
(* sdsIncrLen() shows, or cuts the string.                                  *)
IncrLen(t) ==
    /\ t # <<>> /\ Len(t) <= sdsavail(h)
    /\ text' = text \o t
    /\ h' = sdsIncrLen(h, Len(t))
DecrLen(n) ==
    /\ n \in DOMAIN text
    /\ text' = SubSeq(text, 1, Len(text) - n)
    /\ h' = sdsIncrLen(h, -n)

InPlace(t) == text' = t /\ h' = sdssetlen(h, Len(t))
KeepRange(first, last) == text # <<>> /\ InPlace(sdsrange(text, first, last))
Trim(cset) == InPlace(sdstrim(text, cset))
MapChars(from, to) == text' = sdsmapchars(text, from, to) /\ UNCHANGED h
ToLower == text' = sdstolower(text) /\ UNCHANGED h
ToUpper == text' = sdstoupper(text) /\ UNCHANGED h

Growing == \A i \in DOMAIN text : text[i] \in Bytes
Appending(t) == Growing /\ Len(text) + Len(t) <= MaxLen
Next ==
    \/ Dup \/ Clear \/ RemoveFreeSpace \/ ToLower \/ ToUpper
    \/ \E v \in Numbers : FromLongLong(v)
    \/ \E t \in Pieces : Cpy(t) \/ (Appending(t) /\ (Cat(t) \/ IncrLen(t)))
    \/ \E out \in Outputs : Appending(out) /\ CatPrintf(out)
    \/ \E f \in Formats : Appending(FlattenSeq(f)) /\ CatFmt(f)
    \/ \E n \in Sizes : DecrLen(n) \/ UpdateLen(n)
    \/ \E n \in Sizes : Growing /\ (GrowZero(n) \/ MakeRoomFor(n))
    \/ \E i, k \in Indices : KeepRange(i, k)
    \/ \E s \in Separators : Trim(s) \/ MapChars(s, Reverse(s))

Spec == Init /\ [][Next]_vars

-----------------------------------------------------------------------------
(* The header tells the truth: the length is that of the text, the stored   *)
(* capacity fits its field and the block, and what sdsAllocSize() reports   *)
(* is there.  Every path of growing, shrinking and header change has to     *)
(* keep it; a field one too narrow wraps.                                   *)
HeaderSound ==
    /\ HeaderOK(h)
    /\ text \in Seq(Byte)
    /\ h.len = Len(text)
    /\ sdsAllocSize(h) <= h.size

(* The schema of the comment of sdsIncrLen(): after sdsMakeRoomFor(s, n)    *)
(* the bytes are there, the length is as before, and whatever number of     *)
(* bytes was then read, 0 included, the assertion of sdsIncrLen() holds.    *)
RoomMadeIsUsable ==
    \A n \in Sizes :
        LET g == sdsMakeRoomFor(h, n)
        IN /\ HeaderOK(g) /\ g.len = h.len /\ n <= Room(g) - g.len
           /\ \A k \in 0 .. n : IncrLegal(g, k) /\ HeaderOK(sdsIncrLen(g, k))

(* sdscatrepr() and sdssplitargs() are inverse: quoted texts, joined by a   *)
(* space, are parsed back into the same texts whatever bytes they hold; a   *)
(* line that lacks the closing quote, or goes on behind it, is refused.  In *)
(* single quotes only \' is an escape: they hold every C string that does   *)
(* not end with a backslash.                                                *)
SingleQuoted(t) ==
    LET escaped(c) == IF c = SQUOTE THEN <<BACKSLASH, SQUOTE>> ELSE <<c>>
    IN <<SQUOTE>> \o FlattenSeq([i \in DOMAIN t |-> escaped(t[i])]) \o <<SQUOTE>>
ArgsRoundTrip ==
    /\ \A k \in 0 .. Len(text) :
        LET pre == SubSeq(text, 1, k)
            post == SubSeq(text, k + 1, Len(text))
        IN sdssplitargs(sdscatrepr(sdscatrepr(<<>>, pre) \o <<SP>>, post))
            = [ok |-> TRUE, args |-> <<pre, post>>]
    /\ ~sdssplitargs(Front(sdscatrepr(<<>>, text))).ok
    /\ ~sdssplitargs(sdscatrepr(<<>>, text) \o <<LOWER_X>>).ok
    /\ (CString(text) = text /\ At(text, Len(text)) # BACKSLASH) =>
            sdssplitargs(SingleQuoted(text)) = [ok |-> TRUE, args |-> <<text>>]

(* Splitting loses nothing and leaves no separator in a token; the array    *)
(* holds the final token too ("We are sure there is room").  Both ways of   *)
(* joining undo it, the one of C strings as long as there is no NUL.        *)
JoinUndoesSplit ==
    \A sep \in Separators :
        LET split == sdssplitlen(text, sep)
        IN /\ sdsjoinsds(split.tokens, sep) = text
           /\ CString(text) = text => sdsjoin(split.tokens, sep) = text
           /\ \A i \in DOMAIN split.tokens :
                \A j \in DOMAIN split.tokens[i] : ~Matches(split.tokens[i], sep, j)
           /\ Len(split.tokens) <= split.slots

(* Numbers are read back as they were written, the smallest included, by    *)
(* both algorithms alike, in a length that ll2string() knows beforehand: it *)
(* refuses exactly the buffers without room for it and the terminator.      *)
Value(t) ==
    LET digits == IF t[1] = MINUS THEN Tail(t) ELSE t
        magnitude == FoldLeft(LAMBDA n, d : n * Radix + d - DIGIT0, 0, digits)
    IN IF t[1] = MINUS THEN -magnitude ELSE magnitude
NumberStep ==
    \A v \in Numbers : FromLongLong(v) =>
        /\ Value(text') = v
        /\ \A n \in {Len(text'), Len(text') + 1, SDS_LLSTR_SIZE} :
            ll2string(n, v) = IF n = Len(text') THEN <<>> ELSE text'
        /\ v >= 0 => sdsull2str(v) = text'
NumbersReadBack == [][NumberStep]_vars

(* sdsrange() keeps exactly the positions between its two indices, negative *)
(* ones counted from the end, as long as the last one does not lie before   *)
(* the string (there it is taken for 0); formatted output is complete up to *)
(* its first NUL, whatever buffer it was printed to; sdscmp() takes the     *)
(* longer of a string and its prefix for the greater.                       *)
TextStep ==
    /\ \A i, k \in Indices :
        LET Pos(n) == IF n < 0 THEN Len(text) + n ELSE n
        IN (KeepRange(i, k) /\ Pos(k) >= 0) =>
            text' = FlattenSeq([j \in DOMAIN text |->
                IF j - 1 \in Pos(i) .. Pos(k) THEN <<text[j]>> ELSE <<>>])
    /\ \A t \in Outputs : CatPrintf(t) => text' = text \o CString(t)
    /\ \A t \in Pieces : Cat(t) =>
        /\ sdscmp(text', text) > 0 <=> t # <<>>
        /\ sdscmp(text, text') < 0 <=> t # <<>>
TextOps == [][TextStep]_vars
=============================================================================
