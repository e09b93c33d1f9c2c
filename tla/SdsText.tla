------------------------------ MODULE SdsText ------------------------------
(***************************************************************************)
(* The algorithms of src/sds.cpp and src/util.cpp that work on the bytes of *)
(* a string: quoting and parsing of arguments, splitting and joining,       *)
(* ranges and trimming, and the digits of numbers.  A text is a sequence of *)
(* byte codes; a C string ends at its first NUL.                            *)
(***************************************************************************)
EXTENDS Integers, FiniteSets, SequencesExt

CONSTANTS
    Radix,            \* of the numbers written: 10 in the code
    LongLongs,        \* how many values a long long has: 2^64
    SDS_LLSTR_SIZE,   \* bytes of the buffer for a number
    FirstSlots,       \* tokens that sdssplitlen() has room for at first
    StaticBuf         \* bytes of the first buffer of sdscatvprintf()

Power[k \in Nat] == IF k = 0 THEN 1 ELSE Radix * Power[k - 1]

(* The buffer has room for a sign, the digits of a long long and a NUL. *)
ASSUME TextAssumption ==
    /\ Radix \in 2 .. 10 /\ LongLongs \in Nat \ {0} /\ LongLongs % 2 = 0
    /\ SDS_LLSTR_SIZE \in Nat \ {0, 1} /\ LongLongs \div 2 < Power[SDS_LLSTR_SIZE - 2]
    /\ FirstSlots \in Nat \ {0} /\ StaticBuf \in Nat \ {0, 1}

Byte == 0 .. 255
NUL == 0
LF == 10
SP == 32
DQUOTE == 34
SQUOTE == 39
BACKSLASH == 92
MINUS == 45
DIGIT0 == 48
LOWER_A == 97
LOWER_X == 120

(* The escapes with a letter: \n \r \t \a \b *)
Escapes == {<<LF, 110>>, <<13, 114>>, <<9, 116>>, <<7, 97>>, <<8, 98>>}
isprint(c) == c \in 32 .. 126
isspace(c) == c \in 9 .. 13 \/ c = SP

At(s, i) == IF i \in 1 .. Len(s) THEN s[i] ELSE NUL
CString(s) == SubSeq(s, 1, SelectInSeq(s \o <<NUL>>, LAMBDA c : c = NUL) - 1)

-----------------------------------------------------------------------------
(* Quoting: sdscatrepr(). *)

HexDigit(n) == IF n < 10 THEN DIGIT0 + n ELSE LOWER_A + n - 10
BareQuoted(c) == IF isprint(c) THEN <<c>> ELSE <<BACKSLASH, c>>
Quoted(c) ==
    IF c \in {BACKSLASH, DQUOTE} THEN <<BACKSLASH, c>>
    ELSE IF \E e \in Escapes : e[1] = c
    THEN <<BACKSLASH, (CHOOSE e \in Escapes : e[1] = c)[2]>>
    ELSE IF isprint(c) THEN <<c>>
    ELSE <<BACKSLASH, LOWER_X, HexDigit(c \div 16), HexDigit(c % 16)>>
sdscatrepr(s, p) ==
    s \o <<DQUOTE>> \o FlattenSeq([i \in DOMAIN p |-> Quoted(p[i])]) \o <<DQUOTE>>

(* Parsing: sdssplitargs().  Token() is what the loops find from position p *)
(* on; inside double quotes, single quotes or none.                         *)
is_hex_digit(c) == c \in DIGIT0 .. 57 \/ c \in LOWER_A .. 102 \/ c \in 65 .. 70
hex_digit_to_int(c) ==
    IF c <= 57 THEN c - DIGIT0 ELSE IF c >= LOWER_A THEN c - LOWER_A + 10 ELSE c - 55
Unescaped(c) ==
    IF \E e \in Escapes : e[2] = c THEN (CHOOSE e \in Escapes : e[2] = c)[1] ELSE c

Unbalanced == [ok |-> FALSE, next |-> 0, text |-> <<>>]
Complete(p) == [ok |-> TRUE, next |-> p, text |-> <<>>]
Extended(b, rest) == [ok |-> rest.ok, next |-> rest.next, text |-> <<b>> \o rest.text]
(* A closing quote must be followed by a space or by nothing at all. *)
ClosesToken(line, p) == At(line, p + 1) = NUL \/ isspace(At(line, p + 1))
HexEscape(line, p) ==
    /\ At(line, p) = BACKSLASH /\ At(line, p + 1) = LOWER_X
    /\ is_hex_digit(At(line, p + 2)) /\ is_hex_digit(At(line, p + 3))

Token(line) ==
    LET token[at \in (1 .. Len(line) + 1) \X {NUL, DQUOTE, SQUOTE}] ==
        LET p == at[1]
            quote == at[2]
            c == At(line, p)
            next == At(line, p + 1)
            Take(n, b) == Extended(b, token[<<p + n, quote>>])
        IN IF quote = NUL
           THEN IF c \in {SP, LF, 13, 9} THEN Complete(p + 1)
                ELSE IF c = NUL THEN Complete(p)
                ELSE IF c \in {DQUOTE, SQUOTE} THEN token[<<p + 1, c>>]
                ELSE Take(1, c)
           ELSE IF quote = DQUOTE /\ HexEscape(line, p)
                THEN Take(4, 16 * hex_digit_to_int(At(line, p + 2))
                                + hex_digit_to_int(At(line, p + 3)))
                ELSE IF quote = DQUOTE /\ c = BACKSLASH /\ next # NUL
                THEN Take(2, Unescaped(next))
                ELSE IF quote = SQUOTE /\ c = BACKSLASH /\ next = SQUOTE
                THEN Take(2, SQUOTE)
                ELSE IF c = quote
                THEN IF ClosesToken(line, p) THEN Complete(p + 1) ELSE Unbalanced
                ELSE IF c = NUL THEN Unbalanced
                ELSE Take(1, c)
    IN token

Tokens(line) ==
    LET tokens[p \in 1 .. Len(line) + 1] ==
        LET t == Token(line)[<<p, NUL>>]
            rest == tokens[t.next]
        IN IF isspace(At(line, p)) THEN tokens[p + 1]
           ELSE IF At(line, p) = NUL THEN [ok |-> TRUE, args |-> <<>>]
           ELSE IF t.ok /\ rest.ok THEN [ok |-> TRUE, args |-> <<t.text>> \o rest.args]
           ELSE [ok |-> FALSE, args |-> <<>>]
    IN tokens
sdssplitargs(line) == Tokens(CString(line))[1]

-----------------------------------------------------------------------------
(* Formatted output: sdscatvprintf() prints into buffers of doubled sizes   *)
(* until the last byte but one is NUL, and appends a C string.              *)

Printed(out, buflen) == SubSeq(out, 1, IF Len(out) < buflen THEN Len(out) ELSE buflen - 1)
CheckedByte(buflen) == buflen - 1
PrintBuffer(out) ==
    LET grown[buflen \in Nat] ==
        IF At(Printed(out, buflen), CheckedByte(buflen)) = NUL THEN buflen
        ELSE grown[2 * buflen]
    IN grown[StaticBuf]
sdscatvprintf(s, out) == s \o CString(Printed(out, PrintBuffer(out)))

-----------------------------------------------------------------------------
(* Splitting at a separator, from left to right, into an array that is      *)
(* doubled when the next token and the final one might not fit.             *)

Matches(s, sep, j) == j + Len(sep) - 1 <= Len(s) /\ SubSeq(s, j, j + Len(sep) - 1) = sep
LateSlots(slots, elements) == IF slots < elements THEN 2 * slots ELSE slots
NextSlots(slots, elements) == IF slots < elements + 2 THEN 2 * slots ELSE slots

(* The loop from j on, the last token having begun at start. *)
Split(s, sep) ==
    LET split[at \in [start : Nat, j : Nat, elements : Nat, slots : Nat]] ==
        LET j == at.j
            room == NextSlots(at.slots, at.elements)
            after == [start |-> j + Len(sep), j |-> j + Len(sep),
                      elements |-> at.elements + 1, slots |-> room]
            on == [start |-> at.start, j |-> j + 1, elements |-> at.elements, slots |-> room]
            rest == split[after]
        IN IF j > Len(s) - (Len(sep) - 1)
           THEN [tokens |-> <<SubSeq(s, at.start, Len(s))>>, slots |-> at.slots]
           ELSE IF Matches(s, sep, j)
           THEN [tokens |-> <<SubSeq(s, at.start, j - 1)>> \o rest.tokens, slots |-> rest.slots]
           ELSE split[on]
    IN split[[start |-> 1, j |-> 1, elements |-> 0, slots |-> FirstSlots]]

(* No separator: NULL.  An empty string has no tokens. *)
sdssplitlen(s, sep) ==
    IF s = <<>> THEN [tokens |-> <<>>, slots |-> FirstSlots] ELSE Split(s, sep)

sdsjoinsds(argv, sep) ==
    FlattenSeq([i \in DOMAIN argv |-> argv[i] \o (IF i = Len(argv) THEN <<>> ELSE sep)])
sdsjoin(argv, sep) ==
    sdsjoinsds([i \in DOMAIN argv |-> CString(argv[i])], CString(sep))

-----------------------------------------------------------------------------
(* The part of a string between two indices, counted from 0, or from the    *)
(* end when negative.  What lies before the string is taken for its start.  *)

Index(len, i) == IF i >= 0 THEN i ELSE IF len + i < 0 THEN 0 ELSE len + i
OpenEndRange(s, first, last) ==
    LET start == Index(Len(s), first)
        end == Index(Len(s), last)
    IN IF start > end \/ start >= Len(s) THEN <<>>
       ELSE SubSeq(s, start + 1, IF end >= Len(s) THEN Len(s) ELSE end)
sdsrange(s, first, last) ==
    LET start == Index(Len(s), first)
        end == Index(Len(s), last)
    IN IF start > end \/ start >= Len(s) THEN <<>>
       ELSE SubSeq(s, start + 1, IF end >= Len(s) THEN Len(s) ELSE end + 1)

(* strchr() finds the terminator too: NUL is always trimmed. *)
InSet(cset, c) == c = NUL \/ \E i \in DOMAIN CString(cset) : cset[i] = c
sdstrim(s, cset) ==
    LET kept == {i \in DOMAIN s : ~InSet(cset, s[i])}
    IN IF kept = {} THEN <<>>
       ELSE SubSeq(s, CHOOSE i \in kept : \A k \in kept : i <= k,
                      CHOOSE i \in kept : \A k \in kept : i >= k)

sdsmapchars(s, from, to) ==
    [i \in DOMAIN s |->
        IF \E k \in DOMAIN from : from[k] = s[i]
        THEN to[CHOOSE k \in DOMAIN from : from[k] = s[i] /\ \A l \in 1 .. k - 1 : from[l] # s[i]]
        ELSE s[i]]
sdstolower(s) == [i \in DOMAIN s |-> IF s[i] \in 65 .. 90 THEN s[i] + 32 ELSE s[i]]
sdstoupper(s) == [i \in DOMAIN s |-> IF s[i] \in 97 .. 122 THEN s[i] - 32 ELSE s[i]]

(* memcmp() of the common length, then the lengths: negative, 0, positive. *)
sdscmp(s, t) ==
    LET differ == {i \in DOMAIN s \cap DOMAIN t : s[i] # t[i]}
    IN IF differ = {} THEN Len(s) - Len(t)
       ELSE LET i == CHOOSE i \in differ : \A k \in differ : i <= k IN s[i] - t[i]

-----------------------------------------------------------------------------
(* Numbers.  sdsll2str() writes the digits of the magnitude, lowest first,  *)
(* then the sign, and reverses them; the magnitude of the smallest number   *)
(* is what the negation leaves of it modulo 2^64.                           *)

NarrowMagnitude(value) == (IF value < 0 THEN -value ELSE value) % (LongLongs \div 2)
Magnitude(value) == (IF value < 0 THEN -value ELSE value) % LongLongs

LowDigitsFirst[v \in Nat] ==
    <<DIGIT0 + (v % Radix)>> \o
        (IF v \div Radix = 0 THEN <<>> ELSE LowDigitsFirst[v \div Radix])
Sign(value) == IF value < 0 THEN <<MINUS>> ELSE <<>>
sdsll2str(value) == Reverse(LowDigitsFirst[Magnitude(value)] \o Sign(value))
sdsull2str(v) == Reverse(LowDigitsFirst[v])

(* digits10(): comparisons up to twelve digits, then a division. *)
digits10[v \in Nat] ==
    IF v >= Power[12] THEN 12 + digits10[v \div Power[12]]
    ELSE 1 + Cardinality({k \in 1 .. 11 : v >= Power[k]})

(* ll2string() writes two digits at a time from the back of a length it     *)
(* has computed before; "" is its 0 for a buffer that is too small.         *)
PairsFromBack[v \in Nat] ==
    IF v >= Radix * Radix
    THEN PairsFromBack[v \div (Radix * Radix)] \o
            <<DIGIT0 + ((v \div Radix) % Radix), DIGIT0 + (v % Radix)>>
    ELSE IF v < Radix THEN <<DIGIT0 + v>>
    ELSE <<DIGIT0 + (v \div Radix), DIGIT0 + (v % Radix)>>
ll2string(dstlen, value) ==
    IF digits10[Magnitude(value)] + Len(Sign(value)) >= dstlen THEN <<>>
    ELSE Sign(value) \o PairsFromBack[Magnitude(value)]
=============================================================================
