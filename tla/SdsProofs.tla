----------------------------- MODULE SdsProofs -----------------------------
(***************************************************************************)
(* Theorems about Sds: that every call keeps the header and the text in     *)
(* agreement, and what the algorithms of SdsText compute.  The recursive    *)
(* functions of SdsText are CHOOSEn: the first section shows that what      *)
(* satisfies such an equation exists, and what follows from it.             *)
(***************************************************************************)
EXTENDS Sds, SdsHeaderProofs, FiniteSetTheorems, SequenceTheorems, WellFoundedInduction, TLAPS

(* Induction on the values of a measure. *)
LEMMA MeasureInduction ==
    ASSUME NEW D, NEW mu \in [D -> Nat], NEW G,
           \A x \in D : (\A y \in D : mu[y] < mu[x] => y \in G) => x \in G
    PROVE  \A x \in D : x \in G
<1> SUFFICES ASSUME NEW x \in D, x \notin G PROVE FALSE
  OBVIOUS
<1> DEFINE R == OpToRel(<, Nat)
           Bad == {mu[y] : y \in {z \in D : z \notin G}}
<1>1. \A m, k \in Nat : m < k => <<m, k>> \in R
  BY DEF OpToRel
<1>2. Bad \subseteq Nat /\ mu[x] \in Bad
  OBVIOUS
<1>3. PICK k \in Bad : \A m \in Bad : ~ (<<m, k>> \in R)
  <2>1. IsWellFoundedOn(R, Nat)
    BY NatLessThanWellFounded
  <2> HIDE DEF R, Bad
  <2> QED BY <1>2, <2>1, WFMin
<1> HIDE DEF R
<1>4. PICK z \in D : z \notin G /\ mu[z] = k
  BY <1>3
<1>5. PICK y \in D : y \notin G /\ mu[y] < k
  BY <1>4
<1>6. mu[y] \in Bad
  BY <1>5
<1> QED BY <1>1, <1>2, <1>3, <1>5, <1>6

(* What a recursive definition with one call in its body needs: the call is *)
(* for a smaller argument, d[x], except where the recursion stops.          *)
Descends(D, mu, Stop, d) ==
    /\ mu \in [D -> Nat] /\ d \in [D -> D]
    /\ \A x \in D : x \notin Stop => mu[d[x]] < mu[x]

(* The body is b[x] there and F[<<x, v>>] elsewhere, v what the call gives. *)
Body(D, S, b, F) == b \in [D -> S] /\ F \in [D \X S -> S]
Solves(g, D, Stop, d, S, b, F) ==
    /\ g \in [D -> S]
    /\ \A x \in D : g[x] = IF x \in Stop THEN b[x] ELSE F[<<x, g[d[x]]>>]

(* There is a function that satisfies the equation. *)
LEMMA RecursionExists ==
    ASSUME NEW D, NEW mu, NEW Stop, NEW d, Descends(D, mu, Stop, d),
           NEW S, NEW b, NEW F, Body(D, S, b, F)
    PROVE  \E g : Solves(g, D, Stop, d, S, b, F)
<1> DEFINE Equated(g, x) == IF x \in Stop THEN b[x] ELSE F[<<x, g[d[x]]>>]
           Good(g, n) == g \in [D -> S] /\ \A x \in D : mu[x] < n => g[x] = Equated(g, x)
           G == {n \in Nat : \E g : Good(g, n)}
<1>0. b \in [D -> S] /\ F \in [D \X S -> S]
  BY DEF Body
<1>1. \A g \in [D -> S] : \A x \in D : Equated(g, x) \in S
  BY <1>0 DEF Descends
<1>2. \A n \in Nat : n \in G
  <2>1. ASSUME NEW n \in Nat, \A m \in Nat : m < n => m \in G PROVE n \in G
    <3>1. CASE n = 0
      <4>1. Good(b, 0)
        BY <1>0 DEF Descends
      <4> QED BY <3>1, <4>1
    <3>2. CASE n # 0
      <4>1. n - 1 \in Nat /\ n - 1 < n
        BY <3>2
      <4>2. PICK g : Good(g, n - 1)
        BY <2>1, <4>1
      <4> DEFINE fn == [x \in D |-> Equated(g, x)]
      <4>3. fn \in [D -> S] /\ \A x \in D : fn[x] = Equated(g, x)
        BY <1>1, <4>2
      <4>4. ASSUME NEW x \in D, mu[x] < n PROVE Equated(fn, x) = Equated(g, x)
        <5>1. CASE x \in Stop
          BY <5>1
        <5>2. CASE x \notin Stop
          <6>1. d[x] \in D /\ mu[d[x]] < n - 1
            BY <5>2, <4>4 DEF Descends
          <6>2. g[d[x]] = fn[d[x]]
            BY <6>1, <4>2, <4>3
          <6> QED BY <5>2, <6>2
        <5> QED BY <5>1, <5>2
      <4>5. Good(fn, n)
        <5> HIDE DEF fn
        <5> QED BY <4>3, <4>4
      <4> QED BY <4>5
    <3> QED BY <3>1, <3>2
  <2> DEFINE id == [n \in Nat |-> n]
  <2>2. id \in [Nat -> Nat] /\ \A n \in Nat : id[n] = n
    OBVIOUS
  <2> HIDE DEF id, G
  <2> QED BY <2>1, <2>2, MeasureInduction
<1>3. ASSUME NEW n \in Nat, NEW m \in Nat, NEW g, Good(g, n), NEW fn, Good(fn, m)
      PROVE  \A x \in D : mu[x] < n /\ mu[x] < m => g[x] = fn[x]
  <2> DEFINE E == {x \in D : mu[x] < n /\ mu[x] < m => g[x] = fn[x]}
  <2>1. ASSUME NEW x \in D, \A y \in D : mu[y] < mu[x] => y \in E PROVE x \in E
    <3> SUFFICES ASSUME mu[x] < n, mu[x] < m PROVE Equated(g, x) = Equated(fn, x)
      BY <1>3
    <3>1. CASE x \in Stop
      BY <3>1
    <3>2. CASE x \notin Stop
      <4>1. d[x] \in D /\ mu[d[x]] < mu[x] /\ mu[d[x]] \in Nat /\ mu[x] \in Nat
        BY <3>2 DEF Descends
      <4>2. g[d[x]] = fn[d[x]]
        BY <2>1, <4>1
      <4> QED BY <3>2, <4>2
    <3> QED BY <3>1, <3>2
  <2>2. \A x \in D : x \in E
    <3> HIDE DEF E
    <3> QED BY <2>1, MeasureInduction, SMTT(30) DEF Descends
  <2> QED BY <2>2
<1> DEFINE upto == [n \in Nat |-> CHOOSE g : Good(g, n)]
           r == [x \in D |-> upto[mu[x] + 1][x]]
<1>4. \A n \in Nat : Good(upto[n], n)
  <2>1. \A n \in Nat : \E g : Good(g, n)
    BY <1>2, SMTT(30)
  <2> HIDE DEF Good
  <2> QED BY <2>1, SMTT(30)
<1>5. ASSUME NEW x \in D PROVE r[x] \in S /\ r[x] = Equated(r, x)
  <2>1. mu[x] + 1 \in Nat /\ mu[x] < mu[x] + 1
    BY DEF Descends
  <2>2. r[x] = Equated(upto[mu[x] + 1], x) /\ upto[mu[x] + 1] \in [D -> S]
    <3>1. Good(upto[mu[x] + 1], mu[x] + 1)
      BY <1>4, <2>1
    <3> HIDE DEF upto
    <3> QED BY <3>1, <2>1
  <2>3. CASE x \in Stop
    BY <2>2, <2>3, <1>1
  <2>4. CASE x \notin Stop
    <3>1. d[x] \in D /\ mu[d[x]] < mu[x] /\ mu[d[x]] \in Nat /\ mu[x] \in Nat
      BY <2>4 DEF Descends
    <3>2. mu[d[x]] + 1 \in Nat /\ mu[d[x]] < mu[d[x]] + 1 /\ mu[d[x]] < mu[x] + 1
      BY <3>1
    <3>3. upto[mu[x] + 1][d[x]] = upto[mu[d[x]] + 1][d[x]]
      <4>1. Good(upto[mu[x] + 1], mu[x] + 1) /\ Good(upto[mu[d[x]] + 1], mu[d[x]] + 1)
        BY <1>4, <2>1, <3>2
      <4> HIDE DEF Good, upto
      <4> QED BY <1>3, <2>1, <3>1, <3>2, <4>1, SMTT(30)
    <3>4. r[d[x]] = upto[mu[x] + 1][d[x]]
      BY <3>1, <3>3, SMTT(30)
    <3> HIDE DEF upto, r
    <3> QED BY <1>1, <2>2, <2>4, <3>4
  <2> QED BY <2>3, <2>4
<1>6. r \in [D -> S] /\ \A x \in D : r[x] = Equated(r, x)
  BY <1>5
<1> HIDE DEF r, upto
<1>7. Solves(r, D, Stop, d, S, b, F)
  BY <1>6 DEF Solves
<1> QED BY <1>7

(* Whatever satisfies the equation where its own value is of the right type *)
(* is of that type everywhere, and so satisfies it everywhere.              *)
LEMMA RecursionType ==
    ASSUME NEW D, NEW mu, NEW Stop, NEW d, Descends(D, mu, Stop, d), NEW S, NEW f,
           \A x \in D : x \in Stop \/ f[d[x]] \in S => f[x] \in S
    PROVE  \A x \in D : f[x] \in S
<1> DEFINE G == {x \in D : f[x] \in S}
<1>1. ASSUME NEW x \in D, \A y \in D : mu[y] < mu[x] => y \in G PROVE x \in G
  BY <1>1 DEF Descends
<1>2. \A x \in D : x \in G
  <2> HIDE DEF G
  <2> QED BY <1>1, MeasureInduction DEF Descends
<1> QED BY <1>2

(* A set of numbers has its least element. *)
LEMMA LeastNumber ==
    ASSUME NEW I \in SUBSET Nat, I # {}
    PROVE  Min(I) \in I /\ \A i \in I : Min(I) <= i
<1> DEFINE id == [n \in Nat |-> n]
           G == {n \in Nat : n \in I => \E i \in I : \A k \in I : i <= k}
<1>1. ASSUME NEW n \in Nat, \A m \in Nat : id[m] < id[n] => m \in G PROVE n \in G
  <2> SUFFICES ASSUME n \in I, \A i \in I : \E k \in I : ~(i <= k) PROVE FALSE
    OBVIOUS
  <2>1. PICK k \in I : ~(n <= k)
    OBVIOUS
  <2>2. k \in Nat /\ k < n
    BY <2>1
  <2> QED BY <1>1, <2>2
<1>2. \A n \in Nat : n \in G
  <2>1. id \in [Nat -> Nat]
    OBVIOUS
  <2> HIDE DEF id, G
  <2> QED BY <1>1, <2>1, MeasureInduction
<1>3. \E i \in I : \A k \in I : i <= k
  BY <1>2
<1> QED BY <1>3 DEF Min

(* A C string is the part before the first NUL. *)
LEMMA CStringIs ==
    ASSUME NEW S, NEW s \in Seq(S)
    PROVE  \E n \in 0 .. Len(s) : /\ CString(s) = SubSeq(s, 1, n)
                                  /\ \A i \in 1 .. n : s[i] # NUL
                                  /\ n < Len(s) => s[n + 1] = NUL
<1> DEFINE t == s \o <<NUL>>
           I == {i \in 1 .. Len(t) : t[i] = NUL}
<1>1. /\ Len(s) \in Nat /\ Len(t) = Len(s) + 1 /\ t[Len(s) + 1] = NUL
      /\ \A i \in 1 .. Len(s) : t[i] = s[i]
  <2>1. s \in Seq(S \union {NUL}) /\ <<NUL>> \in Seq(S \union {NUL}) /\ Len(<<NUL>>) = 1
    BY SeqDef
  <2> QED BY <2>1, ConcatProperties
<1> HIDE DEF t
<1>2. I \in SUBSET Nat /\ I # {}
  BY <1>1
<1>3. Min(I) \in I /\ \A i \in I : Min(I) <= i
  <2> HIDE DEF I
  <2> QED BY <1>2, LeastNumber
<1>4. CString(s) = SubSeq(s, 1, Min(I) - 1)
  BY <1>2 DEF CString, SelectInSeq, t
<1> DEFINE n == Min(I) - 1
<1>5. n \in 0 .. Len(s) /\ (n < Len(s) => s[n + 1] = NUL)
  BY <1>1, <1>3
<1>6. ASSUME NEW i \in 1 .. n PROVE s[i] # NUL
  BY <1>1, <1>3
<1> QED BY <1>4, <1>5, <1>6

(* g tells what the first i of the sequences come to. *)
Flattens(g, ss) ==
    /\ g[0] = <<>>
    /\ \A i \in 1 .. Len(ss) : g[i] = g[i - 1] \o ss[i]

(* FlattenSeq() is the last of the partial concatenations.                  *)
LEMMA FlattenIs ==
    ASSUME NEW S, NEW ss \in Seq(Seq(S))
    PROVE  \E g \in [0 .. Len(ss) -> Seq(S)] : Flattens(g, ss) /\ FlattenSeq(ss) = g[Len(ss)]
<1> DEFINE n == Len(ss)
           D == 1 .. n
           Def(f) == [i \in D |-> IF i = 1 THEN ss[i] ELSE f[i - 1] \o ss[i]]
           flatten == CHOOSE f : f = Def(f)
           mu == [i \in D |-> i]
           d == [i \in D |-> IF i = 1 THEN 1 ELSE i - 1]
           b == [i \in D |-> ss[i]]
           T == Seq(S)
           Stop == {1}
           F == [p \in D \X T |-> p[2] \o ss[p[1]]]
<1>1. n \in Nat /\ \A i \in D : ss[i] \in Seq(S)
  OBVIOUS
<1>2. CASE n = 0
  <2> DEFINE g == [i \in 0 .. Len(ss) |-> <<>>]
  <2>1. ss = <<>> /\ FlattenSeq(ss) = <<>>
    BY <1>2 DEF FlattenSeq
  <2>2. g \in [0 .. Len(ss) -> Seq(S)] /\ g[0] = <<>> /\ Len(ss) = 0
    BY <1>2
  <2> HIDE DEF g
  <2> QED BY <2>1, <2>2 DEF Flattens
<1>3. CASE n # 0
  <2>1. Descends(D, mu, Stop, d)
    <3>1. mu \in [D -> Nat] /\ d \in [D -> D] /\ \A x \in D : x \notin Stop => mu[d[x]] < mu[x]
      BY <1>1
    <3> HIDE DEF mu, d, Stop
    <3> QED BY <3>1 DEF Descends
  <2>2. Body(D, T, b, F)
    <3>1. b \in [D -> T] /\ F \in [D \X T -> T]
      BY <1>1
    <3> HIDE DEF D, b, F, T
    <3> QED BY <3>1 DEF Body
  <2>3. PICK f : Solves(f, D, Stop, d, T, b, F)
    <3> HIDE DEF D, mu, d, b, F, T, Stop
    <3> QED BY <2>1, <2>2, RecursionExists
  <2>4. f = Def(f)
    <3>1. ASSUME NEW x \in D PROVE f[x] = IF x = 1 THEN ss[x] ELSE f[x - 1] \o ss[x]
      <4>1. CASE x = 1
        BY <2>3, <4>1 DEF Solves
      <4>2. CASE x # 1
        <5>1. d[x] = x - 1 /\ x - 1 \in D
          BY <4>2
        <5>2. f[x - 1] \in T
          <6> HIDE DEF D, T
          <6> QED BY <2>3, <5>1 DEF Solves
        <5>3. F[<<x, f[x - 1]>>] = f[x - 1] \o ss[x]
          BY <5>2
        <5> QED BY <2>3, <4>2, <5>1, <5>3 DEF Solves
      <4> QED BY <4>1, <4>2
    <3>2. f \in [D -> T]
      BY <2>3, SMTT(30) DEF Solves
    <3> HIDE DEF T
    <3> QED BY <3>1, <3>2
  <2>5. flatten = Def(flatten)
    <3>1. \E fn : fn = Def(fn)
      BY <2>4
    <3> QED BY <3>1
  <2>6. FlattenSeq(ss) = flatten[n]
    BY <1>3 DEF FlattenSeq
  <2> HIDE DEF flatten
  <2>7. \A i \in D : flatten[i] = IF i = 1 THEN ss[i] ELSE flatten[i - 1] \o ss[i]
    BY <2>5
  <2>8. \A i \in D : flatten[i] \in T
    <3>1. \A x \in D : x \in Stop \/ flatten[d[x]] \in T => flatten[x] \in T
      <4> SUFFICES ASSUME NEW x \in D, x \in Stop \/ flatten[d[x]] \in T
                   PROVE  flatten[x] \in T
        OBVIOUS
      <4>1. CASE x = 1
        BY <1>1, <2>7, <4>1
      <4>2. CASE x # 1
        <5>1. d[x] = x - 1 /\ flatten[x - 1] \in Seq(S) /\ ss[x] \in Seq(S)
          BY <1>1, <4>2
        <5>2. flatten[x] = flatten[x - 1] \o ss[x]
          BY <2>7, <4>2
        <5> QED BY <5>1, <5>2
      <4> QED BY <4>1, <4>2
    <3> HIDE DEF D, mu, d, T, Stop
    <3> QED BY <2>1, <3>1, RecursionType
  <2> DEFINE g == [i \in 0 .. Len(ss) |-> IF i = 0 THEN <<>> ELSE flatten[i]]
  <2>9. g \in [0 .. Len(ss) -> Seq(S)]
    BY <2>8
  <2>10. g[0] = <<>> /\ FlattenSeq(ss) = g[Len(ss)]
    BY <1>1, <1>3, <2>6
  <2>11. ASSUME NEW i \in 1 .. Len(ss) PROVE g[i] = g[i - 1] \o ss[i]
    <3>1. CASE i = 1
      <4>1. g[i] = ss[i] /\ g[i - 1] = <<>> /\ ss[i] \in Seq(S)
        BY <2>7, <3>1
      <4> HIDE DEF g
      <4> QED BY <4>1, ConcatEmptySeq
    <3>2. CASE i # 1
      <4>1. i \in D /\ i - 1 \in D /\ i - 1 # 0 /\ i # 0
        BY <3>2
      <4>2. g[i] = flatten[i] /\ g[i - 1] = flatten[i - 1]
        BY <4>1
      <4>3. flatten[i] = flatten[i - 1] \o ss[i]
        BY <2>7, <3>2, <4>1
      <4> QED BY <4>2, <4>3
    <3> QED BY <3>1, <3>2
  <2> HIDE DEF g
  <2> QED BY <2>9, <2>10, <2>11 DEF Flattens
<1> QED BY <1>2, <1>3

(* There is only one such table. *)
LEMMA FlattenBy ==
    ASSUME NEW S, NEW ss \in Seq(Seq(S)), NEW g, Flattens(g, ss)
    PROVE  FlattenSeq(ss) = g[Len(ss)]
<1>1. PICK f : Flattens(f, ss) /\ FlattenSeq(ss) = f[Len(ss)]
  BY FlattenIs
<1> DEFINE D == 0 .. Len(ss)
           id == [i \in D |-> i]
           G == {i \in D : f[i] = g[i]}
<1>2. ASSUME NEW i \in D, \A k \in D : id[k] < id[i] => k \in G PROVE i \in G
  <2>1. CASE i = 0
    BY <1>1, <2>1 DEF Flattens
  <2>2. CASE i # 0
    <3>1. i \in 1 .. Len(ss) /\ i - 1 \in D /\ id[i - 1] < id[i]
      BY <2>2
    <3> QED BY <1>1, <1>2, <3>1 DEF Flattens
  <2> QED BY <2>1, <2>2
<1>3. \A i \in D : i \in G
  <2>1. id \in [D -> Nat]
    OBVIOUS
  <2> HIDE DEF D, id, G
  <2> QED BY <1>2, <2>1, MeasureInduction
<1>4. Len(ss) \in D
  OBVIOUS
<1> QED BY <1>1, <1>3, <1>4

(* Flattening sequences over S gives a sequence over S.                     *)
LEMMA FlattenType ==
    ASSUME NEW S, NEW ss \in Seq(Seq(S))
    PROVE  FlattenSeq(ss) \in Seq(S)
<1>1. PICK g \in [0 .. Len(ss) -> Seq(S)] : FlattenSeq(ss) = g[Len(ss)]
  BY FlattenIs
<1>2. Len(ss) \in 0 .. Len(ss)
  OBVIOUS
<1> QED BY <1>1, <1>2

(* Division with remainder, and what gets smaller by it.                    *)
LEMMA Divide ==
    ASSUME NEW v \in Nat, NEW r \in Nat, r > 1
    PROVE  /\ v = r * (v \div r) + (v % r) /\ v \div r \in Nat /\ v % r \in 0 .. r - 1
           /\ v < r => v \div r = 0 /\ v % r = v
           /\ v >= r => v \div r # 0 /\ v \div r < v
<1>1. v = r * (v \div r) + (v % r) /\ v \div r \in Nat /\ v % r \in 0 .. r - 1
  OBVIOUS
<1>2. ASSUME v < r PROVE v \div r = 0 /\ v % r = v
  BY <1>2
<1>3. ASSUME v >= r PROVE v \div r # 0 /\ v \div r < v
  <2>1. v \div r # 0
    BY <1>1, <1>3
  <2>2. v \div r < v
    BY <1>3
  <2> QED BY <2>1, <2>2
<1> QED BY <1>1, <1>2, <1>3

(* The powers of the radix. *)
LEMMA PowerIs ==
    /\ Power[0] = 1
    /\ \A k \in Nat : Power[k] \in Nat \ {0} /\ Power[k + 1] = Radix * Power[k]
<1> DEFINE Def(f) == [k \in Nat |-> IF k = 0 THEN 1 ELSE Radix * f[k - 1]]
           mu == [k \in Nat |-> k]
           d == [k \in Nat |-> IF k = 0 THEN 0 ELSE k - 1]
           b == [k \in Nat |-> 1]
           Stop == {0}
           T == Nat \ {0}
           F == [p \in Nat \X T |-> Radix * p[2]]
<1>0. Radix \in Nat /\ Radix > 0
  BY TextAssumption
<1>1. Descends(Nat, mu, Stop, d)
  <2>1. mu \in [Nat -> Nat] /\ d \in [Nat -> Nat] /\ \A x \in Nat : x \notin Stop => mu[d[x]] < mu[x]
    OBVIOUS
  <2> HIDE DEF mu, d, Stop
  <2> QED BY <2>1 DEF Descends
<1>2. Body(Nat, T, b, F)
  <2>1. \A n \in T : Radix * n \in T
    BY <1>0
  <2>2. b \in [Nat -> T] /\ F \in [Nat \X T -> T]
    BY <2>1
  <2> HIDE DEF b, F, T
  <2> QED BY <2>2 DEF Body
<1>3. PICK f : Solves(f, Nat, Stop, d, T, b, F)
  <2> HIDE DEF mu, d, b, F, T, Stop
  <2> QED BY <1>1, <1>2, RecursionExists
<1>4. f = Def(f)
  <2>1. ASSUME NEW k \in Nat PROVE f[k] = IF k = 0 THEN 1 ELSE Radix * f[k - 1]
    <3>1. CASE k = 0
      BY <1>3, <3>1 DEF Solves
    <3>2. CASE k # 0
      <4>1. d[k] = k - 1 /\ k - 1 \in Nat
        BY <3>2
      <4>2. f[k - 1] \in T
        BY <1>3, <4>1 DEF Solves
      <4>3. F[<<k, f[k - 1]>>] = Radix * f[k - 1]
        BY <4>2
      <4> QED BY <1>3, <3>2, <4>1, <4>3 DEF Solves
    <3> QED BY <3>1, <3>2
  <2>2. f \in [Nat -> T]
    BY <1>3 DEF Solves
  <2> HIDE DEF T
  <2> QED BY <2>1, <2>2
<1>5. Power = Def(Power)
  <2>1. \E fn : fn = Def(fn)
    BY <1>4
  <2>2. Power = CHOOSE fn : fn = Def(fn)
    BY DEF Power
  <2> QED BY <2>1, <2>2
<1>6. \A k \in Nat : Power[k] = IF k = 0 THEN 1 ELSE Radix * Power[k - 1]
  BY <1>5
<1>7. \A k \in Nat : Power[k] \in T
  <2>1. \A x \in Nat : x \in Stop \/ Power[d[x]] \in T => Power[x] \in T
    <3> SUFFICES ASSUME NEW x \in Nat, x \in Stop \/ Power[d[x]] \in T
                 PROVE  Power[x] \in T
      OBVIOUS
    <3>1. CASE x = 0
      BY <1>6, <3>1
    <3>2. CASE x # 0
      <4>1. d[x] = x - 1 /\ Power[x - 1] \in Nat \ {0}
        BY <3>2
      <4>2. Power[x] = Radix * Power[x - 1]
        BY <1>6, <3>2
      <4> QED BY <1>0, <4>1, <4>2
    <3> QED BY <3>1, <3>2
  <2> HIDE DEF mu, d, T, Stop
  <2> QED BY <1>1, <2>1, RecursionType
<1>8. \A k \in Nat : Power[k + 1] = Radix * Power[k]
  <2> SUFFICES ASSUME NEW k \in Nat PROVE Power[k + 1] = Radix * Power[k]
    OBVIOUS
  <2>1. k + 1 \in Nat /\ k + 1 # 0 /\ (k + 1) - 1 = k
    OBVIOUS
  <2> QED BY <1>6, <2>1
<1> QED BY <1>6, <1>7, <1>8

Digits == DIGIT0 .. DIGIT0 + 9

(* The bytes of digits, of the sign and of NUL.                             *)
LEMMA DigitBytes ==
    /\ Digits \subseteq Byte /\ MINUS \in Byte /\ NUL \in Byte
    /\ \A n \in Nat : n < Radix => DIGIT0 + n \in Digits
  BY TextAssumption DEF Digits, DIGIT0, MINUS, Byte, NUL

(* The digits of a number, lowest first. *)
LEMMA LowDigitsAre ==
    \A v \in Nat :
        /\ LowDigitsFirst[v] \in Seq(Digits)
        /\ v < Radix => LowDigitsFirst[v] = <<DIGIT0 + v>>
        /\ v >= Radix =>
             LowDigitsFirst[v] = <<DIGIT0 + (v % Radix)>> \o LowDigitsFirst[v \div Radix]
<1> DEFINE Rest(f, v) == IF v \div Radix = 0 THEN <<>> ELSE f[v \div Radix]
           Def(f) == [v \in Nat |-> <<DIGIT0 + (v % Radix)>> \o Rest(f, v)]
           mu == [v \in Nat |-> v]
           d == [v \in Nat |-> v \div Radix]
           Stop == {v \in Nat : v \div Radix = 0}
           T == Seq(Digits)
           b == [v \in Nat |-> <<DIGIT0 + (v % Radix)>>]
           F == [p \in Nat \X T |-> <<DIGIT0 + (p[1] % Radix)>> \o p[2]]
<1>0. Radix \in Nat /\ Radix > 1
  BY TextAssumption
<1>a. \A v \in Nat : /\ <<DIGIT0 + (v % Radix)>> \in T /\ v \div Radix \in Nat
                     /\ v < Radix => v \div Radix = 0 /\ v % Radix = v
                     /\ v >= Radix => v \div Radix # 0 /\ v \div Radix < v
  <2> SUFFICES ASSUME NEW v \in Nat
               PROVE  /\ DIGIT0 + (v % Radix) \in Digits /\ v \div Radix \in Nat
                      /\ v < Radix => v \div Radix = 0 /\ v % Radix = v
                      /\ v >= Radix => v \div Radix # 0 /\ v \div Radix < v
    OBVIOUS
  <2>1. v % Radix \in Nat /\ v % Radix < Radix
    BY <1>0, Divide
  <2> QED BY <1>0, <2>1, Divide, DigitBytes
<1>1. Descends(Nat, mu, Stop, d)
  <2>1. mu \in [Nat -> Nat] /\ d \in [Nat -> Nat] /\ \A x \in Nat : x \notin Stop => mu[d[x]] < mu[x]
    BY <1>0, <1>a
  <2> HIDE DEF mu, d, Stop
  <2> QED BY <2>1 DEF Descends
<1>2. Body(Nat, T, b, F)
  <2>1. \A p \in Nat \X T : <<DIGIT0 + (p[1] % Radix)>> \o p[2] \in T
    <3> SUFFICES ASSUME NEW v \in Nat, NEW t \in T PROVE <<DIGIT0 + (v % Radix)>> \o t \in T
      OBVIOUS
    <3> QED BY <1>a, ConcatProperties
  <2>2. b \in [Nat -> T] /\ F \in [Nat \X T -> T]
    BY <1>a, <2>1
  <2> HIDE DEF b, F, T
  <2> QED BY <2>2 DEF Body
<1>3. PICK f : Solves(f, Nat, Stop, d, T, b, F)
  <2> HIDE DEF mu, d, b, F, T, Stop
  <2> QED BY <1>1, <1>2, RecursionExists
<1>4. f = Def(f)
  <2>1. ASSUME NEW v \in Nat PROVE f[v] = <<DIGIT0 + (v % Radix)>> \o Rest(f, v)
    <3>1. CASE v \in Stop
      <4>1. f[v] = b[v]
        BY <1>3, <3>1 DEF Solves
      <4>2. <<DIGIT0 + (v % Radix)>> \in Seq(Digits)
        BY <1>a
      <4>3. f[v] = <<DIGIT0 + (v % Radix)>> /\ Rest(f, v) = <<>>
        BY <3>1, <4>1
      <4> HIDE DEF Rest
      <4> QED BY <4>2, <4>3, ConcatEmptySeq
    <3>2. CASE v \notin Stop
      <4>1. f[v] = F[<<v, f[d[v]]>>] /\ f \in [Nat -> T]
        BY <1>3, <3>2 DEF Solves
      <4>2. d[v] = v \div Radix /\ v \div Radix \in Nat /\ v \div Radix # 0
        BY <3>2, <1>a
      <4>3. f[v \div Radix] \in T /\ Rest(f, v) = f[v \div Radix]
        <5> HIDE DEF T
        <5> QED BY <4>1, <4>2
      <4>4. F[<<v, f[v \div Radix]>>] = <<DIGIT0 + (v % Radix)>> \o f[v \div Radix]
        BY <4>3, SMTT(30)
      <4> HIDE DEF F, Rest
      <4> QED BY <4>1, <4>2, <4>3, <4>4
    <3> QED BY <3>1, <3>2
  <2>2. f \in [Nat -> T]
    BY <1>3, SMTT(30) DEF Solves
  <2> HIDE DEF T, Rest
  <2> QED BY <2>1, <2>2
<1>5. LowDigitsFirst = Def(LowDigitsFirst)
  <2>1. \E fn : fn = Def(fn)
    BY <1>4
  <2>2. LowDigitsFirst = CHOOSE fn : fn = Def(fn)
    BY DEF LowDigitsFirst
  <2> QED BY <2>1, <2>2
<1>6. \A v \in Nat : LowDigitsFirst[v] = <<DIGIT0 + (v % Radix)>> \o Rest(LowDigitsFirst, v)
  <2> HIDE DEF Rest
  <2> QED BY <1>5
<1>7. ASSUME NEW v \in Nat, v < Radix PROVE LowDigitsFirst[v] = <<DIGIT0 + v>>
  <2>1. Rest(LowDigitsFirst, v) = <<>> /\ v % Radix = v /\ <<DIGIT0 + (v % Radix)>> \in Seq(Digits)
    BY <1>a, <1>7
  <2> HIDE DEF Rest
  <2> QED BY <1>6, <2>1, ConcatEmptySeq
<1>8. ASSUME NEW v \in Nat, v >= Radix
      PROVE  LowDigitsFirst[v] = <<DIGIT0 + (v % Radix)>> \o LowDigitsFirst[v \div Radix]
  <2>1. Rest(LowDigitsFirst, v) = LowDigitsFirst[v \div Radix]
    BY <1>a, <1>8, <1>0
  <2> HIDE DEF Rest
  <2> QED BY <1>6, <2>1
<1>9. \A v \in Nat : LowDigitsFirst[v] \in T
  <2>1. ASSUME NEW v \in Nat, v \in Stop \/ LowDigitsFirst[d[v]] \in T PROVE LowDigitsFirst[v] \in T
    <3>1. CASE v < Radix
      BY <1>7, <1>a, <3>1
    <3>2. CASE v >= Radix
      <4>1. LowDigitsFirst[v \div Radix] \in Seq(Digits) /\ <<DIGIT0 + (v % Radix)>> \in Seq(Digits)
        BY <1>0, <1>a, <2>1, <3>2
      <4> QED BY <1>8, <3>2, <4>1, ConcatProperties
    <3> QED BY <1>0, <3>1, <3>2
  <2> HIDE DEF mu, d, T, Stop
  <2> QED BY <1>1, <2>1, RecursionType
<1> QED BY <1>7, <1>8, <1>9

(* Induction over a set instead of a predicate.                             *)
LEMMA NatSetInduction ==
    ASSUME NEW G, 0 \in G, \A n \in Nat : n \in G => n + 1 \in G
    PROVE  \A n \in Nat : n \in G
<1> DEFINE id == [n \in Nat |-> n]
<1>1. ASSUME NEW n \in Nat, \A m \in Nat : id[m] < id[n] => m \in G PROVE n \in G
  <2>1. CASE n = 0
    BY <2>1
  <2>2. CASE n # 0
    <3>1. n - 1 \in Nat /\ id[n - 1] < id[n] /\ (n - 1) + 1 = n
      BY <2>2
    <3> QED BY <1>1, <3>1
  <2> QED BY <2>1, <2>2
<1>2. id \in [Nat -> Nat]
  OBVIOUS
<1> HIDE DEF id
<1> QED BY <1>1, <1>2, MeasureInduction

(* Reverse() keeps the type and the length.                                 *)
LEMMA ReverseIs ==
    ASSUME NEW S, NEW s \in Seq(S)
    PROVE  /\ Reverse(s) \in Seq(S) /\ Len(Reverse(s)) = Len(s)
           /\ \A i \in 1 .. Len(s) : Reverse(s)[i] = s[Len(s) - i + 1]
  BY DEF Reverse

(* Products with the same factor are ordered as the other factors.          *)
LEMMA Monotone ==
    ASSUME NEW r \in Nat, NEW p \in Nat, NEW q \in Nat
    PROVE  /\ q <= p => r * q <= r * p
           /\ r * q < r * p => q < p
<1>1. ASSUME q <= p PROVE r * q <= r * p
  <2>1. p - q \in Nat /\ p = q + (p - q)
    BY <1>1
  <2>2. r * p = r * q + r * (p - q)
    BY <2>1
  <2>3. r * (p - q) \in Nat /\ r * q \in Nat /\ r * p \in Nat
    BY <2>1
  <2> QED BY <2>2, <2>3
<1>2. ASSUME r * q < r * p PROVE q < p
  <2>1. ASSUME NEW x \in Nat, NEW y \in Nat, x <= y PROVE r * x <= r * y
    <3>1. y - x \in Nat /\ y = x + (y - x)
      BY <2>1
    <3>2. r * y = r * x + r * (y - x)
      BY <3>1
    <3>3. r * (y - x) \in Nat /\ r * x \in Nat /\ r * y \in Nat
      BY <3>1
    <3> QED BY <3>2, <3>3
  <2>2. ASSUME p <= q PROVE FALSE
    <3>1. r * p <= r * q /\ r * p \in Nat /\ r * q \in Nat
      BY <2>1, <2>2
    <3> QED BY <1>2, <3>1
  <2> QED BY <2>2
<1> QED BY <1>1, <1>2

(* Dividing by the radix takes one off the exponent. *)
LEMMA DivideBelowPower ==
    ASSUME NEW v \in Nat, NEW k \in Nat
    PROVE  v \div Radix \in Nat /\ (v < Power[k + 1] <=> v \div Radix < Power[k])
<1> DEFINE q == v \div Radix
           m == v % Radix
           P == Power[k]
<1>0. Radix \in Nat /\ Radix > 1
  BY TextAssumption
<1>a. q \in Nat /\ m \in 0 .. Radix - 1 /\ v = Radix * q + m
  <2> HIDE DEF q, m
  <2> QED BY <1>0, Divide DEF q, m
<1>b. P \in Nat /\ Power[k + 1] = Radix * P
  BY PowerIs
<1>1. /\ Radix \in Nat /\ Radix > 1 /\ q \in Nat /\ m \in Nat /\ m < Radix /\ v = Radix * q + m
      /\ P \in Nat /\ Power[k + 1] = Radix * P
  <2> HIDE DEF q, m, P
  <2> QED BY <1>0, <1>a, <1>b
<1> HIDE DEF q, m, P
<1>2. Radix * q \in Nat /\ Radix * P \in Nat /\ Radix * (q + 1) = Radix * q + Radix
  BY <1>1
<1>3. ASSUME v < Radix * P PROVE q < P
  <2>1. Radix * q < Radix * P
    BY <1>1, <1>2, <1>3
  <2> QED BY <1>1, <2>1, Monotone
<1>4. ASSUME q < P PROVE v < Radix * P
  <2>1. Radix * (q + 1) <= Radix * P
    BY <1>1, <1>4, Monotone
  <2> QED BY <1>1, <1>2, <2>1
<1> QED BY <1>1, <1>3, <1>4 DEF q, P

(* v is written with n digits. *)
HasDigits(v, n) == n > 0 /\ v < Power[n] /\ (n > 1 => v >= Power[n - 1])

(* sdsll2str() writes as many digits as the number has.                     *)
LEMMA LowDigitsLen ==
    ASSUME NEW v \in Nat
    PROVE  Len(LowDigitsFirst[v]) \in Nat \ {0} /\ HasDigits(v, Len(LowDigitsFirst[v]))
<1> DEFINE L(x) == Len(LowDigitsFirst[x])
           G == {x \in Nat : L(x) \in Nat /\ HasDigits(x, L(x))}
           id == [x \in Nat |-> x]
<1>0. Radix \in Nat /\ Radix > 1 /\ Power[1] = Radix /\ Power[0] = 1
  <2>1. Radix \in Nat /\ Radix > 1 /\ Power[0] = 1 /\ Power[0 + 1] = Radix * Power[0]
    BY TextAssumption, PowerIs
  <2> QED BY <2>1
<1>1. ASSUME NEW x \in Nat, \A y \in Nat : id[y] < id[x] => y \in G PROVE x \in G
  <2>1. CASE x < Radix
    <3>1. LowDigitsFirst[x] = <<DIGIT0 + x>>
      BY <2>1, LowDigitsAre
    <3>2. L(x) = 1
      BY <3>1
    <3>3. HasDigits(x, 1)
      BY <1>0, <2>1 DEF HasDigits
    <3> HIDE DEF L
    <3> QED BY <3>2, <3>3
  <2>2. CASE x >= Radix
    <3> DEFINE q == x \div Radix
    <3>1. q \in Nat /\ id[q] < id[x] /\ q # 0
      BY <1>0, <2>2, Divide
    <3>2. L(q) \in Nat /\ HasDigits(q, L(q))
      BY <1>1, <3>1
    <3>3. L(x) = 1 + L(q)
      <4>1. /\ LowDigitsFirst[x] = <<DIGIT0 + (x % Radix)>> \o LowDigitsFirst[q]
            /\ LowDigitsFirst[q] \in Seq(Digits)
        BY <2>2, <3>1, LowDigitsAre
      <4>2. <<DIGIT0 + (x % Radix)>> \in Seq(Digits) /\ Len(<<DIGIT0 + (x % Radix)>>) = 1
        <5>1. x % Radix \in Nat /\ x % Radix < Radix
          BY <1>0, Divide
        <5>2. DIGIT0 + (x % Radix) \in Digits
          BY <5>1, DigitBytes
        <5> QED BY <5>2
      <4> QED BY <4>1, <4>2, ConcatProperties
    <3> DEFINE l == L(q)
    <3>4. l \in Nat /\ HasDigits(q, l) /\ L(x) = l + 1
      BY <3>2, <3>3
    <3> HIDE DEF q, l
    <3>5. x < Power[l + 1]
      BY <3>4, DivideBelowPower DEF HasDigits, q
    <3>6. x >= Power[l]
      <4>1. CASE l = 1
        BY <1>0, <2>2, <4>1
      <4>2. CASE l > 1
        <5>1. l - 1 \in Nat /\ (l - 1) + 1 = l /\ ~(q < Power[l - 1])
          <6>1. l - 1 \in Nat /\ q >= Power[l - 1]
            BY <3>4, <4>2 DEF HasDigits
          <6>2. Power[l - 1] \in Nat
            BY <6>1, PowerIs
          <6>3. q \in Nat
            BY <3>1
          <6> DEFINE P == Power[l - 1]
          <6>4. q >= P /\ P \in Nat
            BY <6>1, <6>2
          <6>5. ~(q < P)
            <7> HIDE DEF P
            <7> QED BY <6>3, <6>4
          <6>6. l - 1 \in Nat /\ (l - 1) + 1 = l
            BY <3>4, <4>2
          <6> QED BY <6>5, <6>6
        <5>2. ~(x < Power[(l - 1) + 1])
          BY <5>1, DivideBelowPower DEF q
        <5>3. Power[l] \in Nat
          BY <3>4, PowerIs
        <5> QED BY <5>1, <5>2, <5>3
      <4> QED BY <3>4, <4>1, <4>2 DEF HasDigits
    <3>7. HasDigits(x, l + 1)
      BY <3>4, <3>5, <3>6 DEF HasDigits
    <3> QED BY <3>4, <3>7
  <2> QED BY <1>0, <2>1, <2>2
<1>2. \A x \in Nat : x \in G
  <2>1. id \in [Nat -> Nat]
    OBVIOUS
  <2> HIDE DEF id, G
  <2> QED BY <1>1, <2>1, MeasureInduction
<1> QED BY <1>2 DEF HasDigits

(* The powers grow. *)
LEMMA PowerMonotone ==
    ASSUME NEW n \in Nat, NEW k \in Nat, n <= k
    PROVE  Power[n] <= Power[k]
<1> DEFINE G == {j \in Nat : Power[n] <= Power[n + j]}
<1>1. 0 \in G
  BY PowerIs
<1>2. ASSUME NEW j \in Nat, j \in G PROVE j + 1 \in G
  <2>1. /\ Power[(n + j) + 1] = Radix * Power[n + j] /\ Power[n + j] \in Nat /\ Power[n] \in Nat
        /\ Radix \in Nat /\ Radix > 1
    BY PowerIs, TextAssumption
  <2>2. Radix * Power[n + j] >= 1 * Power[n + j]
    BY <2>1
  <2> QED BY <1>2, <2>1, <2>2
<1>3. k - n \in G
  <2> HIDE DEF G
  <2> QED BY <1>1, <1>2, NatSetInduction
<1> QED BY <1>3

(* The number of digits is determined. *)
LEMMA DigitsUnique ==
    ASSUME NEW v \in Nat, NEW n \in Nat, NEW k \in Nat, HasDigits(v, n), HasDigits(v, k)
    PROVE  n = k
<1>1. ASSUME NEW x \in Nat, NEW y \in Nat, HasDigits(v, x), HasDigits(v, y), x < y PROVE FALSE
  <2>1. v < Power[x] /\ v >= Power[y - 1] /\ y - 1 \in Nat /\ x <= y - 1
    BY <1>1 DEF HasDigits
  <2>2. Power[x] <= Power[y - 1] /\ Power[x] \in Nat /\ Power[y - 1] \in Nat
    BY <2>1, PowerMonotone, PowerIs
  <2> QED BY <2>1, <2>2
<1> QED BY <1>1

(* A number of the program, and what it takes. *)
LEMMA MagnitudeIs ==
    ASSUME NEW v \in Numbers
    PROVE  /\ v \in Int
           /\ Magnitude(v) = (IF v < 0 THEN -v ELSE v) /\ Magnitude(v) \in Nat
           /\ Magnitude(v) < Power[SDS_LLSTR_SIZE - 2]
<1> DEFINE half == LongLongs \div 2
           m == IF v < 0 THEN -v ELSE v
<1>1. half \in Nat /\ half < LongLongs /\ half < Power[SDS_LLSTR_SIZE - 2]
  BY TextAssumption
<1>2. v \in Int /\ m \in Nat /\ m <= half
  BY <1>1, SdsAssumption
<1>3. m < LongLongs /\ LongLongs \in Nat
  BY <1>1, <1>2, TextAssumption
<1>4. Power[SDS_LLSTR_SIZE - 2] \in Nat
  BY PowerIs, TextAssumption
<1>5. Magnitude(v) = m % LongLongs
  BY DEF Magnitude
<1> HIDE DEF half, m
<1>6. m % LongLongs = m
  BY <1>2, <1>3
<1> QED BY <1>1, <1>2, <1>4, <1>5, <1>6 DEF m

(* A number fits the buffer of sdsfromlonglong(), its NUL included.         *)
LEMMA NumberFits ==
    ASSUME NEW v \in Numbers
    PROVE  /\ sdsll2str(v) \in Seq(Byte) /\ Len(sdsll2str(v)) < SDS_LLSTR_SIZE
           /\ sdsll2str(v) # <<>>
<1> DEFINE m == Magnitude(v)
           n == SDS_LLSTR_SIZE - 2
           t == LowDigitsFirst[m]
<1>1. m \in Nat /\ m < Power[n] /\ n \in Nat
  BY MagnitudeIs, TextAssumption
<1>2. t \in Seq(Byte) /\ Len(t) \in Nat \ {0} /\ HasDigits(m, Len(t))
  <2>1. t \in Seq(Digits) /\ Digits \subseteq Byte
    BY <1>1, LowDigitsAre, DigitBytes
  <2> HIDE DEF t, m
  <2>2. t \in Seq(Byte)
    BY <2>1
  <2> QED BY <1>1, <2>2, LowDigitsLen DEF t
<1> HIDE DEF t, m, n
<1>3. Len(t) <= n
  <2>1. ASSUME Len(t) > n PROVE FALSE
    <3>1. Len(t) - 1 \in Nat /\ n <= Len(t) - 1
      BY <1>1, <1>2, <2>1
    <3>2. Power[n] <= Power[Len(t) - 1] /\ Power[n] \in Nat /\ Power[Len(t) - 1] \in Nat
      BY <1>1, <3>1, PowerMonotone, PowerIs
    <3>3. CASE n = 0
      <4>1. m = 0 /\ Power[0] = 1
        BY <1>1, <3>3, PowerIs
      <4>2. LongLongs \div 2 < 1
        BY <4>1, <3>3, TextAssumption DEF n
      <4> QED BY <4>2, TextAssumption
    <3>4. CASE n # 0
      BY <1>1, <1>2, <3>1, <3>2, <3>4 DEF HasDigits
    <3> QED BY <3>3, <3>4
  <2> QED BY <1>1, <1>2, <2>1
<1>4. Sign(v) \in Seq(Byte) /\ Len(Sign(v)) <= 1 /\ Len(Sign(v)) \in Nat
  BY DigitBytes DEF Sign
<1>5. t \o Sign(v) \in Seq(Byte) /\ Len(t \o Sign(v)) = Len(t) + Len(Sign(v))
  BY <1>2, <1>4, ConcatProperties
<1>6. sdsll2str(v) = Reverse(t \o Sign(v))
  BY DEF sdsll2str, t, m
<1>7. sdsll2str(v) \in Seq(Byte) /\ Len(sdsll2str(v)) = Len(t) + Len(Sign(v))
  <2> HIDE DEF Sign
  <2> QED BY <1>5, <1>6, ReverseIs
<1>8. SDS_LLSTR_SIZE \in Nat
  BY TextAssumption
<1> QED BY <1>1, <1>2, <1>3, <1>4, <1>7, <1>8 DEF n

(* The greatest element of a set of numbers that has the bound n + 1. *)
LEMMA MaxIsBound ==
    ASSUME NEW n \in Nat, NEW s \in SUBSET (1 .. n + 1), n + 1 \in s
    PROVE  Max(s) = n + 1
<1>1. \A y \in s : n + 1 >= y
  OBVIOUS
<1>2. \A x \in s : (\A y \in s : x >= y) => x = n + 1
  OBVIOUS
<1> QED BY <1>1, <1>2, Zenon DEF Max

(* A set of positive numbers below a bound has its greatest element. *)
LEMMA MaxInside ==
    ASSUME NEW n \in Nat, NEW s \in SUBSET (1 .. n), s # {}
    PROVE  Max(s) \in s
<1> DEFINE G == {k \in Nat : \A t \in SUBSET (1 .. k) : t # {} => Max(t) \in t}
<1>1. 0 \in G
  <2>1. 1 .. 0 = {}
    OBVIOUS
  <2>2. \A t \in SUBSET (1 .. 0) : t = {}
    BY <2>1
  <2> QED BY <2>2
<1>2. ASSUME NEW k \in Nat, k \in G PROVE k + 1 \in G
  <2> SUFFICES ASSUME NEW t \in SUBSET (1 .. k + 1), t # {} PROVE Max(t) \in t
    OBVIOUS
  <2>1. CASE k + 1 \in t
    BY <2>1, MaxIsBound
  <2>2. CASE k + 1 \notin t
    <3>1. t \in SUBSET (1 .. k)
      <4>1. \A x \in t : x \in 1 .. k
        BY <2>2
      <4> QED BY <4>1
    <3> QED BY <3>1, <1>2
  <2> QED BY <2>1, <2>2
<1>3. n \in G
  <2> HIDE DEF G
  <2> QED BY <1>1, <1>2, NatSetInduction
<1> QED BY <1>3

(* g is what a fold of F over ms computes for every set s of positions: it  *)
(* takes them from the lowest to the highest.                               *)
FoldsBy(g, F, base, ms, n, S) ==
    /\ g \in [SUBSET (1 .. n) -> S]
    /\ \A s \in SUBSET (1 .. n) :
          g[s] = IF s = {} THEN base ELSE F[<<g[s \ {Max(s)}], ms[Max(s)]>>]

(* There is such a g: it exists for n positions if it does for n - 1. *)
LEMMA FoldExists ==
    ASSUME NEW S, NEW T, NEW base \in S, NEW F \in [S \X T -> S], NEW ms \in Seq(T)
    PROVE  \E g : FoldsBy(g, F, base, ms, Len(ms), S)
<1> DEFINE G == {n \in Nat : n <= Len(ms) => \E g : FoldsBy(g, F, base, ms, n, S)}
<1>1. 0 \in G
  <2>1. SUBSET (1 .. 0) = {{}}
    OBVIOUS
  <2>2. FoldsBy([s \in SUBSET (1 .. 0) |-> base], F, base, ms, 0, S)
    BY <2>1 DEF FoldsBy
  <2> QED BY <2>2
<1>2. ASSUME NEW n \in Nat, n + 1 <= Len(ms), NEW g, FoldsBy(g, F, base, ms, n, S)
      PROVE  \E fn : FoldsBy(fn, F, base, ms, n + 1, S)
  <2> DEFINE fn == [s \in SUBSET (1 .. n + 1) |->
                     IF n + 1 \in s THEN F[<<g[s \ {n + 1}], ms[n + 1]>>] ELSE g[s]]
  <2>0. n + 1 \in 1 .. Len(ms) /\ ms[n + 1] \in T
    BY <1>2
  <2>a. \A s \in SUBSET (1 .. n + 1) : /\ s \ {n + 1} \in SUBSET (1 .. n)
                                       /\ n + 1 \notin s => s \in SUBSET (1 .. n)
    <3> SUFFICES ASSUME NEW s \in SUBSET (1 .. n + 1) PROVE s \ {n + 1} \subseteq 1 .. n
      OBVIOUS
    <3>1. \A x \in s \ {n + 1} : x \in 1 .. n
      OBVIOUS
    <3> QED BY <3>1
  <2>b. \A s \in SUBSET (1 .. n) :
           /\ g[s] \in S
           /\ g[s] = IF s = {} THEN base ELSE F[<<g[s \ {Max(s)}], ms[Max(s)]>>]
    BY <1>2 DEF FoldsBy
  <2>c. \A s \in SUBSET (1 .. n + 1) :
           fn[s] = IF n + 1 \in s THEN F[<<g[s \ {n + 1}], ms[n + 1]>>] ELSE g[s]
    OBVIOUS
  <2>1. fn \in [SUBSET (1 .. n + 1) -> S]
    <3> SUFFICES ASSUME NEW s \in SUBSET (1 .. n + 1)
                 PROVE  (IF n + 1 \in s THEN F[<<g[s \ {n + 1}], ms[n + 1]>>] ELSE g[s]) \in S
      OBVIOUS
    <3>1. g[s \ {n + 1}] \in S /\ (n + 1 \notin s => g[s] \in S)
      BY <2>a, <2>b
    <3>2. F[<<g[s \ {n + 1}], ms[n + 1]>>] \in S
      BY <3>1, <2>0
    <3> QED BY <3>1, <3>2
  <2> HIDE DEF fn
  <2>2. ASSUME NEW s \in SUBSET (1 .. n + 1)
        PROVE  fn[s] = IF s = {} THEN base ELSE F[<<fn[s \ {Max(s)}], ms[Max(s)]>>]
    <3>1. CASE n + 1 \in s
      <4>1. Max(s) = n + 1 /\ s # {}
        BY <3>1, MaxIsBound
      <4>2. s \ {n + 1} \in SUBSET (1 .. n + 1) /\ n + 1 \notin s \ {n + 1}
        OBVIOUS
      <4>3. fn[s \ {n + 1}] = g[s \ {n + 1}]
        BY <4>2, <2>c
      <4> QED BY <3>1, <4>1, <4>3, <2>c
    <3>2. CASE n + 1 \notin s
      <4>1. s \in SUBSET (1 .. n) /\ s \ {Max(s)} \in SUBSET (1 .. n + 1)
        BY <3>2, <2>a
      <4>2. fn[s \ {Max(s)}] = g[s \ {Max(s)}] /\ fn[s] = g[s]
        BY <4>1, <3>2, <2>c
      <4> QED BY <4>1, <4>2, <2>b
    <3> QED BY <3>1, <3>2
  <2>3. FoldsBy(fn, F, base, ms, n + 1, S)
    BY <2>1, <2>2 DEF FoldsBy
  <2> QED BY <2>3
<1>3. ASSUME NEW n \in Nat, n \in G PROVE n + 1 \in G
  BY <1>2, <1>3
<1>4. Len(ms) \in G
  <2> HIDE DEF G
  <2> QED BY <1>1, <1>3, NatSetInduction
<1> QED BY <1>4


-----------------------------------------------------------------------------
(* The bound on the strings of the program. *)

IsLongest(longest) ==
    /\ MaxLen <= longest /\ \A n \in Sizes : n <= longest
    /\ \A t \in Corpus \union Pieces : Len(t) <= longest
    /\ Enlarged(2 * longest) <= TypeMax[SDS_TYPE_64]
Longest == CHOOSE longest \in SDS_LLSTR_SIZE .. TypeMax[SDS_TYPE_64] : IsLongest(longest)

(* There is a length that no text exceeds and the largest header can store. *)
LEMMA LongestIs ==
    Longest \in Nat /\ Longest >= SDS_LLSTR_SIZE /\ Longest >= 2
    /\ Longest <= TypeMax[SDS_TYPE_64] /\ IsLongest(Longest)
<1>1. \E longest \in SDS_LLSTR_SIZE .. TypeMax[SDS_TYPE_64] : IsLongest(longest)
  BY SdsAssumption DEF IsLongest
<1>2. Longest \in SDS_LLSTR_SIZE .. TypeMax[SDS_TYPE_64] /\ IsLongest(Longest)
  <2> HIDE DEF IsLongest
  <2> QED BY <1>1 DEF Longest
<1>3. SDS_LLSTR_SIZE \in Nat /\ SDS_LLSTR_SIZE >= 2 /\ TypeMax[SDS_TYPE_64] \in Nat
  BY TextAssumption, TypeMaxOrder DEF SDS_TYPE_64
<1> HIDE DEF Longest
<1> QED BY <1>2, <1>3

(* Strings up to twice the bound can be made room for. *)
LEMMA Growable ==
    ASSUME NEW n \in Nat, n <= 2 * Longest
    PROVE  Enlarged(n) <= TypeMax[SDS_TYPE_64]
<1>1. Longest \in Nat /\ Enlarged(2 * Longest) <= TypeMax[SDS_TYPE_64]
  BY LongestIs DEF IsLongest
<1>2. TypeMax[SDS_TYPE_64] \in Nat
  BY TypeMaxOrder DEF SDS_TYPE_64
<1>3. \A m \in Nat : n <= m => Enlarged(n) <= Enlarged(m) /\ Enlarged(n) \in Nat /\ Enlarged(m) \in Nat
  BY HeaderAssumption DEF Enlarged
<1>4. 2 * Longest \in Nat
  BY <1>1
<1> QED BY <1>1, <1>2, <1>3, <1>4

-----------------------------------------------------------------------------
(* Formats. *)

(* Growing a header, even one that is not right, leaves a header. *)
LEMMA FormatItemType ==
    ASSUME NEW g \in Headers, NEW n \in Nat
    PROVE  FormatItem(g, n) \in Headers
<1>1. ASSUME NEW k \in Nat PROVE sdsReqType(k) \in HeaderTypes /\ GrowType(k) \in HeaderTypes
  <2>1. sdsReqType(k) \in HeaderTypes
    <3>1. CASE k > TypeMax[3]
      BY <3>1 DEF sdsReqType, HeaderTypes, SDS_TYPE_64
    <3>2. CASE ~(k > TypeMax[3])
      BY <3>2, TypeMaxOrder, ReqTypeStores DEF SDS_TYPE_64
    <3> QED BY <3>1, <3>2
  <2> QED BY <2>1 DEF GrowType, HeaderTypes, SDS_TYPE_8
<1>2. ASSUME NEW t \in HeaderTypes, NEW k \in Nat PROVE Stored(t, k) \in Nat /\ HdrSize[t] \in Nat
  <2>1. TypeMax[t] \in Nat /\ HdrSize[t] \in Nat
    BY HeaderConstants
  <2> QED BY <2>1 DEF Stored
<1>3. ASSUME NEW f \in Headers, NEW k \in Nat PROVE sdsMakeRoomFor(f, k) \in Headers
  <2> DEFINE newlen == Enlarged(f.len + k)
  <2>1. f.len \in Nat /\ f.type \in HeaderTypes /\ f.alloc \in Nat /\ newlen \in Nat
    <3>1. f.len \in Nat /\ f.type \in HeaderTypes /\ f.alloc \in Nat
      BY DEF Headers
    <3> QED BY <3>1, EnlargedIsLarger
  <2> HIDE DEF newlen
  <2>2. Resized(f, newlen) \in Headers
    <3> DEFINE size == HdrSize[f.type] + newlen + 1
               r == [f EXCEPT !.size = size]
    <3>1. size \in Nat
      BY <1>2, <2>1
    <3> HIDE DEF size
    <3>2. r \in Headers /\ r.type = f.type
      BY <3>1 DEF Headers
    <3>3. Resized(f, newlen) = sdssetalloc(r, newlen)
      BY DEF Resized, size
    <3> HIDE DEF r
    <3>4. Stored(r.type, newlen) \in Nat
      BY <1>2, <2>1, <3>2
    <3> QED BY <3>2, <3>3, <3>4 DEF sdssetalloc, Headers
  <2>3. Block(GrowType(newlen), f.len, newlen) \in Headers
    <3> DEFINE t == GrowType(newlen)
    <3>1. t \in HeaderTypes
      BY <1>1, <2>1
    <3> HIDE DEF t
    <3>2. Stored(t, f.len) \in Nat /\ Stored(t, newlen) \in Nat /\ HdrSize[t] \in Nat
      BY <1>2, <2>1, <3>1
    <3>3. HdrSize[t] + newlen + 1 \in Nat
      BY <2>1, <3>2
    <3>4. Block(t, f.len, newlen) \in Headers
      BY <2>1, <3>1, <3>2, <3>3 DEF Block, Headers
    <3> QED BY <3>4 DEF t
  <2> QED BY <2>2, <2>3 DEF sdsMakeRoomFor, RoomPath, newlen
<1>4. \A f \in Headers : \A k \in Nat : EnsureAvail(f, k) \in Headers
  BY <1>3 DEF EnsureAvail
<1> DEFINE e == EnsureAvail(EnsureAvail(g, 1), n)
<1>5. e \in Headers
  BY <1>4
<1>6. FormatItem(g, n) = sdssetlen(e, e.len + n)
  BY DEF FormatItem, sdsinclen
<1> HIDE DEF e
<1>7. e.len + n \in Nat /\ e.type \in HeaderTypes
  BY <1>5 DEF Headers
<1>8. Stored(e.type, e.len + n) \in Nat
  BY <1>2, <1>7
<1> QED BY <1>5, <1>6, <1>8 DEF sdssetlen, Headers

(* The items are worked on one after the other. *)
LEMMA FormatSteps ==
    ASSUME NEW base \in Headers, NEW items \in Seq(Seq(Byte))
    PROVE  \E c \in [0 .. Len(items) -> Headers] :
              /\ c[0] = base
              /\ FoldLeft(LAMBDA f, item : FormatItem(f, Len(item)), base, items) = c[Len(items)]
              /\ \A k \in 1 .. Len(items) : c[k] = FormatItem(c[k - 1], Len(items[k]))
<1> DEFINE n == Len(items)
           T == Seq(Byte)
           F == [p \in Headers \X T |-> FormatItem(p[1], Len(p[2]))]
           Folded(f) == f = [s \in SUBSET (DOMAIN items) |->
                               IF s = {} THEN base
                               ELSE LET x == Max(s) IN FormatItem(f[s \ {x}], Len(items[x]))]
           it == CHOOSE f : Folded(f)
<1>1. n \in Nat /\ DOMAIN items = 1 .. n /\ \A k \in 1 .. n : items[k] \in T
  BY LenProperties, ElementOfSeq
<1>2. F \in [Headers \X T -> Headers]
  BY FormatItemType
<1>3. PICK f : FoldsBy(f, F, base, items, n, Headers)
  <2> HIDE DEF F, T
  <2> QED BY <1>1, <1>2, FoldExists DEF T
<1>4. Folded(f)
  <2>1. ASSUME NEW s \in SUBSET (1 .. n)
        PROVE  f[s] = IF s = {} THEN base ELSE FormatItem(f[s \ {Max(s)}], Len(items[Max(s)]))
    <3>1. s # {} => Max(s) \in s
      BY <1>1, MaxInside
    <3> HIDE DEF T
    <3>2. s # {} => <<f[s \ {Max(s)}], items[Max(s)]>> \in Headers \X T
      BY <3>1, <1>1, <1>3 DEF FoldsBy
    <3>3. s # {} => f[s] = F[<<f[s \ {Max(s)}], items[Max(s)]>>]
      BY <1>3 DEF FoldsBy
    <3>4. s # {} => F[<<f[s \ {Max(s)}], items[Max(s)]>>]
                      = FormatItem(f[s \ {Max(s)}], Len(items[Max(s)]))
      BY <3>2
    <3> HIDE DEF F
    <3> QED BY <3>3, <3>4, <1>3 DEF FoldsBy
  <2>2. f = [s \in SUBSET (DOMAIN items) |-> f[s]]
    BY <1>1, <1>3 DEF FoldsBy
  <2> QED BY <2>1, <2>2, <1>1
<1>5. Folded(it)
  <2> HIDE DEF Folded
  <2> QED BY <1>4, Zenon
<1>6. FoldLeft(LAMBDA f1, item : FormatItem(f1, Len(item)), base, items) = it[DOMAIN items]
  BY Zenon DEF FoldLeft, MapThenFoldSet
<1>7. \A s \in SUBSET (1 .. n) :
         it[s] = IF s = {} THEN base ELSE FormatItem(it[s \ {Max(s)}], Len(items[Max(s)]))
  <2> HIDE DEF it
  <2> QED BY <1>5, <1>1
<1> HIDE DEF it, F, Folded, T
<1>8. it[1 .. 0] = base
  <2>1. 1 .. 0 = {} /\ {} \in SUBSET (1 .. n)
    OBVIOUS
  <2> HIDE DEF n
  <2> QED BY <2>1, <1>7
<1>9. ASSUME NEW k \in 1 .. n
      PROVE  it[1 .. k] = FormatItem(it[1 .. k - 1], Len(items[k]))
  <2>1. k - 1 \in Nat /\ (k - 1) + 1 = k /\ k \in 1 .. k /\ 1 .. k \in SUBSET (1 .. n)
        /\ (1 .. k) \ {k} = 1 .. k - 1
    BY <1>1
  <2>2. Max(1 .. k) = k
    BY <2>1, MaxIsBound
  <2> QED BY <2>1, <2>2, <1>7
<1> DEFINE c == [k \in 0 .. n |-> it[1 .. k]]
           id == [k \in 0 .. n |-> k]
           G == {k \in 0 .. n : c[k] \in Headers}
<1>10. \A k \in 1 .. n : c[k] = FormatItem(c[k - 1], Len(items[k])) /\ Len(items[k]) \in Nat
  <2> SUFFICES ASSUME NEW k \in 1 .. n
               PROVE  c[k] = FormatItem(c[k - 1], Len(items[k])) /\ Len(items[k]) \in Nat
    OBVIOUS
  <2>1. k \in 0 .. n /\ k - 1 \in 0 .. n
    BY <1>1
  <2>2. items[k] \in Seq(Byte)
    BY <1>1 DEF T
  <2> HIDE DEF n
  <2>3. c[k] = it[1 .. k] /\ c[k - 1] = it[1 .. k - 1]
    BY <2>1
  <2>4. Len(items[k]) \in Nat
    BY <2>2, LenProperties
  <2> QED BY <2>3, <2>4, <1>9
<1>11. \A k \in 0 .. n : k \in G
  <2> DEFINE D == 0 .. n
  <2>1. ASSUME NEW k \in D, \A j \in D : id[j] < id[k] => j \in G PROVE k \in G
    <3>1. CASE k = 0
      BY <1>1, <1>8, <3>1
    <3>2. CASE k # 0
      <4>1. k \in 1 .. n /\ k - 1 \in 0 .. n /\ id[k - 1] < id[k]
        BY <1>1, <3>2
      <4>2. c[k - 1] \in Headers
        BY <2>1, <4>1
      <4> HIDE DEF c
      <4> QED BY <4>1, <4>2, <1>10, FormatItemType
    <3> QED BY <3>1, <3>2
  <2>2. id \in [D -> Nat]
    BY <1>1
  <2>3. \A k \in D : k \in G
    <3> HIDE DEF G, id, D, c
    <3> QED BY <2>1, <2>2, MeasureInduction
  <2> QED BY <2>3
<1>12. c \in [0 .. n -> Headers] /\ c[0] = base /\ c[n] = it[1 .. n]
  BY <1>1, <1>8, <1>11
<1> HIDE DEF c
<1>13. FoldLeft(LAMBDA f1, item : FormatItem(f1, Len(item)), base, items) = c[n]
  BY <1>1, <1>6, <1>12
<1> QED BY <1>10, <1>12, <1>13

(* The text only grows from one item to the next. *)
LEMMA FlattenGrows ==
    ASSUME NEW S, NEW ss \in Seq(Seq(S)), NEW c \in [0 .. Len(ss) -> Seq(S)], Flattens(c, ss)
    PROVE  /\ \A k \in 1 .. Len(ss) : Len(c[k]) = Len(c[k - 1]) + Len(ss[k]) /\ Len(ss[k]) \in Nat
           /\ \A k \in 0 .. Len(ss) : Len(c[k]) \in Nat /\ Len(c[k]) <= Len(c[Len(ss)])
<1> DEFINE n == Len(ss)
           D == 0 .. n
           mu == [k \in D |-> n - k]
           G == {k \in D : Len(c[k]) <= Len(c[n])}
<1>1. n \in Nat
  OBVIOUS
<1>2. \A k \in 1 .. n : Len(c[k]) = Len(c[k - 1]) + Len(ss[k]) /\ Len(ss[k]) \in Nat
  <2> SUFFICES ASSUME NEW k \in 1 .. n
               PROVE  Len(c[k]) = Len(c[k - 1]) + Len(ss[k]) /\ Len(ss[k]) \in Nat
    OBVIOUS
  <2>1. k - 1 \in 0 .. Len(ss)
    BY <1>1
  <2>a. c[k - 1] \in Seq(S) /\ ss[k] \in Seq(S)
    BY <2>1, ElementOfSeq
  <2>b. c[k] = c[k - 1] \o ss[k]
    BY DEF Flattens
  <2>2. c[k - 1] \in Seq(S) /\ ss[k] \in Seq(S) /\ c[k] = c[k - 1] \o ss[k]
    BY <2>a, <2>b
  <2> QED BY <2>2, ConcatProperties, LenProperties
<1>3. \A k \in D : Len(c[k]) \in Nat
  <2> SUFFICES ASSUME NEW k \in D PROVE c[k] \in Seq(S)
    BY LenProperties
  <2> QED OBVIOUS
<1>4. ASSUME NEW k \in D, \A j \in D : mu[j] < mu[k] => j \in G PROVE k \in G
  <2>1. CASE k = n
    BY <1>3, <2>1
  <2>2. CASE k # n
    <3>1. k + 1 \in D /\ mu[k + 1] < mu[k] /\ k + 1 \in 1 .. n /\ (k + 1) - 1 = k
      BY <1>1, <2>2
    <3>2. Len(c[k + 1]) <= Len(c[n])
      BY <1>4, <3>1
    <3>3. Len(c[k + 1]) = Len(c[k]) + Len(ss[k + 1]) /\ Len(ss[k + 1]) \in Nat
      <4> HIDE DEF n
      <4> QED BY <3>1, <1>2
    <3>4. n \in D
      BY <1>1
    <3> QED BY <3>1, <3>2, <3>3, <3>4, <1>3
  <2> QED BY <2>1, <2>2
<1>5. \A k \in D : k \in G
  <2>1. mu \in [D -> Nat]
    BY <1>1
  <2> HIDE DEF D, mu, G
  <2> QED BY <1>4, <2>1, MeasureInduction
<1> QED BY <1>2, <1>3, <1>5

(* The headers of a format: the length grows by that of what is appended. *)
LEMMA CatFmtOK ==
    ASSUME HeaderOK(h), NEW items \in Seq(Seq(Byte)),
           h.len + Len(FlattenSeq(items)) <= Longest
    PROVE  LET g == FoldLeft(LAMBDA f, item : FormatItem(f, Len(item)), h, items)
           IN HeaderOK(g) /\ g.len = h.len + Len(FlattenSeq(items))
<1> DEFINE n == Len(items)
           D == 0 .. n
           id == [k \in D |-> k]
<1>1. PICK a \in [0 .. Len(items) -> Seq(Byte)] : Flattens(a, items) /\ FlattenSeq(items) = a[n]
  BY FlattenIs
<1>2. /\ h \in Headers /\ h.len \in Nat /\ n \in Nat
      /\ Longest \in Nat /\ Longest >= 2
  BY HeaderFields, LongestIs DEF HeaderOK
<1>3. PICK c \in [0 .. n -> Headers] :
        /\ c[0] = h
        /\ FoldLeft(LAMBDA f, item : FormatItem(f, Len(item)), h, items) = c[n]
        /\ \A k \in 1 .. n : c[k] = FormatItem(c[k - 1], Len(items[k]))
  BY <1>2, FormatSteps
<1>4. /\ \A k \in 1 .. n : Len(a[k]) = Len(a[k - 1]) + Len(items[k]) /\ Len(items[k]) \in Nat
      /\ \A k \in 0 .. n : Len(a[k]) \in Nat /\ Len(a[k]) <= Len(a[n])
  BY <1>1, FlattenGrows
<1>5. h.len + Len(a[n]) <= Longest
  BY <1>1
<1> DEFINE G == {k \in D : HeaderOK(c[k]) /\ c[k].len = h.len + Len(a[k])}
<1>6. ASSUME NEW k \in D, \A j \in D : id[j] < id[k] => j \in G PROVE k \in G
  <2>1. CASE k = 0
    <3>1. a[0] = <<>>
      BY <1>1 DEF Flattens
    <3>2. Len(a[0]) = 0 /\ 0 \in D /\ h.len + 0 = h.len
      BY <1>2, <3>1
    <3> QED BY <1>3, <2>1, <3>2
  <2>2. CASE k # 0
    <3>1. k \in 1 .. n /\ k - 1 \in D /\ id[k - 1] < id[k] /\ n \in D
      BY <1>2, <2>2
    <3>2. HeaderOK(c[k - 1]) /\ c[k - 1].len = h.len + Len(a[k - 1])
      BY <1>6, <3>1
    <3> DEFINE e == c[k - 1]
               m == Len(items[k])
    <3>3. m \in Nat /\ Len(a[k]) = Len(a[k - 1]) + m /\ Len(a[k - 1]) \in Nat
          /\ Len(a[k]) <= Len(a[n]) /\ Len(a[n]) \in Nat /\ c[k] = FormatItem(e, m)
      BY <1>3, <1>4, <3>1
    <3> HIDE DEF D, id, G, n
    <3>a. HeaderOK(e) /\ e.len = h.len + Len(a[k - 1])
      BY <3>2
    <3> HIDE DEF e, m
    <3>b. e.len \in Nat /\ e.len + m <= Longest
      <4> DEFINE x == h.len
                 y == Len(a[k - 1])
                 z == Len(a[k])
                 w == Len(a[n])
      <4>1. x \in Nat /\ y \in Nat /\ z = y + m /\ z <= w /\ w \in Nat /\ x + w <= Longest
            /\ e.len = x + y
        BY <1>2, <1>5, <3>3, <3>a
      <4> HIDE DEF x, y, z, w
      <4> QED BY <1>2, <3>3, <4>1
    <3>4. e.len \in Nat /\ e.len + m <= Longest /\ HeaderOK(e) /\ e.len = h.len + Len(a[k - 1])
      BY <3>a, <3>b
    <3>5. CanGrow(e, 1) /\ CanGrow(e, m)
      <4>0. m \in Nat /\ e.len \in Nat /\ e.len + m <= Longest /\ Longest \in Nat /\ Longest >= 2
        BY <1>2, <3>3, <3>4
      <4>1. e.len + 1 \in Nat /\ e.len + 1 <= 2 * Longest
        BY <4>0
      <4>2. e.len + m \in Nat /\ e.len + m <= 2 * Longest
        BY <4>0
      <4> QED BY <4>1, <4>2, Growable DEF CanGrow
    <3>6. HeaderOK(c[k]) /\ c[k].len = e.len + m
      BY <3>3, <3>4, <3>5, FormatItemOK
    <3>7. c[k].len = h.len + Len(a[k])
      <4> DEFINE x == h.len
                 y == Len(a[k - 1])
      <4>1. x \in Nat /\ y \in Nat /\ Len(a[k]) = y + m /\ m \in Nat /\ c[k].len = (x + y) + m
        BY <1>2, <3>3, <3>4, <3>6
      <4> HIDE DEF x, y
      <4>2. (x + y) + m = x + (y + m)
        BY <4>1
      <4> QED BY <4>1, <4>2 DEF x
    <3> QED BY <3>6, <3>7 DEF G
  <2> QED BY <2>1, <2>2
<1>7. \A k \in D : k \in G
  <2>1. id \in [D -> Nat]
    BY <1>2
  <2> HIDE DEF D, id, G
  <2> QED BY <1>6, <2>1, MeasureInduction
<1>8. n \in D
  BY <1>2
<1>9. HeaderOK(c[n]) /\ c[n].len = h.len + Len(a[n])
  BY <1>7, <1>8
<1> QED BY <1>1, <1>3, <1>9

-----------------------------------------------------------------------------
(* Formatted output. *)

(* Two ways of cutting a text before its first NUL are the same. *)
LEMMA CStringBy ==
    ASSUME NEW S, NEW s \in Seq(S), NEW n \in 0 .. Len(s),
           \A i \in 1 .. n : s[i] # NUL, n < Len(s) => s[n + 1] = NUL
    PROVE  CString(s) = SubSeq(s, 1, n)
<1>1. PICK m \in 0 .. Len(s) : /\ CString(s) = SubSeq(s, 1, m)
                               /\ \A i \in 1 .. m : s[i] # NUL
                               /\ m < Len(s) => s[m + 1] = NUL
  BY CStringIs
<1>2. Len(s) \in Nat
  OBVIOUS
<1>3. ~(m < n)
  <2> SUFFICES ASSUME m < n PROVE FALSE
    OBVIOUS
  <2>1. m + 1 \in 1 .. n /\ m < Len(s)
    BY <1>2
  <2> QED BY <1>1, <2>1
<1>4. ~(n < m)
  <2> SUFFICES ASSUME n < m PROVE FALSE
    OBVIOUS
  <2>1. n + 1 \in 1 .. m /\ n < Len(s)
    BY <1>2
  <2> QED BY <1>1, <2>1
<1>5. m = n
  BY <1>2, <1>3, <1>4
<1> QED BY <1>1, <1>5

(* Does the byte that is looked at say that the output is complete? *)
Fits(out, buflen) == At(Printed(out, buflen), CheckedByte(buflen)) = NUL

(* What vsnprintf() leaves in a buffer: all of it or all but the last byte. *)
LEMMA PrintedIs ==
    ASSUME NEW out \in Seq(Byte), NEW b \in Nat
    PROVE  /\ Printed(out, b) \in Seq(Byte)
           /\ Len(out) < b => Printed(out, b) = out
           /\ Len(out) >= b /\ b > 0 => /\ Len(Printed(out, b)) = b - 1
                                        /\ \A i \in 1 .. b - 1 : Printed(out, b)[i] = out[i]
           /\ b = 0 => Fits(out, b)
           /\ b > Len(out) + 1 => Fits(out, b)
<1>1. Len(out) \in Nat /\ out \in Seq(Byte)
  OBVIOUS
<1>2. Printed(out, b) = SubSeq(out, 1, IF Len(out) < b THEN Len(out) ELSE b - 1)
  BY DEF Printed
<1>3. ASSUME Len(out) < b PROVE Printed(out, b) = out
  BY <1>1, <1>2, <1>3
<1>4. ASSUME Len(out) >= b, b > 0
      PROVE  /\ Printed(out, b) \in Seq(Byte) /\ Len(Printed(out, b)) = b - 1
             /\ \A i \in 1 .. b - 1 : Printed(out, b)[i] = out[i]
  <2>1. Printed(out, b) = SubSeq(out, 1, b - 1)
    BY <1>1, <1>2, <1>4
  <2> QED BY <2>1, <1>1, <1>4
<1>5. ASSUME b = 0 PROVE Printed(out, b) = <<>>
  <2>1. Printed(out, b) = SubSeq(out, 1, -1)
    BY <1>1, <1>2, <1>5
  <2> QED BY <2>1, <1>1
<1>6. ASSUME b > Len(out) + 1 PROVE Fits(out, b)
  <2>1. Printed(out, b) = out /\ CheckedByte(b) = b - 1
    BY <1>1, <1>3, <1>6 DEF CheckedByte
  <2>2. ~(b - 1 \in 1 .. Len(out))
    BY <1>1, <1>6
  <2> QED BY <2>1, <2>2 DEF Fits, At
<1>7. b = 0 => Fits(out, b)
  BY <1>5 DEF Fits, At
<1>8. Printed(out, b) \in Seq(Byte)
  <2>1. <<>> \in Seq(Byte)
    OBVIOUS
  <2>2. Len(out) < b \/ (Len(out) >= b /\ b > 0) \/ b = 0
    BY <1>1
  <2> QED BY <1>1, <1>3, <1>4, <1>5, <2>1, <2>2
<1> QED BY <1>3, <1>4, <1>6, <1>7, <1>8

(* The buffer that is found is one that the output fits. *)
LEMMA PrintBufferIs ==
    ASSUME NEW out \in Seq(Byte)
    PROVE  PrintBuffer(out) \in Nat /\ PrintBuffer(out) > 1 /\ Fits(out, PrintBuffer(out))
<1> DEFINE Def(f) == [buflen \in Nat |-> IF Fits(out, buflen) THEN buflen ELSE f[2 * buflen]]
           n == Len(out) + 2
           mu == [x \in Nat |-> IF x > n THEN 0 ELSE n - x]
           d == [x \in Nat |-> 2 * x]
           Stop == {x \in Nat : Fits(out, x)}
           b == [x \in Nat |-> x]
           F == [p \in Nat \X Nat |-> p[2]]
           grown == CHOOSE f : f = Def(f)
<1>1. n \in Nat
  OBVIOUS
<1>2. Descends(Nat, mu, Stop, d)
  <2>1. mu \in [Nat -> Nat] /\ d \in [Nat -> Nat]
    BY <1>1
  <2>2. ASSUME NEW x \in Nat, x \notin Stop PROVE mu[d[x]] < mu[x]
    <3>1. x # 0 /\ ~(x > Len(out) + 1)
      BY <2>2, PrintedIs
    <3>2. 2 * x \in Nat /\ 2 * x > x /\ x < n
      BY <3>1
    <3> QED BY <1>1, <3>2
  <2> HIDE DEF mu, d, Stop
  <2> QED BY <2>1, <2>2 DEF Descends
<1>3. Body(Nat, Nat, b, F)
  BY DEF Body
<1>4. PICK f : Solves(f, Nat, Stop, d, Nat, b, F)
  <2> HIDE DEF mu, d, b, F, Stop
  <2> QED BY <1>2, <1>3, RecursionExists
<1>5. f = Def(f)
  <2>1. ASSUME NEW x \in Nat PROVE f[x] = IF Fits(out, x) THEN x ELSE f[2 * x]
    <3>1. f \in [Nat -> Nat] /\ f[x] = IF x \in Stop THEN b[x] ELSE F[<<x, f[d[x]]>>]
      BY <1>4 DEF Solves
    <3>2. d[x] = 2 * x /\ 2 * x \in Nat /\ b[x] = x
      OBVIOUS
    <3>3. F[<<x, f[2 * x]>>] = f[2 * x]
      BY <3>1, <3>2
    <3> HIDE DEF F, d, b
    <3> QED BY <3>1, <3>2, <3>3
  <2>2. f \in [Nat -> Nat]
    BY <1>4 DEF Solves
  <2> QED BY <2>1, <2>2
<1>6. grown = Def(grown)
  <2>1. \E g : g = Def(g)
    BY <1>5
  <2> QED BY <2>1
<1>7. PrintBuffer(out) = grown[StaticBuf]
  BY DEF PrintBuffer, Fits
<1> HIDE DEF grown
<1>8. \A x \in Nat : grown[x] = IF Fits(out, x) THEN x ELSE grown[2 * x]
  BY <1>6
<1> DEFINE G == {x \in Nat : x > 1 => grown[x] \in Nat /\ grown[x] > 1 /\ Fits(out, grown[x])}
<1>9. ASSUME NEW x \in Nat, \A y \in Nat : mu[y] < mu[x] => y \in G PROVE x \in G
  <2>1. CASE x \in Stop
    <3>1. grown[x] = x /\ Fits(out, x)
      BY <1>8, <2>1
    <3> QED BY <3>1
  <2>2. CASE x \notin Stop
    <3>1. d[x] = 2 * x /\ 2 * x \in Nat /\ grown[x] = grown[2 * x]
      BY <1>8, <2>2
    <3>2. 2 * x \in G
      BY <1>2, <1>9, <2>2, <3>1 DEF Descends
    <3> QED BY <3>1, <3>2
  <2> QED BY <2>1, <2>2
<1>10. \A x \in Nat : x \in G
  <2>1. mu \in [Nat -> Nat]
    BY <1>1
  <2> HIDE DEF mu, G
  <2> QED BY <1>9, <2>1, MeasureInduction
<1>11. StaticBuf \in Nat /\ StaticBuf > 1
  BY TextAssumption
<1> QED BY <1>7, <1>10, <1>11

(* What is appended is the whole output up to its first NUL. *)
LEMMA PrintIsComplete ==
    ASSUME NEW s, NEW out \in Seq(Byte)
    PROVE  sdscatvprintf(s, out) = s \o CString(out)
<1> DEFINE b == PrintBuffer(out)
           p == Printed(out, b)
<1>1. b \in Nat /\ b > 1 /\ Fits(out, b)
  BY PrintBufferIs
<1>2. CString(p) = CString(out)
  <2> HIDE DEF b
  <2>1. CASE Len(out) < b
    BY <1>1, <2>1, PrintedIs
  <2>2. CASE ~(Len(out) < b)
    <3>a. Len(out) >= b /\ b > 0 /\ Len(out) \in Nat
      BY <1>1, <2>2
    <3>b. p \in Seq(Byte) /\ Len(p) = b - 1 /\ \A i \in 1 .. b - 1 : p[i] = out[i]
      BY <1>1, <3>a, PrintedIs
    <3>1. /\ p \in Seq(Byte) /\ Len(p) = b - 1 /\ \A i \in 1 .. b - 1 : p[i] = out[i]
          /\ b - 1 < Len(out) /\ b - 1 \in 1 .. b - 1
      BY <1>1, <3>a, <3>b
    <3>2. p[b - 1] = NUL
      BY <1>1, <3>1 DEF Fits, At, CheckedByte
    <3> HIDE DEF p
    <3>3. PICK n \in 0 .. Len(p) : /\ CString(p) = SubSeq(p, 1, n)
                                   /\ \A i \in 1 .. n : p[i] # NUL
                                   /\ n < Len(p) => p[n + 1] = NUL
      BY <3>1, CStringIs
    <3>4. n < b - 1
      <4>1. n # b - 1
        BY <3>1, <3>2, <3>3
      <4> QED BY <1>1, <3>1, <4>1
    <3>5. n \in 0 .. Len(out) /\ n + 1 \in 1 .. b - 1 /\ n < Len(out)
      BY <1>1, <3>1, <3>4
    <3>6. (\A i \in 1 .. n : out[i] # NUL) /\ out[n + 1] = NUL
      BY <1>1, <3>1, <3>3, <3>4, <3>5
    <3>7. CString(out) = SubSeq(out, 1, n)
      BY <3>5, <3>6, CStringBy
    <3>8. SubSeq(out, 1, n) = SubSeq(p, 1, n)
      BY <1>1, <3>1, <3>4, <3>5
    <3> QED BY <3>3, <3>7, <3>8
  <2> QED BY <2>1, <2>2
<1> QED BY <1>2 DEF sdscatvprintf

-----------------------------------------------------------------------------
(* Parts of a string. *)

(* A part of a sequence is a sequence, and no longer.                       *)
LEMMA SubSeqType ==
    ASSUME NEW S, NEW s \in Seq(S), NEW i \in Int, NEW k \in Int, i >= 1, k <= Len(s)
    PROVE  SubSeq(s, i, k) \in Seq(S) /\ Len(SubSeq(s, i, k)) \in Nat
           /\ Len(SubSeq(s, i, k)) <= Len(s)
<1>1. Len(s) \in Nat
  OBVIOUS
<1>2. CASE i <= k
  <2>1. SubSeq(s, i, k) \in Seq(S) /\ Len(SubSeq(s, i, k)) = k - i + 1
    BY <1>1, <1>2
  <2> QED BY <1>1, <1>2, <2>1
<1>3. CASE ~(i <= k)
  <2>1. SubSeq(s, i, k) = <<>>
    BY <1>1, <1>3
  <2>2. <<>> \in Seq(S) /\ Len(<<>>) = 0
    OBVIOUS
  <2> QED BY <1>1, <2>1, <2>2
<1> QED BY <1>2, <1>3

(* strlen() finds an end within the string.                                 *)
LEMMA CStringType ==
    ASSUME NEW S, NEW s \in Seq(S)
    PROVE  CString(s) \in Seq(S) /\ Len(CString(s)) \in Nat /\ Len(CString(s)) <= Len(s)
<1>1. PICK n \in 0 .. Len(s) : CString(s) = SubSeq(s, 1, n)
  BY CStringIs
<1>2. n \in Int /\ n <= Len(s)
  OBVIOUS
<1> QED BY <1>1, <1>2, SubSeqType

(* sdsrange() leaves a text that is no longer.                              *)
LEMMA RangeType ==
    ASSUME NEW s \in Seq(Byte), NEW first \in Int, NEW last \in Int
    PROVE  sdsrange(s, first, last) \in Seq(Byte) /\ Len(sdsrange(s, first, last)) <= Len(s)
<1> DEFINE start == Index(Len(s), first)
           end == Index(Len(s), last)
           to == IF end >= Len(s) THEN Len(s) ELSE end + 1
<1>1. Len(s) \in Nat /\ start \in Nat /\ end \in Nat
  BY DEF Index
<1> HIDE DEF start, end
<1>2. start + 1 \in Int /\ start + 1 >= 1 /\ to \in Int /\ to <= Len(s)
  BY <1>1
<1>3. sdsrange(s, first, last) = IF start > end \/ start >= Len(s) THEN <<>>
                                 ELSE SubSeq(s, start + 1, to)
  BY DEF sdsrange, start, end
<1> HIDE DEF to
<1>4. SubSeq(s, start + 1, to) \in Seq(Byte) /\ Len(SubSeq(s, start + 1, to)) <= Len(s)
  BY <1>2, SubSeqType
<1>5. <<>> \in Seq(Byte) /\ Len(<<>>) <= Len(s)
  BY <1>1
<1> QED BY <1>3, <1>4, <1>5

(* sdstrim() leaves a text that is no longer.                               *)
LEMMA TrimType ==
    ASSUME NEW s \in Seq(Byte), NEW cset
    PROVE  sdstrim(s, cset) \in Seq(Byte) /\ Len(sdstrim(s, cset)) <= Len(s)
<1> DEFINE kept == {i \in DOMAIN s : ~InSet(cset, s[i])}
           first == CHOOSE i \in kept : \A k \in kept : i <= k
           last == CHOOSE i \in kept : \A k \in kept : i >= k
           back == {Len(s) - i : i \in kept}
<1>1. Len(s) \in Nat /\ DOMAIN s = 1 .. Len(s) /\ kept \subseteq 1 .. Len(s)
  OBVIOUS
<1>2. sdstrim(s, cset) = IF kept = {} THEN <<>> ELSE SubSeq(s, first, last)
  BY DEF sdstrim
<1>3. CASE kept = {}
  <2>1. sdstrim(s, cset) = <<>> /\ <<>> \in Seq(Byte) /\ Len(<<>>) = 0
    BY <1>2, <1>3
  <2> QED BY <1>1, <2>1
<1>4. CASE kept # {}
  <2> HIDE DEF kept
  <2>1. \E i \in kept : \A k \in kept : i <= k
    <3>1. kept \in SUBSET Nat
      BY <1>1
    <3> QED BY <1>4, <3>1, LeastNumber
  <2>2. \E i \in kept : \A k \in kept : i >= k
    <3>0. \A i \in kept : Len(s) - i \in Nat
      BY <1>1
    <3>1. back \in SUBSET Nat /\ back # {}
      <4>1. \A x \in back : x \in Nat
        BY <3>0
      <4>2. back # {}
        BY <1>4
      <4> HIDE DEF back
      <4> QED BY <4>1, <4>2
    <3>2. Min(back) \in back /\ \A i \in back : Min(back) <= i
      <4> HIDE DEF back
      <4> QED BY <3>1, LeastNumber
    <3>3. PICK i \in kept : Min(back) = Len(s) - i
      BY <3>2
    <3>4. \A k \in kept : Len(s) - i <= Len(s) - k
      <4>1. \A k \in kept : Len(s) - k \in back
        OBVIOUS
      <4> HIDE DEF back
      <4> QED BY <3>2, <3>3, <4>1
    <3>5. \A k \in kept : i >= k
      BY <1>1, <3>4
    <3> QED BY <3>5
  <2>3. first \in kept /\ last \in kept
    BY <2>1, <2>2
  <2> HIDE DEF first, last
  <2>4. first \in Int /\ last \in Int /\ first >= 1 /\ last <= Len(s)
    BY <1>1, <2>3
  <2> QED BY <1>2, <1>4, <2>4, SubSeqType
<1> QED BY <1>3, <1>4

(* A text changed byte by byte keeps its length.                            *)
LEMMA SameLength ==
    ASSUME NEW s \in Seq(Byte), NEW t, DOMAIN t = DOMAIN s, t = [i \in DOMAIN s |-> t[i]],
           \A i \in DOMAIN s : t[i] \in Byte
    PROVE  t \in Seq(Byte) /\ Len(t) = Len(s)
<1>1. Len(s) \in Nat /\ DOMAIN s = 1 .. Len(s)
  OBVIOUS
<1>2. t \in [1 .. Len(s) -> Byte]
  BY <1>1
<1>3. t \in Seq(Byte)
  BY <1>1, <1>2
<1> QED BY <1>1, <1>3

(* sdsmapchars() keeps the length.                                          *)
LEMMA MapCharsType ==
    ASSUME NEW s \in Seq(Byte), NEW from \in Seq(Byte), NEW to \in Seq(Byte), Len(to) = Len(from)
    PROVE  sdsmapchars(s, from, to) \in Seq(Byte) /\ Len(sdsmapchars(s, from, to)) = Len(s)
<1> DEFINE First(c) == CHOOSE k \in DOMAIN from : from[k] = c /\ \A l \in 1 .. k - 1 : from[l] # c
<1>1. ASSUME NEW i \in DOMAIN s, \E k \in DOMAIN from : from[k] = s[i]
      PROVE  to[First(s[i])] \in Byte
  <2> DEFINE c == s[i]
             I == {k \in DOMAIN from : from[k] = c}
  <2>1. I \in SUBSET Nat /\ I # {} /\ DOMAIN from = 1 .. Len(from) /\ Len(from) \in Nat
    BY <1>1
  <2> HIDE DEF c
  <2>2. Min(I) \in I /\ \A l \in I : Min(I) <= l
    <3> HIDE DEF I
    <3> QED BY <2>1, LeastNumber
  <2> DEFINE m == Min(I)
  <2>3. m \in DOMAIN from /\ from[m] = c
    BY <2>2
  <2>4. \A l \in 1 .. m - 1 : from[l] # c
    <3> SUFFICES ASSUME NEW l \in 1 .. m - 1, from[l] = c PROVE FALSE
      OBVIOUS
    <3>1. l \in DOMAIN from /\ ~(m <= l)
      BY <2>1, <2>3
    <3>2. l \in I
      BY <3>1
    <3> QED BY <2>2, <3>1, <3>2
  <2> HIDE DEF m
  <2>5. First(c) \in DOMAIN from
    BY <2>3, <2>4
  <2> HIDE DEF First
  <2>6. First(c) \in 1 .. Len(to)
    BY <2>5
  <2>7. to[First(c)] \in Byte
    BY <2>6, ElementOfSeq
  <2> QED BY <2>7 DEF c
<1> DEFINE t == sdsmapchars(s, from, to)
<1>2. t = [i \in DOMAIN s |-> IF \E k \in DOMAIN from : from[k] = s[i] THEN to[First(s[i])] ELSE s[i]]
  BY DEF sdsmapchars
<1> HIDE DEF First, t
<1>3. \A i \in DOMAIN s : s[i] \in Byte
  OBVIOUS
<1>4. DOMAIN t = DOMAIN s /\ t = [i \in DOMAIN s |-> t[i]] /\ \A i \in DOMAIN s : t[i] \in Byte
  BY <1>1, <1>2, <1>3
<1>5. t \in Seq(Byte) /\ Len(t) = Len(s)
  BY <1>4, SameLength
<1> QED BY <1>5 DEF t

(* sdstolower() and sdstoupper() keep the length.                           *)
LEMMA CaseType ==
    ASSUME NEW s \in Seq(Byte)
    PROVE  /\ sdstolower(s) \in Seq(Byte) /\ Len(sdstolower(s)) = Len(s)
           /\ sdstoupper(s) \in Seq(Byte) /\ Len(sdstoupper(s)) = Len(s)
<1>1. \A i \in DOMAIN s : s[i] \in Byte
  OBVIOUS
<1>2. \A c \in Byte : (IF c \in 65 .. 90 THEN c + 32 ELSE c) \in Byte
                      /\ (IF c \in 97 .. 122 THEN c - 32 ELSE c) \in Byte
  BY DEF Byte
<1> DEFINE t == sdstolower(s)
           u == sdstoupper(s)
<1>3. t = [i \in DOMAIN s |-> IF s[i] \in 65 .. 90 THEN s[i] + 32 ELSE s[i]]
  BY DEF sdstolower
<1>4. u = [i \in DOMAIN s |-> IF s[i] \in 97 .. 122 THEN s[i] - 32 ELSE s[i]]
  BY DEF sdstoupper
<1> HIDE DEF t, u
<1>5. DOMAIN t = DOMAIN s /\ t = [i \in DOMAIN s |-> t[i]] /\ \A i \in DOMAIN s : t[i] \in Byte
  BY <1>1, <1>2, <1>3
<1>6. DOMAIN u = DOMAIN s /\ u = [i \in DOMAIN s |-> u[i]] /\ \A i \in DOMAIN s : u[i] \in Byte
  BY <1>1, <1>2, <1>4
<1>7. t \in Seq(Byte) /\ Len(t) = Len(s) /\ u \in Seq(Byte) /\ Len(u) = Len(s)
  BY <1>5, <1>6, SameLength
<1> QED BY <1>7 DEF t, u

-----------------------------------------------------------------------------
(* What every call leaves. *)

SdsInv == HeaderSound /\ Len(text) <= Longest

(* A header that is right and has the length of its text is sound. *)
LEMMA SoundNow ==
    ASSUME HeaderOK(h), text \in Seq(Byte), h.len = Len(text)
    PROVE  HeaderSound
<1>1. /\ sdsalloc(h) <= Room(h) /\ sdsalloc(h) \in Nat /\ HdrSize[h.type] \in Nat /\ h.size \in Nat
  BY HeaderFields DEF HeaderOK, sdsalloc
<1>2. sdsAllocSize(h) <= h.size
  BY <1>1 DEF sdsAllocSize, Room
<1> QED BY <1>2 DEF HeaderSound

(* What a step has to establish.                                            *)
LEMMA SoundNext ==
    ASSUME HeaderOK(h)', (text \in Seq(Byte))', (h.len = Len(text))', (Len(text) <= Longest)'
    PROVE  SdsInv'
<1>1. HeaderSound'
  <2>1. HeaderOK(h') /\ text' \in Seq(Byte) /\ h'.len = Len(text')
    OBVIOUS
  <2>2. /\ sdsalloc(h') <= Room(h') /\ sdsalloc(h') \in Nat /\ HdrSize[h'.type] \in Nat
        /\ h'.size \in Nat
    BY <2>1, HeaderFields DEF HeaderOK, sdsalloc
  <2>3. sdsAllocSize(h') <= h'.size
    BY <2>2 DEF sdsAllocSize, Room
  <2> QED BY <2>1, <2>3 DEF HeaderSound
<1> QED BY <1>1 DEF SdsInv

(* What is known before a call. *)
LEMMA SoundFacts ==
    ASSUME SdsInv
    PROVE  /\ HeaderOK(h) /\ text \in Seq(Byte) /\ h.len = Len(text)
           /\ Len(text) \in Nat /\ Len(text) <= Longest /\ Longest \in Nat
           /\ Longest <= TypeMax[SDS_TYPE_64] /\ TypeMax[SDS_TYPE_64] \in Nat
  BY LongestIs, TypeMaxOrder DEF SdsInv, HeaderSound, SDS_TYPE_64

(* A shorter text under the same header. *)
LEMMA ShorterOK ==
    ASSUME HeaderOK(h), NEW n \in Nat, n <= h.len
    PROVE  HeaderOK(sdssetlen(h, n)) /\ sdssetlen(h, n).len = n
<1>1. n <= TypeMax[h.type] /\ n <= Room(h) /\ (h.type = SDS_TYPE_5 \/ n <= h.alloc)
  <2>1. /\ h.len \in Nat /\ h.alloc \in Nat /\ TypeMax[h.type] \in Nat /\ Room(h) \in Int
        /\ h.len <= TypeMax[h.type] /\ h.len <= Room(h)
        /\ h.type # SDS_TYPE_5 => h.len <= h.alloc
    BY HeaderFields DEF Room
  <2> QED BY <2>1
<1> QED BY <1>1, SetLenOK

(* A call that only shortens the text sets a length the header can store.   *)
LEMMA InPlaceOK ==
    ASSUME SdsInv, NEW t \in Seq(Byte), Len(t) <= Len(text), InPlace(t)
    PROVE  SdsInv'
<1>1. /\ HeaderOK(h) /\ h.len = Len(text) /\ Len(text) \in Nat /\ Len(text) <= Longest
      /\ Longest \in Nat /\ Len(t) \in Nat
  BY SoundFacts
<1>2. HeaderOK(sdssetlen(h, Len(t))) /\ sdssetlen(h, Len(t)).len = Len(t)
  BY <1>1, ShorterOK
<1>3. text' = t /\ h' = sdssetlen(h, Len(t))
  BY DEF InPlace
<1> QED BY <1>1, <1>2, <1>3, SoundNext

(* The text is replaced by one of the same length. *)
LEMMA OverwriteOK ==
    ASSUME SdsInv, text' \in Seq(Byte), Len(text') = Len(text), UNCHANGED h
    PROVE  SdsInv'
  BY SoundFacts, SoundNext

(* Text is appended. *)
LEMMA AppendOK ==
    ASSUME SdsInv, NEW t \in Seq(Byte), Len(text) + Len(t) <= Longest,
           text' = text \o t, HeaderOK(h'), h'.len = h.len + Len(t)
    PROVE  SdsInv'
<1>1. /\ text \in Seq(Byte) /\ h.len = Len(text) /\ Len(text) \in Nat
  BY SoundFacts
<1>2. text' \in Seq(Byte) /\ Len(text') = Len(text) + Len(t)
  BY <1>1, ConcatProperties
<1> QED BY <1>1, <1>2, SoundNext

(* The header can take it. *)
LEMMA CanGrowBy ==
    ASSUME SdsInv, NEW n \in Nat, h.len + n <= 2 * Longest
    PROVE  CanGrow(h, n)
<1>1. h.len \in Nat /\ h.len + n \in Nat
  BY SoundFacts
<1> QED BY <1>1, Growable DEF CanGrow

(* The text of an appending call fits.                                      *)
LEMMA AppendingIs ==
    ASSUME SdsInv, NEW t \in Seq(Byte), Appending(t)
    PROVE  /\ Len(t) \in Nat /\ h.len + Len(t) <= Longest /\ Len(text) + Len(t) <= Longest
           /\ CanGrow(h, Len(t))
<1>1. /\ h.len = Len(text) /\ Len(text) \in Nat /\ Longest \in Nat /\ Len(t) \in Nat
      /\ MaxLen \in Nat /\ MaxLen <= Longest
  BY SoundFacts, LongestIs, SdsAssumption DEF IsLongest
<1>2. Len(text) + Len(t) <= MaxLen
  BY DEF Appending
<1>3. h.len + Len(t) <= Longest /\ h.len + Len(t) <= 2 * Longest
  BY <1>1, <1>2
<1> QED BY <1>1, <1>3, CanGrowBy

-----------------------------------------------------------------------------
(* The calls. *)

(* A new header for a text within the bound. *)
LEMMA NewOK ==
    ASSUME NEW n \in Nat, n <= Longest
    PROVE  HeaderOK(sdsnewlen(n)) /\ sdsnewlen(n).len = n
<1>1. Longest \in Nat /\ Longest <= TypeMax[SDS_TYPE_64] /\ TypeMax[SDS_TYPE_64] \in Nat
  BY LongestIs, TypeMaxOrder DEF SDS_TYPE_64
<1>2. n <= TypeMax[SDS_TYPE_64]
  BY <1>1
<1> QED BY <1>2, NewLenOK

(* sdsnewlen() writes a header that tells the truth.                        *)
LEMMA InitSound == Init => SdsInv
<1> SUFFICES ASSUME Init PROVE SdsInv
  OBVIOUS
<1>1. text \in Seq(Byte) /\ Len(text) <= Longest /\ Len(text) \in Nat
  BY SdsAssumption, LongestIs DEF Init, IsLongest
<1>2. HeaderOK(h) /\ h.len = Len(text)
  BY <1>1, NewOK DEF Init
<1> QED BY <1>1, <1>2, SoundNow DEF SdsInv

(* sdsdup() allocates a header for the length of the text.                  *)
LEMMA DupNext == SdsInv /\ Dup => SdsInv'
<1> SUFFICES ASSUME SdsInv, Dup PROVE SdsInv'
  OBVIOUS
<1>1. text \in Seq(Byte) /\ Len(text) <= Longest /\ Len(text) \in Nat
  BY SoundFacts
<1>2. h' = sdsnewlen(Len(text)) /\ text' = text
  BY DEF Dup
<1> QED BY <1>1, <1>2, NewOK, SoundNext

(* sdsfromlonglong() allocates a header for the digits.                     *)
LEMMA FromLongLongNext == \A v \in Numbers : FromLongLong(v) => SdsInv'
<1> SUFFICES ASSUME NEW v \in Numbers, FromLongLong(v) PROVE SdsInv'
  OBVIOUS
<1>1. text' = sdsll2str(v) /\ h' = sdsnewlen(Len(text'))
  BY DEF FromLongLong
<1>2. text' \in Seq(Byte) /\ Len(text') < SDS_LLSTR_SIZE
  BY <1>1, NumberFits
<1>3. Len(text') <= Longest /\ Len(text') \in Nat
  <2>1. SDS_LLSTR_SIZE \in Nat /\ Longest \in Nat /\ Longest >= SDS_LLSTR_SIZE /\ Len(text') \in Nat
    BY <1>2, LongestIs, TextAssumption
  <2> QED BY <1>2, <2>1
<1> QED BY <1>1, <1>2, <1>3, NewOK, SoundNext

(* sdscatlen() makes room before it sets the length.                        *)
LEMMA CatNext == SdsInv => \A t \in Pieces : Appending(t) /\ Cat(t) => SdsInv'
<1> SUFFICES ASSUME SdsInv, NEW t \in Pieces, Appending(t), Cat(t) PROVE SdsInv'
  OBVIOUS
<1>1. t \in Seq(Byte) /\ text' = text \o t /\ h' = sdscatlen(h, Len(t)) /\ HeaderOK(h)
  BY SdsAssumption, SoundFacts DEF Cat
<1>2. Len(t) \in Nat /\ Len(text) + Len(t) <= Longest /\ CanGrow(h, Len(t))
  BY <1>1, AppendingIs
<1>3. HeaderOK(h') /\ h'.len = h.len + Len(t)
  BY <1>1, <1>2, CatLenOK
<1> QED BY <1>1, <1>2, <1>3, AppendOK

(* sdsIncrLen() stays within the free space.                                *)
LEMMA IncrLenNext == SdsInv => \A t \in Pieces : Appending(t) /\ IncrLen(t) => SdsInv'
<1> SUFFICES ASSUME SdsInv, NEW t \in Pieces, Appending(t), IncrLen(t) PROVE SdsInv'
  OBVIOUS
<1>1. /\ t \in Seq(Byte) /\ text' = text \o t /\ h' = sdssetlen(h, h.len + Len(t)) /\ HeaderOK(h)
      /\ Len(t) <= sdsavail(h) /\ t # <<>>
  BY SdsAssumption, SoundFacts DEF IncrLen, sdsIncrLen
<1>2. Len(t) \in Nat /\ Len(t) > 0 /\ Len(text) + Len(t) <= Longest
  BY <1>1, AppendingIs
<1>3. h.type # SDS_TYPE_5 /\ Len(t) <= h.alloc - h.len
  BY <1>1, <1>2 DEF sdsavail
<1>4. /\ h.len + Len(t) \in Nat /\ h.len + Len(t) <= TypeMax[h.type]
      /\ h.len + Len(t) <= Room(h) /\ h.len + Len(t) <= h.alloc
  <2>1. /\ h.len \in Nat /\ h.alloc \in Nat /\ TypeMax[h.type] \in Nat /\ Room(h) \in Int
        /\ h.alloc <= TypeMax[h.type] /\ h.alloc <= Room(h)
    BY <1>1, <1>3, HeaderFields DEF Room
  <2> QED BY <1>2, <1>3, <2>1
<1>5. HeaderOK(h') /\ h'.len = h.len + Len(t)
  BY <1>1, <1>4, SetLenOK
<1> QED BY <1>1, <1>2, <1>5, AppendOK

(* sdscatvprintf() appends what it printed with sdscat().                   *)
LEMMA CatPrintfNext == SdsInv => \A out \in Outputs : Appending(out) /\ CatPrintf(out) => SdsInv'
<1> SUFFICES ASSUME SdsInv, NEW out \in Outputs, Appending(out), CatPrintf(out) PROVE SdsInv'
  OBVIOUS
<1> DEFINE t == CString(out)
<1>1. /\ out \in Seq(Byte) /\ HeaderOK(h) /\ h.len = Len(text) /\ Len(text) \in Nat
      /\ text \in Seq(Byte)
  BY SdsAssumption, SoundFacts
<1>2. text' = text \o t /\ h' = sdscatlen(h, Len(text') - Len(text))
  BY <1>1, PrintIsComplete DEF CatPrintf
<1>3. t \in Seq(Byte) /\ Len(t) \in Nat /\ Len(t) <= Len(out)
  BY <1>1, CStringType
<1> HIDE DEF t
<1>4. Len(text') = Len(text) + Len(t)
  BY <1>1, <1>2, <1>3, ConcatProperties
<1>5. Len(text') - Len(text) = Len(t)
  BY <1>1, <1>3, <1>4
<1>6. Len(text) + Len(t) <= Longest /\ CanGrow(h, Len(t))
  <2>1. Len(out) \in Nat /\ Len(text) + Len(out) <= Longest /\ Longest \in Nat
    BY <1>1, AppendingIs, LongestIs
  <2>2. Len(text) + Len(t) <= Longest /\ h.len + Len(t) <= 2 * Longest
    BY <1>1, <1>3, <2>1
  <2> QED BY <1>3, <2>2, CanGrowBy
<1>7. HeaderOK(h') /\ h'.len = h.len + Len(t)
  BY <1>1, <1>2, <1>3, <1>5, <1>6, CatLenOK
<1> QED BY <1>2, <1>3, <1>6, <1>7, AppendOK

(* sdscatfmt() makes room for each item that does not fit.                  *)
LEMMA CatFmtNext ==
    SdsInv => \A f \in Formats : Appending(FlattenSeq(f)) /\ CatFmt(f) => SdsInv'
<1> SUFFICES ASSUME SdsInv, NEW f \in Formats, Appending(FlattenSeq(f)), CatFmt(f) PROVE SdsInv'
  OBVIOUS
<1>1. f \in Seq(Seq(Byte)) /\ HeaderOK(h)
  BY SdsAssumption, SoundFacts
<1>2. FlattenSeq(f) \in Seq(Byte)
  BY <1>1, FlattenType
<1>3. h.len + Len(FlattenSeq(f)) <= Longest /\ Len(text) + Len(FlattenSeq(f)) <= Longest
  BY <1>2, AppendingIs
<1>4. /\ text' = text \o FlattenSeq(f)
      /\ h' = FoldLeft(LAMBDA g, item : FormatItem(g, Len(item)), h, f)
  BY DEF CatFmt
<1>5. HeaderOK(h') /\ h'.len = h.len + Len(FlattenSeq(f))
  BY <1>1, <1>3, <1>4, CatFmtOK
<1> QED BY <1>2, <1>3, <1>4, <1>5, AppendOK

(* sdscpylen() grows the string when the new text is longer.                *)
LEMMA CpyNext == SdsInv => \A t \in Pieces : Cpy(t) => SdsInv'
<1> SUFFICES ASSUME SdsInv, NEW t \in Pieces, Cpy(t) PROVE SdsInv'
  OBVIOUS
<1>1. /\ t \in Seq(Byte) /\ Len(t) \in Nat /\ Len(t) <= Longest /\ Longest \in Nat
      /\ HeaderOK(h) /\ h.len \in Nat /\ h.len <= Longest
  BY SdsAssumption, SoundFacts, LongestIs DEF IsLongest
<1>2. Len(t) > h.len => CanGrow(h, Len(t) - h.len)
  <2> SUFFICES ASSUME Len(t) > h.len PROVE CanGrow(h, Len(t) - h.len)
    OBVIOUS
  <2>1. Len(t) - h.len \in Nat /\ h.len + (Len(t) - h.len) <= 2 * Longest
    BY <1>1
  <2> QED BY <2>1, CanGrowBy
<1>3. text' = t /\ h' = sdscpylen(h, Len(t))
  BY DEF Cpy
<1>4. HeaderOK(h') /\ h'.len = Len(t)
  BY <1>1, <1>2, <1>3, CpyLenOK
<1> QED BY <1>1, <1>3, <1>4, SoundNext

(* sdsgrowzero() fills what it grows by.                                    *)
LEMMA GrowZeroNext == SdsInv => \A n \in Sizes : GrowZero(n) => SdsInv'
<1> SUFFICES ASSUME SdsInv, NEW n \in Sizes, GrowZero(n) PROVE SdsInv'
  OBVIOUS
<1> DEFINE z == [i \in 1 .. n - Len(text) |-> NUL]
<1>1. /\ n \in Nat /\ n <= Longest /\ Longest \in Nat /\ HeaderOK(h) /\ h.len = Len(text)
      /\ Len(text) \in Nat /\ text \in Seq(Byte) /\ Len(text) <= Longest
  BY SdsAssumption, SoundFacts, LongestIs DEF IsLongest
<1>2. text' = text \o z /\ h' = sdsgrowzero(h, n)
  BY DEF GrowZero
<1>3. n > h.len => CanGrow(h, n - h.len)
  <2> SUFFICES ASSUME n > h.len PROVE CanGrow(h, n - h.len)
    OBVIOUS
  <2>1. n - h.len \in Nat /\ h.len + (n - h.len) <= 2 * Longest
    BY <1>1
  <2> QED BY <2>1, CanGrowBy
<1>4. HeaderOK(h') /\ h'.len = IF n > h.len THEN n ELSE h.len
  BY <1>1, <1>2, <1>3, GrowZeroOK
<1>5. CASE n > Len(text)
  <2>1. z \in Seq(Byte) /\ Len(z) = n - Len(text)
    <3> DEFINE k == n - Len(text)
    <3>1. k \in Nat
      BY <1>1, <1>5
    <3> HIDE DEF k
    <3>2. [i \in 1 .. k |-> NUL] \in Seq(Byte) /\ Len([i \in 1 .. k |-> NUL]) = k
      BY <3>1 DEF NUL, Byte
    <3> QED BY <3>2 DEF k
  <2> HIDE DEF z
  <2>2. Len(text) + Len(z) = n
    BY <1>1, <2>1
  <2>3. h'.len = h.len + Len(z)
    BY <1>1, <1>4, <1>5, <2>2
  <2> QED BY <1>1, <1>2, <1>4, <2>1, <2>2, <2>3, AppendOK
<1>6. CASE ~(n > Len(text))
  <2>1. 1 .. n - Len(text) = {}
    BY <1>1, <1>6
  <2>2. z = <<>>
    BY <2>1
  <2>3. text' = text
    BY <1>1, <1>2, <2>2, ConcatEmptySeq
  <2> QED BY <1>1, <1>4, <1>6, <2>3, SoundNext
<1> QED BY <1>5, <1>6

(* sdsclear() leaves the empty text.                                        *)
LEMMA ClearNext == SdsInv /\ Clear => SdsInv'
<1> SUFFICES ASSUME SdsInv, Clear PROVE SdsInv'
  OBVIOUS
<1>1. InPlace(<<>>) /\ <<>> \in Seq(Byte) /\ Len(<<>>) = 0
  BY DEF Clear, InPlace, sdsclear
<1>2. Len(<<>>) <= Len(text)
  BY <1>1, SoundFacts
<1> QED BY <1>1, <1>2, InPlaceOK

(* sdsupdatelen() sets the length strlen() finds.                           *)
LEMMA UpdateLenNext == SdsInv => \A i \in Sizes : UpdateLen(i) => SdsInv'
<1> SUFFICES ASSUME SdsInv, NEW i \in Sizes, UpdateLen(i) PROVE SdsInv'
  OBVIOUS
<1> DEFINE s == SubSeq(text, 1, i - 1)
           t == CString(s)
<1>1. text \in Seq(Byte) /\ Len(text) \in Nat /\ i \in 1 .. Len(text)
  BY SoundFacts DEF UpdateLen
<1>2. s \in Seq(Byte) /\ Len(s) <= Len(text) /\ Len(s) \in Nat
  <2>1. i - 1 \in Int /\ i - 1 <= Len(text)
    BY <1>1
  <2> QED BY <1>1, <2>1, SubSeqType
<1>3. InPlace(t)
  BY DEF UpdateLen, InPlace
<1> HIDE DEF s
<1>4. t \in Seq(Byte) /\ Len(t) <= Len(s) /\ Len(t) \in Nat
  BY <1>2, CStringType
<1>5. Len(t) <= Len(text)
  BY <1>1, <1>2, <1>4
<1> HIDE DEF t
<1> QED BY <1>3, <1>4, <1>5, InPlaceOK

(* sdsIncrLen() with a negative number cuts the text.                       *)
LEMMA DecrLenNext == SdsInv => \A n \in Sizes : DecrLen(n) => SdsInv'
<1> SUFFICES ASSUME SdsInv, NEW n \in Sizes, DecrLen(n) PROVE SdsInv'
  OBVIOUS
<1> DEFINE t == SubSeq(text, 1, Len(text) - n)
<1>1. /\ text \in Seq(Byte) /\ Len(text) \in Nat /\ n \in 1 .. Len(text) /\ h.len = Len(text)
      /\ text' = t /\ h' = sdssetlen(h, h.len + (-n))
  BY SoundFacts DEF DecrLen, sdsIncrLen
<1>2. t \in Seq(Byte) /\ Len(t) = Len(text) - n
  <2>1. Len(text) - n \in 0 .. Len(text)
    BY <1>1
  <2> QED BY <1>1, <2>1
<1> HIDE DEF t
<1>3. h.len + (-n) = Len(t) /\ Len(t) <= Len(text)
  BY <1>1, <1>2
<1>4. InPlace(t)
  BY <1>1, <1>3 DEF InPlace
<1> QED BY <1>2, <1>3, <1>4, InPlaceOK

(* sdsMakeRoomFor() keeps the length.                                       *)
LEMMA MakeRoomForNext == SdsInv => \A n \in Sizes : MakeRoomFor(n) => SdsInv'
<1> SUFFICES ASSUME SdsInv, NEW n \in Sizes, MakeRoomFor(n) PROVE SdsInv'
  OBVIOUS
<1>1. /\ n \in Nat /\ n <= Longest /\ Longest \in Nat /\ HeaderOK(h) /\ h.len = Len(text)
      /\ Len(text) \in Nat /\ text \in Seq(Byte) /\ Len(text) <= Longest
  BY SdsAssumption, SoundFacts, LongestIs DEF IsLongest
<1>2. CanGrow(h, n)
  <2>1. h.len + n <= 2 * Longest
    BY <1>1
  <2> QED BY <1>1, <2>1, CanGrowBy
<1>3. h' = sdsMakeRoomFor(h, n) /\ text' = text
  BY DEF MakeRoomFor
<1>4. HeaderOK(h') /\ h'.len = h.len
  BY <1>1, <1>2, <1>3, MakeRoomOK
<1> QED BY <1>1, <1>3, <1>4, SoundNext

(* sdsRemoveFreeSpace() keeps the length.                                   *)
LEMMA RemoveFreeSpaceNext == SdsInv /\ RemoveFreeSpace => SdsInv'
<1> SUFFICES ASSUME SdsInv, RemoveFreeSpace PROVE SdsInv'
  OBVIOUS
<1>1. h' = sdsRemoveFreeSpace(h) /\ text' = text /\ HeaderOK(h)
  BY SoundFacts DEF RemoveFreeSpace
<1>2. HeaderOK(h') /\ h'.len = h.len
  BY <1>1, RemoveFreeSpaceOK
<1> QED BY <1>1, <1>2, SoundFacts, SoundNext

(* The calls that work in place keep header and text in agreement.          *)
LEMMA ContentNext ==
    SdsInv => /\ ToLower \/ ToUpper => SdsInv'
              /\ \A i, k \in Indices : KeepRange(i, k) => SdsInv'
              /\ \A s \in Separators : Trim(s) \/ MapChars(s, Reverse(s)) => SdsInv'
<1> SUFFICES ASSUME SdsInv
             PROVE  /\ ToLower \/ ToUpper => SdsInv'
                    /\ \A i, k \in Indices : KeepRange(i, k) => SdsInv'
                    /\ \A s \in Separators : Trim(s) \/ MapChars(s, Reverse(s)) => SdsInv'
  OBVIOUS
<1>1. text \in Seq(Byte) /\ Len(text) \in Nat
  BY SoundFacts
<1>2. ToLower \/ ToUpper => SdsInv'
  BY <1>1, CaseType, OverwriteOK DEF ToLower, ToUpper
<1>3. ASSUME NEW i \in Indices, NEW k \in Indices, KeepRange(i, k) PROVE SdsInv'
  <2>1. i \in Int /\ k \in Int
    BY SdsAssumption
  <2> QED BY <1>1, <1>3, <2>1, RangeType, InPlaceOK DEF KeepRange
<1>4. ASSUME NEW s \in Separators PROVE Trim(s) \/ MapChars(s, Reverse(s)) => SdsInv'
  <2>1. s \in Seq(Byte)
    BY SdsAssumption
  <2>2. Trim(s) => SdsInv'
    BY <1>1, TrimType, InPlaceOK DEF Trim
  <2>3. MapChars(s, Reverse(s)) => SdsInv'
    <3>1. Reverse(s) \in Seq(Byte) /\ Len(Reverse(s)) = Len(s)
      BY <2>1, ReverseIs
    <3> QED BY <1>1, <2>1, <3>1, MapCharsType, OverwriteOK DEF MapChars
  <2> QED BY <2>2, <2>3
<1> QED BY <1>2, <1>3, <1>4

(* Every call keeps header and text in agreement.                           *)
LEMMA NextSound == SdsInv /\ [Next]_vars => SdsInv'
<1> SUFFICES ASSUME SdsInv, [Next]_vars PROVE SdsInv'
  OBVIOUS
<1>1. CASE UNCHANGED vars
  BY <1>1, OverwriteOK, SoundFacts DEF vars
<1>2. CASE Dup \/ Clear \/ RemoveFreeSpace \/ ToLower \/ ToUpper
  BY <1>2, DupNext, ClearNext, RemoveFreeSpaceNext, ContentNext
<1>3. CASE \E v \in Numbers : FromLongLong(v)
  BY <1>3, FromLongLongNext
<1>4. CASE \E t \in Pieces : Cpy(t) \/ (Appending(t) /\ (Cat(t) \/ IncrLen(t)))
  BY <1>4, CpyNext, CatNext, IncrLenNext
<1>5. CASE \E out \in Outputs : Appending(out) /\ CatPrintf(out)
  BY <1>5, CatPrintfNext
<1>6. CASE \E f \in Formats : Appending(FlattenSeq(f)) /\ CatFmt(f)
  BY <1>6, CatFmtNext
<1>7. CASE \E n \in Sizes : DecrLen(n) \/ UpdateLen(n)
  BY <1>7, DecrLenNext, UpdateLenNext
<1>8. CASE \E n \in Sizes : Growing /\ (GrowZero(n) \/ MakeRoomFor(n))
  BY <1>8, GrowZeroNext, MakeRoomForNext
<1>9. CASE \E i, k \in Indices : KeepRange(i, k)
  BY <1>9, ContentNext
<1>10. CASE \E s \in Separators : Trim(s) \/ MapChars(s, Reverse(s))
  BY <1>10, ContentNext
<1> QED BY <1>1, <1>2, <1>3, <1>4, <1>5, <1>6, <1>7, <1>8, <1>9, <1>10 DEF Next

(* The inductive invariant holds throughout.                                *)
LEMMA SdsInvariance == Spec => []SdsInv
  BY InitSound, NextSound, PTL DEF Spec

(* Whatever calls are made on a string, and in whatever order: its header   *)
(* tells the length of its text, and the capacity it claims is there.       *)
THEOREM HeaderStaysSound == Spec => []HeaderSound
<1>1. SdsInv => HeaderSound
  BY DEF SdsInv
<1> QED BY <1>1, SdsInvariance, PTL

(* A step of the length into room that sdsMakeRoomFor() made. *)
LEMMA RoomIsThere ==
    ASSUME SdsInv, NEW n \in Sizes, n # 0
    PROVE  LET g == sdsMakeRoomFor(h, n)
           IN /\ HeaderOK(g) /\ g.len = h.len /\ n <= Room(g) - g.len
              /\ \A k \in 0 .. n : IncrLegal(g, k) /\ HeaderOK(sdsIncrLen(g, k))
<1> DEFINE g == sdsMakeRoomFor(h, n)
<1>1. /\ n \in Nat /\ n > 0 /\ n <= Longest /\ Longest \in Nat /\ HeaderOK(h) /\ h.len \in Nat
      /\ h.len <= Longest
  BY SdsAssumption, SoundFacts, LongestIs DEF IsLongest
<1>2. CanGrow(h, n)
  <2>1. h.len + n <= 2 * Longest
    BY <1>1
  <2> QED BY <1>1, <2>1, CanGrowBy
<1>3. /\ HeaderOK(g) /\ g.len = h.len /\ sdsavail(g) >= n /\ g.len + n <= Room(g)
      /\ g.len + n <= TypeMax[g.type] /\ g.type # SDS_TYPE_5
  BY <1>1, <1>2, MakeRoomOK
<1> HIDE DEF g
<1>4. /\ g.len \in Nat /\ g.alloc \in Nat /\ Room(g) \in Int /\ TypeMax[g.type] \in Nat
      /\ g.alloc - g.len >= n
  BY <1>3, HeaderFields DEF Room, sdsavail
<1>5. n <= Room(g) - g.len
  BY <1>1, <1>3, <1>4
<1>6. ASSUME NEW k \in 0 .. n PROVE IncrLegal(g, k) /\ HeaderOK(sdsIncrLen(g, k))
  <2>1. g.alloc - g.len >= k /\ k >= 0
    BY <1>1, <1>4
  <2>2. /\ g.len + k \in Nat /\ g.len + k <= TypeMax[g.type] /\ g.len + k <= Room(g)
        /\ g.len + k <= g.alloc
    BY <1>1, <1>3, <1>4, <2>1
  <2>3. HeaderOK(sdssetlen(g, g.len + k))
    BY <1>3, <2>2, SetLenOK
  <2> QED BY <1>3, <2>1, <2>3 DEF IncrLegal, sdsIncrLen
<1>7. HeaderOK(g) /\ g.len = h.len
  BY <1>3
<1> QED BY <1>5, <1>6, <1>7 DEF g

(* After any calls, room asked for with sdsMakeRoomFor() is there, and any  *)
(* number of bytes read into it passes the assertion of sdsIncrLen().  Room *)
(* for no byte is left out: a header of type 5 stays as it is, and the      *)
(* assertion refuses a step of 0 there.                                     *)
THEOREM RoomIsUsable == 0 \notin Sizes /\ Spec => []RoomMadeIsUsable
<1> SUFFICES ASSUME 0 \notin Sizes PROVE Spec => []RoomMadeIsUsable
  OBVIOUS
<1>1. SdsInv => RoomMadeIsUsable
  BY RoomIsThere DEF RoomMadeIsUsable
<1> QED BY <1>1, SdsInvariance, PTL

-----------------------------------------------------------------------------
(* Splitting: what the loop of sdssplitlen() does from a given point on. *)

SplitStates == [start : Nat, j : Nat, elements : Nat, slots : Nat]
SplitEnds(s, sep) == {at \in SplitStates : at.j > Len(s) - (Len(sep) - 1)}
SplitRoom(at) == NextSlots(at.slots, at.elements)
SplitAfter(sep, at) ==
    [start |-> at.j + Len(sep), j |-> at.j + Len(sep),
     elements |-> at.elements + 1, slots |-> SplitRoom(at)]
SplitOn(at) ==
    [start |-> at.start, j |-> at.j + 1, elements |-> at.elements, slots |-> SplitRoom(at)]
SplitNext(s, sep, at) == IF Matches(s, sep, at.j) THEN SplitAfter(sep, at) ELSE SplitOn(at)
SplitLast(s, at) == [tokens |-> <<SubSeq(s, at.start, Len(s))>>, slots |-> at.slots]
SplitMore(s, sep, at, rest) ==
    IF Matches(s, sep, at.j)
    THEN [tokens |-> <<SubSeq(s, at.start, at.j - 1)>> \o rest.tokens, slots |-> rest.slots]
    ELSE rest

SplitsBy(sp, s, sep) ==
    \A at \in SplitStates :
        sp[at] = IF at \in SplitEnds(s, sep) THEN SplitLast(s, at)
                 ELSE SplitMore(s, sep, at, sp[SplitNext(s, sep, at)])

(* The loop of sdssplitlen() moves on, to a state of the loop.              *)
LEMMA SplitNextIs ==
    ASSUME NEW s, NEW sep \in Seq(Byte), sep # <<>>, NEW at \in SplitStates
    PROVE  /\ SplitNext(s, sep, at) \in SplitStates
           /\ SplitAfter(sep, at) \in SplitStates /\ SplitOn(at) \in SplitStates
           /\ SplitNext(s, sep, at).j > at.j
<1>1. /\ at.start \in Nat /\ at.j \in Nat /\ at.elements \in Nat /\ at.slots \in Nat
      /\ Len(sep) \in Nat /\ Len(sep) > 0
  BY DEF SplitStates
<1>2. SplitRoom(at) \in Nat
  BY <1>1 DEF SplitRoom, NextSlots
<1>3. SplitAfter(sep, at) \in SplitStates /\ SplitAfter(sep, at).j > at.j
  BY <1>1, <1>2 DEF SplitAfter, SplitStates
<1>4. SplitOn(at) \in SplitStates /\ SplitOn(at).j > at.j
  BY <1>1, <1>2 DEF SplitOn, SplitStates
<1> QED BY <1>3, <1>4 DEF SplitNext

(* Split() is what its equation says.                                       *)
LEMMA SplitIs ==
    ASSUME NEW s \in Seq(Byte), NEW sep \in Seq(Byte), sep # <<>>
    PROVE  \E sp : /\ SplitsBy(sp, s, sep)
                   /\ Split(s, sep) =
                        sp[[start |-> 1, j |-> 1, elements |-> 0, slots |-> FirstSlots]]
<1> DEFINE Def(f) ==
             [at \in SplitStates |->
                IF at.j > Len(s) - (Len(sep) - 1) THEN SplitLast(s, at)
                ELSE IF Matches(s, sep, at.j)
                THEN [tokens |-> <<SubSeq(s, at.start, at.j - 1)>> \o f[SplitAfter(sep, at)].tokens,
                      slots |-> f[SplitAfter(sep, at)].slots]
                ELSE f[SplitOn(at)]]
           P == {SubSeq(s, p[1], p[2]) : p \in Nat \X Int}
           T == [tokens : Seq(P), slots : Nat]
           n == Len(s)
           D == SplitStates
           mu == [at \in D |-> IF at.j > n THEN 0 ELSE n + 1 - at.j]
           d == [at \in D |-> SplitNext(s, sep, at)]
           Stop == SplitEnds(s, sep)
           b == [at \in D |-> SplitLast(s, at)]
           F == [p \in D \X T |-> SplitMore(s, sep, p[1], p[2])]
           sp == CHOOSE f : f = Def(f)
<1>1. n \in Nat /\ Len(sep) \in Nat /\ Len(sep) > 0
  OBVIOUS
<1>2. Descends(D, mu, Stop, d)
  <2>1. \A at \in D : at.j \in Nat
    BY DEF SplitStates
  <2>2. mu \in [D -> Nat]
    BY <1>1, <2>1
  <2>3. d \in [D -> D]
    BY SplitNextIs
  <2>4. ASSUME NEW at \in D, at \notin Stop PROVE mu[d[at]] < mu[at]
    <3>1. at.j <= n - (Len(sep) - 1)
      BY <1>1, <2>1, <2>4 DEF SplitEnds
    <3>2. at.j <= n /\ at.j \in Nat
      BY <1>1, <2>1, <3>1
    <3>3. d[at] \in D /\ d[at].j > at.j
      BY SplitNextIs
    <3>4. d[at].j \in Nat
      BY <2>1, <3>3
    <3> HIDE DEF d, D
    <3>5. mu[at] = n + 1 - at.j /\ mu[d[at]] = IF d[at].j > n THEN 0 ELSE n + 1 - d[at].j
      BY <1>1, <3>2, <3>3
    <3> QED BY <1>1, <3>2, <3>3, <3>4, <3>5
  <2> HIDE DEF mu, d, Stop, D
  <2> QED BY <2>2, <2>3, <2>4 DEF Descends
<1>3. Body(D, T, b, F)
  <2>0. \A x \in Nat : \A y \in Int : SubSeq(s, x, y) \in P
    <3> SUFFICES ASSUME NEW x \in Nat, NEW y \in Int PROVE SubSeq(s, x, y) \in P
      OBVIOUS
    <3>1. <<x, y>> \in Nat \X Int /\ SubSeq(s, x, y) = SubSeq(s, <<x, y>>[1], <<x, y>>[2])
      OBVIOUS
    <3> QED BY <3>1
  <2> HIDE DEF P
  <2>1. ASSUME NEW at \in D PROVE SplitLast(s, at) \in T
    <3>0. at.start \in Nat /\ at.slots \in Nat /\ Len(s) \in Int
      BY <1>1 DEF SplitStates
    <3>1. SubSeq(s, at.start, Len(s)) \in P /\ at.slots \in Nat
      BY <2>0, <3>0
    <3>2. <<SubSeq(s, at.start, Len(s))>> \in Seq(P)
      BY <3>1
    <3> QED BY <3>1, <3>2 DEF SplitLast
  <2>2. ASSUME NEW at \in D, NEW v \in T PROVE SplitMore(s, sep, at, v) \in T
    <3>0. at.start \in Nat /\ at.j - 1 \in Int
      BY DEF SplitStates
    <3>1. SubSeq(s, at.start, at.j - 1) \in P
      BY <2>0, <3>0
    <3>2. <<SubSeq(s, at.start, at.j - 1)>> \in Seq(P)
      BY <3>1
    <3>3. v.tokens \in Seq(P) /\ v.slots \in Nat
      OBVIOUS
    <3>4. <<SubSeq(s, at.start, at.j - 1)>> \o v.tokens \in Seq(P)
      BY <3>2, <3>3, ConcatProperties
    <3> QED BY <3>3, <3>4 DEF SplitMore
  <2> HIDE DEF T, D
  <2>3. b \in [D -> T]
    BY <2>1
  <2>4. F \in [D \X T -> T]
    BY <2>2
  <2> HIDE DEF b, F
  <2> QED BY <2>3, <2>4 DEF Body
<1>4. PICK f : Solves(f, D, Stop, d, T, b, F)
  <2> HIDE DEF mu, d, b, F, Stop, T, D
  <2> QED BY <1>2, <1>3, RecursionExists
<1>5. ASSUME NEW at \in D, NEW g
      PROVE  (IF at \in Stop THEN SplitLast(s, at)
              ELSE SplitMore(s, sep, at, g[SplitNext(s, sep, at)])) = Def(g)[at]
  BY DEF SplitEnds, SplitMore, SplitNext
<1>6. f = Def(f)
  <2>1. ASSUME NEW at \in D PROVE f[at] = Def(f)[at]
    <3>1. f \in [D -> T] /\ f[at] = IF at \in Stop THEN b[at] ELSE F[<<at, f[d[at]]>>]
      <4> HIDE DEF T, D, d, F, b, Stop
      <4> QED BY <1>4 DEF Solves
    <3>2. b[at] = SplitLast(s, at) /\ d[at] = SplitNext(s, sep, at) /\ d[at] \in D
      BY SplitNextIs
    <3>3. f[d[at]] \in T
      <4> HIDE DEF T, D, d
      <4> QED BY <3>1, <3>2
    <3>4. F[<<at, f[d[at]]>>] = SplitMore(s, sep, at, f[d[at]])
      <4> HIDE DEF T, D, d
      <4> QED BY <3>3
    <3>5. f[at] = IF at \in Stop THEN SplitLast(s, at)
                  ELSE SplitMore(s, sep, at, f[SplitNext(s, sep, at)])
      <4> HIDE DEF T, D, d, F, b, Stop
      <4> QED BY <3>1, <3>2, <3>4
    <3>6. (IF at \in Stop THEN SplitLast(s, at)
           ELSE SplitMore(s, sep, at, f[SplitNext(s, sep, at)])) = Def(f)[at]
      <4> HIDE DEF Def, Stop, D
      <4> QED BY <1>5
    <3> DEFINE v == IF at \in Stop THEN SplitLast(s, at)
                    ELSE SplitMore(s, sep, at, f[SplitNext(s, sep, at)])
               w == Def(f)[at]
    <3>7. f[at] = v /\ v = w
      <4> HIDE DEF w, Stop, D, T, d, F, b
      <4> QED BY <3>5, <3>6 DEF w
    <3> QED BY <3>7, Zenon
  <2>2. f \in [D -> T]
    BY <1>4 DEF Solves
  <2>3. Def(f) = [at \in D |-> Def(f)[at]]
    OBVIOUS
  <2>4. f = [at \in D |-> f[at]]
    <3> HIDE DEF T, D
    <3> QED BY <2>2
  <2> HIDE DEF Def, D
  <2> QED BY <2>1, <2>3, <2>4
<1>7. sp = Def(sp)
  <2>1. \E g : g = Def(g)
    BY <1>6
  <2> HIDE DEF Def
  <2> QED BY <2>1
<1>8. Split(s, sep) = sp[[start |-> 1, j |-> 1, elements |-> 0, slots |-> FirstSlots]]
  BY DEF Split, SplitStates, SplitLast, SplitAfter, SplitOn, SplitRoom
<1> HIDE DEF sp
<1>9. SplitsBy(sp, s, sep)
  <2>1. ASSUME NEW at \in D
        PROVE  sp[at] = IF at \in Stop THEN SplitLast(s, at)
                        ELSE SplitMore(s, sep, at, sp[SplitNext(s, sep, at)])
    <3> HIDE DEF Def, D, Stop
    <3> QED BY <1>5, <1>7
  <2> QED BY <2>1 DEF SplitsBy
<1> QED BY <1>8, <1>9

(* A part of a sequence. *)
LEMMA PartIs ==
    ASSUME NEW S, NEW s \in Seq(S), NEW a \in 1 .. Len(s) + 1, NEW b \in a - 1 .. Len(s)
    PROVE  /\ SubSeq(s, a, b) \in Seq(S) /\ Len(SubSeq(s, a, b)) = b - a + 1
           /\ DOMAIN SubSeq(s, a, b) = 1 .. b - a + 1
           /\ \A i \in 1 .. b - a + 1 : SubSeq(s, a, b)[i] = s[a + i - 1] /\ a + i - 1 \in 1 .. Len(s)
<1>1. Len(s) \in Nat /\ a \in Nat /\ b \in Int /\ b - a + 1 \in Nat
  OBVIOUS
<1>2. CASE a <= b
  BY <1>1, <1>2
<1>3. CASE ~(a <= b)
  <2>1. SubSeq(s, a, b) = <<>> /\ b - a + 1 = 0
    BY <1>1, <1>3
  <2>2. <<>> \in Seq(S) /\ Len(<<>>) = 0 /\ DOMAIN <<>> = 1 .. 0
    OBVIOUS
  <2> QED BY <2>1, <2>2
<1> QED BY <1>2, <1>3

(* One element put before a sequence. *)
LEMMA ConsIs ==
    ASSUME NEW U, NEW a \in U, NEW ss \in Seq(U)
    PROVE  /\ <<a>> \o ss \in Seq(U) /\ Len(<<a>> \o ss) = Len(ss) + 1 /\ (<<a>> \o ss)[1] = a
           /\ \A i \in 2 .. Len(ss) + 1 : (<<a>> \o ss)[i] = ss[i - 1]
<1> DEFINE aa == <<a>>
           n == Len(ss)
<1>1. aa \in Seq(U) /\ Len(aa) = 1 /\ aa[1] = a /\ n \in Nat
  OBVIOUS
<1> HIDE DEF aa
<1>2. /\ aa \o ss \in Seq(U) /\ Len(aa \o ss) = Len(aa) + Len(ss)
      /\ \A i \in 1 .. Len(aa) + Len(ss) :
            (aa \o ss)[i] = IF i <= Len(aa) THEN aa[i] ELSE ss[i - Len(aa)]
  BY <1>1, ConcatProperties
<1> HIDE DEF n
<1>3. \A i \in 2 .. n + 1 : i \in 1 .. 1 + n /\ ~(i <= 1)
  BY <1>1
<1>4. 1 \in 1 .. 1 + n /\ 1 + n = n + 1
  BY <1>1
<1> QED BY <1>1, <1>2, <1>3, <1>4 DEF aa, n

(* A function on 1 .. n is a sequence.                                      *)
LEMMA SequenceBy ==
    ASSUME NEW U, NEW n \in Nat, NEW v, v = [i \in 1 .. n |-> v[i]], \A i \in 1 .. n : v[i] \in U
    PROVE  v \in Seq(U) /\ Len(v) = n
<1>1. v \in [1 .. n -> U]
  OBVIOUS
<1> QED BY <1>1

(* Flattening from the front. *)
LEMMA FlattenCons ==
    ASSUME NEW S, NEW a \in Seq(S), NEW ss \in Seq(Seq(S))
    PROVE  /\ <<a>> \o ss \in Seq(Seq(S))
           /\ FlattenSeq(<<a>> \o ss) = a \o FlattenSeq(ss)
<1> DEFINE n == Len(ss)
           tt == <<a>> \o ss
<1>0. n \in Nat
  OBVIOUS
<1>1. PICK f \in [0 .. Len(ss) -> Seq(S)] : Flattens(f, ss) /\ FlattenSeq(ss) = f[n]
  BY FlattenIs
<1>2. /\ tt \in Seq(Seq(S)) /\ Len(tt) = n + 1 /\ tt[1] = a
      /\ \A i \in 2 .. n + 1 : tt[i] = ss[i - 1]
  <2> DEFINE U == Seq(S)
  <2>1. a \in U /\ ss \in Seq(U)
    OBVIOUS
  <2> HIDE DEF U
  <2>2. /\ tt \in Seq(U) /\ Len(tt) = n + 1 /\ tt[1] = a
        /\ \A i \in 2 .. n + 1 : tt[i] = ss[i - 1]
    BY <2>1, ConsIs
  <2> QED BY <2>2 DEF U
<1> HIDE DEF tt
<1> DEFINE g == [i \in 0 .. n + 1 |-> IF i = 0 THEN <<>> ELSE a \o f[i - 1]]
<1>3. g[0] = <<>> /\ \A i \in 1 .. n + 1 : g[i] = a \o f[i - 1]
  BY <1>0
<1> HIDE DEF g
<1>4. ASSUME NEW i \in 1 .. n + 1 PROVE g[i] = g[i - 1] \o tt[i]
  <2>1. CASE i = 1
    <3>0. 1 \in 1 .. n + 1 /\ 1 - 1 = 0 /\ f[0] = <<>>
      BY <1>0, <1>1 DEF Flattens
    <3>1. g[1] = a \o <<>>
      BY <3>0, <1>3
    <3>2. a \o <<>> = a /\ <<>> \o a = a
      BY ConcatEmptySeq
    <3> QED BY <1>2, <1>3, <2>1, <3>1, <3>2, SMTT(30)
  <2>2. CASE i # 1
    <3>1. i - 1 \in 1 .. n /\ i - 2 \in 0 .. n /\ (i - 1) - 1 = i - 2 /\ i \in 2 .. n + 1
          /\ i - 1 \in 1 .. n + 1
      BY <1>0, <2>2
    <3>2. g[i] = a \o f[i - 1] /\ g[i - 1] = a \o f[i - 2] /\ tt[i] = ss[i - 1]
      BY <1>2, <1>3, <3>1
    <3>3. f[i - 1] = f[i - 2] \o ss[i - 1]
      BY <1>1, <3>1 DEF Flattens
    <3>4. f[i - 2] \in Seq(S) /\ ss[i - 1] \in Seq(S)
      <4>1. f[i - 2] \in Seq(S)
        BY <3>1
      <4>2. ss[i - 1] \in Seq(S)
        BY <3>1, ElementOfSeq
      <4> QED BY <4>1, <4>2
    <3>5. a \o (f[i - 2] \o ss[i - 1]) = (a \o f[i - 2]) \o ss[i - 1]
      <4> DEFINE x == f[i - 2]
                 y == ss[i - 1]
      <4>1. x \in Seq(S) /\ y \in Seq(S)
        BY <3>4
      <4> HIDE DEF x, y
      <4>2. (a \o x) \o y = a \o (x \o y)
        BY <4>1, ConcatAssociative, SMTT(30)
      <4> QED BY <4>2 DEF x, y
    <3> QED BY <3>2, <3>3, <3>5
  <2> QED BY <2>1, <2>2
<1>5. Flattens(g, tt)
  BY <1>2, <1>3, <1>4 DEF Flattens
<1>6. FlattenSeq(tt) = g[n + 1]
  BY <1>2, <1>5, FlattenBy
<1>7. g[n + 1] = a \o f[n]
  BY <1>0, <1>3
<1> QED BY <1>1, <1>2, <1>6, <1>7 DEF tt

(* Flattening a single sequence gives that sequence.                        *)
LEMMA FlattenOne ==
    ASSUME NEW S, NEW a \in Seq(S)
    PROVE  FlattenSeq(<<a>>) = a
<1> DEFINE g == [i \in 0 .. 1 |-> IF i = 0 THEN <<>> ELSE a]
           ss == <<a>>
<1>1. ss \in Seq(Seq(S)) /\ Len(ss) = 1 /\ ss[1] = a
  OBVIOUS
<1>2. g[0] = <<>> /\ g[1] = a /\ <<>> \o a = a
  BY ConcatEmptySeq
<1> HIDE DEF g, ss
<1>3. Flattens(g, ss)
  BY <1>1, <1>2, SMTT(30) DEF Flattens
<1>4. FlattenSeq(ss) = g[1]
  BY <1>1, <1>3, FlattenBy
<1> QED BY <1>2, <1>4 DEF ss

(* Joining from the front. *)
LEMMA JoinOne ==
    ASSUME NEW t \in Seq(Byte), NEW sep
    PROVE  sdsjoinsds(<<t>>, sep) = t
<1> DEFINE argv == <<t>>
           all == [i \in DOMAIN argv |-> argv[i] \o (IF i = Len(argv) THEN <<>> ELSE sep)]
<1>1. DOMAIN argv = 1 .. 1 /\ Len(argv) = 1 /\ argv[1] = t
  OBVIOUS
<1>2. t \o <<>> = t
  BY ConcatEmptySeq
<1>3. all = [i \in 1 .. 1 |-> t]
  <2> HIDE DEF argv
  <2> QED BY <1>1, <1>2
<1>4. all = <<t>>
  BY <1>3
<1> QED BY <1>4, FlattenOne DEF sdsjoinsds

(* Joining puts the separator behind the first of several tokens.           *)
LEMMA JoinCons ==
    ASSUME NEW t \in Seq(Byte), NEW sep \in Seq(Byte), NEW rest \in Seq(Seq(Byte)), Len(rest) >= 1
    PROVE  /\ sdsjoinsds(<<t>> \o rest, sep) = (t \o sep) \o sdsjoinsds(rest, sep)
           /\ sdsjoinsds(rest, sep) \in Seq(Byte)
<1> DEFINE U == Seq(Byte)
           n == Len(rest)
           argv == <<t>> \o rest
           With(v) == [i \in DOMAIN v |-> v[i] \o (IF i = Len(v) THEN <<>> ELSE sep)]
<1>0. n \in Nat /\ n >= 1 /\ rest \in Seq(U)
  OBVIOUS
<1>1. /\ argv \in Seq(U) /\ Len(argv) = n + 1 /\ argv[1] = t
      /\ \A i \in 2 .. n + 1 : argv[i] = rest[i - 1]
  <2>1. t \in U
    OBVIOUS
  <2> HIDE DEF U
  <2> QED BY <1>0, <2>1, ConsIs
<1> HIDE DEF argv
<1>2. ASSUME NEW v \in Seq(U) PROVE With(v) \in Seq(U) /\ Len(With(v)) = Len(v)
  <2>1. Len(v) \in Nat /\ DOMAIN v = 1 .. Len(v)
    OBVIOUS
  <2>2. \A i \in 1 .. Len(v) : v[i] \o (IF i = Len(v) THEN <<>> ELSE sep) \in U
    <3> SUFFICES ASSUME NEW i \in 1 .. Len(v)
                 PROVE  v[i] \o (IF i = Len(v) THEN <<>> ELSE sep) \in U
      OBVIOUS
    <3>1. v[i] \in Seq(Byte)
      BY ElementOfSeq
    <3>2. <<>> \in Seq(Byte)
      OBVIOUS
    <3>3. (IF i = Len(v) THEN <<>> ELSE sep) \in Seq(Byte)
      BY <3>2, SMTT(30)
    <3> QED BY <3>1, <3>3, ConcatProperties
  <2> HIDE DEF U
  <2>3. With(v) = [i \in 1 .. Len(v) |-> With(v)[i]] /\ \A i \in 1 .. Len(v) : With(v)[i] \in U
    BY <2>1, <2>2
  <2> HIDE DEF With
  <2> QED BY <2>1, <2>3, SequenceBy
<1>3. With(argv) = <<t \o sep>> \o With(rest)
  <2> DEFINE first == t \o sep
             w == With(argv)
             r == With(rest)
             v == <<first>> \o r
  <2>1. first \in U
    BY ConcatProperties
  <2>2. r \in Seq(U) /\ Len(r) = n /\ w \in Seq(U) /\ Len(w) = n + 1
    <3> HIDE DEF With, U
    <3> QED BY <1>0, <1>1, <1>2
  <2>3. /\ v \in Seq(U) /\ Len(v) = n + 1 /\ v[1] = first
        /\ \A i \in 2 .. n + 1 : v[i] = r[i - 1]
    <3> HIDE DEF first, r, U
    <3> QED BY <2>1, <2>2, ConsIs, SMTT(30)
  <2>4. ASSUME NEW i \in 1 .. n + 1 PROVE w[i] = v[i]
    <3>0. DOMAIN argv = 1 .. n + 1 /\ DOMAIN rest = 1 .. n
      <4> HIDE DEF U
      <4> QED BY <1>0, <1>1
    <3>a. \A k \in 1 .. n + 1 : w[k] = argv[k] \o (IF k = n + 1 THEN <<>> ELSE sep)
      BY <1>1, <3>0, SMTT(30)
    <3>b. \A k \in 1 .. n : r[k] = rest[k] \o (IF k = n THEN <<>> ELSE sep)
      BY <3>0
    <3> HIDE DEF w, r, v
    <3>1. CASE i = 1
      <4>1. 1 # n + 1
        BY <1>0
      <4> QED BY <1>1, <2>3, <3>a, <3>1, <4>1
    <3>2. CASE i # 1
      <4>1. i \in 2 .. n + 1 /\ i - 1 \in 1 .. n /\ (i = n + 1 <=> i - 1 = n)
        BY <1>0, <3>2
      <4> DEFINE e == IF i = n + 1 THEN <<>> ELSE sep
      <4>2. w[i] = argv[i] \o e /\ argv[i] = rest[i - 1] /\ v[i] = r[i - 1]
        BY <1>1, <2>3, <3>a, <4>1
      <4>3. r[i - 1] = rest[i - 1] \o e
        BY <3>b, <4>1
      <4> HIDE DEF e
      <4> QED BY <4>2, <4>3
    <3> QED BY <3>1, <3>2
  <2>5. w = v
    <3> HIDE DEF w, v, U
    <3> QED BY <2>2, <2>3, <2>4, SeqEqual
  <2> QED BY <2>5
<1>4. /\ sdsjoinsds(argv, sep) = FlattenSeq(With(argv))
      /\ sdsjoinsds(rest, sep) = FlattenSeq(With(rest))
  BY DEF sdsjoinsds
<1>5. With(rest) \in Seq(Seq(Byte)) /\ t \o sep \in Seq(Byte)
  BY <1>0, <1>2, ConcatProperties
<1> HIDE DEF With
<1>6. FlattenSeq(<<t \o sep>> \o With(rest)) = (t \o sep) \o FlattenSeq(With(rest))
  BY <1>5, FlattenCons
<1>7. FlattenSeq(With(rest)) \in Seq(Byte)
  BY <1>5, FlattenType
<1> QED BY <1>3, <1>4, <1>6, <1>7 DEF argv

Free(t, sep) == \A j \in DOMAIN t : ~Matches(t, sep, j)
NoNul(t) == \A k \in DOMAIN t : t[k] # NUL

(* What is asked of the tokens from start on. *)
TokensOK(s, sep, start, ts) ==
    /\ ts \in Seq(Seq(Byte)) /\ Len(ts) \in Nat /\ Len(ts) >= 1
    /\ sdsjoinsds(ts, sep) = SubSeq(s, start, Len(s))
    /\ \A i \in 1 .. Len(ts) : Free(ts[i], sep)
    /\ NoNul(s) => \A i \in 1 .. Len(ts) : NoNul(ts[i])
    /\ Len(ts) = 1 \/ \E m \in 1 .. Len(s) : Matches(s, sep, m)

(* A match in a part of a string is one in the string. *)
LEMMA MatchInside ==
    ASSUME NEW s \in Seq(Byte), NEW sep \in Seq(Byte), sep # <<>>,
           NEW a \in 1 .. Len(s) + 1, NEW b \in a - 1 .. Len(s),
           NEW m \in 1 .. b - a + 1, Matches(SubSeq(s, a, b), sep, m)
    PROVE  Matches(s, sep, a + m - 1) /\ a + m - 1 + Len(sep) - 1 <= b
<1> DEFINE t == SubSeq(s, a, b)
           L == Len(sep)
           k == a + m - 1
<1>1. L \in Nat /\ L >= 1 /\ Len(s) \in Nat /\ k \in Nat /\ a \in Nat /\ b \in Int /\ m \in Nat
      /\ m >= 1 /\ a >= 1 /\ b <= Len(s)
  OBVIOUS
<1>2. /\ t \in Seq(Byte) /\ Len(t) = b - a + 1
      /\ \A i \in 1 .. b - a + 1 : t[i] = s[a + i - 1]
  BY PartIs
<1>3. m + L - 1 <= Len(t) /\ SubSeq(t, m, m + L - 1) = sep
  BY DEF Matches
<1> HIDE DEF t, L
<1>4. m + L - 1 <= b - a + 1 /\ k + L - 1 <= b /\ k + L - 1 <= Len(s)
  BY <1>1, <1>2, <1>3
<1>5. /\ Len(SubSeq(t, m, m + L - 1)) = L
      /\ \A i \in 1 .. L : SubSeq(t, m, m + L - 1)[i] = t[m + i - 1]
  <2> DEFINE e == m + L - 1
  <2>1. m \in 1 .. Len(t) + 1 /\ e \in m - 1 .. Len(t) /\ e - m + 1 = L
    BY <1>1, <1>2, <1>3
  <2> HIDE DEF e
  <2>2. Len(SubSeq(t, m, e)) = e - m + 1 /\ \A i \in 1 .. e - m + 1 : SubSeq(t, m, e)[i] = t[m + i - 1]
    BY <1>2, <2>1, PartIs
  <2> QED BY <2>1, <2>2 DEF e
<1>6. /\ SubSeq(s, k, k + L - 1) \in Seq(Byte) /\ Len(SubSeq(s, k, k + L - 1)) = L
      /\ \A i \in 1 .. L : SubSeq(s, k, k + L - 1)[i] = s[k + i - 1]
  <2> DEFINE e == k + L - 1
  <2>1. k \in 1 .. Len(s) + 1 /\ e \in k - 1 .. Len(s) /\ e - k + 1 = L
    BY <1>1, <1>4
  <2> HIDE DEF e, k
  <2>2. /\ SubSeq(s, k, e) \in Seq(Byte) /\ Len(SubSeq(s, k, e)) = e - k + 1
        /\ \A i \in 1 .. e - k + 1 : SubSeq(s, k, e)[i] = s[k + i - 1]
    BY <2>1, PartIs
  <2> QED BY <2>1, <2>2 DEF e
<1>7. \A i \in 1 .. L : t[m + i - 1] = s[k + i - 1]
  <2> SUFFICES ASSUME NEW i \in 1 .. L PROVE t[m + i - 1] = s[k + i - 1]
    OBVIOUS
  <2>1. m + i - 1 \in 1 .. b - a + 1 /\ a + (m + i - 1) - 1 = k + i - 1
    BY <1>1, <1>4
  <2> QED BY <1>2, <2>1
<1>8. SubSeq(s, k, k + L - 1) = sep
  <2>1. sep \in Seq(Byte) /\ Len(sep) = L
    BY DEF L
  <2>2. \A i \in 1 .. L : SubSeq(s, k, k + L - 1)[i] = sep[i]
    BY <1>3, <1>5, <1>6, <1>7
  <2> HIDE DEF k
  <2> QED BY <1>6, <2>1, <2>2, SeqEqual
<1> QED BY <1>4, <1>8 DEF Matches, L

(* Where the loop may be, and what it has seen. *)
SplitAtOK(s, sep, at) ==
    /\ at \in SplitStates /\ at.start \in 1 .. Len(s) + 1 /\ at.j \in at.start .. Len(s) + 1
    /\ at.slots >= at.elements + 1
    /\ \A m \in at.start .. at.j - 1 : ~Matches(s, sep, m)

SplitGood(s, sep, at, r) ==
    /\ TokensOK(s, sep, at.start, r.tokens)
    /\ at.elements + Len(r.tokens) <= r.slots

(* The part from start to b is free of separators if none was seen. *)
LEMMA PartFree ==
    ASSUME NEW s \in Seq(Byte), NEW sep \in Seq(Byte), sep # <<>>,
           NEW a \in 1 .. Len(s) + 1, NEW b \in a - 1 .. Len(s),
           \A m \in a .. b : m + Len(sep) - 1 <= b => ~Matches(s, sep, m)
    PROVE  /\ SubSeq(s, a, b) \in Seq(Byte) /\ Free(SubSeq(s, a, b), sep)
           /\ NoNul(s) => NoNul(SubSeq(s, a, b))
<1> DEFINE t == SubSeq(s, a, b)
<1>1. /\ t \in Seq(Byte) /\ DOMAIN t = 1 .. b - a + 1
      /\ \A i \in 1 .. b - a + 1 : t[i] = s[a + i - 1] /\ a + i - 1 \in 1 .. Len(s)
  BY PartIs
<1>2. Free(t, sep)
  <2> SUFFICES ASSUME NEW m \in 1 .. b - a + 1, Matches(t, sep, m) PROVE FALSE
    BY <1>1 DEF Free
  <2>1. Matches(s, sep, a + m - 1) /\ a + m - 1 + Len(sep) - 1 <= b
    BY MatchInside
  <2>2. a + m - 1 \in a .. b
    OBVIOUS
  <2> QED BY <2>1, <2>2
<1>3. NoNul(s) => NoNul(t)
  <2>1. DOMAIN s = 1 .. Len(s)
    OBVIOUS
  <2> HIDE DEF t
  <2> QED BY <1>1, <2>1 DEF NoNul
<1> QED BY <1>1, <1>2, <1>3

(* The final token holds what is left of the string.                        *)
LEMMA SplitLastGood ==
    ASSUME NEW s \in Seq(Byte), NEW sep \in Seq(Byte), sep # <<>>,
           NEW at, SplitAtOK(s, sep, at), at \in SplitEnds(s, sep)
    PROVE  SplitGood(s, sep, at, SplitLast(s, at))
<1> DEFINE a == at.start
           t == SubSeq(s, a, Len(s))
           n == Len(s)
<1>1. /\ n \in Nat /\ a \in 1 .. n + 1 /\ n \in a - 1 .. n /\ at.j \in Nat /\ at.elements \in Nat
      /\ at.slots \in Nat /\ at.slots >= at.elements + 1 /\ Len(sep) \in Nat
      /\ at.j > n - (Len(sep) - 1) /\ \A m \in a .. at.j - 1 : ~Matches(s, sep, m)
  BY DEF SplitAtOK, SplitStates, SplitEnds
<1>2. \A m \in a .. n : m + Len(sep) - 1 <= n => ~Matches(s, sep, m)
  <2> SUFFICES ASSUME NEW m \in a .. n, m + Len(sep) - 1 <= n PROVE ~Matches(s, sep, m)
    OBVIOUS
  <2>1. m \in a .. at.j - 1
    BY <1>1
  <2> QED BY <1>1, <2>1
<1> HIDE DEF a
<1>3. t \in Seq(Byte) /\ Free(t, sep) /\ (NoNul(s) => NoNul(t))
  BY <1>1, <1>2, PartFree
<1> HIDE DEF t
<1> DEFINE ts == <<t>>
<1>4. ts \in Seq(Seq(Byte)) /\ Len(ts) = 1 /\ ts[1] = t
  BY <1>3
<1>5. sdsjoinsds(ts, sep) = t
  BY <1>3, JoinOne
<1> HIDE DEF ts
<1>6. TokensOK(s, sep, at.start, ts)
  <2>1. \A i \in 1 .. 1 : i = 1
    OBVIOUS
  <2>2. \A i \in 1 .. Len(ts) : ts[i] = t
    BY <1>4, <2>1
  <2>3. sdsjoinsds(ts, sep) = SubSeq(s, at.start, Len(s))
    BY <1>5 DEF t, a
  <2>4. \A i \in 1 .. Len(ts) : Free(ts[i], sep)
    BY <1>3, <2>2
  <2>5. NoNul(s) => \A i \in 1 .. Len(ts) : NoNul(ts[i])
    BY <1>3, <2>2
  <2>6. Len(ts) \in Nat /\ Len(ts) >= 1
    BY <1>4
  <2> QED BY <1>4, <2>3, <2>4, <2>5, <2>6, Zenon DEF TokensOK
<1>7. SplitLast(s, at) = [tokens |-> ts, slots |-> at.slots]
  BY DEF SplitLast, ts, t, a
<1>8. at.elements + Len(ts) <= at.slots
  BY <1>1, <1>4
<1> DEFINE r == [tokens |-> ts, slots |-> at.slots]
<1>9. r.tokens = ts /\ r.slots = at.slots
  OBVIOUS
<1>10. SplitLast(s, at) = r
  BY <1>7
<1> HIDE DEF r
<1> QED BY <1>6, <1>8, <1>9, <1>10 DEF SplitGood

(* A token that ends at a separator is free of it, and has a slot.          *)
LEMMA SplitFoundGood ==
    ASSUME NEW s \in Seq(Byte), NEW sep \in Seq(Byte), sep # <<>>,
           NEW at, SplitAtOK(s, sep, at), at \notin SplitEnds(s, sep), Matches(s, sep, at.j)
    PROVE  /\ SplitAtOK(s, sep, SplitAfter(sep, at))
           /\ \A r : SplitGood(s, sep, SplitAfter(sep, at), r) =>
                        SplitGood(s, sep, at, SplitMore(s, sep, at, r))
<1> DEFINE a == at.start
           j == at.j
           n == Len(s)
           L == Len(sep)
           e == at.elements
           room == SplitRoom(at)
           t == SubSeq(s, a, j - 1)
<1>1. /\ n \in Nat /\ a \in 1 .. n + 1 /\ j \in a .. n + 1 /\ e \in Nat /\ at.slots \in Nat
      /\ at.slots >= e + 1 /\ L \in Nat /\ L >= 1
      /\ \A m \in a .. j - 1 : ~Matches(s, sep, m)
  BY DEF SplitAtOK, SplitStates
<1>2. j + L - 1 <= n /\ SubSeq(s, j, j + L - 1) = sep
  BY DEF Matches
<1>3. room \in Nat /\ room >= e + 2
  BY <1>1, SMTT(30) DEF SplitRoom, NextSlots
<1>4. /\ SplitAfter(sep, at) = [start |-> j + L, j |-> j + L, elements |-> e + 1, slots |-> room]
      /\ SplitAfter(sep, at) \in SplitStates
  <2>1. SplitAfter(sep, at) = [start |-> j + L, j |-> j + L, elements |-> e + 1, slots |-> room]
    BY DEF SplitAfter
  <2>2. j + L \in Nat /\ e + 1 \in Nat
    BY <1>1, SMTT(30)
  <2> HIDE DEF room
  <2> QED BY <1>3, <2>1, <2>2 DEF SplitStates
<1>5. t \in Seq(Byte) /\ Free(t, sep) /\ (NoNul(s) => NoNul(t))
  <2>1. j - 1 \in a - 1 .. n /\ \A m \in a .. j - 1 : ~Matches(s, sep, m)
    BY <1>1, <1>2, SMTT(30)
  <2> HIDE DEF a, j
  <2> QED BY <1>1, <2>1, PartFree
<1> HIDE DEF a, j, L, e, room
<1>6. SplitAtOK(s, sep, SplitAfter(sep, at))
  <2>1. j + L \in 1 .. n + 1 /\ j + L \in j + L .. n + 1 /\ room >= (e + 1) + 1
    BY <1>1, <1>2, <1>3
  <2>2. \A m \in j + L .. (j + L) - 1 : FALSE
    BY <1>1
  <2> QED BY <1>4, <2>1, <2>2 DEF SplitAtOK
<1>7. ASSUME NEW r, SplitGood(s, sep, SplitAfter(sep, at), r)
      PROVE  SplitGood(s, sep, at, SplitMore(s, sep, at, r))
  <2> DEFINE rest == r.tokens
             ts == <<t>> \o rest
  <2>1. TokensOK(s, sep, j + L, rest) /\ (e + 1) + Len(rest) <= r.slots
    BY <1>4, <1>7 DEF SplitGood
  <2>2. SplitMore(s, sep, at, r) = [tokens |-> ts, slots |-> r.slots]
    BY DEF SplitMore, a, j
  <2> HIDE DEF t, rest
  <2>3. /\ rest \in Seq(Seq(Byte)) /\ Len(rest) \in Nat /\ Len(rest) >= 1
        /\ \A i \in 1 .. Len(rest) : Free(rest[i], sep)
        /\ NoNul(s) => \A i \in 1 .. Len(rest) : NoNul(rest[i])
        /\ sdsjoinsds(rest, sep) = SubSeq(s, j + L, n)
    BY <2>1 DEF TokensOK
  <2>4. /\ ts \in Seq(Seq(Byte)) /\ Len(ts) = Len(rest) + 1 /\ ts[1] = t
        /\ \A i \in 2 .. Len(rest) + 1 : ts[i] = rest[i - 1]
    <3> DEFINE U == Seq(Byte)
    <3>1. t \in U /\ rest \in Seq(U)
      BY <1>5, <2>3
    <3> HIDE DEF U
    <3>2. /\ ts \in Seq(U) /\ Len(ts) = Len(rest) + 1 /\ ts[1] = t
          /\ \A i \in 2 .. Len(rest) + 1 : ts[i] = rest[i - 1]
      BY <3>1, ConsIs
    <3> QED BY <3>2 DEF U
  <2>5. sdsjoinsds(ts, sep) = SubSeq(s, a, n)
    <3>0. sdsjoinsds(<<t>> \o rest, sep) = (t \o sep) \o sdsjoinsds(rest, sep)
      BY <1>5, <2>3, JoinCons
    <3>1. sdsjoinsds(ts, sep) = (t \o sep) \o SubSeq(s, j + L, n)
      BY <2>3, <3>0, Zenon
    <3>2. t \o sep = SubSeq(s, a, j + L - 1)
      <4> DEFINE k == j - 1
                 m == j + L - 1
      <4>1. a \in 1 .. Len(s) + 1 /\ k \in a - 1 .. Len(s) /\ m \in k .. Len(s) /\ k + 1 = j
        BY <1>1, <1>2
      <4> HIDE DEF k, m
      <4>2. SubSeq(s, a, k) \o SubSeq(s, k + 1, m) = SubSeq(s, a, m)
        BY <4>1, ConcatAdjacentSubSeq
      <4>3. t = SubSeq(s, a, k) /\ sep = SubSeq(s, k + 1, m)
        BY <1>2, <4>1 DEF t, k, m
      <4> QED BY <4>2, <4>3 DEF m
    <3>3. SubSeq(s, a, j + L - 1) \o SubSeq(s, j + L, n) = SubSeq(s, a, n)
      <4> DEFINE m == j + L - 1
      <4>1. a \in 1 .. Len(s) + 1 /\ m \in a - 1 .. Len(s) /\ n \in m .. Len(s) /\ m + 1 = j + L
        BY <1>1, <1>2
      <4> HIDE DEF m, n
      <4>2. SubSeq(s, a, m) \o SubSeq(s, m + 1, n) = SubSeq(s, a, n)
        BY <4>1, ConcatAdjacentSubSeq
      <4> QED BY <4>1, <4>2 DEF m
    <3> QED BY <3>1, <3>2, <3>3
  <2> HIDE DEF ts
  <2>6. ASSUME NEW i \in 1 .. Len(ts)
        PROVE  Free(ts[i], sep) /\ (NoNul(s) => NoNul(ts[i]))
    <3>1. CASE i = 1
      BY <1>5, <2>4, <3>1
    <3>2. CASE i # 1
      <4>1. i \in 2 .. Len(rest) + 1 /\ i - 1 \in 1 .. Len(rest)
        BY <2>3, <2>4, <3>2
      <4>2. ts[i] = rest[i - 1]
        BY <2>4, <4>1
      <4>3. Free(rest[i - 1], sep) /\ (NoNul(s) => NoNul(rest[i - 1]))
        BY <2>3, <4>1
      <4> QED BY <4>2, <4>3, Zenon
    <3> QED BY <3>1, <3>2
  <2>7. \E m \in 1 .. Len(s) : Matches(s, sep, m)
    <3>1. j \in 1 .. Len(s) /\ Matches(s, sep, j)
      BY <1>1, <1>2 DEF j
    <3> QED BY <3>1
  <2>8. TokensOK(s, sep, a, ts)
    <3>1. Len(ts) \in Nat /\ Len(ts) >= 1
      BY <2>3, <2>4
    <3> QED BY <2>4, <2>5, <2>6, <2>7, <3>1 DEF TokensOK
  <2>9. e + Len(ts) <= r.slots
    <3>1. e + Len(ts) = (e + 1) + Len(rest)
      BY <1>1, <2>3, <2>4
    <3> QED BY <2>1, <3>1
  <2> QED BY <2>2, <2>8, <2>9 DEF SplitGood, a, e
<1> QED BY <1>6, <1>7

(* Moving on by one byte changes nothing of what is promised.               *)
LEMMA SplitOnGood ==
    ASSUME NEW s \in Seq(Byte), NEW sep \in Seq(Byte), sep # <<>>,
           NEW at, SplitAtOK(s, sep, at), at \notin SplitEnds(s, sep), ~Matches(s, sep, at.j)
    PROVE  /\ SplitAtOK(s, sep, SplitOn(at))
           /\ \A r : SplitGood(s, sep, SplitOn(at), r) => SplitGood(s, sep, at, r)
<1> DEFINE j == at.j
           n == Len(s)
<1>1. /\ n \in Nat /\ at.start \in 1 .. n + 1 /\ j \in at.start .. n + 1 /\ at.elements \in Nat
      /\ at.slots \in Nat /\ at.slots >= at.elements + 1 /\ Len(sep) \in Nat /\ Len(sep) >= 1
      /\ \A m \in at.start .. j - 1 : ~Matches(s, sep, m)
  BY DEF SplitAtOK, SplitStates
<1>2. j <= n
  BY <1>1 DEF SplitEnds, SplitAtOK
<1>3. SplitRoom(at) \in Nat /\ SplitRoom(at) >= at.elements + 1
  BY <1>1, SMTT(30) DEF SplitRoom, NextSlots
<1>4. \A m \in at.start .. (j + 1) - 1 : ~Matches(s, sep, m)
  BY <1>1
<1>5. /\ SplitOn(at).start = at.start /\ SplitOn(at).j = j + 1
      /\ SplitOn(at).elements = at.elements /\ SplitOn(at).slots = SplitRoom(at)
      /\ SplitOn(at) \in SplitStates
  BY <1>1, <1>3 DEF SplitOn, SplitStates
<1>6. SplitAtOK(s, sep, SplitOn(at))
  <2>1. j + 1 \in at.start .. n + 1
    BY <1>1, <1>2
  <2> HIDE DEF j
  <2> QED BY <1>1, <1>3, <1>4, <1>5, <2>1 DEF SplitAtOK
<1>7. \A r : SplitGood(s, sep, SplitOn(at), r) => SplitGood(s, sep, at, r)
  BY <1>5 DEF SplitGood
<1> QED BY <1>6, <1>7

(* What sdssplitlen() promises of its tokens and of their array.            *)
LEMMA SplitTokens ==
    ASSUME NEW s \in Seq(Byte), NEW sep \in Seq(Byte), sep # <<>>
    PROVE  /\ TokensOK(s, sep, 1, Split(s, sep).tokens)
           /\ Len(Split(s, sep).tokens) <= Split(s, sep).slots
<1> DEFINE first == [start |-> 1, j |-> 1, elements |-> 0, slots |-> FirstSlots]
           n == Len(s)
           D == SplitStates
           mu == [at \in D |-> IF at.j > n THEN 0 ELSE n + 1 - at.j]
<1>1. PICK sp : SplitsBy(sp, s, sep) /\ Split(s, sep) = sp[first]
  BY SplitIs
<1> DEFINE G == {at \in D : SplitAtOK(s, sep, at) => SplitGood(s, sep, at, sp[at])}
<1>2. ASSUME NEW at \in D, \A x \in D : mu[x] < mu[at] => x \in G PROVE at \in G
  <2> SUFFICES ASSUME SplitAtOK(s, sep, at) PROVE SplitGood(s, sep, at, sp[at])
    OBVIOUS
  <2>1. sp[at] = IF at \in SplitEnds(s, sep) THEN SplitLast(s, at)
                 ELSE SplitMore(s, sep, at, sp[SplitNext(s, sep, at)])
    BY <1>1 DEF SplitsBy
  <2>2. CASE at \in SplitEnds(s, sep)
    BY <2>1, <2>2, SplitLastGood
  <2>3. CASE at \notin SplitEnds(s, sep)
    <3> DEFINE x == SplitNext(s, sep, at)
    <3>1. x \in D /\ x.j > at.j
      BY SplitNextIs
    <3>2. mu[x] < mu[at]
      <4>1. at.j \in Nat /\ x.j \in Nat /\ n \in Nat /\ Len(sep) \in Nat /\ Len(sep) >= 1
        BY <3>1 DEF SplitStates
      <4>2. at.j <= n
        BY <2>3, <4>1 DEF SplitEnds
      <4> HIDE DEF x, D, n
      <4>3. mu[x] = (IF x.j > n THEN 0 ELSE n + 1 - x.j) /\ mu[at] = n + 1 - at.j
        BY <3>1, <4>1, <4>2
      <4> QED BY <3>1, <4>1, <4>2, <4>3
    <3>3. SplitAtOK(s, sep, x) => SplitGood(s, sep, x, sp[x])
      BY <1>2, <3>1, <3>2
    <3>4. sp[at] = SplitMore(s, sep, at, sp[x])
      BY <2>1, <2>3
    <3>5. CASE Matches(s, sep, at.j)
      <4>1. x = SplitAfter(sep, at)
        BY <3>5 DEF SplitNext
      <4> HIDE DEF x
      <4> QED BY <2>3, <3>3, <3>4, <3>5, <4>1, SplitFoundGood
    <3>6. CASE ~Matches(s, sep, at.j)
      <4>1. x = SplitOn(at)
        BY <3>6 DEF SplitNext
      <4>2. sp[at] = sp[x]
        BY <3>4, <3>6 DEF SplitMore
      <4> HIDE DEF x
      <4> QED BY <2>3, <3>3, <3>6, <4>1, <4>2, SplitOnGood
    <3> QED BY <3>5, <3>6
  <2> QED BY <2>2, <2>3
<1>3. \A at \in D : at \in G
  <2>1. mu \in [D -> Nat]
    BY DEF SplitStates
  <2> HIDE DEF mu, G, D
  <2> QED BY <1>2, <2>1, MeasureInduction
<1>4. SplitAtOK(s, sep, first)
  <2>1. FirstSlots \in Nat /\ FirstSlots >= 1 /\ Len(s) \in Nat
    BY TextAssumption
  <2>2. \A m \in 1 .. 1 - 1 : FALSE
    OBVIOUS
  <2> QED BY <2>1, <2>2 DEF SplitAtOK, SplitStates
<1>5. SplitGood(s, sep, first, sp[first])
  <2>1. first \in D
    BY <1>4 DEF SplitAtOK
  <2> HIDE DEF first, D
  <2> QED BY <1>3, <1>4, <2>1
<1>6. first.start = 1 /\ first.elements = 0
  OBVIOUS
<1>7. TokensOK(s, sep, 1, sp[first].tokens) /\ 0 + Len(sp[first].tokens) <= sp[first].slots
  <2> HIDE DEF first
  <2> QED BY <1>5, <1>6 DEF SplitGood
<1>8. Len(sp[first].tokens) \in Nat
  BY <1>7 DEF TokensOK
<1>9. 0 + Len(sp[first].tokens) = Len(sp[first].tokens)
  BY <1>8
<1> HIDE DEF first
<1> QED BY <1>1, <1>7, <1>9

(* A text without a NUL is its own C string, and no other is. *)
LEMMA OwnCString ==
    ASSUME NEW s \in Seq(Byte)
    PROVE  CString(s) = s <=> NoNul(s)
<1> DEFINE n == Len(s)
<1>1. n \in Nat /\ n \in 0 .. n /\ DOMAIN s = 1 .. n /\ SubSeq(s, 1, n) = s
  BY SubSeqFull
<1>2. ASSUME NoNul(s) PROVE CString(s) = s
  <2>1. \A i \in 1 .. n : s[i] # NUL
    BY <1>1, <1>2 DEF NoNul
  <2>2. CString(s) = SubSeq(s, 1, n)
    BY <1>1, <2>1, CStringBy
  <2> QED BY <1>1, <2>2
<1>3. ASSUME CString(s) = s PROVE NoNul(s)
  <2>1. PICK m \in 0 .. n : CString(s) = SubSeq(s, 1, m) /\ \A i \in 1 .. m : s[i] # NUL
    BY CStringIs
  <2>2. Len(SubSeq(s, 1, m)) = m
    BY <1>1
  <2>3. m = n
    BY <1>3, <2>1, <2>2
  <2> HIDE DEF n
  <2> QED BY <1>1, <2>1, <2>3 DEF NoNul
<1> QED BY <1>2, <1>3

(* C strings are joined like the texts themselves if no NUL is in them. *)
LEMMA JoinWithoutNul ==
    ASSUME NEW s \in Seq(Byte), NoNul(s), NEW sep \in Seq(Byte), sep # <<>>,
           NEW ts, TokensOK(s, sep, 1, ts)
    PROVE  sdsjoin(ts, sep) = s
<1> DEFINE cs == [i \in DOMAIN ts |-> CString(ts[i])]
<1>1. /\ ts \in Seq(Seq(Byte)) /\ Len(ts) \in Nat /\ Len(ts) >= 1
      /\ sdsjoinsds(ts, sep) = SubSeq(s, 1, Len(s))
      /\ \A i \in 1 .. Len(ts) : NoNul(ts[i])
      /\ Len(ts) = 1 \/ \E m \in 1 .. Len(s) : Matches(s, sep, m)
  BY DEF TokensOK
<1>2. SubSeq(s, 1, Len(s)) = s
  BY SubSeqFull
<1>3. cs = ts
  <2>1. DOMAIN ts = 1 .. Len(ts) /\ ts = [i \in 1 .. Len(ts) |-> ts[i]]
    BY <1>1
  <2>2. \A i \in 1 .. Len(ts) : CString(ts[i]) = ts[i]
    <3> SUFFICES ASSUME NEW i \in 1 .. Len(ts) PROVE CString(ts[i]) = ts[i]
      OBVIOUS
    <3>1. ts[i] \in Seq(Byte)
      BY <1>1, ElementOfSeq
    <3> QED BY <1>1, <3>1, OwnCString
  <2> QED BY <2>1, <2>2
<1>4. sdsjoin(ts, sep) = sdsjoinsds(ts, CString(sep))
  <2>1. sdsjoin(ts, sep) = sdsjoinsds(cs, CString(sep))
    BY DEF sdsjoin
  <2> HIDE DEF cs
  <2> QED BY <1>3, <2>1
<1>5. CASE Len(ts) = 1
  <2>1. ts = <<ts[1]>> /\ ts[1] \in Seq(Byte)
    <3> DEFINE U == Seq(Byte)
    <3>1. ts \in Seq(U) /\ Len(ts) = 1
      BY <1>1, <1>5
    <3> HIDE DEF U, cs
    <3>a. 1 \in 1 .. Len(ts)
      BY <3>1
    <3>2. ts[1] \in U
      BY <3>1, <3>a, ElementOfSeq
    <3> DEFINE x == ts[1]
               one == <<x>>
    <3>3. one \in Seq(U) /\ Len(one) = 1 /\ one[1] = x
      BY <3>2
    <3>4. \A i \in 1 .. 1 : i = 1
      OBVIOUS
    <3>5. \A i \in 1 .. Len(ts) : ts[i] = one[i]
      <4> HIDE DEF one
      <4> QED BY <3>1, <3>3, <3>4
    <3> HIDE DEF one
    <3>6. ts = one
      BY <3>1, <3>3, <3>5, SeqEqual
    <3> QED BY <3>2, <3>6 DEF U, one
  <2>2. sdsjoinsds(<<ts[1]>>, CString(sep)) = ts[1] /\ sdsjoinsds(<<ts[1]>>, sep) = ts[1]
    BY <2>1, JoinOne
  <2> QED BY <1>1, <1>2, <1>4, <2>1, <2>2
<1>6. ASSUME NEW m \in 1 .. Len(s), Matches(s, sep, m) PROVE sdsjoin(ts, sep) = s
  <2> DEFINE L == Len(sep)
             e == m + L - 1
  <2>1. L \in Nat /\ DOMAIN sep = 1 .. L /\ DOMAIN s = 1 .. Len(s) /\ Len(s) \in Nat
    OBVIOUS
  <2>2. e <= Len(s) /\ SubSeq(s, m, e) = sep
    BY <1>6 DEF Matches
  <2>3. m \in 1 .. Len(s) + 1 /\ e \in m - 1 .. Len(s) /\ e - m + 1 = L
    BY <2>1, <2>2
  <2> HIDE DEF e, L
  <2>4. \A i \in 1 .. e - m + 1 : SubSeq(s, m, e)[i] = s[m + i - 1] /\ m + i - 1 \in 1 .. Len(s)
    BY <2>3, PartIs
  <2>5. NoNul(sep)
    BY <2>1, <2>2, <2>3, <2>4 DEF NoNul
  <2>6. CString(sep) = sep
    BY <2>5, OwnCString
  <2> QED BY <1>1, <1>2, <1>4, <2>6
<1> QED BY <1>1, <1>5, <1>6

(* Splitting and joining: an empty text has no tokens. *)
LEMMA NothingJoined ==
    ASSUME NEW sep
    PROVE  sdsjoinsds(<<>>, sep) = <<>> /\ sdsjoin(<<>>, sep) = <<>>
<1>1. FlattenSeq(<<>>) = <<>>
  <2> DEFINE g == [i \in 0 .. 0 |-> <<>>]
             ss == <<>>
  <2>1. ss \in Seq(Seq(Byte)) /\ Len(ss) = 0 /\ g[0] = <<>> /\ 1 .. 0 = {}
    OBVIOUS
  <2> HIDE DEF g, ss
  <2>2. Flattens(g, ss)
    BY <2>1 DEF Flattens
  <2>3. FlattenSeq(ss) = g[0]
    BY <2>1, <2>2, FlattenBy
  <2> QED BY <2>1, <2>3 DEF ss
<1>2. ASSUME NEW v PROVE sdsjoinsds(<<>>, v) = <<>>
  <2> DEFINE all == [i \in DOMAIN <<>> |-> <<>>[i] \o (IF i = Len(<<>>) THEN <<>> ELSE v)]
  <2>1. DOMAIN <<>> = {}
    OBVIOUS
  <2>2. all = <<>>
    BY <2>1
  <2>3. sdsjoinsds(<<>>, v) = FlattenSeq(all)
    BY DEF sdsjoinsds
  <2> HIDE DEF all
  <2> QED BY <1>1, <2>2, <2>3
<1>3. sdsjoin(<<>>, sep) = <<>>
  <2> DEFINE all == [i \in DOMAIN <<>> |-> CString(<<>>[i])]
  <2>1. DOMAIN <<>> = {}
    OBVIOUS
  <2>2. all = <<>>
    BY <2>1
  <2>3. sdsjoin(<<>>, sep) = sdsjoinsds(all, CString(sep))
    BY DEF sdsjoin
  <2> HIDE DEF all
  <2> QED BY <1>2, <2>2, <2>3
<1> QED BY <1>2, <1>3

(* JoinUndoesSplit holds wherever the invariant does.                       *)
LEMMA SplitUndone == SdsInv => JoinUndoesSplit
<1> SUFFICES ASSUME SdsInv, NEW sep \in Separators
             PROVE  LET split == sdssplitlen(text, sep)
                    IN /\ sdsjoinsds(split.tokens, sep) = text
                       /\ CString(text) = text => sdsjoin(split.tokens, sep) = text
                       /\ \A i \in DOMAIN split.tokens :
                            \A j \in DOMAIN split.tokens[i] : ~Matches(split.tokens[i], sep, j)
                       /\ Len(split.tokens) <= split.slots
  BY DEF JoinUndoesSplit
<1> DEFINE split == sdssplitlen(text, sep)
<1>1. text \in Seq(Byte) /\ sep \in Seq(Byte) /\ sep # <<>>
  BY SoundFacts, SdsAssumption
<1>2. CASE text = <<>>
  <2>1. split.tokens = <<>> /\ split.slots = FirstSlots
    BY <1>2 DEF sdssplitlen
  <2>2. FirstSlots \in Nat /\ Len(<<>>) = 0 /\ DOMAIN <<>> = {}
    BY TextAssumption
  <2> HIDE DEF split
  <2>3. sdsjoinsds(split.tokens, sep) = text /\ sdsjoin(split.tokens, sep) = text
    BY <1>2, <2>1, NothingJoined
  <2>4. Len(split.tokens) <= split.slots /\ DOMAIN split.tokens = {}
    BY <2>1, <2>2
  <2> QED BY <2>3, <2>4 DEF split
<1>3. CASE text # <<>>
  <2>1. split = Split(text, sep)
    BY <1>3 DEF sdssplitlen
  <2> HIDE DEF split
  <2> DEFINE ts == split.tokens
  <2>2. TokensOK(text, sep, 1, ts) /\ Len(ts) <= split.slots
    BY <1>1, <2>1, SplitTokens
  <2> HIDE DEF ts
  <2>3. sdsjoinsds(ts, sep) = text
    BY <1>1, <2>2, SubSeqFull DEF TokensOK
  <2>4. CString(text) = text => sdsjoin(ts, sep) = text
    BY <1>1, <2>2, OwnCString, JoinWithoutNul
  <2>5. \A i \in DOMAIN ts : \A j \in DOMAIN ts[i] : ~Matches(ts[i], sep, j)
    <3>1. DOMAIN ts = 1 .. Len(ts)
      BY <2>2 DEF TokensOK
    <3> QED BY <2>2, <3>1 DEF TokensOK, Free
  <2> QED BY <2>2, <2>3, <2>4, <2>5 DEF split, ts
<1> QED BY <1>2, <1>3

(* Splitting at a separator loses nothing, leaves no separator in a token,  *)
(* writes no token outside the array it has grown, and joining undoes it.   *)
THEOREM SplitIsUndone == Spec => []JoinUndoesSplit
<1>1. Spec => []SdsInv
  BY SdsInvariance
<1> QED BY <1>1, SplitUndone, PTL

(* The elements at the positions from a to b, wherever these two lie. *)
Kept(s, a, b) == [j \in DOMAIN s |-> IF j \in a .. b THEN <<s[j]>> ELSE <<>>]

(* The parts that Kept() is made of.                                        *)
LEMMA KeptParts ==
    ASSUME NEW S, NEW s \in Seq(S), NEW a \in Int, NEW b \in Int
    PROVE  /\ Kept(s, a, b) \in Seq(Seq(S)) /\ Len(Kept(s, a, b)) = Len(s)
           /\ \A j \in 1 .. Len(s) : Kept(s, a, b)[j] = IF j \in a .. b THEN <<s[j]>> ELSE <<>>
<1> DEFINE kept == Kept(s, a, b)
           U == Seq(S)
<1>1. DOMAIN s = 1 .. Len(s) /\ Len(s) \in Nat
  OBVIOUS
<1>2. \A j \in 1 .. Len(s) : (IF j \in a .. b THEN <<s[j]>> ELSE <<>>) \in U
  OBVIOUS
<1>3. \A j \in 1 .. Len(s) : kept[j] = IF j \in a .. b THEN <<s[j]>> ELSE <<>>
  BY <1>1 DEF Kept
<1>4. kept = [j \in 1 .. Len(s) |-> kept[j]]
  BY <1>1 DEF Kept
<1>5. \A j \in 1 .. Len(s) : kept[j] \in U
  BY <1>2, <1>3
<1> HIDE DEF kept, U
<1>6. kept \in Seq(U) /\ Len(kept) = Len(s)
  BY <1>1, <1>4, <1>5, SequenceBy
<1> QED BY <1>3, <1>6 DEF kept, U

(* An empty range keeps nothing.                                            *)
LEMMA NothingKept ==
    ASSUME NEW S, NEW s \in Seq(S), NEW a \in Int, NEW b \in Int,
           \A j \in 1 .. Len(s) : j \notin a .. b
    PROVE  FlattenSeq(Kept(s, a, b)) = <<>>
<1> DEFINE n == Len(s)
           kept == Kept(s, a, b)
           g == [i \in 0 .. n |-> <<>>]
<1>1. kept \in Seq(Seq(S)) /\ Len(kept) = n /\ n \in Nat
  BY KeptParts
<1>2. \A j \in 1 .. n : kept[j] = <<>>
  <2>1. \A j \in 1 .. n : kept[j] = IF j \in a .. b THEN <<s[j]>> ELSE <<>>
    BY KeptParts
  <2> HIDE DEF kept
  <2> QED BY <2>1
<1>3. \A j \in 0 .. n : g[j] = <<>>
  OBVIOUS
<1> HIDE DEF kept, g, n
<1>4. \A j \in 1 .. n : g[j] = g[j - 1] \o kept[j]
  <2> SUFFICES ASSUME NEW j \in 1 .. n PROVE g[j] = g[j - 1] \o kept[j]
    OBVIOUS
  <2>1. j \in 0 .. n /\ j - 1 \in 0 .. n
    BY <1>1
  <2>2. <<>> \o <<>> = <<>>
    BY ConcatEmptySeq
  <2> QED BY <1>2, <1>3, <2>1, <2>2
<1>5. Flattens(g, kept)
  <2>1. 0 \in 0 .. n
    BY <1>1
  <2> QED BY <1>1, <1>3, <1>4, <2>1 DEF Flattens
<1>6. FlattenSeq(kept) = g[n]
  BY <1>1, <1>5, FlattenBy
<1>7. n \in 0 .. n
  BY <1>1
<1> QED BY <1>3, <1>6, <1>7 DEF kept

(* A part of one element.                                                   *)
LEMMA OneElement ==
    ASSUME NEW S, NEW s \in Seq(S), NEW j \in 1 .. Len(s)
    PROVE  SubSeq(s, j, j) = <<s[j]>>
<1> DEFINE t == SubSeq(s, j, j)
           c == s[j]
           u == <<c>>
<1>1. j \in 1 .. Len(s) + 1 /\ j \in j - 1 .. Len(s) /\ j - j + 1 = 1 /\ j + 1 - 1 = j
  OBVIOUS
<1>2. t \in Seq(S) /\ Len(t) = 1 /\ t[1] = c
  <2>1. 1 \in 1 .. 1
    OBVIOUS
  <2> QED BY <1>1, <2>1, PartIs
<1>3. u \in Seq(S) /\ Len(u) = 1 /\ u[1] = c
  <2>1. c \in S
    OBVIOUS
  <2> HIDE DEF c
  <2> QED BY <2>1
<1>4. \A i \in 1 .. Len(t) : t[i] = u[i]
  <2>1. \A i \in 1 .. 1 : i = 1
    OBVIOUS
  <2> HIDE DEF t, u, c
  <2> QED BY <1>2, <1>3, <2>1
<1> HIDE DEF t, u
<1>5. t = u
  BY <1>2, <1>3, <1>4, SeqEqual
<1> QED BY <1>5 DEF t, u, c

(* A range within the string keeps that part of it.                         *)
LEMMA PartKept ==
    ASSUME NEW S, NEW s \in Seq(S), NEW a \in 1 .. Len(s), NEW b \in a .. Len(s)
    PROVE  FlattenSeq(Kept(s, a, b)) = SubSeq(s, a, b)
<1> DEFINE n == Len(s)
           kept == Kept(s, a, b)
           upto(i) == IF i < a THEN a - 1 ELSE IF i <= b THEN i ELSE b
           g == [i \in 0 .. n |-> SubSeq(s, a, upto(i))]
<1>1. /\ kept \in Seq(Seq(S)) /\ Len(kept) = n /\ n \in Nat /\ a \in Int /\ b \in Int
      /\ a >= 1 /\ b >= a /\ b <= n
      /\ \A j \in 1 .. n : kept[j] = IF j \in a .. b THEN <<s[j]>> ELSE <<>>
  BY KeptParts
<1>2. \A i \in 0 .. n : g[i] = SubSeq(s, a, upto(i)) /\ upto(i) \in a - 1 .. n
  BY <1>1
<1>3. g[0] = <<>>
  <2>1. upto(0) = a - 1 /\ 0 \in 0 .. n
    BY <1>1
  <2>2. SubSeq(s, a, a - 1) = <<>>
    BY <1>1
  <2> HIDE DEF g, n, upto
  <2> QED BY <1>2, <2>1, <2>2
<1>4. \A j \in 1 .. n : g[j] = g[j - 1] \o kept[j]
  <2> SUFFICES ASSUME NEW j \in 1 .. n PROVE g[j] = g[j - 1] \o kept[j]
    OBVIOUS
  <2>1. g[j] = SubSeq(s, a, upto(j)) /\ g[j - 1] = SubSeq(s, a, upto(j - 1))
    <3>1. j \in 0 .. n /\ j - 1 \in 0 .. n
      BY <1>1
    <3> HIDE DEF g, n, upto
    <3> QED BY <1>2, <3>1
  <2>2. CASE j \in a .. b
    <3>1. upto(j) = j /\ upto(j - 1) = j - 1
      BY <1>1, <2>2
    <3>2. kept[j] = <<s[j]>>
      BY <1>1, <2>2
    <3>3. SubSeq(s, j, j) = <<s[j]>>
      BY OneElement
    <3> DEFINE k == j - 1
    <3>4. a \in 1 .. Len(s) + 1 /\ k \in a - 1 .. Len(s) /\ j \in k .. Len(s) /\ k + 1 = j
      BY <1>1, <2>2
    <3> HIDE DEF k
    <3>5. SubSeq(s, a, k) \o SubSeq(s, k + 1, j) = SubSeq(s, a, j)
      BY <3>4, ConcatAdjacentSubSeq
    <3> HIDE DEF g, kept, n, upto
    <3> QED BY <2>1, <3>1, <3>2, <3>3, <3>4, <3>5 DEF k
  <2>3. CASE j \notin a .. b
    <3>1. upto(j) = upto(j - 1)
      <4>1. CASE j < a
        BY <1>1, <4>1
      <4>2. CASE j > b
        <5>1. ~(j < a) /\ ~(j <= b) /\ ~(j - 1 < a) /\ (j - 1 <= b => j - 1 = b)
          BY <1>1, <4>2
        <5> QED BY <5>1
      <4> QED BY <1>1, <2>3, <4>1, <4>2
    <3>2. kept[j] = <<>>
      BY <1>1, <2>3
    <3> DEFINE x == SubSeq(s, a, upto(j))
    <3>3. x \o <<>> = x
      <4>0. upto(j) \in a - 1 .. Len(s) /\ a \in 1 .. Len(s) + 1
        <5>1. j \in 0 .. n
          BY <1>1
        <5>2. upto(j) \in a - 1 .. n
          <6> HIDE DEF upto, g
          <6> QED BY <1>2, <5>1
        <5> QED BY <5>2
      <4>1. x \in Seq(S)
        <5> HIDE DEF upto
        <5> QED BY <4>0, PartIs
      <4> HIDE DEF x
      <4> QED BY <4>1, ConcatEmptySeq
    <3> HIDE DEF g, kept, n, upto
    <3> QED BY <2>1, <3>1, <3>2, <3>3
  <2> QED BY <2>2, <2>3
<1>5. upto(n) = b /\ n \in 0 .. n
  BY <1>1
<1>6. g[n] = SubSeq(s, a, b)
  <2> HIDE DEF g, n, upto
  <2> QED BY <1>2, <1>5
<1> HIDE DEF g, kept, upto
<1>7. Flattens(g, kept)
  BY <1>1, <1>3, <1>4 DEF Flattens
<1>8. FlattenSeq(kept) = g[n]
  BY <1>1, <1>7, FlattenBy
<1> QED BY <1>6, <1>8 DEF kept

(* sdsrange() with a last index that does not lie before the string. *)
Place(s, n) == IF n < 0 THEN Len(s) + n ELSE n
(* sdsrange() keeps the positions between its two indices.                  *)
LEMMA RangeKeeps ==
    ASSUME NEW s \in Seq(Byte), NEW first \in Int, NEW last \in Int, Place(s, last) >= 0
    PROVE  sdsrange(s, first, last) = FlattenSeq(Kept(s, Place(s, first) + 1, Place(s, last) + 1))
<1> DEFINE n == Len(s)
           start == Index(n, first)
           end == Index(n, last)
           a == Place(s, first) + 1
           b == Place(s, last) + 1
           to == IF end >= n THEN n ELSE end + 1
<1>1. /\ n \in Nat /\ a \in Int /\ b \in Int /\ start \in Nat /\ end \in Nat
      /\ end + 1 = b /\ start + 1 = IF a >= 1 THEN a ELSE 1
  BY DEF Index, Place
<1>2. sdsrange(s, first, last) = IF start > end \/ start >= n THEN <<>> ELSE SubSeq(s, start + 1, to)
  BY DEF sdsrange
<1> HIDE DEF n, start, end, a, b
<1>3. CASE start > end \/ start >= n
  <2>1. \A j \in 1 .. n : j \notin a .. b
    BY <1>1, <1>3
  <2>2. FlattenSeq(Kept(s, a, b)) = <<>>
    BY <1>1, <2>1, NothingKept DEF n
  <2> QED BY <1>2, <1>3, <2>2 DEF a, b
<1>4. CASE ~(start > end \/ start >= n)
  <2> DEFINE c == start + 1
  <2>1. c \in 1 .. n /\ to \in c .. n /\ c \in Int /\ to \in Int
    BY <1>1, <1>4
  <2>2. \A j \in 1 .. n : j \in a .. b <=> j \in c .. to
    BY <1>1, <1>4
  <2>3. sdsrange(s, first, last) = SubSeq(s, c, to)
    BY <1>2, <1>4
  <2> HIDE DEF c, to
  <2>4. Kept(s, a, b) = Kept(s, c, to)
    <3>1. DOMAIN s = 1 .. n
      BY DEF n
    <3> QED BY <2>2, <3>1 DEF Kept
  <2>5. FlattenSeq(Kept(s, c, to)) = SubSeq(s, c, to)
    BY <2>1, PartKept DEF n
  <2> QED BY <2>3, <2>4, <2>5 DEF a, b
<1> QED BY <1>3, <1>4

(* A string and its prefix. *)
LEMMA PrefixIsLess ==
    ASSUME NEW s \in Seq(Byte), NEW t \in Seq(Byte)
    PROVE  /\ sdscmp(s \o t, s) > 0 <=> t # <<>>
           /\ sdscmp(s, s \o t) < 0 <=> t # <<>>
<1> DEFINE v == s \o t
           n == Len(s)
           k == Len(t)
<1>1. n \in Nat /\ k \in Nat /\ (t # <<>> <=> k > 0) /\ DOMAIN s = 1 .. n
  OBVIOUS
<1>2. v \in Seq(Byte) /\ Len(v) = n + k /\ DOMAIN v = 1 .. n + k /\ \A i \in 1 .. n : v[i] = s[i]
  <2>1. /\ v \in Seq(Byte) /\ Len(v) = n + k
        /\ \A i \in 1 .. n + k : v[i] = IF i <= n THEN s[i] ELSE t[i - n]
    BY ConcatProperties
  <2> HIDE DEF v, n, k
  <2>2. \A i \in 1 .. n : i \in 1 .. n + k /\ i <= n
    BY <1>1
  <2> QED BY <2>1, <2>2
<1> HIDE DEF v, n, k
<1>3. {i \in DOMAIN v \cap DOMAIN s : v[i] # s[i]} = {}
  BY <1>1, <1>2
<1>4. {i \in DOMAIN s \cap DOMAIN v : s[i] # v[i]} = {}
  BY <1>1, <1>2
<1>5. sdscmp(v, s) = Len(v) - Len(s) /\ sdscmp(s, v) = Len(s) - Len(v)
  BY <1>3, <1>4 DEF sdscmp
<1>6. Len(s) = n
  BY DEF n
<1> QED BY <1>1, <1>2, <1>5, <1>6 DEF v

(* The calls of a program that shorten, print and compare: sdsrange() keeps *)
(* the positions it is asked for, a printed text is complete up to its      *)
(* first NUL, a prefix is less.                                             *)
THEOREM TextCallsDoWhatTheySay == Spec => TextOps
<1>1. SdsInv => TextStep
  <2> SUFFICES ASSUME SdsInv PROVE TextStep
    OBVIOUS
  <2>1. /\ text \in Seq(Byte) /\ Indices \subseteq Int
        /\ Outputs \subseteq Seq(Byte) /\ Pieces \subseteq Seq(Byte)
    BY SoundFacts, SdsAssumption
  <2>2. ASSUME NEW i \in Indices, NEW k \in Indices, KeepRange(i, k), Place(text, k) >= 0
        PROVE  text' = FlattenSeq([j \in DOMAIN text |->
                 IF j - 1 \in Place(text, i) .. Place(text, k) THEN <<text[j]>> ELSE <<>>])
    <3>1. text' = sdsrange(text, i, k)
      BY <2>2 DEF KeepRange, InPlace
    <3> DEFINE p == Place(text, i)
               q == Place(text, k)
    <3>2. sdsrange(text, i, k) = FlattenSeq(Kept(text, p + 1, q + 1))
      BY <2>1, <2>2, RangeKeeps
    <3>3. p \in Int /\ q \in Int
      BY <2>1 DEF Place
    <3> HIDE DEF p, q
    <3>4. Kept(text, p + 1, q + 1) =
            [j \in DOMAIN text |-> IF j - 1 \in p .. q THEN <<text[j]>> ELSE <<>>]
      <4>1. \A j \in DOMAIN text : j \in p + 1 .. q + 1 <=> j - 1 \in p .. q
        <5>1. DOMAIN text = 1 .. Len(text) /\ Len(text) \in Nat
          BY <2>1
        <5> QED BY <3>3, <5>1
      <4> QED BY <4>1 DEF Kept
    <3> QED BY <3>1, <3>2, <3>4 DEF p, q
  <2>3. \A t \in Outputs : CatPrintf(t) => text' = text \o CString(t)
    BY <2>1, PrintIsComplete DEF CatPrintf
  <2>4. ASSUME NEW t \in Pieces, Cat(t)
        PROVE  /\ sdscmp(text', text) > 0 <=> t # <<>>
               /\ sdscmp(text, text') < 0 <=> t # <<>>
    BY <2>1, <2>4, PrefixIsLess DEF Cat
  <2> QED BY <2>2, <2>3, <2>4 DEF TextStep, Place
<1> QED BY <1>1, SdsInvariance, PTL DEF TextOps

-----------------------------------------------------------------------------
(* Numbers: their digits, read from the front.                              *)

(* Appending one element.                                                   *)
LEMMA SnocIs ==
    ASSUME NEW U, NEW a \in U, NEW ss \in Seq(U)
    PROVE  /\ ss \o <<a>> \in Seq(U) /\ Len(ss \o <<a>>) = Len(ss) + 1
           /\ (ss \o <<a>>)[Len(ss) + 1] = a
           /\ \A i \in 1 .. Len(ss) : (ss \o <<a>>)[i] = ss[i]
<1> DEFINE aa == <<a>>
           n == Len(ss)
<1>1. aa \in Seq(U) /\ Len(aa) = 1 /\ aa[1] = a /\ n \in Nat
  OBVIOUS
<1> HIDE DEF aa
<1>2. /\ ss \o aa \in Seq(U) /\ Len(ss \o aa) = Len(ss) + Len(aa)
      /\ \A i \in 1 .. Len(ss) + Len(aa) :
            (ss \o aa)[i] = IF i <= Len(ss) THEN ss[i] ELSE aa[i - Len(ss)]
  BY <1>1, ConcatProperties
<1> HIDE DEF n
<1>3. \A i \in 1 .. n : i \in 1 .. n + 1 /\ i <= n
  BY <1>1
<1>4. n + 1 \in 1 .. n + 1 /\ ~(n + 1 <= n) /\ (n + 1) - n = 1
  BY <1>1
<1> QED BY <1>1, <1>2, <1>3, <1>4 DEF aa, n

(* The first element becomes the last.                                      *)
LEMMA ReverseCons ==
    ASSUME NEW S, NEW a \in S, NEW s \in Seq(S)
    PROVE  Reverse(<<a>> \o s) = Reverse(s) \o <<a>>
<1> DEFINE t == <<a>> \o s
           n == Len(s)
           r == Reverse(t)
           w == Reverse(s)
           u == w \o <<a>>
<1>1. /\ t \in Seq(S) /\ Len(t) = n + 1 /\ t[1] = a /\ n \in Nat
      /\ \A i \in 2 .. n + 1 : t[i] = s[i - 1]
  BY ConsIs
<1>2. w \in Seq(S) /\ Len(w) = n
      /\ \A i \in 1 .. n : w[i] = s[n - i + 1]
  BY ReverseIs
<1> HIDE DEF t, w
<1>3. /\ u \in Seq(S) /\ Len(u) = n + 1 /\ u[n + 1] = a
      /\ \A i \in 1 .. n : u[i] = w[i]
  <2> HIDE DEF n
  <2> QED BY <1>2, SnocIs
<1>4. /\ r \in Seq(S) /\ Len(r) = n + 1
      /\ \A i \in 1 .. n + 1 : r[i] = t[(n + 1) - i + 1]
  <2>1. /\ r \in Seq(S) /\ Len(r) = Len(t)
        /\ \A i \in 1 .. Len(t) : r[i] = t[Len(t) - i + 1]
    BY <1>1, ReverseIs
  <2>2. Len(t) = n + 1
    BY <1>1
  <2> HIDE DEF r, n
  <2> QED BY <2>1, <2>2
<1> HIDE DEF r, u, n
<1>5. \A i \in 1 .. n + 1 : r[i] = u[i]
  <2> SUFFICES ASSUME NEW i \in 1 .. n + 1 PROVE r[i] = u[i]
    OBVIOUS
  <2>1. CASE i = n + 1
    <3>1. (n + 1) - i + 1 = 1
      BY <1>1, <2>1
    <3> QED BY <1>1, <1>3, <1>4, <2>1, <3>1
  <2>2. CASE i # n + 1
    <3> DEFINE k == (n + 1) - i + 1
    <3>1. k \in 2 .. n + 1 /\ i \in 1 .. n /\ k - 1 = n - i + 1
      BY <1>1, <2>2
    <3> HIDE DEF k
    <3>2. r[i] = t[k] /\ t[k] = s[n - i + 1]
      BY <1>1, <1>4, <3>1 DEF k
    <3>3. u[i] = s[n - i + 1]
      BY <1>2, <1>3, <3>1
    <3> QED BY <3>2, <3>3
  <2> QED BY <2>1, <2>2
<1>6. r = u
  BY <1>3, <1>4, <1>5, SeqEqual
<1> QED BY <1>6 DEF r, u, t, w

(* The last element becomes the first.                                      *)
LEMMA ReverseSnoc ==
    ASSUME NEW S, NEW a \in S, NEW s \in Seq(S)
    PROVE  Reverse(s \o <<a>>) = <<a>> \o Reverse(s)
<1> DEFINE t == s \o <<a>>
           n == Len(s)
           r == Reverse(t)
           w == Reverse(s)
           u == <<a>> \o w
<1>1. /\ t \in Seq(S) /\ Len(t) = n + 1 /\ t[n + 1] = a /\ n \in Nat
      /\ \A i \in 1 .. n : t[i] = s[i]
  BY SnocIs
<1>2. w \in Seq(S) /\ Len(w) = n
      /\ \A i \in 1 .. n : w[i] = s[n - i + 1]
  BY ReverseIs
<1> HIDE DEF t, w
<1>3. /\ u \in Seq(S) /\ Len(u) = n + 1 /\ u[1] = a
      /\ \A i \in 2 .. n + 1 : u[i] = w[i - 1]
  <2> HIDE DEF n
  <2> QED BY <1>2, ConsIs
<1>4. /\ r \in Seq(S) /\ Len(r) = n + 1
      /\ \A i \in 1 .. n + 1 : r[i] = t[(n + 1) - i + 1]
  <2> HIDE DEF n
  <2> QED BY <1>1, ReverseIs
<1> HIDE DEF r, u, n
<1>5. \A i \in 1 .. n + 1 : r[i] = u[i]
  <2> SUFFICES ASSUME NEW i \in 1 .. n + 1 PROVE r[i] = u[i]
    OBVIOUS
  <2>1. CASE i = 1
    <3>1. (n + 1) - i + 1 = n + 1
      BY <1>1, <2>1
    <3> QED BY <1>1, <1>3, <1>4, <2>1, <3>1
  <2>2. CASE i # 1
    <3> DEFINE k == (n + 1) - i + 1
    <3>1. k \in 1 .. n /\ i \in 2 .. n + 1 /\ i - 1 \in 1 .. n /\ n - (i - 1) + 1 = k
      BY <1>1, <2>2
    <3> HIDE DEF k
    <3>2. r[i] = t[k] /\ t[k] = s[k]
      BY <1>1, <1>4, <3>1 DEF k
    <3>3. u[i] = w[i - 1] /\ w[i - 1] = s[n - (i - 1) + 1]
      BY <1>2, <1>3, <3>1
    <3> QED BY <3>1, <3>2, <3>3
  <2> QED BY <2>1, <2>2
<1>6. r = u
  BY <1>3, <1>4, <1>5, SeqEqual
<1> QED BY <1>6 DEF r, u, t, w

(* The digits of a number as they are written. *)
Written(v) == Reverse(LowDigitsFirst[v])
(* Digits, highest first: those of the quotient, then the remainder.        *)
LEMMA WrittenIs ==
    ASSUME NEW v \in Nat
    PROVE  /\ Written(v) \in Seq(Digits) /\ Len(Written(v)) \in Nat \ {0}
           /\ HasDigits(v, Len(Written(v)))
           /\ v < Radix => Written(v) = <<DIGIT0 + v>>
           /\ v >= Radix => /\ v \div Radix \in Nat /\ v \div Radix < v
                            /\ DIGIT0 + (v % Radix) \in Digits
                            /\ Written(v) = Written(v \div Radix) \o <<DIGIT0 + (v % Radix)>>
<1> DEFINE L == LowDigitsFirst[v]
<1>1. L \in Seq(Digits) /\ Len(L) \in Nat \ {0} /\ HasDigits(v, Len(L))
  BY LowDigitsAre, LowDigitsLen
<1>2. Written(v) = Reverse(L)
  BY DEF Written
<1> HIDE DEF L
<1>3. Written(v) \in Seq(Digits) /\ Len(Written(v)) = Len(L)
  BY <1>1, <1>2, ReverseIs
<1>4. Radix \in Nat /\ Radix > 1
  BY TextAssumption
<1>5. ASSUME v < Radix PROVE Written(v) = <<DIGIT0 + v>>
  <2> DEFINE d == DIGIT0 + v
             e == <<>>
  <2>1. L = <<d>> /\ d \in Digits
    BY <1>5, LowDigitsAre, DigitBytes DEF L
  <2> HIDE DEF d
  <2>2. e \in Seq(Digits) /\ Reverse(e) = <<>>
    BY DEF Reverse
  <2> HIDE DEF e
  <2>3. Reverse(<<d>> \o e) = Reverse(e) \o <<d>>
    BY <2>1, <2>2, ReverseCons
  <2>4. <<d>> \o <<>> = <<d>> /\ <<>> \o <<d>> = <<d>>
    <3>1. <<d>> \in Seq(Digits)
      BY <2>1
    <3> QED BY <3>1, ConcatEmptySeq
  <2> QED BY <1>2, <2>1, <2>2, <2>3, <2>4 DEF d, e
<1>6. ASSUME v >= Radix
      PROVE  /\ v \div Radix \in Nat /\ v \div Radix < v /\ DIGIT0 + (v % Radix) \in Digits
             /\ Written(v) = Written(v \div Radix) \o <<DIGIT0 + (v % Radix)>>
  <2> DEFINE d == DIGIT0 + (v % Radix)
             q == v \div Radix
             M == LowDigitsFirst[q]
  <2>1. q \in Nat /\ q < v /\ v % Radix \in Nat /\ v % Radix < Radix
    BY <1>4, <1>6, Divide
  <2>2. L = <<d>> \o M
    BY <1>6, LowDigitsAre DEF L
  <2>3. d \in Digits
    <3> DEFINE m == v % Radix
    <3>1. m \in Nat /\ m < Radix
      BY <2>1
    <3> HIDE DEF m
    <3>2. DIGIT0 + m \in Digits
      BY <3>1, DigitBytes
    <3> QED BY <3>2 DEF m
  <2>4. M \in Seq(Digits)
    <3> HIDE DEF q
    <3> QED BY <2>1, LowDigitsAre
  <2> HIDE DEF d, M
  <2>5. Reverse(<<d>> \o M) = Reverse(M) \o <<d>>
    BY <2>3, <2>4, ReverseCons
  <2>6. Written(q) = Reverse(M)
    BY DEF Written, M
  <2>7. Written(v) = Written(q) \o <<d>>
    BY <1>2, <2>2, <2>5, <2>6
  <2> QED BY <2>1, <2>3, <2>7 DEF d
<1> QED BY <1>1, <1>3, <1>5, <1>6

(* sdsll2str() writes the sign and the digits of the magnitude.             *)
LEMMA NumberIs ==
    ASSUME NEW v \in Numbers
    PROVE  /\ v >= 0 => sdsll2str(v) = Written(v) /\ Magnitude(v) = v /\ Sign(v) = <<>>
           /\ v < 0 => /\ sdsll2str(v) = <<MINUS>> \o Written(Magnitude(v))
                       /\ Magnitude(v) = -v /\ Sign(v) = <<MINUS>>
           /\ v \in Int /\ Magnitude(v) \in Nat
           /\ sdsll2str(v) = Sign(v) \o Written(Magnitude(v))
<1> DEFINE m == Magnitude(v)
           L == LowDigitsFirst[m]
<1>1. v \in Int /\ m \in Nat /\ m = IF v < 0 THEN -v ELSE v
  BY MagnitudeIs
<1> HIDE DEF m
<1>2. L \in Seq(Byte) /\ Written(m) = Reverse(L) /\ Written(m) \in Seq(Byte)
  <2>1. L \in Seq(Digits) /\ Digits \subseteq Byte
    BY <1>1, LowDigitsAre, DigitBytes
  <2> HIDE DEF L
  <2>2. L \in Seq(Byte)
    BY <2>1
  <2>3. Written(m) = Reverse(L)
    BY DEF Written, L
  <2> QED BY <2>2, <2>3, ReverseIs
<1>3. sdsll2str(v) = Reverse(L \o Sign(v))
  BY DEF sdsll2str, m
<1> HIDE DEF L
<1>4. CASE v < 0
  <2>1. Sign(v) = <<MINUS>>
    BY <1>4 DEF Sign
  <2>2. Reverse(L \o <<MINUS>>) = <<MINUS>> \o Reverse(L)
    BY <1>2, DigitBytes, ReverseSnoc
  <2>3. sdsll2str(v) = Sign(v) \o Written(m)
    BY <1>2, <1>3, <2>1, <2>2
  <2>4. sdsll2str(v) = <<MINUS>> \o Written(m)
    BY <2>1, <2>3
  <2> QED BY <1>1, <1>4, <2>1, <2>3, <2>4 DEF m
<1>5. CASE ~(v < 0)
  <2>1. Sign(v) = <<>>
    BY <1>5 DEF Sign
  <2>2. L \o <<>> = L
    BY <1>2, ConcatEmptySeq
  <2>3. sdsll2str(v) = Written(m) /\ m = v
    BY <1>1, <1>2, <1>3, <1>5, <2>1, <2>2
  <2>4. <<>> \o Written(m) = Written(m)
    BY <1>2, ConcatEmptySeq
  <2> QED BY <1>1, <1>5, <2>1, <2>3, <2>4 DEF m
<1> QED BY <1>1, <1>4, <1>5

(* What the digits read so far amount to. *)
Reads(c, t) == c[0] = 0 /\ \A k \in 1 .. Len(t) : c[k] = c[k - 1] * Radix + t[k] - DIGIT0
ValueOf(t) == FoldLeft(LAMBDA n, d : n * Radix + d - DIGIT0, 0, t)

(* Value() reads one digit after the other.                                 *)
LEMMA ValueSteps ==
    ASSUME NEW t \in Seq(Int)
    PROVE  \E c : Reads(c, t) /\ ValueOf(t) = c[Len(t)]
<1> DEFINE n == Len(t)
           F == [p \in Int \X Int |-> p[1] * Radix + p[2] - DIGIT0]
           Folded(f) == f = [s \in SUBSET (DOMAIN t) |->
                               IF s = {} THEN 0
                               ELSE LET x == Max(s) IN f[s \ {x}] * Radix + t[x] - DIGIT0]
           it == CHOOSE f : Folded(f)
<1>0. Radix \in Int
  BY TextAssumption
<1>1. n \in Nat /\ DOMAIN t = 1 .. n /\ \A k \in 1 .. n : t[k] \in Int
  BY LenProperties, ElementOfSeq
<1>2. F \in [Int \X Int -> Int]
  <2>1. \A p \in Int \X Int : p[1] * Radix + p[2] - DIGIT0 \in Int
    BY <1>0 DEF DIGIT0
  <2> QED BY <2>1
<1>3. PICK f : FoldsBy(f, F, 0, t, n, Int)
  <2> DEFINE S == Int
             zero == 0
  <2>1. F \in [S \X S -> S] /\ zero \in S /\ t \in Seq(S)
    BY <1>2
  <2> HIDE DEF F, S, zero
  <2>2. \E g : FoldsBy(g, F, zero, t, Len(t), S)
    BY <2>1, FoldExists
  <2> QED BY <2>2 DEF S, zero
<1>4. Folded(f)
  <2>1. ASSUME NEW s \in SUBSET (1 .. n)
        PROVE  f[s] = IF s = {} THEN 0 ELSE f[s \ {Max(s)}] * Radix + t[Max(s)] - DIGIT0
    <3>1. s # {} => Max(s) \in s
      BY <1>1, MaxInside
    <3>2. s # {} => <<f[s \ {Max(s)}], t[Max(s)]>> \in Int \X Int
      BY <3>1, <1>1, <1>3 DEF FoldsBy
    <3>3. s # {} => f[s] = F[<<f[s \ {Max(s)}], t[Max(s)]>>]
      BY <1>3 DEF FoldsBy
    <3>4. s # {} => F[<<f[s \ {Max(s)}], t[Max(s)]>>]
                      = f[s \ {Max(s)}] * Radix + t[Max(s)] - DIGIT0
      BY <3>2
    <3> HIDE DEF F
    <3> QED BY <3>3, <3>4, <1>3 DEF FoldsBy
  <2>2. f = [s \in SUBSET (DOMAIN t) |-> f[s]]
    BY <1>1, <1>3 DEF FoldsBy
  <2> QED BY <2>1, <2>2, <1>1
<1>5. Folded(it)
  <2> HIDE DEF Folded
  <2> QED BY <1>4, Zenon
<1>6. ValueOf(t) = it[DOMAIN t]
  BY Zenon DEF ValueOf, FoldLeft, MapThenFoldSet
<1>7. \A s \in SUBSET (1 .. n) :
         it[s] = IF s = {} THEN 0 ELSE it[s \ {Max(s)}] * Radix + t[Max(s)] - DIGIT0
  <2> HIDE DEF it
  <2> QED BY <1>5, <1>1
<1> HIDE DEF it, F, Folded
<1>8. it[1 .. 0] = 0
  <2>1. 1 .. 0 = {} /\ {} \in SUBSET (1 .. n)
    OBVIOUS
  <2> HIDE DEF n
  <2> QED BY <2>1, <1>7
<1>9. ASSUME NEW k \in 1 .. n
      PROVE  it[1 .. k] = it[1 .. k - 1] * Radix + t[k] - DIGIT0
  <2>1. k - 1 \in Nat /\ (k - 1) + 1 = k /\ k \in 1 .. k /\ 1 .. k \in SUBSET (1 .. n)
        /\ (1 .. k) \ {k} = 1 .. k - 1
    BY <1>1
  <2>2. Max(1 .. k) = k
    BY <2>1, MaxIsBound
  <2> QED BY <2>1, <2>2, <1>7
<1> DEFINE c == [k \in 0 .. n |-> it[1 .. k]]
<1>10. \A k \in 1 .. n : c[k] = c[k - 1] * Radix + t[k] - DIGIT0
  <2> SUFFICES ASSUME NEW k \in 1 .. n PROVE c[k] = c[k - 1] * Radix + t[k] - DIGIT0
    OBVIOUS
  <2>1. k \in 0 .. n /\ k - 1 \in 0 .. n
    BY <1>1
  <2> HIDE DEF n
  <2>2. c[k] = it[1 .. k] /\ c[k - 1] = it[1 .. k - 1]
    BY <2>1
  <2> QED BY <2>2, <1>9
<1>11. c[0] = 0 /\ c[n] = it[1 .. n]
  BY <1>1, <1>8
<1> HIDE DEF c
<1>12. Reads(c, t)
  BY <1>10, <1>11 DEF Reads
<1> QED BY <1>1, <1>6, <1>11, <1>12

(* Reading the digits of a number that was written gives the number.        *)
LEMMA ReadsWritten ==
    ASSUME NEW v \in Nat, NEW c, Reads(c, Written(v))
    PROVE  c[Len(Written(v))] = v
<1> DEFINE G == {x \in Nat : \A f : Reads(f, Written(x)) => f[Len(Written(x))] = x}
           id == [x \in Nat |-> x]
<1>0. Radix \in Nat /\ Radix > 1 /\ DIGIT0 \in Nat
  BY TextAssumption DEF DIGIT0
<1>1. ASSUME NEW x \in Nat, \A y \in Nat : id[y] < id[x] => y \in G PROVE x \in G
  <2> SUFFICES ASSUME NEW f, Reads(f, Written(x)) PROVE f[Len(Written(x))] = x
    OBVIOUS
  <2>1. CASE x < Radix
    <3>1. Written(x) = <<DIGIT0 + x>>
      BY <2>1, WrittenIs
    <3>2. Len(Written(x)) = 1 /\ Written(x)[1] = DIGIT0 + x
      BY <3>1
    <3>3. 1 \in 1 .. Len(Written(x)) /\ 1 - 1 = 0
      BY <3>2
    <3>4. f[0] = 0 /\ f[1] = f[0] * Radix + (DIGIT0 + x) - DIGIT0
      BY <3>2, <3>3 DEF Reads
    <3>5. f[1] = x
      BY <1>0, <3>4
    <3> QED BY <3>2, <3>5
  <2>2. CASE x >= Radix
    <3> DEFINE q == x \div Radix
               m == (x % Radix)
               d == DIGIT0 + m
               u == Written(q)
               t == Written(x)
               l == Len(u)
    <3>1. q \in Nat /\ q < x /\ m \in Nat /\ x = Radix * q + m
      <4>1. /\ x = Radix * (x \div Radix) + (x % Radix)
            /\ x \div Radix \in Nat /\ x \div Radix < x /\ x % Radix \in 0 .. Radix - 1
        BY <1>0, <2>2, Divide
      <4>2. q = x \div Radix /\ m = (x % Radix)
        OBVIOUS
      <4> HIDE DEF q, m
      <4>3. m \in 0 .. Radix - 1
        BY <4>1, <4>2
      <4> QED BY <4>1, <4>2, <4>3, <1>0
    <3>2. t = u \o <<d>> /\ d \in Digits
      BY <2>2, WrittenIs
    <3>3. u \in Seq(Digits) /\ l \in Nat
      <4> HIDE DEF q
      <4> QED BY <3>1, WrittenIs
    <3>4. q \in G
      BY <1>1, <3>1
    <3>5. \A g : Reads(g, u) => g[l] = q
      BY <3>4
    <3> HIDE DEF q, m, d, u, t
    <3>6. Len(t) = l + 1 /\ t[l + 1] = d /\ \A k \in 1 .. l : t[k] = u[k]
      BY <3>2, <3>3, SnocIs
    <3>7. /\ f[0] = 0
          /\ \A k \in 1 .. l + 1 : f[k] = f[k - 1] * Radix + t[k] - DIGIT0
      BY <2>2, <3>6 DEF Reads, t
    <3>8. Reads(f, u)
      <4>1. \A k \in 1 .. l : k \in 1 .. l + 1
        BY <3>3
      <4> QED BY <3>6, <3>7, <4>1 DEF Reads
    <3>9. f[l] = q
      BY <3>5, <3>8
    <3>10. f[l + 1] = f[l] * Radix + d - DIGIT0
      <4>1. l + 1 \in 1 .. l + 1 /\ (l + 1) - 1 = l
        BY <3>3
      <4> QED BY <3>6, <3>7, <4>1
    <3>11. q * Radix + (DIGIT0 + m) - DIGIT0 = x
      <4>1. q * Radix = Radix * q /\ q * Radix \in Nat
        BY <1>0, <3>1
      <4> DEFINE p == q * Radix
      <4>2. p \in Nat /\ x = p + m
        BY <3>1, <4>1
      <4> HIDE DEF p
      <4>3. p + (DIGIT0 + m) - DIGIT0 = x
        BY <1>0, <3>1, <4>2
      <4> QED BY <4>3 DEF p
    <3>12. f[Len(t)] = x
      BY <3>6, <3>9, <3>10, <3>11 DEF d
    <3> QED BY <3>12 DEF t
  <2> QED BY <1>0, <2>1, <2>2
<1>2. \A x \in Nat : x \in G
  <2>1. id \in [Nat -> Nat]
    OBVIOUS
  <2> HIDE DEF id, G
  <2> QED BY <1>1, <2>1, MeasureInduction
<1> QED BY <1>2

(* The value of the digits of a number is the number.                       *)
LEMMA ValueOfWritten ==
    ASSUME NEW v \in Nat
    PROVE  ValueOf(Written(v)) = v
<1>1. Written(v) \in Seq(Int)
  <2>1. Written(v) \in Seq(Digits)
    BY WrittenIs
  <2>2. Digits \subseteq Int
    BY DEF Digits, DIGIT0
  <2> QED BY <2>1, <2>2, SeqMonotonic
<1>2. PICK c : Reads(c, Written(v)) /\ ValueOf(Written(v)) = c[Len(Written(v))]
  BY <1>1, ValueSteps
<1> QED BY <1>2, ReadsWritten

(* The value of what sdsll2str() writes is the number.                      *)
LEMMA ValueIs ==
    ASSUME NEW v \in Numbers
    PROVE  Value(sdsll2str(v)) = v
<1> DEFINE t == sdsll2str(v)
           m == Magnitude(v)
           w == Written(m)
           digits == IF t[1] = MINUS THEN Tail(t) ELSE t
<1>0. Value(t) = IF t[1] = MINUS THEN -ValueOf(digits) ELSE ValueOf(digits)
  BY DEF Value, ValueOf
<1>1. m \in Nat /\ v \in Int /\ (v >= 0 => t = w /\ m = v) /\ (v < 0 => t = <<MINUS>> \o w /\ m = -v)
  BY NumberIs
<1>2. w \in Seq(Digits) /\ Len(w) \in Nat \ {0} /\ ValueOf(w) = m
  <2> HIDE DEF m
  <2> QED BY <1>1, WrittenIs, ValueOfWritten
<1> HIDE DEF t, m, w
<1>3. CASE v < 0
  <2>1. w \in Seq(Int) /\ MINUS \in Int
    <3>1. Digits \subseteq Int /\ MINUS \in Int
      BY DEF Digits, DIGIT0, MINUS
    <3> QED BY <1>2, <3>1, SeqMonotonic
  <2>2. /\ t \in Seq(Int) /\ Len(t) = Len(w) + 1 /\ t[1] = MINUS
        /\ \A i \in 2 .. Len(w) + 1 : t[i] = w[i - 1]
    <3>1. t = <<MINUS>> \o w
      BY <1>1, <1>3
    <3> QED BY <2>1, <3>1, ConsIs
  <2>3. Tail(t) = w
    <3>0. t # <<>>
      BY <1>2, <2>2
    <3> DEFINE r == Tail(t)
    <3>1. r \in Seq(Int) /\ Len(r) = Len(w) /\ \A i \in 1 .. Len(w) : r[i] = t[i + 1]
      BY <1>2, <2>2, <3>0, HeadTailProperties
    <3> HIDE DEF r
    <3>2. \A i \in 1 .. Len(w) : i + 1 \in 2 .. Len(w) + 1 /\ (i + 1) - 1 = i
      BY <1>2
    <3>3. \A i \in 1 .. Len(r) : r[i] = w[i]
      BY <2>2, <3>1, <3>2
    <3>4. r = w
      BY <2>1, <3>1, <3>3, SeqEqual
    <3> QED BY <3>4 DEF r
  <2>4. Value(t) = -m
    BY <1>0, <1>2, <2>2, <2>3
  <2> QED BY <1>1, <1>3, <2>4 DEF t
<1>4. CASE ~(v < 0)
  <2>1. t = w /\ m = v
    BY <1>1, <1>4
  <2>2. t[1] # MINUS
    <3>1. 1 \in 1 .. Len(w)
      BY <1>2
    <3>2. w[1] \in Digits
      BY <1>2, <3>1, ElementOfSeq
    <3>3. MINUS \notin Digits
      BY DEF MINUS, Digits, DIGIT0
    <3> QED BY <2>1, <3>2, <3>3
  <2> QED BY <1>0, <1>2, <2>1, <2>2 DEF t
<1> QED BY <1>3, <1>4

-----------------------------------------------------------------------------
(* ll2string(): the length computed before, and the digits in pairs.        *)

(* Powers multiply as their exponents add.                                  *)
LEMMA PowerAdd ==
    ASSUME NEW n \in Nat, NEW k \in Nat
    PROVE  Power[n + k] = Power[n] * Power[k]
<1> DEFINE G == {j \in Nat : Power[n + j] = Power[n] * Power[j]}
           p == Power[n]
<1>0. Radix \in Nat /\ p \in Nat
  BY TextAssumption, PowerIs
<1>1. 0 \in G
  <2>1. n + 0 = n /\ Power[0] = 1 /\ p * 1 = p
    BY <1>0, PowerIs
  <2> HIDE DEF p
  <2> QED BY <2>1 DEF p
<1>2. ASSUME NEW j \in Nat, j \in G PROVE j + 1 \in G
  <2> DEFINE x == Power[j]
             r == Radix
  <2>1. n + j \in Nat /\ n + (j + 1) = (n + j) + 1
    OBVIOUS
  <2>2. Power[(n + j) + 1] = r * Power[n + j] /\ Power[j + 1] = r * x /\ x \in Nat /\ r \in Nat
    BY <1>0, <2>1, PowerIs
  <2>3. Power[n + j] = p * x
    BY <1>2
  <2> HIDE DEF p, x, r
  <2>4. r * (p * x) = p * (r * x)
    BY <1>0, <2>2
  <2>5. Power[n + (j + 1)] = p * Power[j + 1]
    BY <2>1, <2>2, <2>3, <2>4
  <2> QED BY <2>5 DEF p
<1>3. k \in G
  <2> HIDE DEF G
  <2> QED BY <1>1, <1>2, NatSetInduction
<1> QED BY <1>3

(* Dividing by a power takes that power off a bound.                        *)
LEMMA DivideBelow ==
    ASSUME NEW v \in Nat, NEW p \in Nat, p > 1, NEW b \in Nat
    PROVE  v \div p \in Nat /\ (v \div p < b <=> v < p * b)
<1> DEFINE q == v \div p
           m == (v % p)
<1>1. q \in Nat /\ m \in 0 .. p - 1 /\ v = p * q + m
  <2> HIDE DEF q, m
  <2> QED BY Divide DEF q, m
<1> HIDE DEF q, m
<1>2. m \in Nat /\ m < p /\ p * q \in Nat /\ p * b \in Nat /\ p * (q + 1) = p * q + p
  BY <1>1
<1>3. ASSUME v < p * b PROVE q < b
  <2>1. p * q < p * b
    BY <1>1, <1>2, <1>3
  <2> QED BY <1>1, <2>1, Monotone
<1>4. ASSUME q < b PROVE v < p * b
  <2>1. p * (q + 1) <= p * b
    BY <1>1, <1>4, Monotone
  <2> QED BY <1>1, <1>2, <2>1
<1> QED BY <1>1, <1>3, <1>4 DEF q

(* Dividing by a power takes its exponent off the number of digits. *)
LEMMA DigitsAfterDivision ==
    ASSUME NEW v \in Nat, NEW e \in Nat, e > 0, v >= Power[e], NEW k \in Nat,
           HasDigits(v \div Power[e], k)
    PROVE  HasDigits(v, e + k)
<1> DEFINE p == Power[e]
           q == v \div p
<1>1. p \in Nat /\ p > 1
  <2>1. Power[1] <= Power[e] /\ Power[0 + 1] = Radix * Power[0] /\ Power[0] = 1 /\ p \in Nat
    <3>1. 1 <= e
      OBVIOUS
    <3> QED BY <3>1, PowerMonotone, PowerIs
  <2>2. Power[1] = Radix /\ Radix \in Nat /\ Radix > 1
    BY <2>1, TextAssumption
  <2> HIDE DEF p
  <2> QED BY <2>1, <2>2 DEF p
<1>2. k > 0 /\ q < Power[k] /\ (k > 1 => q >= Power[k - 1])
  BY DEF HasDigits
<1>3. Power[k] \in Nat /\ Power[e + k] = p * Power[k]
  BY PowerIs, PowerAdd
<1> HIDE DEF p
<1>4. q \in Nat /\ v < p * Power[k]
  <2> DEFINE b == Power[k]
  <2>1. b \in Nat /\ q < b
    BY <1>2, <1>3
  <2> HIDE DEF b
  <2>2. q \in Nat /\ v < p * b
    BY <1>1, <2>1, DivideBelow
  <2> QED BY <2>2 DEF b
<1>5. v >= Power[e + k - 1]
  <2>1. CASE k = 1
    <3>1. e + k - 1 = e
      BY <2>1
    <3> QED BY <3>1
  <2>2. CASE k > 1
    <3> DEFINE b == Power[k - 1]
    <3>1. k - 1 \in Nat /\ e + (k - 1) = e + k - 1
      BY <2>2
    <3>2. b \in Nat /\ q >= b /\ Power[e + (k - 1)] = p * b
      BY <1>2, <2>2, <3>1, PowerIs, PowerAdd DEF p
    <3> HIDE DEF b, q
    <3>3. q < b <=> v < p * b
      BY <1>1, <3>2, DivideBelow DEF q
    <3>4. p * b \in Nat
      BY <1>1, <3>2
    <3>5. v >= p * b
      BY <1>4, <3>2, <3>3, <3>4
    <3> QED BY <3>1, <3>2, <3>5
  <2> QED BY <1>2, <2>1, <2>2
<1>6. e + k > 0
  BY <1>2
<1> QED BY <1>3, <1>4, <1>5, <1>6 DEF HasDigits

(* The comparisons of digits10(). *)
Comparisons(v) == {k \in 1 .. 11 : v >= Power[k]}
(* digits10() counts up to twelve digits by comparisons.                    *)
LEMMA ComparisonsCount ==
    ASSUME NEW v \in Nat
    PROVE  /\ 1 + Cardinality(Comparisons(v)) \in Nat
           /\ v < Power[12] => HasDigits(v, 1 + Cardinality(Comparisons(v)))
<1>1. Cardinality(Comparisons(v)) \in Nat
  <2>1. IsFiniteSet(1 .. 11)
    <3> DEFINE a == 1
               b == 11
    <3>1. a \in Int /\ b \in Int
      OBVIOUS
    <3> HIDE DEF a, b
    <3>2. IsFiniteSet(a .. b)
      BY <3>1, FS_Interval
    <3> QED BY <3>2 DEF a, b
  <2>2. Comparisons(v) \in SUBSET (1 .. 11)
    BY DEF Comparisons
  <2>3. IsFiniteSet(Comparisons(v))
    BY <2>1, <2>2, FS_Subset
  <2> QED BY <2>3, FS_CardinalityType
<1>2. ASSUME v < Power[12] PROVE HasDigits(v, 1 + Cardinality(Comparisons(v)))
  <2> DEFINE l == Len(LowDigitsFirst[v])
  <2>1. l \in Nat /\ HasDigits(v, l)
    BY LowDigitsLen
  <2> HIDE DEF l
  <2>2. l > 0 /\ v < Power[l] /\ (l > 1 => v >= Power[l - 1])
    BY <2>1 DEF HasDigits
  <2>3. l <= 12
    <3>1. ASSUME l > 12 PROVE FALSE
      <4>1. l - 1 \in Nat /\ 12 <= l - 1 /\ l > 1
        BY <2>1, <3>1
      <4>2. Power[12] <= Power[l - 1] /\ Power[12] \in Nat /\ Power[l - 1] \in Nat
        BY <4>1, PowerMonotone, PowerIs
      <4> QED BY <1>2, <2>2, <4>1, <4>2
    <3> QED BY <2>1, <3>1
  <2>4. \A k \in 1 .. 11 : v >= Power[k] <=> k \in 1 .. l - 1
    <3> SUFFICES ASSUME NEW k \in 1 .. 11 PROVE v >= Power[k] <=> k \in 1 .. l - 1
      OBVIOUS
    <3>0. k \in Nat /\ Power[k] \in Nat /\ Power[l] \in Nat
      BY <2>1, PowerIs
    <3>1. CASE k <= l - 1
      <4>1. l - 1 \in Nat /\ l > 1 /\ k \in 1 .. l - 1
        BY <2>1, <3>1
      <4>2. Power[k] <= Power[l - 1] /\ Power[l - 1] \in Nat
        BY <3>0, <3>1, <4>1, PowerMonotone, PowerIs
      <4> QED BY <2>2, <3>0, <4>1, <4>2
    <3>2. CASE ~(k <= l - 1)
      <4>1. l <= k /\ k \notin 1 .. l - 1
        BY <2>1, <3>2
      <4>2. Power[l] <= Power[k]
        BY <2>1, <3>0, <4>1, PowerMonotone
      <4> QED BY <2>2, <3>0, <4>1, <4>2
    <3> QED BY <3>1, <3>2
  <2>5. Comparisons(v) = 1 .. l - 1
    <3>1. \A k \in 1 .. l - 1 : k \in 1 .. 11
      BY <2>1, <2>3
    <3> QED BY <2>4, <3>1 DEF Comparisons
  <2>6. Cardinality(1 .. l - 1) = l - 1
    <3> DEFINE b == l - 1
    <3>1. b \in Int /\ b >= 0 /\ b - 1 + 1 = b /\ (1 > b => b = 0)
      BY <2>1, <2>2
    <3> HIDE DEF b
    <3>2. Cardinality(1 .. b) = IF 1 > b THEN 0 ELSE b - 1 + 1
      BY <3>1, FS_Interval
    <3>3. Cardinality(1 .. b) = b
      BY <3>1, <3>2
    <3> QED BY <3>3 DEF b
  <2>7. 1 + (l - 1) = l
    BY <2>1
  <2> QED BY <2>1, <2>5, <2>6, <2>7
<1> QED BY <1>1, <1>2

(* Powers from the twelfth on have the twelfth as a factor.                 *)
LEMMA BigPower == Power[12] \in Nat /\ Power[12] > 1
<1>1. Power[1] <= Power[12] /\ Power[0 + 1] = Radix * Power[0] /\ Power[0] = 1 /\ Power[12] \in Nat
  BY PowerMonotone, PowerIs
<1> QED BY <1>1, TextAssumption

(* digits10() is what its equation says.                                    *)
LEMMA Digits10Is ==
    \A v \in Nat :
        digits10[v] = IF v >= Power[12] THEN 12 + digits10[v \div Power[12]]
                      ELSE 1 + Cardinality(Comparisons(v))
<1> DEFINE Def(f) == [v \in Nat |-> IF v >= Power[12] THEN 12 + f[v \div Power[12]]
                                    ELSE 1 + Cardinality({k \in 1 .. 11 : v >= Power[k]})]
           mu == [v \in Nat |-> v]
           d == [v \in Nat |-> v \div Power[12]]
           Stop == {v \in Nat : ~(v >= Power[12])}
           b == [v \in Nat |-> 1 + Cardinality(Comparisons(v))]
           F == [p \in Nat \X Nat |-> 12 + p[2]]
<1>a. \A v \in Nat : v \div Power[12] \in Nat /\ (v >= Power[12] => v \div Power[12] < v)
  BY BigPower, Divide
<1>1. Descends(Nat, mu, Stop, d)
  <2>1. mu \in [Nat -> Nat] /\ d \in [Nat -> Nat] /\ \A x \in Nat : x \notin Stop => mu[d[x]] < mu[x]
    BY <1>a
  <2> HIDE DEF mu, d, Stop
  <2> QED BY <2>1 DEF Descends
<1>2. Body(Nat, Nat, b, F)
  <2>2. b \in [Nat -> Nat] /\ F \in [Nat \X Nat -> Nat]
    BY ComparisonsCount
  <2> HIDE DEF b, F
  <2> QED BY <2>2 DEF Body
<1>3. PICK f : Solves(f, Nat, Stop, d, Nat, b, F)
  <2> HIDE DEF mu, d, b, F, Stop
  <2> QED BY <1>1, <1>2, RecursionExists
<1>4. f = Def(f)
  <2>1. ASSUME NEW v \in Nat
        PROVE  f[v] = IF v >= Power[12] THEN 12 + f[v \div Power[12]]
                      ELSE 1 + Cardinality(Comparisons(v))
    <3>1. f \in [Nat -> Nat] /\ f[v] = IF v \in Stop THEN b[v] ELSE F[<<v, f[d[v]]>>]
      BY <1>3 DEF Solves
    <3>2. d[v] = v \div Power[12] /\ v \div Power[12] \in Nat
      BY <1>a
    <3>3. F[<<v, f[d[v]]>>] = 12 + f[v \div Power[12]]
      BY <3>1, <3>2
    <3> HIDE DEF F, d
    <3> QED BY <3>1, <3>3
  <2>2. f \in [Nat -> Nat]
    BY <1>3 DEF Solves
  <2> QED BY <2>1, <2>2 DEF Comparisons
<1>5. digits10 = Def(digits10)
  <2>1. \E h1 : h1 = Def(h1)
    BY <1>4
  <2>2. digits10 = CHOOSE h1 : h1 = Def(h1)
    BY DEF digits10
  <2> QED BY <2>1, <2>2
<1> QED BY <1>5 DEF Comparisons

(* digits10() is the number of digits. *)
LEMMA Digits10Counts ==
    ASSUME NEW v \in Nat
    PROVE  digits10[v] = Len(Written(v))
<1> DEFINE G == {x \in Nat : digits10[x] \in Nat /\ HasDigits(x, digits10[x])}
           id == [x \in Nat |-> x]
<1>1. ASSUME NEW x \in Nat, \A y \in Nat : id[y] < id[x] => y \in G PROVE x \in G
  <2>1. CASE ~(x >= Power[12])
    <3>1. digits10[x] = 1 + Cardinality(Comparisons(x))
      BY <2>1, Digits10Is
    <3>2. x < Power[12]
      BY <2>1, BigPower
    <3> QED BY <3>1, <3>2, ComparisonsCount
  <2>2. CASE x >= Power[12]
    <3> DEFINE q == x \div Power[12]
               k == digits10[q]
    <3>1. q \in Nat /\ q < x
      BY <2>2, BigPower, Divide
    <3>2. k \in Nat /\ HasDigits(q, k)
      BY <1>1, <3>1
    <3>3. digits10[x] = 12 + k
      BY <2>2, Digits10Is
    <3> HIDE DEF k
    <3>4. HasDigits(x, 12 + k)
      BY <2>2, <3>2, DigitsAfterDivision
    <3> QED BY <3>2, <3>3, <3>4
  <2> QED BY <2>1, <2>2
<1>2. \A x \in Nat : x \in G
  <2>1. id \in [Nat -> Nat]
    OBVIOUS
  <2> HIDE DEF id, G
  <2> QED BY <1>1, <2>1, MeasureInduction
<1>3. digits10[v] \in Nat /\ HasDigits(v, digits10[v])
  BY <1>2
<1>4. Len(Written(v)) \in Nat /\ HasDigits(v, Len(Written(v)))
  BY WrittenIs
<1> HIDE DEF G
<1> QED BY <1>3, <1>4, DigitsUnique

(* Dividing twice by the radix is dividing by its square.                   *)
LEMMA DivisionIs ==
    ASSUME NEW p \in Nat, p > 1, NEW x \in Nat, NEW y \in Nat, y < p
    PROVE  (p * x + y) \div p = x
<1> DEFINE v == p * x + y
           q == v \div p
<1>1. v \in Nat /\ p * x \in Nat /\ p * (x + 1) = p * x + p /\ x + 1 \in Nat
  OBVIOUS
<1>2. v < p * (x + 1) /\ ~(v < p * x)
  BY <1>1
<1> HIDE DEF v
<1>3. q \in Nat /\ (q < x + 1 <=> v < p * (x + 1)) /\ (q < x <=> v < p * x)
  BY <1>1, DivideBelow
<1> HIDE DEF q
<1>4. q = x
  BY <1>2, <1>3
<1> QED BY <1>4 DEF q, v

(* The last two digits of a number that has more, and what is left of it. *)
LEMMA TwoDigits ==
    ASSUME NEW v \in Nat
    PROVE  /\ v \div Radix \in Nat /\ (v \div Radix) % Radix \in Nat /\ (v \div Radix) % Radix < Radix
           /\ v % Radix \in Nat /\ v % Radix < Radix
           /\ v \div (Radix * Radix) \in Nat
           /\ v >= Radix * Radix =>
                /\ v \div (Radix * Radix) = (v \div Radix) \div Radix
                /\ v \div (Radix * Radix) < v /\ v >= Radix /\ v \div Radix >= Radix
           /\ v < Radix * Radix => v \div Radix < Radix
<1> DEFINE r == Radix
           q == v \div r
           m == (v % r)
           x == q \div r
           y == (q % r)
           p == r * r
<1>0. r \in Nat /\ r > 1 /\ p \in Nat /\ p > 1 /\ p >= r
  <2>1. Radix \in {2, 3, 4, 5, 6, 7, 8, 9, 10}
    BY TextAssumption
  <2> QED BY <2>1
<1> HIDE DEF r
<1>1. q \in Nat /\ m \in 0 .. r - 1 /\ v = r * q + m
  <2> HIDE DEF q, m, p
  <2> QED BY <1>0, Divide DEF q, m
<1> HIDE DEF q, m
<1>2. x \in Nat /\ y \in 0 .. r - 1 /\ q = r * x + y
  <2> HIDE DEF x, y, p
  <2> QED BY <1>0, <1>1, Divide DEF x, y
<1> HIDE DEF x, y
<1>3. m \in Nat /\ m < r /\ y \in Nat /\ y < r
  BY <1>0, <1>1, <1>2
<1>4. v = p * x + (r * y + m) /\ r * y + m \in Nat /\ r * y + m < p
  <2>1. v = r * (r * x + y) + m
    BY <1>1, <1>2
  <2>2. r * (r * x + y) = p * x + r * y
    BY <1>0, <1>2, <1>3
  <2>3. r * (y + 1) <= r * r /\ r * (y + 1) = r * y + r
    <3>1. y + 1 \in Nat /\ y + 1 <= r
      BY <1>0, <1>3
    <3>2. r * (y + 1) <= r * r
      BY <1>0, <3>1, Monotone
    <3> QED BY <1>0, <1>3, <3>2
  <2>4. r * y \in Nat /\ p * x \in Nat
    BY <1>0, <1>2, <1>3
  <2>5. r * y + m < p
    BY <1>0, <1>3, <2>3, <2>4
  <2> DEFINE a == p * x
             b == r * y
  <2>6. v = (a + b) + m /\ a \in Nat /\ b \in Nat
    BY <2>1, <2>2, <2>4
  <2> HIDE DEF a, b
  <2>7. v = a + (b + m) /\ b + m \in Nat
    BY <1>3, <2>6
  <2> QED BY <2>5, <2>7 DEF a, b
<1>5. v \div p = x
  <2> DEFINE z == r * y + m
  <2>1. z \in Nat /\ z < p /\ v = p * x + z
    BY <1>4
  <2> HIDE DEF z, p
  <2>2. (p * x + z) \div p = x
    BY <1>0, <1>2, <2>1, DivisionIs
  <2> QED BY <2>1, <2>2
<1>6. q < r <=> v < p
  BY <1>0, DivideBelow DEF q
<1>7. ASSUME v >= p PROVE x < v /\ v >= r /\ q >= r
  <2>1. v \div p < v
    <3> HIDE DEF p
    <3> QED BY <1>0, <1>7, Divide
  <2>2. q >= r
    BY <1>0, <1>1, <1>6, <1>7
  <2> QED BY <1>0, <1>5, <1>7, <2>1, <2>2
<1> QED BY <1>1, <1>2, <1>3, <1>5, <1>6, <1>7 DEF r, q, m, x, y

(* PairsFromBack is what its equation says.                                 *)
LEMMA PairsAre ==
    \A v \in Nat :
        PairsFromBack[v] =
            IF v >= Radix * Radix
            THEN PairsFromBack[v \div (Radix * Radix)] \o
                    <<DIGIT0 + ((v \div Radix) % Radix), DIGIT0 + (v % Radix)>>
            ELSE IF v < Radix THEN <<DIGIT0 + v>>
            ELSE <<DIGIT0 + (v \div Radix), DIGIT0 + (v % Radix)>>
<1> DEFINE Pair(v) == <<DIGIT0 + ((v \div Radix) % Radix), DIGIT0 + (v % Radix)>>
           Short(v) == IF v < Radix THEN <<DIGIT0 + v>>
                       ELSE <<DIGIT0 + (v \div Radix), DIGIT0 + (v % Radix)>>
           Def(f) == [v \in Nat |-> IF v >= Radix * Radix THEN f[v \div (Radix * Radix)] \o Pair(v)
                                    ELSE Short(v)]
           mu == [v \in Nat |-> v]
           d == [v \in Nat |-> v \div (Radix * Radix)]
           Stop == {v \in Nat : ~(v >= Radix * Radix)}
           T == Seq(Int)
           b == [v \in Nat |-> Short(v)]
           F == [p \in Nat \X T |-> p[2] \o Pair(p[1])]
<1>a. \A v \in Nat : /\ Pair(v) \in T /\ Short(v) \in T /\ v \div (Radix * Radix) \in Nat
                     /\ v >= Radix * Radix => v \div (Radix * Radix) < v
  <2> SUFFICES ASSUME NEW v \in Nat
               PROVE  /\ Pair(v) \in T /\ Short(v) \in T /\ v \div (Radix * Radix) \in Nat
                      /\ v >= Radix * Radix => v \div (Radix * Radix) < v
    OBVIOUS
  <2> DEFINE x == DIGIT0 + ((v \div Radix) % Radix)
             y == DIGIT0 + (v % Radix)
             z == DIGIT0 + (v \div Radix)
             w == DIGIT0 + v
  <2>1. x \in Int /\ y \in Int /\ z \in Int /\ w \in Int
    BY TwoDigits DEF DIGIT0
  <2>2. Pair(v) = <<x, y>> /\ Short(v) = IF v < Radix THEN <<w>> ELSE <<z, y>>
    OBVIOUS
  <2> HIDE DEF x, y, z, w, Pair, Short
  <2>3. <<x, y>> \in Seq(Int) /\ <<z, y>> \in Seq(Int) /\ <<w>> \in Seq(Int)
    BY <2>1
  <2> QED BY <2>2, <2>3, TwoDigits
<1> HIDE DEF Pair, Short
<1>1. Descends(Nat, mu, Stop, d)
  <2>1. mu \in [Nat -> Nat] /\ d \in [Nat -> Nat] /\ \A x \in Nat : x \notin Stop => mu[d[x]] < mu[x]
    BY <1>a
  <2> HIDE DEF mu, d, Stop
  <2> QED BY <2>1 DEF Descends
<1>2. Body(Nat, T, b, F)
  <2>1. \A p \in Nat \X T : p[2] \o Pair(p[1]) \in T
    <3> SUFFICES ASSUME NEW v \in Nat, NEW t \in T PROVE t \o Pair(v) \in T
      OBVIOUS
    <3> QED BY <1>a, ConcatProperties
  <2>2. b \in [Nat -> T] /\ F \in [Nat \X T -> T]
    BY <1>a, <2>1
  <2> HIDE DEF b, F, T
  <2> QED BY <2>2 DEF Body
<1>3. PICK f : Solves(f, Nat, Stop, d, T, b, F)
  <2> HIDE DEF mu, d, b, F, T, Stop
  <2> QED BY <1>1, <1>2, RecursionExists
<1>4. f = Def(f)
  <2>1. ASSUME NEW v \in Nat
        PROVE  f[v] = IF v >= Radix * Radix THEN f[v \div (Radix * Radix)] \o Pair(v) ELSE Short(v)
    <3>1. f \in [Nat -> T] /\ f[v] = IF v \in Stop THEN b[v] ELSE F[<<v, f[d[v]]>>]
      <4> HIDE DEF T, Stop, b, F, d
      <4> QED BY <1>3 DEF Solves
    <3>2. d[v] = v \div (Radix * Radix) /\ v \div (Radix * Radix) \in Nat
      BY <1>a
    <3>3. f[v \div (Radix * Radix)] \in T
      <4> HIDE DEF T
      <4> QED BY <3>1, <3>2
    <3>4. F[<<v, f[v \div (Radix * Radix)]>>] = f[v \div (Radix * Radix)] \o Pair(v)
      BY <3>3, ZenonT(40)
    <3>5. v \in Stop <=> ~(v >= Radix * Radix)
      OBVIOUS
    <3>6. b[v] = Short(v)
      OBVIOUS
    <3> HIDE DEF F, d, b, Stop, T
    <3> QED BY <3>1, <3>2, <3>4, <3>5, <3>6
  <2>2. f \in [Nat -> T]
    BY <1>3, SMTT(30) DEF Solves
  <2> HIDE DEF T
  <2> QED BY <2>1, <2>2
<1>5. PairsFromBack = Def(PairsFromBack)
  <2>1. \E g : g = Def(g)
    BY <1>4
  <2>2. PairsFromBack = CHOOSE g : g = Def(g)
    BY DEF PairsFromBack, Pair, Short
  <2> QED BY <2>1, <2>2
<1> QED BY <1>5 DEF Pair, Short

(* A number below the square of the radix is written as one or two digits.  *)
LEMMA TwoAre ==
    ASSUME NEW S, NEW a \in S, NEW b \in S
    PROVE  <<a>> \o <<b>> = <<a, b>>
<1> DEFINE aa == <<a>>
           bb == <<b>>
           ab == <<a, b>>
           u == aa \o bb
<1>1. aa \in Seq(S) /\ Len(aa) = 1 /\ aa[1] = a /\ bb \in Seq(S) /\ Len(bb) = 1 /\ bb[1] = b
  OBVIOUS
<1>2. ab \in Seq(S) /\ Len(ab) = 2 /\ ab[1] = a /\ ab[2] = b
  OBVIOUS
<1> HIDE DEF aa, bb, ab
<1>3. /\ u \in Seq(S) /\ Len(u) = Len(aa) + Len(bb)
      /\ \A i \in 1 .. Len(aa) + Len(bb) :
            u[i] = IF i <= Len(aa) THEN aa[i] ELSE bb[i - Len(aa)]
  BY <1>1, ConcatProperties
<1> HIDE DEF u
<1>4. \A i \in 1 .. Len(u) : u[i] = ab[i]
  <2>1. \A i \in 1 .. 2 : i = 1 \/ i = 2
    OBVIOUS
  <2>2. u[1] = a /\ u[2] = b /\ Len(u) = 2
    BY <1>1, <1>3
  <2> QED BY <1>2, <2>1, <2>2
<1>5. u = ab
  BY <1>1, <1>2, <1>3, <1>4, SeqEqual
<1> QED BY <1>5 DEF aa, bb, ab, u

(* Written() of a larger number ends with its last two digits.              *)
LEMMA TwoMore ==
    ASSUME NEW S, NEW w \in Seq(S), NEW a \in S, NEW b \in S
    PROVE  (w \o <<a>>) \o <<b>> = w \o <<a, b>>
<1> DEFINE aa == <<a>>
           bb == <<b>>
<1>1. aa \in Seq(S) /\ bb \in Seq(S)
  OBVIOUS
<1>2. aa \o bb = <<a, b>>
  BY TwoAre
<1> HIDE DEF aa, bb
<1>3. (w \o aa) \o bb = w \o (aa \o bb)
  BY <1>1, ConcatAssociative, SMTT(30)
<1> QED BY <1>2, <1>3 DEF aa, bb

(* Both algorithms write the same digits. *)
LEMMA PairsAreDigits ==
    ASSUME NEW v \in Nat
    PROVE  PairsFromBack[v] = Written(v)
<1> DEFINE G == {x \in Nat : PairsFromBack[x] = Written(x)}
           id == [x \in Nat |-> x]
<1>1. ASSUME NEW x \in Nat, \A y \in Nat : id[y] < id[x] => y \in G PROVE x \in G
  <2> DEFINE q == x \div Radix
             a == DIGIT0 + q
             c == DIGIT0 + (q % Radix)
             e == DIGIT0 + (x % Radix)
  <2>0. Radix \in Nat /\ Radix > 1 /\ Radix * Radix \in Nat /\ Radix <= Radix * Radix
    <3>1. Radix \in {2, 3, 4, 5, 6, 7, 8, 9, 10}
      BY TextAssumption
    <3> QED BY <3>1
  <2>1. CASE x < Radix
    <3>1. PairsFromBack[x] = <<DIGIT0 + x>>
      <4>1. ~(x >= Radix * Radix)
        <5> DEFINE p == Radix * Radix
        <5>1. p \in Nat /\ Radix <= p /\ Radix \in Nat
          BY <2>0
        <5> HIDE DEF p
        <5>2. ~(x >= p)
          BY <2>1, <5>1
        <5> QED BY <5>2 DEF p
      <4> QED BY <2>1, <4>1, PairsAre
    <3> QED BY <2>1, <3>1, WrittenIs
  <2>2. CASE x >= Radix /\ x < Radix * Radix
    <3>1. PairsFromBack[x] = <<a, e>>
      <4>1. ~(x >= Radix * Radix) /\ ~(x < Radix)
        BY <2>0, <2>2
      <4> QED BY <4>1, PairsAre
    <3>2. Written(x) = Written(q) \o <<e>> /\ q \in Nat
      BY <2>2, WrittenIs
    <3>3. q < Radix
      BY <2>2, TwoDigits
    <3>4. Written(q) = <<a>>
      <4> HIDE DEF q
      <4>1. Written(q) = <<DIGIT0 + q>>
        BY <3>2, <3>3, WrittenIs
      <4>2. a = DIGIT0 + q
        OBVIOUS
      <4> HIDE DEF a
      <4> QED BY <4>1, <4>2
    <3>5. <<a>> \o <<e>> = <<a, e>>
      <4>1. a \in Digits
        <5> HIDE DEF q
        <5> QED BY <3>2, <3>3, DigitBytes
      <4>2. e \in Digits
        BY <2>2, WrittenIs
      <4> HIDE DEF a, e
      <4> QED BY <4>1, <4>2, TwoAre
    <3> HIDE DEF a, e
    <3> QED BY <3>1, <3>2, <3>4, <3>5
  <2>3. CASE x >= Radix * Radix
    <3> DEFINE y == x \div (Radix * Radix)
               w == Written(y)
    <3>1. PairsFromBack[x] = PairsFromBack[y] \o <<c, e>>
      BY <2>3, PairsAre
    <3>2. /\ q \in Nat /\ y \in Nat /\ y = q \div Radix /\ y < x /\ x >= Radix /\ q >= Radix
      BY <2>3, TwoDigits
    <3>3. Written(x) = Written(q) \o <<e>> /\ e \in Digits
      BY <3>2, WrittenIs
    <3>4. Written(q) = Written(q \div Radix) \o <<c>> /\ c \in Digits
      <4> HIDE DEF q
      <4> QED BY <3>2, WrittenIs DEF c
    <3>5. PairsFromBack[y] = w
      BY <1>1, <3>2
    <3>6. w \in Seq(Digits)
      <4> HIDE DEF y
      <4> QED BY <3>2, WrittenIs
    <3> HIDE DEF c, e, w
    <3>7. (w \o <<c>>) \o <<e>> = w \o <<c, e>>
      BY <3>3, <3>4, <3>6, TwoMore
    <3> QED BY <3>1, <3>2, <3>3, <3>4, <3>5, <3>7 DEF w
  <2> QED BY <2>0, <2>1, <2>2, <2>3
<1>2. \A x \in Nat : x \in G
  <2>1. id \in [Nat -> Nat]
    OBVIOUS
  <2> HIDE DEF id, G
  <2> QED BY <1>1, <2>1, MeasureInduction
<1> QED BY <1>2

(* ll2string() writes what sdsll2str() writes, in every buffer with room for *)
(* it and the terminator, and nothing in any other.                          *)
THEOREM NumberInBuffer ==
    ASSUME NEW v \in Numbers, NEW n \in Int
    PROVE  ll2string(n, v) = IF n <= Len(sdsll2str(v)) THEN <<>> ELSE sdsll2str(v)
<1> DEFINE t == sdsll2str(v)
           m == Magnitude(v)
           k == digits10[m] + Len(Sign(v))
           w == Written(m)
           sign == Sign(v)
<1>1. m \in Nat /\ t = sign \o w
  BY NumberIs
<1> HIDE DEF t
<1>2. ll2string(n, v) = IF k >= n THEN <<>> ELSE sign \o PairsFromBack[m]
  BY DEF ll2string
<1>3. PairsFromBack[m] = w /\ digits10[m] = Len(w)
  <2> HIDE DEF m
  <2> QED BY <1>1, PairsAreDigits, Digits10Counts
<1>4. w \in Seq(Int) /\ Len(w) \in Nat
  <2>1. w \in Seq(Digits) /\ Len(w) \in Nat
    <3> HIDE DEF m
    <3> QED BY <1>1, WrittenIs
  <2>2. Digits \subseteq Int
    BY DEF Digits, DIGIT0
  <2> HIDE DEF w
  <2> QED BY <2>1, <2>2, SeqMonotonic
<1>5. sign \in Seq(Int) /\ Len(sign) \in Nat
  BY DEF Sign, MINUS
<1> HIDE DEF w, sign
<1>6. Len(sign \o w) = Len(sign) + Len(w)
  BY <1>4, <1>5, ConcatProperties
<1>7. k = Len(t) /\ Len(t) \in Nat
  <2>1. k = Len(w) + Len(sign)
    BY <1>3 DEF sign
  <2> HIDE DEF k
  <2> QED BY <1>1, <1>4, <1>5, <1>6, <2>1
<1>8. sign \o PairsFromBack[m] = t
  BY <1>1, <1>3
<1> HIDE DEF k
<1>9. ll2string(n, v) = IF n <= Len(t) THEN <<>> ELSE t
  BY <1>2, <1>7, <1>8
<1> QED BY <1>9 DEF t

(* Every step that writes a number writes one that is read back.            *)
LEMMA NumberStepOK == NumberStep
<1> SUFFICES ASSUME NEW v \in Numbers, FromLongLong(v)
             PROVE  /\ Value(text') = v
                    /\ \A n \in {Len(text'), Len(text') + 1, SDS_LLSTR_SIZE} :
                          ll2string(n, v) = IF n = Len(text') THEN <<>> ELSE text'
                    /\ v >= 0 => sdsull2str(v) = text'
  BY DEF NumberStep
<1> DEFINE t == sdsll2str(v)
<1>1. text' = t
  BY DEF FromLongLong
<1>2. Value(t) = v
  BY ValueIs
<1>3. v >= 0 => sdsull2str(v) = t
  BY NumberIs DEF sdsull2str, Written
<1>4. Len(t) \in Nat /\ Len(t) < SDS_LLSTR_SIZE /\ SDS_LLSTR_SIZE \in Nat
  BY NumberFits, TextAssumption
<1>5. \A n \in Int : ll2string(n, v) = IF n <= Len(t) THEN <<>> ELSE t
  BY NumberInBuffer
<1> HIDE DEF t
<1>6. \A n \in {Len(t), Len(t) + 1, SDS_LLSTR_SIZE} : ll2string(n, v) = IF n = Len(t) THEN <<>> ELSE t
  BY <1>4, <1>5
<1> QED BY <1>1, <1>2, <1>3, <1>6

(* Numbers, the smallest included, are read back as they were written, by   *)
(* the two algorithms alike, and ll2string() refuses just the buffers that  *)
(* have no room for the terminator.                                         *)
THEOREM WrittenNumbersReadBack == Spec => NumbersReadBack
  BY NumberStepOK, PTL DEF NumbersReadBack

-----------------------------------------------------------------------------
(* Parsing: what the loops of sdssplitargs() do from a given point on.      *)

TokenStates(line) == (1 .. Len(line) + 1) \X {NUL, DQUOTE, SQUOTE}
Here(line, at) == At(line, at[1])
After(line, at) == At(line, at[1] + 1)
HexTaken(line, at) == at[2] = DQUOTE /\ HexEscape(line, at[1])
EscapeTaken(line, at) == at[2] = DQUOTE /\ Here(line, at) = BACKSLASH /\ After(line, at) # NUL
QuoteTaken(line, at) == at[2] = SQUOTE /\ Here(line, at) = BACKSLASH /\ After(line, at) = SQUOTE
Opens(line, at) == at[2] = NUL /\ Here(line, at) \in {DQUOTE, SQUOTE}

TokenStops(line, at) ==
    IF at[2] = NUL THEN Here(line, at) \in {SP, LF, 13, 9, NUL}
    ELSE /\ ~HexTaken(line, at) /\ ~EscapeTaken(line, at) /\ ~QuoteTaken(line, at)
         /\ Here(line, at) \in {at[2], NUL}
TokenEnd(line, at) ==
    IF at[2] = NUL
    THEN IF Here(line, at) = NUL THEN Complete(at[1]) ELSE Complete(at[1] + 1)
    ELSE IF Here(line, at) = at[2] /\ ClosesToken(line, at[1]) THEN Complete(at[1] + 1)
    ELSE Unbalanced

HexValue(line, p) ==
    16 * hex_digit_to_int(At(line, p + 2)) + hex_digit_to_int(At(line, p + 3))
ByteTaken(line, at) ==
    IF HexTaken(line, at) THEN HexValue(line, at[1])
    ELSE IF EscapeTaken(line, at) THEN Unescaped(After(line, at))
    ELSE IF QuoteTaken(line, at) THEN SQUOTE
    ELSE Here(line, at)
Width(line, at) ==
    IF HexTaken(line, at) THEN 4
    ELSE IF EscapeTaken(line, at) \/ QuoteTaken(line, at) THEN 2 ELSE 1
TokenNext(line, at) ==
    IF Opens(line, at) THEN <<at[1] + 1, Here(line, at)>>
    ELSE <<at[1] + Width(line, at), at[2]>>
TokenMore(line, at, rest) ==
    IF Opens(line, at) THEN rest ELSE Extended(ByteTaken(line, at), rest)

TokensBy(f, line) ==
    \A at \in TokenStates(line) :
        f[at] = IF TokenStops(line, at) THEN TokenEnd(line, at)
                ELSE TokenMore(line, at, f[TokenNext(line, at)])

(* The byte codes the parser tells apart.                                   *)
LEMMA Codes ==
    /\ NUL = 0 /\ LF = 10 /\ SP = 32 /\ DQUOTE = 34 /\ SQUOTE = 39 /\ BACKSLASH = 92
    /\ LOWER_X = 120 /\ LOWER_A = 97 /\ DIGIT0 = 48
  BY DEF NUL, LF, SP, DQUOTE, SQUOTE, BACKSLASH, LOWER_X, LOWER_A, DIGIT0

(* A loop of sdssplitargs() that goes on moves to a later position of the   *)
(* line.                                                                    *)
LEMMA TokenNextIs ==
    ASSUME NEW S, NEW line \in Seq(S), NEW at \in TokenStates(line), ~TokenStops(line, at)
    PROVE  TokenNext(line, at) \in TokenStates(line) /\ TokenNext(line, at)[1] > at[1]
<1> DEFINE n == Len(line)
           p == at[1]
           q == at[2]
           c == Here(line, at)
<1>1. /\ n \in Nat /\ p \in 1 .. n + 1 /\ q \in {NUL, DQUOTE, SQUOTE} /\ at = <<p, q>>
  BY DEF TokenStates
<1>2. \A i \in Int : At(line, i) # NUL => i <= n
  BY <1>1 DEF At
<1> HIDE DEF n, p, q
<1>3. c # NUL
  <2>1. c = At(line, p)
    BY DEF Here, p
  <2> HIDE DEF c
  <2>2. CASE q = NUL
    BY <2>2 DEF TokenStops, c, q
  <2>3. CASE q # NUL /\ HexTaken(line, at)
    <3>1. c = BACKSLASH
      BY <2>1, <2>3 DEF HexTaken, HexEscape, p
    <3> QED BY <3>1, Codes
  <2>4. CASE q # NUL /\ ~HexTaken(line, at)
    <3>1. EscapeTaken(line, at) \/ QuoteTaken(line, at) \/ c \notin {q, NUL}
      BY <2>4 DEF TokenStops, q, c
    <3> QED BY <3>1, Codes DEF EscapeTaken, QuoteTaken, c
  <2> QED BY <2>2, <2>3, <2>4
<1>4. p <= n /\ p + 1 \in 1 .. n + 1
  <2>1. At(line, p) # NUL
    BY <1>3 DEF Here, p, c
  <2> QED BY <1>1, <1>2, <2>1
<1>5. CASE Opens(line, at)
  <2>1. TokenNext(line, at) = <<p + 1, c>> /\ c \in {NUL, DQUOTE, SQUOTE}
    BY <1>5 DEF TokenNext, Opens, p
  <2> HIDE DEF c
  <2>2. <<p + 1, c>> \in (1 .. n + 1) \X {NUL, DQUOTE, SQUOTE} /\ <<p + 1, c>>[1] > p
    BY <1>1, <1>4, <2>1
  <2> QED BY <2>1, <2>2 DEF TokenStates, n, p
<1>6. CASE ~Opens(line, at)
  <2> DEFINE w == Width(line, at)
  <2>1. w \in Nat /\ w >= 1 /\ p + w <= n + 1
    <3>1. CASE HexTaken(line, at)
      <4>1. is_hex_digit(At(line, p + 3))
        BY <3>1 DEF HexTaken, HexEscape, p
      <4>2. At(line, p + 3) # NUL
        <5> DEFINE x == At(line, p + 3)
        <5> HIDE DEF x
        <5>1. is_hex_digit(x) => x # 0
          BY Codes, SMTT(30) DEF is_hex_digit
        <5> QED BY <4>1, <5>1, Codes DEF x
      <4>3. p + 3 <= n
        BY <1>1, <1>2, <4>2
      <4>4. w = 4
        BY <3>1 DEF Width
      <4> QED BY <1>1, <4>3, <4>4
    <3>2. CASE ~HexTaken(line, at) /\ (EscapeTaken(line, at) \/ QuoteTaken(line, at))
      <4>1. At(line, p + 1) # NUL
        BY <3>2, Codes DEF EscapeTaken, QuoteTaken, After, p
      <4>2. p + 1 <= n
        BY <1>1, <1>2, <4>1
      <4>3. w = 2
        BY <3>2 DEF Width
      <4> QED BY <1>1, <4>2, <4>3
    <3>3. CASE ~HexTaken(line, at) /\ ~EscapeTaken(line, at) /\ ~QuoteTaken(line, at)
      <4>1. w = 1
        BY <3>3 DEF Width
      <4> QED BY <1>1, <1>4, <4>1
    <3> QED BY <3>1, <3>2, <3>3
  <2>2. TokenNext(line, at) = <<p + w, q>>
    BY <1>6 DEF TokenNext, p, q
  <2> HIDE DEF w
  <2>3. <<p + w, q>> \in (1 .. n + 1) \X {NUL, DQUOTE, SQUOTE} /\ <<p + w, q>>[1] > p
    BY <1>1, <2>1
  <2> QED BY <2>2, <2>3 DEF TokenStates, n, p
<1> QED BY <1>5, <1>6

(* The definition says just that. *)
LEMMA TokenIs ==
    ASSUME NEW line \in Seq(Byte)
    PROVE  TokensBy(Token(line), line)
<1> DEFINE D == TokenStates(line)
           Def(f) ==
             [at \in (1 .. Len(line) + 1) \X {NUL, DQUOTE, SQUOTE} |->
                IF at[2] = NUL
                THEN IF At(line, at[1]) \in {SP, LF, 13, 9} THEN Complete(at[1] + 1)
                     ELSE IF At(line, at[1]) = NUL THEN Complete(at[1])
                     ELSE IF At(line, at[1]) \in {DQUOTE, SQUOTE}
                     THEN f[<<at[1] + 1, At(line, at[1])>>]
                     ELSE Extended(At(line, at[1]), f[<<at[1] + 1, at[2]>>])
                ELSE IF at[2] = DQUOTE /\ HexEscape(line, at[1])
                THEN Extended(16 * hex_digit_to_int(At(line, at[1] + 2))
                                 + hex_digit_to_int(At(line, at[1] + 3)),
                              f[<<at[1] + 4, at[2]>>])
                ELSE IF at[2] = DQUOTE /\ At(line, at[1]) = BACKSLASH /\ At(line, at[1] + 1) # NUL
                THEN Extended(Unescaped(At(line, at[1] + 1)), f[<<at[1] + 2, at[2]>>])
                ELSE IF at[2] = SQUOTE /\ At(line, at[1]) = BACKSLASH /\ At(line, at[1] + 1) = SQUOTE
                THEN Extended(SQUOTE, f[<<at[1] + 2, at[2]>>])
                ELSE IF At(line, at[1]) = at[2]
                THEN IF ClosesToken(line, at[1]) THEN Complete(at[1] + 1) ELSE Unbalanced
                ELSE IF At(line, at[1]) = NUL THEN Unbalanced
                ELSE Extended(At(line, at[1]), f[<<at[1] + 1, at[2]>>])]
           U == {<<>>} \union {ByteTaken(line, at) : at \in D}
           T == [ok : BOOLEAN, next : Nat, text : Seq(U)]
           n == Len(line)
           mu == [at \in D |-> n + 2 - at[1]]
           Stop == {at \in D : TokenStops(line, at)}
           d == [at \in D |-> IF at \in Stop THEN at ELSE TokenNext(line, at)]
           b == [at \in D |-> IF at \in Stop THEN TokenEnd(line, at) ELSE Unbalanced]
           F == [p \in D \X T |-> TokenMore(line, p[1], p[2])]
           token == CHOOSE f : f = Def(f)
<1>1. Descends(D, mu, Stop, d)
  <2>1. \A at \in D : at[1] \in 1 .. n + 1 /\ n \in Nat
    BY DEF TokenStates
  <2>2. mu \in [D -> Nat]
    BY <2>1
  <2>3. d \in [D -> D] /\ \A at \in D : at \notin Stop => d[at] = TokenNext(line, at)
    BY TokenNextIs
  <2>4. ASSUME NEW at \in D, at \notin Stop PROVE mu[d[at]] < mu[at]
    <3>1. d[at] \in D /\ d[at][1] > at[1]
      <4>1. d[at] = TokenNext(line, at)
        BY <2>3, <2>4
      <4> HIDE DEF d
      <4> QED BY <2>4, <4>1, TokenNextIs
    <3> HIDE DEF d, D
    <3>2. mu[at] = n + 2 - at[1] /\ mu[d[at]] = n + 2 - d[at][1]
      BY <3>1
    <3> HIDE DEF mu, n
    <3> QED BY <2>1, <3>1, <3>2
  <2> HIDE DEF mu, d, Stop, D
  <2> QED BY <2>2, <2>3, <2>4 DEF Descends
<1>2. Body(D, T, b, F)
  <2>1. ASSUME NEW at \in D PROVE TokenEnd(line, at) \in T /\ Unbalanced \in T
    <3>1. at[1] \in Nat
      BY DEF TokenStates
    <3>2. <<>> \in Seq(U)
      OBVIOUS
    <3> HIDE DEF U
    <3>3. Complete(at[1]) \in T /\ Complete(at[1] + 1) \in T /\ Unbalanced \in T
      BY <3>1, <3>2 DEF Complete, Unbalanced
    <3> HIDE DEF T
    <3> QED BY <3>3 DEF TokenEnd
  <2>2. ASSUME NEW at \in D, NEW v \in T PROVE TokenMore(line, at, v) \in T
    <3> DEFINE c == ByteTaken(line, at)
    <3>1. c \in U
      OBVIOUS
    <3> HIDE DEF U, c
    <3>2. v.ok \in BOOLEAN /\ v.next \in Nat /\ v.text \in Seq(U)
      OBVIOUS
    <3>3. <<c>> \in Seq(U)
      BY <3>1
    <3>4. <<c>> \o v.text \in Seq(U)
      BY <3>2, <3>3, ConcatProperties
    <3>5. Extended(c, v) \in T
      BY <3>2, <3>4 DEF Extended
    <3> HIDE DEF T
    <3> QED BY <3>5 DEF TokenMore, c
  <2> HIDE DEF T, D
  <2>3. b \in [D -> T]
    BY <2>1
  <2>4. F \in [D \X T -> T]
    BY <2>2
  <2> HIDE DEF b, F
  <2> QED BY <2>3, <2>4 DEF Body
<1>3. PICK f : Solves(f, D, Stop, d, T, b, F)
  <2> HIDE DEF mu, d, b, F, Stop, T, D
  <2> QED BY <1>1, <1>2, RecursionExists
<1> DEFINE Val(g, at) == IF TokenStops(line, at) THEN TokenEnd(line, at)
                         ELSE TokenMore(line, at, g[TokenNext(line, at)])
<1>4. ASSUME NEW at \in D, NEW g PROVE Def(g)[at] = Val(g, at)
  <2> DEFINE p == at[1]
             q == at[2]
             c == At(line, p)
             e == At(line, p + 1)
  <2>1. q \in {NUL, DQUOTE, SQUOTE} /\ at \in (1 .. Len(line) + 1) \X {NUL, DQUOTE, SQUOTE}
    BY DEF TokenStates
  <2>2. Here(line, at) = c /\ After(line, at) = e
    BY DEF Here, After
  <2>3. CASE q = NUL
    <3>1. Def(g)[at] = IF c \in {SP, LF, 13, 9} THEN Complete(p + 1)
                       ELSE IF c = NUL THEN Complete(p)
                       ELSE IF c \in {DQUOTE, SQUOTE} THEN g[<<p + 1, c>>]
                       ELSE Extended(c, g[<<p + 1, q>>])
      BY <2>1, <2>3
    <3>2. ~HexTaken(line, at) /\ ~EscapeTaken(line, at) /\ ~QuoteTaken(line, at)
      BY <2>3, Codes DEF HexTaken, EscapeTaken, QuoteTaken
    <3>3. ByteTaken(line, at) = c /\ Width(line, at) = 1
      BY <2>2, <3>2 DEF ByteTaken, Width
    <3>4. /\ TokenStops(line, at) <=> c \in {SP, LF, 13, 9, NUL}
          /\ TokenEnd(line, at) = IF c = NUL THEN Complete(p) ELSE Complete(p + 1)
          /\ Opens(line, at) <=> c \in {DQUOTE, SQUOTE}
      BY <2>2, <2>3 DEF TokenStops, TokenEnd, Opens
    <3>5. TokenNext(line, at) = IF c \in {DQUOTE, SQUOTE} THEN <<p + 1, c>> ELSE <<p + 1, q>>
      BY <2>2, <3>3, <3>4 DEF TokenNext
    <3>6. \A r : TokenMore(line, at, r) = IF c \in {DQUOTE, SQUOTE} THEN r ELSE Extended(c, r)
      BY <3>3, <3>4 DEF TokenMore
    <3> HIDE DEF Def, c, p, q
    <3> QED BY <3>1, <3>4, <3>5, <3>6, Codes
  <2>4. CASE q # NUL
    <3> DEFINE hex == HexEscape(line, p)
               Close == IF ClosesToken(line, p) THEN Complete(p + 1) ELSE Unbalanced
    <3>1. Def(g)[at] = IF q = DQUOTE /\ hex THEN Extended(HexValue(line, p), g[<<p + 4, q>>])
                       ELSE IF q = DQUOTE /\ c = BACKSLASH /\ e # NUL
                       THEN Extended(Unescaped(e), g[<<p + 2, q>>])
                       ELSE IF q = SQUOTE /\ c = BACKSLASH /\ e = SQUOTE
                       THEN Extended(SQUOTE, g[<<p + 2, q>>])
                       ELSE IF c = q THEN Close
                       ELSE IF c = NUL THEN Unbalanced
                       ELSE Extended(c, g[<<p + 1, q>>])
      BY <2>1, <2>4 DEF HexValue
    <3>2. /\ HexTaken(line, at) <=> q = DQUOTE /\ hex
          /\ EscapeTaken(line, at) <=> q = DQUOTE /\ c = BACKSLASH /\ e # NUL
          /\ QuoteTaken(line, at) <=> q = SQUOTE /\ c = BACKSLASH /\ e = SQUOTE
          /\ ~Opens(line, at)
      BY <2>2, <2>4 DEF HexTaken, EscapeTaken, QuoteTaken, Opens
    <3>3. /\ TokenStops(line, at) <=>
                 /\ ~HexTaken(line, at) /\ ~EscapeTaken(line, at) /\ ~QuoteTaken(line, at)
                 /\ c \in {q, NUL}
          /\ c = q => TokenEnd(line, at) = Close
          /\ c # q => TokenEnd(line, at) = Unbalanced
      BY <2>2, <2>4 DEF TokenStops, TokenEnd
    <3>4. TokenNext(line, at) = <<p + Width(line, at), q>>
      BY <3>2 DEF TokenNext
    <3>5. \A r : TokenMore(line, at, r) = Extended(ByteTaken(line, at), r)
      BY <3>2 DEF TokenMore
    <3>6. ByteTaken(line, at) =
             IF HexTaken(line, at) THEN HexValue(line, p)
             ELSE IF EscapeTaken(line, at) THEN Unescaped(e)
             ELSE IF QuoteTaken(line, at) THEN SQUOTE ELSE c
      BY <2>2 DEF ByteTaken
    <3>7. Width(line, at) = IF HexTaken(line, at) THEN 4
                            ELSE IF EscapeTaken(line, at) \/ QuoteTaken(line, at) THEN 2 ELSE 1
      BY DEF Width
    <3> HIDE DEF Def, c, p, q, e, hex, Close
    <3>8. CASE HexTaken(line, at)
      BY <3>1, <3>2, <3>3, <3>4, <3>5, <3>6, <3>7, <3>8
    <3>9. CASE ~HexTaken(line, at) /\ EscapeTaken(line, at)
      BY <3>1, <3>2, <3>3, <3>4, <3>5, <3>6, <3>7, <3>9
    <3>10. CASE ~HexTaken(line, at) /\ ~EscapeTaken(line, at) /\ QuoteTaken(line, at)
      BY <3>1, <3>2, <3>3, <3>4, <3>5, <3>6, <3>7, <3>10
    <3>11. CASE ~HexTaken(line, at) /\ ~EscapeTaken(line, at) /\ ~QuoteTaken(line, at)
      BY <3>1, <3>2, <3>3, <3>4, <3>5, <3>6, <3>7, <3>11
    <3> QED BY <3>8, <3>9, <3>10, <3>11
  <2> QED BY <2>3, <2>4
<1>5. f = Def(f)
  <2>1. ASSUME NEW at \in D PROVE f[at] = Def(f)[at]
    <3>1. f \in [D -> T] /\ f[at] = IF at \in Stop THEN b[at] ELSE F[<<at, f[d[at]]>>]
      <4> HIDE DEF T, D, d, F, b, Stop
      <4> QED BY <1>3 DEF Solves
    <3>2. d[at] \in D
      BY TokenNextIs
    <3>3. f[d[at]] \in T
      <4> HIDE DEF T, D, d
      <4> QED BY <3>1, <3>2
    <3>4. F[<<at, f[d[at]]>>] = TokenMore(line, at, f[d[at]])
      <4> HIDE DEF T, D, d
      <4> QED BY <3>3
    <3>5. at \in Stop => b[at] = TokenEnd(line, at)
      OBVIOUS
    <3>6. at \notin Stop => d[at] = TokenNext(line, at)
      OBVIOUS
    <3>7. at \in Stop <=> TokenStops(line, at)
      OBVIOUS
    <3> DEFINE v == Val(f, at)
               w == Def(f)[at]
    <3>8. f[at] = v
      <4> HIDE DEF T, D, d, F, b, Stop
      <4> QED BY <3>1, <3>4, <3>5, <3>6, <3>7
    <3>9. w = v
      <4> HIDE DEF Def, Val, D
      <4> QED BY <1>4
    <3> HIDE DEF v
    <3> QED BY <3>8, <3>9, Zenon
  <2>2. f \in [D -> T]
    BY <1>3 DEF Solves
  <2>3. Def(f) = [at \in D |-> Def(f)[at]]
    BY DEF TokenStates
  <2>4. f = [at \in D |-> f[at]]
    <3> HIDE DEF T, D
    <3> QED BY <2>2
  <2> HIDE DEF Def, D
  <2> QED BY <2>1, <2>3, <2>4
<1>6. token = Def(token)
  <2>1. \E g : g = Def(g)
    BY <1>5
  <2> HIDE DEF Def
  <2> QED BY <2>1
<1>7. Token(line) = token
  BY DEF Token
<1> HIDE DEF token
<1>8. ASSUME NEW at \in D PROVE token[at] = Val(token, at)
  <2>1. Def(token)[at] = Val(token, at)
    <3> HIDE DEF Def, Val, D
    <3> QED BY <1>4
  <2> HIDE DEF Def, Val, D
  <2> QED BY <1>6, <2>1
<1> QED BY <1>7, <1>8 DEF TokensBy

(* A complete token ends within the line, behind where it began. *)
LEMMA TokenAdvances ==
    ASSUME NEW line \in Seq(Byte)
    PROVE  \A at \in TokenStates(line) : Token(line)[at].ok =>
              /\ Token(line)[at].next \in at[1] .. Len(line) + 1
              /\ ~TokenStops(line, at) => Token(line)[at].next > at[1]
<1> DEFINE D == TokenStates(line)
           n == Len(line)
           tok == Token(line)
           mu == [at \in D |-> n + 2 - at[1]]
           Good(at) == tok[at].ok => tok[at].next \in at[1] .. n + 1
           G == {at \in D : Good(at)}
<1>1. \A at \in D : at[1] \in 1 .. n + 1 /\ n \in Nat
  BY DEF TokenStates
<1>2. mu \in [D -> Nat]
  BY <1>1
<1>3. ASSUME NEW at \in D
      PROVE  tok[at] = IF TokenStops(line, at) THEN TokenEnd(line, at)
                       ELSE TokenMore(line, at, tok[TokenNext(line, at)])
  BY TokenIs DEF TokensBy
<1>4. ASSUME NEW at \in D, ~TokenStops(line, at)
      PROVE  LET to == TokenNext(line, at)
             IN /\ to \in D /\ to[1] > at[1]
                /\ tok[at].ok = tok[to].ok /\ tok[at].next = tok[to].next
  <2> DEFINE to == TokenNext(line, at)
             v == tok[to]
  <2>1. to \in D /\ to[1] > at[1]
    BY <1>4, TokenNextIs
  <2>2. tok[at] = TokenMore(line, at, v)
    BY <1>3, <1>4
  <2> HIDE DEF v, tok
  <2>3. TokenMore(line, at, v).ok = v.ok /\ TokenMore(line, at, v).next = v.next
    BY DEF TokenMore, Extended
  <2> QED BY <2>1, <2>2, <2>3 DEF v
<1>5. ASSUME NEW at \in D, \A to \in D : mu[to] < mu[at] => to \in G
      PROVE  at \in G
  <2> SUFFICES Good(at)
    OBVIOUS
  <2>0. at[1] \in 1 .. n + 1 /\ n \in Nat
    BY <1>1
  <2>1. CASE TokenStops(line, at)
    <3>1. tok[at] = TokenEnd(line, at)
      BY <1>3, <2>1
    <3>2. \/ TokenEnd(line, at) \in {Complete(at[1]), Unbalanced}
          \/ TokenEnd(line, at) = Complete(at[1] + 1) /\ Here(line, at) # NUL
      <4>1. CASE at[2] = NUL
        BY <4>1 DEF TokenEnd
      <4>2. CASE at[2] # NUL
        BY <4>2 DEF TokenEnd
      <4> QED BY <4>1, <4>2
    <3>3. Here(line, at) # NUL => at[1] <= n
      BY <2>0 DEF Here, At
    <3> HIDE DEF tok, n
    <3>4. CASE TokenEnd(line, at) = Complete(at[1])
      BY <2>0, <3>1, <3>4 DEF Complete
    <3>5. CASE TokenEnd(line, at) = Unbalanced
      BY <3>1, <3>5 DEF Unbalanced
    <3>6. CASE TokenEnd(line, at) = Complete(at[1] + 1) /\ at[1] <= n
      BY <2>0, <3>1, <3>6 DEF Complete
    <3> QED BY <3>2, <3>3, <3>4, <3>5, <3>6
  <2>2. CASE ~TokenStops(line, at)
    <3> DEFINE to == TokenNext(line, at)
    <3>1. /\ to \in D /\ to[1] > at[1]
          /\ tok[at].ok = tok[to].ok /\ tok[at].next = tok[to].next
      BY <1>4, <2>2
    <3>2. to[1] \in 1 .. n + 1
      BY <1>1, <3>1
    <3> HIDE DEF to, tok, n, D
    <3>3. mu[to] < mu[at]
      BY <2>0, <3>1, <3>2
    <3>4. Good(to)
      <4>1. to \in G
        BY <1>5, <3>1, <3>3
      <4> QED BY <4>1
    <3> QED BY <2>0, <3>1, <3>2, <3>4
  <2> QED BY <2>1, <2>2
<1>6. \A at \in D : at \in G
  <2> HIDE DEF D, mu, G
  <2> QED BY <1>2, <1>5, MeasureInduction
<1>7. ASSUME NEW at \in D, tok[at].ok
      PROVE  /\ tok[at].next \in at[1] .. n + 1
             /\ ~TokenStops(line, at) => tok[at].next > at[1]
  <2>1. Good(at)
    <3>1. at \in G
      BY <1>6
    <3> QED BY <3>1
  <2>2. CASE ~TokenStops(line, at)
    <3> DEFINE to == TokenNext(line, at)
    <3>1. /\ to \in D /\ to[1] > at[1]
          /\ tok[at].ok = tok[to].ok /\ tok[at].next = tok[to].next
      BY <1>4, <2>2
    <3>2. to \in G /\ to[1] \in 1 .. n + 1 /\ at[1] \in 1 .. n + 1 /\ n \in Nat
      BY <1>1, <1>6, <3>1
    <3>3. Good(to)
      BY <3>2
    <3> HIDE DEF to, tok, n, D, G
    <3> QED BY <1>7, <2>1, <3>1, <3>2, <3>3
  <2> HIDE DEF tok, n, D, G
  <2> QED BY <1>7, <2>1, <2>2
<1> QED BY <1>7

(* The loop over the tokens: at the end of the line, at a space, at a token *)
(* that is refused, or at a complete one.                                   *)
TokensFrom(g, line) ==
    \A p \in 1 .. Len(line) + 1 :
        g[p] = IF isspace(At(line, p)) THEN g[p + 1]
               ELSE IF At(line, p) = NUL THEN [ok |-> TRUE, args |-> <<>>]
               ELSE IF Token(line)[<<p, NUL>>].ok /\ g[Token(line)[<<p, NUL>>].next].ok
               THEN [ok |-> TRUE,
                     args |-> <<Token(line)[<<p, NUL>>].text>> \o g[Token(line)[<<p, NUL>>].next].args]
               ELSE [ok |-> FALSE, args |-> <<>>]

(* Tokens() is what its equation says.                                      *)
LEMMA TokensIs ==
    ASSUME NEW line \in Seq(Byte)
    PROVE  TokensFrom(Tokens(line), line)
<1> DEFINE n == Len(line)
           D == 1 .. n + 1
           t == [p \in D |-> Token(line)[<<p, NUL>>]]
           Done == [ok |-> TRUE, args |-> <<>>]
           Refused == [ok |-> FALSE, args |-> <<>>]
           Space(p) == isspace(At(line, p))
           End(p) == At(line, p) = NUL
           Args(p, r) == IF t[p].ok /\ r.ok THEN [ok |-> TRUE, args |-> <<t[p].text>> \o r.args]
                         ELSE Refused
           Val(g, p) == IF Space(p) THEN g[p + 1] ELSE IF End(p) THEN Done
                        ELSE Args(p, g[t[p].next])
           Def(g) == [p \in D |-> Val(g, p)]
           U == {t[p].text : p \in D}
           T == [ok : BOOLEAN, args : Seq(U)]
           mu == [p \in D |-> n + 2 - p]
           Stop == {p \in D : ~Space(p) /\ (End(p) \/ ~t[p].ok)}
           d == [p \in D |-> IF p \in Stop THEN p ELSE IF Space(p) THEN p + 1 ELSE t[p].next]
           b == [p \in D |-> IF End(p) THEN Done ELSE Refused]
           F == [x \in D \X T |-> IF Space(x[1]) THEN x[2] ELSE Args(x[1], x[2])]
           tokens == CHOOSE g : g = Def(g)
<1>0. n \in Nat
  OBVIOUS
<1>1. ASSUME NEW p \in D, p \notin Stop
      PROVE  d[p] \in D /\ d[p] > p /\ d[p] = IF Space(p) THEN p + 1 ELSE t[p].next
  <2>1. d[p] = IF Space(p) THEN p + 1 ELSE t[p].next
    BY <1>1
  <2> HIDE DEF d
  <2>2. CASE Space(p)
    <3>1. At(line, p) # NUL
      BY <2>2, Codes DEF isspace
    <3>2. p <= n
      BY <1>0, <3>1 DEF At
    <3> QED BY <1>0, <2>1, <2>2, <3>2
  <2>3. CASE ~Space(p)
    <3> DEFINE at == <<p, NUL>>
    <3>1. at \in TokenStates(line) /\ at[1] = p /\ at[2] = NUL
      BY DEF TokenStates
    <3>2. ~End(p) /\ t[p] = Token(line)[at] /\ t[p].ok
      BY <1>1, <2>3
    <3>3. ~TokenStops(line, at)
      <4>1. Here(line, at) = At(line, p)
        BY <3>1 DEF Here
      <4>2. At(line, p) \notin {SP, LF, 13, 9, NUL}
        BY <2>3, <3>2, Codes DEF isspace
      <4> HIDE DEF at
      <4> QED BY <3>1, <4>1, <4>2 DEF TokenStops
    <3> HIDE DEF at, t
    <3>4. t[p].next \in p .. n + 1 /\ t[p].next > p
      BY <3>1, <3>2, <3>3, TokenAdvances
    <3> QED BY <1>0, <2>1, <2>3, <3>4
  <2> QED BY <2>2, <2>3
<1>2. Descends(D, mu, Stop, d)
  <2>1. mu \in [D -> Nat]
    BY <1>0
  <2>2. \A p \in D : d[p] \in D
    <3> SUFFICES ASSUME NEW p \in D PROVE d[p] \in D
      OBVIOUS
    <3>1. CASE p \in Stop
      BY <3>1
    <3>2. CASE p \notin Stop
      <4> HIDE DEF d, Stop, D
      <4> QED BY <1>1, <3>2
    <3> QED BY <3>1, <3>2
  <2>3. d \in [D -> D]
    <3> DEFINE e(p) == IF p \in Stop THEN p ELSE IF Space(p) THEN p + 1 ELSE t[p].next
    <3>1. d = [p \in D |-> e(p)] /\ \A p \in D : d[p] = e(p)
      OBVIOUS
    <3> HIDE DEF e, D, Stop, d
    <3> QED BY <2>2, <3>1
  <2>4. ASSUME NEW p \in D, p \notin Stop PROVE mu[d[p]] < mu[p]
    <3>1. d[p] \in D /\ d[p] > p
      BY <1>1, <2>4
    <3> HIDE DEF d, Stop
    <3>2. mu[p] = n + 2 - p /\ mu[d[p]] = n + 2 - d[p]
      BY <3>1
    <3> HIDE DEF mu
    <3> QED BY <1>0, <3>1, <3>2
  <2> HIDE DEF mu, d, Stop, D
  <2> QED BY <2>1, <2>3, <2>4 DEF Descends
<1>3. Body(D, T, b, F)
  <2>1. Done \in T /\ Refused \in T
    <3>1. <<>> \in Seq(U)
      OBVIOUS
    <3> HIDE DEF U
    <3> QED BY <3>1
  <2>2. ASSUME NEW p \in D, NEW r \in T PROVE Args(p, r) \in T
    <3>1. t[p].text \in U
      OBVIOUS
    <3> DEFINE x == t[p].text
    <3> HIDE DEF U, x
    <3>2. r.args \in Seq(U) /\ <<x>> \in Seq(U)
      BY <3>1 DEF x
    <3>3. <<x>> \o r.args \in Seq(U)
      BY <3>2, ConcatProperties
    <3>4. [ok |-> TRUE, args |-> <<x>> \o r.args] \in T
      BY <3>3
    <3> HIDE DEF T, t, Refused
    <3> QED BY <2>1, <3>4 DEF x
  <2> HIDE DEF T, Done, Refused, D, Args
  <2>3. b \in [D -> T]
    BY <2>1
  <2>4. F \in [D \X T -> T]
    BY <2>2
  <2> HIDE DEF b, F
  <2> QED BY <2>3, <2>4 DEF Body
<1>4. PICK f : Solves(f, D, Stop, d, T, b, F)
  <2> HIDE DEF mu, d, b, F, Stop, T, D
  <2> QED BY <1>2, <1>3, RecursionExists
<1>5. f = Def(f)
  <2>1. ASSUME NEW p \in D PROVE f[p] = Val(f, p)
    <3>1. f \in [D -> T] /\ f[p] = IF p \in Stop THEN b[p] ELSE F[<<p, f[d[p]]>>]
      <4> HIDE DEF T, D, d, F, b, Stop
      <4> QED BY <1>4 DEF Solves
    <3>2. CASE p \in Stop
      <4>1. b[p] = IF End(p) THEN Done ELSE Refused
        OBVIOUS
      <4>2. ~Space(p) /\ (End(p) \/ ~t[p].ok)
        BY <3>2
      <4> DEFINE r == f[t[p].next]
      <4>3. Val(f, p) = IF End(p) THEN Done ELSE Args(p, r)
        BY <4>2
      <4>4. ~t[p].ok => Args(p, r) = Refused
        <5> HIDE DEF t, r
        <5> QED OBVIOUS
      <4> HIDE DEF Val, b, F, D, Stop, t, Args, r, Done, Refused
      <4> QED BY <3>1, <3>2, <4>1, <4>2, <4>3, <4>4
    <3>3. CASE p \notin Stop
      <4>1. d[p] \in D /\ d[p] = IF Space(p) THEN p + 1 ELSE t[p].next
        BY <1>1, <3>3, SMTT(30)
      <4>2. ~Space(p) => ~End(p)
        BY <3>3
      <4> DEFINE r == f[d[p]]
      <4>3. r \in T
        <5> HIDE DEF T, D, d
        <5> QED BY <3>1, <4>1
      <4>4. F[<<p, r>>] = IF Space(p) THEN r ELSE Args(p, r)
        <5> HIDE DEF T, D, r, Args
        <5> QED BY <4>3
      <4>5. Val(f, p) = IF Space(p) THEN f[p + 1] ELSE Args(p, f[t[p].next])
        BY <4>2, SMTT(30)
      <4>6. f[p] = F[<<p, r>>]
        <5> HIDE DEF F, D, d, T, Stop, b
        <5> QED BY <3>1, <3>3, SMTT(30)
      <4> HIDE DEF Val, Args, t, F, D, d, T, Stop
      <4> QED BY <4>1, <4>4, <4>5, <4>6
    <3> QED BY <3>2, <3>3
  <2>2. f \in [D -> T]
    BY <1>4, ZenonT(40) DEF Solves
  <2>3. f = [p \in D |-> f[p]]
    <3> HIDE DEF T, D
    <3> QED BY <2>2
  <2> HIDE DEF Val, D
  <2> QED BY <2>1, <2>3
<1>6. tokens = Def(tokens)
  <2>1. \E g : g = Def(g)
    BY <1>5
  <2> HIDE DEF Def
  <2> QED BY <2>1
<1>7. Tokens(line) = tokens
  BY DEF Tokens
<1> HIDE DEF tokens
<1>8. ASSUME NEW p \in D PROVE tokens[p] = Val(tokens, p)
  <2>1. Def(tokens)[p] = Val(tokens, p)
    <3> HIDE DEF Val, D
    <3> QED OBVIOUS
  <2> HIDE DEF Def, Val, D
  <2> QED BY <1>6, <2>1
<1> QED BY <1>7, <1>8 DEF TokensFrom

-----------------------------------------------------------------------------
(* Quoting: what sdscatrepr() writes for a byte is read as that byte.       *)

Seen == 1 .. 255
Escaped(c) == IF c = SQUOTE THEN <<BACKSLASH, SQUOTE>> ELSE <<c>>
Quotes(t) == FlattenSeq([i \in DOMAIN t |-> Quoted(t[i])])
Singles(t) == FlattenSeq([i \in DOMAIN t |-> Escaped(t[i])])

(* The bytes of u stand in the line from position p on. *)
Holds(line, p, u) == \A i \in 1 .. Len(u) : At(line, p + i - 1) = u[i]

(* A line that holds a concatenation holds its two parts.                   *)
LEMMA HoldsParts ==
    ASSUME NEW line, NEW S, NEW u \in Seq(S), NEW v \in Seq(S), NEW p \in Nat, Holds(line, p, u \o v)
    PROVE  /\ Holds(line, p, u) /\ Holds(line, p + Len(u), v)
           /\ Len(u) \in Nat /\ Len(v) \in Nat /\ Len(u \o v) = Len(u) + Len(v)
<1>1. /\ Len(u) \in Nat /\ Len(v) \in Nat /\ Len(u \o v) = Len(u) + Len(v)
      /\ \A i \in 1 .. Len(u) + Len(v) :
            (u \o v)[i] = IF i <= Len(u) THEN u[i] ELSE v[i - Len(u)]
  BY ConcatProperties
<1> DEFINE w == u \o v
           m == Len(u)
           n == Len(v)
<1>2. Len(w) = m + n /\ m \in Nat /\ n \in Nat
      /\ \A i \in 1 .. m + n : w[i] = IF i <= m THEN u[i] ELSE v[i - m]
  BY <1>1
<1>3. \A i \in 1 .. Len(w) : At(line, p + i - 1) = w[i]
  BY DEF Holds
<1> HIDE DEF w
<1>4. ASSUME NEW i \in 1 .. m PROVE At(line, p + i - 1) = u[i]
  <2>1. i \in 1 .. m + n /\ i <= m
    BY <1>2
  <2> QED BY <1>2, <1>3, <2>1
<1>5. ASSUME NEW i \in 1 .. n PROVE At(line, p + m + i - 1) = v[i]
  <2> DEFINE k == m + i
  <2>1. k \in 1 .. m + n /\ ~(k <= m) /\ k - m = i /\ p + k - 1 = p + m + i - 1
    BY <1>2
  <2> HIDE DEF k, m, n
  <2> QED BY <1>2, <1>3, <2>1
<1> QED BY <1>1, <1>4, <1>5 DEF Holds

(* A hexadecimal digit is read as what it was written for.                  *)
LEMMA HexDigits ==
    ASSUME NEW n \in 0 .. 15
    PROVE  /\ HexDigit(n) \in Seen /\ is_hex_digit(HexDigit(n))
           /\ hex_digit_to_int(HexDigit(n)) = n
  BY DEF HexDigit, is_hex_digit, hex_digit_to_int, Seen, DIGIT0, LOWER_A

(* The escape letters are distinct, and none is x, a quote or a backslash.  *)
LEMMA EscapesAre ==
    /\ \A e \in Escapes : /\ e[1] \in Byte /\ e[2] \in Seen
                          /\ e[2] \notin {NUL, LOWER_X, BACKSLASH, DQUOTE}
    /\ \A e, g \in Escapes : e[2] = g[2] => e[1] = g[1]
<1>1. \A e \in Escapes : e \in {<<10, 110>>, <<13, 114>>, <<9, 116>>, <<7, 97>>, <<8, 98>>}
  BY DEF Escapes, LF
<1> QED BY <1>1, Codes DEF Byte, Seen

(* An escape is read as the byte it was written for.                        *)
LEMMA UnescapedIs ==
    /\ \A e \in Escapes : Unescaped(e[2]) = e[1]
    /\ Unescaped(BACKSLASH) = BACKSLASH /\ Unescaped(DQUOTE) = DQUOTE
<1>1. ASSUME NEW e \in Escapes PROVE Unescaped(e[2]) = e[1]
  <2> DEFINE g == CHOOSE g \in Escapes : g[2] = e[2]
  <2>1. g \in Escapes /\ g[2] = e[2]
    OBVIOUS
  <2>2. Unescaped(e[2]) = g[1]
    BY DEF Unescaped
  <2> HIDE DEF g
  <2> QED BY <2>1, <2>2, EscapesAre
<1>2. ~(\E e \in Escapes : e[2] = BACKSLASH) /\ ~(\E e \in Escapes : e[2] = DQUOTE)
  BY EscapesAre
<1> QED BY <1>1, <1>2 DEF Unescaped

(* The four forms a byte is written in. *)
LEMMA QuotedIs ==
    ASSUME NEW c \in Byte
    PROVE  \/ c \in {BACKSLASH, DQUOTE} /\ Quoted(c) = <<BACKSLASH, c>>
           \/ \E e \in Escapes : e[1] = c /\ Quoted(c) = <<BACKSLASH, e[2]>>
           \/ c \notin {BACKSLASH, DQUOTE, NUL} /\ Quoted(c) = <<c>>
           \/ Quoted(c) = <<BACKSLASH, LOWER_X, HexDigit(c \div 16), HexDigit(c % 16)>>
<1>1. CASE c \in {BACKSLASH, DQUOTE}
  BY <1>1 DEF Quoted
<1>2. CASE c \notin {BACKSLASH, DQUOTE} /\ \E e \in Escapes : e[1] = c
  <2> DEFINE e == CHOOSE e \in Escapes : e[1] = c
  <2>1. e \in Escapes /\ e[1] = c
    BY <1>2
  <2>2. Quoted(c) = <<BACKSLASH, e[2]>>
    BY <1>2 DEF Quoted
  <2> QED BY <2>1, <2>2
<1>3. CASE c \notin {BACKSLASH, DQUOTE} /\ ~\E e \in Escapes : e[1] = c
  <2>1. Quoted(c) = IF isprint(c) THEN <<c>>
                    ELSE <<BACKSLASH, LOWER_X, HexDigit(c \div 16), HexDigit(c % 16)>>
    BY <1>3 DEF Quoted
  <2>2. isprint(c) => c # NUL
    BY Codes DEF isprint
  <2> QED BY <1>3, <2>1, <2>2
<1> QED BY <1>1, <1>2, <1>3

(* sdscatrepr() writes no NUL.                                              *)
LEMMA QuotedType ==
    ASSUME NEW c \in Byte
    PROVE  Quoted(c) \in Seq(Seen) /\ Len(Quoted(c)) \in Nat
<1>0. /\ c \in 0 .. 255 /\ BACKSLASH \in Seen /\ LOWER_X \in Seen
      /\ c # NUL => c \in Seen
  BY Codes DEF Byte, Seen
<1>1. Quoted(c) \in Seq(Seen)
  <2>1. CASE c \in {BACKSLASH, DQUOTE} /\ Quoted(c) = <<BACKSLASH, c>>
    <3>1. c \in Seen
      BY <1>0, <2>1, Codes
    <3> HIDE DEF Seen
    <3> QED BY <1>0, <2>1, <3>1
  <2>2. CASE \E e \in Escapes : e[1] = c /\ Quoted(c) = <<BACKSLASH, e[2]>>
    <3> PICK e \in Escapes : Quoted(c) = <<BACKSLASH, e[2]>>
      BY <2>2
    <3>1. e[2] \in Seen
      BY EscapesAre
    <3> QED BY <1>0, <3>1
  <2>3. CASE c \notin {BACKSLASH, DQUOTE, NUL} /\ Quoted(c) = <<c>>
    BY <1>0, <2>3
  <2>4. CASE Quoted(c) = <<BACKSLASH, LOWER_X, HexDigit(c \div 16), HexDigit(c % 16)>>
    <3>1. (c \div 16) \in 0 .. 15 /\ (c % 16) \in 0 .. 15
      BY <1>0
    <3> DEFINE hi == HexDigit(c \div 16)
               lo == HexDigit(c % 16)
    <3>2. hi \in Seen /\ lo \in Seen
      BY <3>1, HexDigits
    <3> HIDE DEF hi, lo
    <3>3. <<BACKSLASH, LOWER_X, hi, lo>> \in Seq(Seen)
      BY <1>0, <3>2
    <3> QED BY <2>4, <3>3 DEF hi, lo
  <2> QED BY <2>1, <2>2, <2>3, <2>4, QuotedIs
<1> QED BY <1>1

(* Within double quotes. *)
LEMMA QuotedRead ==
    ASSUME NEW line \in Seq(Byte), NEW p \in Nat, p > 0, NEW c \in Byte, Holds(line, p, Quoted(c))
    PROVE  Token(line)[<<p, DQUOTE>>] =
             Extended(c, Token(line)[<<p + Len(Quoted(c)), DQUOTE>>])
<1> DEFINE at == <<p, DQUOTE>>
           w == Len(Quoted(c))
           n == Len(line)
<1>0. /\ at[1] = p /\ at[2] = DQUOTE /\ n \in Nat /\ c \in 0 .. 255
      /\ \A i \in Int : At(line, i) # NUL => i <= n
  BY DEF At, Byte
<1> HIDE DEF n
<1>1. /\ ~TokenStops(line, at) /\ ByteTaken(line, at) = c /\ Width(line, at) = w
      /\ p <= n
  <2> DEFINE x == At(line, p)
             y == At(line, p + 1)
  <2>0. Here(line, at) = x /\ After(line, at) = y
    BY <1>0 DEF Here, After
  <2>1. CASE \E b \in Seen : /\ b # LOWER_X /\ Unescaped(b) = c /\ Quoted(c) = <<BACKSLASH, b>>
    <3> PICK b \in Seen : b # LOWER_X /\ Unescaped(b) = c /\ Quoted(c) = <<BACKSLASH, b>>
      BY <2>1
    <3>1. \A i \in 1 .. 2 : At(line, p + i - 1) = <<BACKSLASH, b>>[i]
      BY DEF Holds
    <3>2. x = BACKSLASH /\ y = b /\ w = 2
      <4>1. 1 \in 1 .. 2 /\ 2 \in 1 .. 2 /\ p + 1 - 1 = p /\ p + 2 - 1 = p + 1
        OBVIOUS
      <4>2. At(line, p + 1 - 1) = BACKSLASH /\ At(line, p + 2 - 1) = b
        BY <3>1, <4>1
      <4> QED BY <4>1, <4>2
    <3>3. b # NUL
      BY Codes DEF Seen
    <3>4. ~HexTaken(line, at) /\ EscapeTaken(line, at)
      BY <1>0, <2>0, <3>2, <3>3 DEF HexTaken, HexEscape, EscapeTaken
    <3>5. p <= n
      BY <1>0, <3>2, Codes
    <3> HIDE DEF at, x, y, w
    <3> QED BY <1>0, <2>0, <3>2, <3>4, <3>5, Codes DEF TokenStops, ByteTaken, Width
  <2>2. CASE c \notin {BACKSLASH, DQUOTE, NUL} /\ Quoted(c) = <<c>>
    <3>1. x = c /\ w = 1
      <4>1. \A i \in 1 .. 1 : At(line, p + i - 1) = <<c>>[i]
        BY <2>2 DEF Holds
      <4>2. 1 \in 1 .. 1 /\ p + 1 - 1 = p
        OBVIOUS
      <4>3. At(line, p + 1 - 1) = c
        BY <4>1, <4>2
      <4> QED BY <2>2, <4>2, <4>3
    <3>2. ~HexTaken(line, at) /\ ~EscapeTaken(line, at) /\ ~QuoteTaken(line, at)
      BY <1>0, <2>0, <2>2, <3>1 DEF HexTaken, HexEscape, EscapeTaken, QuoteTaken
    <3>3. p <= n
      BY <1>0, <2>2, <3>1
    <3> HIDE DEF at, x, y, w
    <3> QED BY <1>0, <2>0, <2>2, <3>1, <3>2, <3>3, Codes DEF TokenStops, ByteTaken, Width
  <2>3. CASE Quoted(c) = <<BACKSLASH, LOWER_X, HexDigit(c \div 16), HexDigit(c % 16)>>
    <3> DEFINE a == c \div 16
               b == c % 16
               hi == HexDigit(a)
               lo == HexDigit(b)
    <3>1. a \in 0 .. 15 /\ b \in 0 .. 15 /\ c = 16 * a + b
      BY <1>0
    <3> HIDE DEF a, b
    <3>2. is_hex_digit(hi) /\ is_hex_digit(lo) /\ hex_digit_to_int(hi) = a /\ hex_digit_to_int(lo) = b
      BY <3>1, HexDigits
    <3>3. Quoted(c) = <<BACKSLASH, LOWER_X, hi, lo>>
      BY <2>3 DEF a, b
    <3> HIDE DEF hi, lo
    <3>4. \A i \in 1 .. 4 : At(line, p + i - 1) = <<BACKSLASH, LOWER_X, hi, lo>>[i]
      BY <3>3 DEF Holds
    <3>5. /\ x = BACKSLASH /\ y = LOWER_X /\ At(line, p + 2) = hi /\ At(line, p + 3) = lo
          /\ w = 4
      <4>1. /\ 1 \in 1 .. 4 /\ 2 \in 1 .. 4 /\ 3 \in 1 .. 4 /\ 4 \in 1 .. 4
            /\ p + 1 - 1 = p /\ p + 2 - 1 = p + 1 /\ p + 3 - 1 = p + 2 /\ p + 4 - 1 = p + 3
        OBVIOUS
      <4>2. /\ At(line, p + 1 - 1) = BACKSLASH /\ At(line, p + 2 - 1) = LOWER_X
            /\ At(line, p + 3 - 1) = hi /\ At(line, p + 4 - 1) = lo
        BY <3>4, <4>1
      <4> QED BY <3>3, <4>1, <4>2
    <3>6. HexTaken(line, at)
      BY <1>0, <3>2, <3>5 DEF HexTaken, HexEscape
    <3>7. HexValue(line, p) = c
      BY <3>1, <3>2, <3>5 DEF HexValue
    <3>8. p <= n
      BY <1>0, <3>5, Codes
    <3> HIDE DEF at, x, y, w
    <3> QED BY <1>0, <3>5, <3>6, <3>7, <3>8, Codes DEF TokenStops, ByteTaken, Width
  <2>4. CASE c \in {BACKSLASH, DQUOTE} /\ Quoted(c) = <<BACKSLASH, c>>
    <3>1. c \in Seen /\ c # LOWER_X /\ Unescaped(c) = c
      BY <2>4, UnescapedIs, Codes DEF Seen
    <3> QED BY <2>1, <2>4, <3>1
  <2>5. CASE \E e \in Escapes : e[1] = c /\ Quoted(c) = <<BACKSLASH, e[2]>>
    <3> PICK e \in Escapes : e[1] = c /\ Quoted(c) = <<BACKSLASH, e[2]>>
      BY <2>5
    <3>1. e[2] \in Seen /\ e[2] # LOWER_X /\ Unescaped(e[2]) = c
      BY EscapesAre, UnescapedIs
    <3> QED BY <2>1, <3>1
  <2> QED BY <2>2, <2>3, <2>4, <2>5, QuotedIs
<1>2. at \in TokenStates(line)
  BY <1>0, <1>1 DEF TokenStates, n
<1>3. ~Opens(line, at)
  BY <1>0, Codes DEF Opens
<1>4. TokenNext(line, at) = <<p + w, DQUOTE>>
  BY <1>0, <1>1, <1>3 DEF TokenNext
<1>5. Token(line)[at] = TokenMore(line, at, Token(line)[<<p + w, DQUOTE>>])
  BY <1>1, <1>2, <1>4, TokenIs DEF TokensBy
<1>6. TokenMore(line, at, Token(line)[<<p + w, DQUOTE>>]) =
        Extended(c, Token(line)[<<p + w, DQUOTE>>])
  BY <1>1, <1>3 DEF TokenMore
<1> QED BY <1>5, <1>6

(* A text written byte by byte, and read back that way. *)
Spelt(E, t) == FlattenSeq([i \in DOMAIN t |-> E[t[i]]])
Bare(r, t) == [ok |-> r.ok, next |-> r.next, text |-> t]

(* A sequence is its head followed by its tail.                             *)
LEMMA HeadAndTail ==
    ASSUME NEW S, NEW t \in Seq(S), t # <<>>
    PROVE  /\ Head(t) \in S /\ Tail(t) \in Seq(S) /\ t = <<Head(t)>> \o Tail(t)
           /\ Len(t) = Len(Tail(t)) + 1 /\ Head(t) = t[1]
           /\ \A i \in 1 .. Len(Tail(t)) : Tail(t)[i] = t[i + 1]
<1>1. /\ Head(t) \in S /\ Tail(t) \in Seq(S) /\ Head(t) = t[1] /\ Len(t) = Len(Tail(t)) + 1
      /\ \A i \in 1 .. Len(Tail(t)) : Tail(t)[i] = t[i + 1]
  OBVIOUS
<1> DEFINE a == Head(t)
           u == Tail(t)
           x == <<a>> \o u
<1>2. a \in S /\ u \in Seq(S) /\ Len(t) = Len(u) + 1 /\ a = t[1] /\ Len(u) \in Nat
      /\ \A i \in 1 .. Len(u) : u[i] = t[i + 1]
  BY <1>1
<1> HIDE DEF a, u
<1>3. x \in Seq(S) /\ Len(x) = Len(u) + 1 /\ x[1] = a /\ \A i \in 2 .. Len(u) + 1 : x[i] = u[i - 1]
  BY <1>2, ConsIs
<1> HIDE DEF x
<1>4. ASSUME NEW i \in 1 .. Len(t) PROVE t[i] = x[i]
  <2>1. CASE i = 1
    BY <1>2, <1>3, <2>1
  <2>2. CASE i # 1
    <3>1. i \in 2 .. Len(u) + 1 /\ i - 1 \in 1 .. Len(u) /\ (i - 1) + 1 = i
      BY <1>2, <2>2
    <3>2. u[i - 1] = t[(i - 1) + 1]
      BY <1>2, <3>1
    <3> QED BY <1>3, <3>1, <3>2
  <2> QED BY <2>1, <2>2
<1>5. t = x
  <2>1. Len(t) = Len(x) /\ t \in Seq(S) /\ x \in Seq(S)
    BY <1>2, <1>3
  <2> QED BY <1>4, <2>1, SeqEqual
<1> QED BY <1>1, <1>5 DEF a, u, x

(* A text written byte by byte is a text.                                   *)
LEMMA SpeltType ==
    ASSUME NEW A, NEW E \in [A -> Seq(Seen)], NEW t \in Seq(A)
    PROVE  /\ [i \in DOMAIN t |-> E[t[i]]] \in Seq(Seq(Seen)) /\ Spelt(E, t) \in Seq(Seen)
           /\ t = <<>> => Spelt(E, t) = <<>>
<1> DEFINE v == [i \in DOMAIN t |-> E[t[i]]]
           U == Seq(Seen)
           n == Len(t)
<1>1. v \in Seq(U)
  <2>1. n \in Nat /\ DOMAIN t = 1 .. n
    OBVIOUS
  <2>2. \A i \in 1 .. n : t[i] \in A
    OBVIOUS
  <2>3. \A i \in 1 .. n : v[i] \in U
    BY <2>1, <2>2
  <2>4. v = [i \in 1 .. n |-> v[i]]
    BY <2>1
  <2> HIDE DEF v, U, n
  <2> QED BY <2>1, <2>3, <2>4, SequenceBy
<1>2. FlattenSeq(v) \in Seq(Seen)
  <2> HIDE DEF v
  <2> QED BY <1>1, FlattenType DEF U
<1>3. t = <<>> => FlattenSeq(v) = <<>>
  <2> SUFFICES ASSUME t = <<>> PROVE FlattenSeq(v) = <<>>
    OBVIOUS
  <2>1. Len(v) = 0
    BY <1>1
  <2> HIDE DEF v
  <2>2. PICK f \in [0 .. Len(v) -> Seq(Seen)] : Flattens(f, v) /\ FlattenSeq(v) = f[Len(v)]
    BY <1>1, FlattenIs DEF U
  <2> QED BY <2>1, <2>2 DEF Flattens
<1> QED BY <1>1, <1>2, <1>3 DEF Spelt

(* What is written starts with what its first byte is written as.           *)
LEMMA SpeltCons ==
    ASSUME NEW A, NEW E \in [A -> Seq(Seen)], NEW c \in A, NEW u \in Seq(A)
    PROVE  Spelt(E, <<c>> \o u) = E[c] \o Spelt(E, u)
<1> DEFINE t == <<c>> \o u
           Each(x) == [i \in DOMAIN x |-> E[x[i]]]
           e == E[c]
           m == Len(u)
           y == <<e>> \o Each(u)
<1>1. /\ t \in Seq(A) /\ Len(t) = m + 1 /\ t[1] = c /\ m \in Nat
      /\ \A i \in 2 .. m + 1 : t[i] = u[i - 1]
  BY ConsIs
<1> HIDE DEF t
<1>2. Each(u) \in Seq(Seq(Seen)) /\ Each(t) \in Seq(Seq(Seen)) /\ e \in Seq(Seen)
  <2>1. Each(u) \in Seq(Seq(Seen))
    BY SpeltType
  <2>2. Each(t) \in Seq(Seq(Seen))
    BY <1>1, SpeltType
  <2> QED BY <2>1, <2>2
<1>3. Each(t) = y
  <2> DEFINE U == Seq(Seen)
             a == Each(u)
             b == Each(t)
  <2>1. /\ a \in Seq(U) /\ b \in Seq(U) /\ e \in U /\ Len(a) = m /\ Len(b) = m + 1
        /\ \A i \in 1 .. m : a[i] = E[u[i]]
        /\ \A i \in 1 .. m + 1 : b[i] = E[t[i]]
    BY <1>1, <1>2, SMTT(30)
  <2> HIDE DEF a, b, U
  <2> DEFINE z == <<e>> \o a
  <2>2. z \in Seq(U) /\ Len(z) = m + 1 /\ z[1] = e /\ \A i \in 2 .. m + 1 : z[i] = a[i - 1]
    BY <2>1, ConsIs
  <2> HIDE DEF z
  <2>3. ASSUME NEW i \in 1 .. m + 1 PROVE b[i] = z[i]
    <3>1. CASE i = 1
      BY <1>1, <2>1, <2>2, <3>1
    <3>2. CASE i # 1
      <4>1. i \in 2 .. m + 1 /\ i - 1 \in 1 .. m
        BY <1>1, <3>2
      <4> QED BY <1>1, <2>1, <2>2, <4>1, ZenonT(40)
    <3> QED BY <3>1, <3>2
  <2>4. b = z
    BY <2>1, <2>2, <2>3, SeqEqual
  <2> QED BY <2>4 DEF a, b, z
<1>4. FlattenSeq(y) = e \o FlattenSeq(Each(u))
  <2> HIDE DEF Each, e
  <2> QED BY <1>2, FlattenCons
<1>5. FlattenSeq(Each(t)) = e \o FlattenSeq(Each(u))
  <2> HIDE DEF Each, e
  <2> QED BY <1>3, <1>4
<1> QED BY <1>5 DEF Spelt, t

(* Reading takes the first byte of a text of W off what is written, or the  *)
(* whole of the text.                                                       *)
ReadsFirst(line, q, E, W) ==
    \A t \in W : \A p \in Nat \ {0} : t # <<>> /\ Holds(line, p, Spelt(E, t)) =>
        Token(line)[<<p, q>>] = Extended(Head(t), Token(line)[<<p + Len(E[Head(t)]), q>>])
ReadsAll(line, q, E, W) ==
    \A t \in W : \A p \in Nat \ {0} :
        LET r == Token(line)[<<p + Len(Spelt(E, t)), q>>]
        IN Holds(line, p, Spelt(E, t)) /\ r = Bare(r, <<>>) => Token(line)[<<p, q>>] = Bare(r, t)

(* Taking off the first byte again and again reads the whole text.          *)
LEMMA SpeltRead ==
    ASSUME NEW line, NEW q, NEW A, NEW E \in [A -> Seq(Seen)],
           NEW W \in SUBSET Seq(A), \A t \in W : t # <<>> => Tail(t) \in W,
           ReadsFirst(line, q, E, W)
    PROVE  ReadsAll(line, q, E, W)
<1> DEFINE tok(p) == Token(line)[<<p, q>>]
           End(p, t) == tok(p + Len(Spelt(E, t)))
           Good(t) == \A p \in Nat \ {0} :
                         Holds(line, p, Spelt(E, t)) /\ End(p, t) = Bare(End(p, t), <<>>) =>
                            tok(p) = Bare(End(p, t), t)
           G == {n \in Nat : \A t \in W : Len(t) = n => Good(t)}
<1>first. ASSUME NEW t \in W, NEW p \in Nat \ {0}, t # <<>>, Holds(line, p, Spelt(E, t))
      PROVE  tok(p) = Extended(Head(t), tok(p + Len(E[Head(t)])))
  BY <1>first DEF ReadsFirst
<1>spelt. ASSUME NEW c \in A, NEW u \in Seq(A)
       PROVE  /\ Spelt(E, <<c>> \o u) = E[c] \o Spelt(E, u)
              /\ E[c] \in Seq(Seen) /\ Spelt(E, u) \in Seq(Seen)
  BY SpeltCons, SpeltType, ZenonT(40)
<1>0. ASSUME NEW n \in Nat, \A t \in W : Len(t) = n => Good(t)
      PROVE  n \in G
  <2> HIDE DEF Good
  <2> QED BY <1>0
<1>1. ASSUME NEW t \in W, Len(t) = 0 PROVE Good(t)
  <2> SUFFICES ASSUME NEW p \in Nat \ {0}, End(p, t) = Bare(End(p, t), <<>>)
               PROVE  tok(p) = Bare(End(p, t), t)
    <3> HIDE DEF tok, End
    <3> QED OBVIOUS
  <2>1. t = <<>> /\ t \in Seq(A)
    BY <1>1
  <2>2. Spelt(E, t) = <<>>
    BY <2>1, SpeltType
  <2>3. p + Len(Spelt(E, t)) = p
    BY <2>2
  <2>4. End(p, t) = tok(p)
    BY <2>3
  <2> HIDE DEF tok, End
  <2> QED BY <2>1, <2>4
<1>2. ASSUME NEW n \in Nat, n \in G, NEW t \in W, Len(t) = n + 1 PROVE Good(t)
  <2> SUFFICES ASSUME NEW p \in Nat \ {0},
                      Holds(line, p, Spelt(E, t)), End(p, t) = Bare(End(p, t), <<>>)
               PROVE  tok(p) = Bare(End(p, t), t)
    <3> HIDE DEF tok, End
    <3> QED OBVIOUS
  <2> DEFINE c == Head(t)
             u == Tail(t)
             w == Len(E[c])
             k == p + w
             r == End(p, t)
  <2>1. t # <<>> /\ t \in Seq(A)
    BY <1>2
  <2>2. c \in A /\ u \in Seq(A) /\ t = <<c>> \o u /\ Len(t) = Len(u) + 1 /\ u \in W
        /\ Len(u) \in Nat
    BY <2>1, HeadAndTail
  <2>3. Len(u) = n
    BY <1>2, <2>2
  <2>4. Good(u)
    BY <1>2, <2>2, <2>3
  <2>5. tok(p) = Extended(c, tok(k))
    <3> HIDE DEF tok
    <3> QED BY <1>first, <2>1
  <2> HIDE DEF c, u
  <2>6. Spelt(E, t) = E[c] \o Spelt(E, u) /\ E[c] \in Seq(Seen) /\ Spelt(E, u) \in Seq(Seen)
    BY <1>spelt, <2>2
  <2>7. /\ Holds(line, k, Spelt(E, u)) /\ w \in Nat /\ Len(Spelt(E, u)) \in Nat
        /\ Len(Spelt(E, t)) = w + Len(Spelt(E, u))
    <3> DEFINE x == E[c]
               y == Spelt(E, u)
    <3>1. x \in Seq(Seen) /\ y \in Seq(Seen) /\ Holds(line, p, x \o y) /\ p \in Nat
      BY <2>6
    <3> HIDE DEF x, y
    <3>2. /\ Holds(line, p + Len(x), y) /\ Len(x) \in Nat /\ Len(y) \in Nat
          /\ Len(x \o y) = Len(x) + Len(y)
      BY <3>1, HoldsParts
    <3> QED BY <2>6, <3>2 DEF x, y
  <2> HIDE DEF w
  <2>8. k \in Nat \ {0} /\ k + Len(Spelt(E, u)) = p + Len(Spelt(E, t))
    BY <2>7
  <2>9. End(k, u) = r
    <3> HIDE DEF tok, k
    <3> QED BY <2>8
  <2> HIDE DEF r, tok, k
  <2>10. r = Bare(r, <<>>)
    BY DEF r
  <2>11. tok(k) = Bare(r, u)
    BY <2>4, <2>7, <2>8, <2>9, <2>10
  <2>12. Extended(c, Bare(r, u)) = Bare(r, <<c>> \o u)
    BY DEF Extended, Bare
  <2>13. tok(p) = Bare(r, t)
    BY <2>2, <2>5, <2>11, <2>12
  <2> QED BY <2>13 DEF r
<1>3. \A n \in Nat : n \in G
  <2> HIDE DEF Good
  <2>1. 0 \in G
    BY <1>0, <1>1
  <2>2. ASSUME NEW n \in Nat, n \in G PROVE n + 1 \in G
    <3>1. n + 1 \in Nat
      OBVIOUS
    <3> HIDE DEF G
    <3> QED BY <1>0, <1>2, <2>2, <3>1
  <2> HIDE DEF G
  <2> QED BY <2>1, <2>2, NatSetInduction
<1>4. ASSUME NEW t \in W PROVE Good(t)
  <2>1. Len(t) \in Nat
    OBVIOUS
  <2>2. Len(t) \in G
    BY <1>3, <2>1
  <2> HIDE DEF Good
  <2> QED BY <2>2
<1> QED BY <1>4 DEF ReadsAll

QuotedBy == [c \in Byte |-> Quoted(c)]
EscapedBy == [c \in Seen |-> Escaped(c)]

(* sdscatrepr() writes byte by byte.                                        *)
LEMMA QuotesAre ==
    ASSUME NEW t \in Seq(Byte)
    PROVE  /\ QuotedBy \in [Byte -> Seq(Seen)]
           /\ Quotes(t) = Spelt(QuotedBy, t) /\ Quotes(t) \in Seq(Seen)
<1>1. QuotedBy \in [Byte -> Seq(Seen)] /\ \A c \in Byte : QuotedBy[c] = Quoted(c)
  BY QuotedType DEF QuotedBy
<1> DEFINE v == [i \in DOMAIN t |-> QuotedBy[t[i]]]
           w == [i \in DOMAIN t |-> Quoted(t[i])]
<1>2. \A i \in DOMAIN t : t[i] \in Byte
  OBVIOUS
<1>3. v = w
  BY <1>1, <1>2
<1>4. FlattenSeq(v) = FlattenSeq(w)
  <2> HIDE DEF v, w
  <2> QED BY <1>3
<1>5. Quotes(t) = Spelt(QuotedBy, t)
  BY <1>4 DEF Quotes, Spelt
<1> HIDE DEF v, w
<1>6. Spelt(QuotedBy, t) \in Seq(Seen)
  BY <1>1, SpeltType
<1> QED BY <1>1, <1>5, <1>6

(* Single quotes are written byte by byte.                                  *)
LEMMA SinglesAre ==
    ASSUME NEW t \in Seq(Seen)
    PROVE  /\ EscapedBy \in [Seen -> Seq(Seen)] /\ \A c \in Seen : EscapedBy[c] = Escaped(c)
           /\ Singles(t) = Spelt(EscapedBy, t) /\ Singles(t) \in Seq(Seen)
<1>0. ASSUME NEW c \in Seen PROVE Escaped(c) \in Seq(Seen)
  <2>1. SQUOTE \in Seen /\ BACKSLASH \in Seen
    BY Codes DEF Seen
  <2>2. <<BACKSLASH, SQUOTE>> \in Seq(Seen) /\ <<c>> \in Seq(Seen)
    BY <2>1
  <2> QED BY <2>2 DEF Escaped
<1>1. EscapedBy \in [Seen -> Seq(Seen)] /\ \A c \in Seen : EscapedBy[c] = Escaped(c)
  BY <1>0 DEF EscapedBy
<1> DEFINE v == [i \in DOMAIN t |-> EscapedBy[t[i]]]
           w == [i \in DOMAIN t |-> Escaped(t[i])]
<1>2. \A i \in DOMAIN t : t[i] \in Seen
  OBVIOUS
<1>3. v = w
  BY <1>1, <1>2
<1>4. FlattenSeq(v) = FlattenSeq(w)
  <2> HIDE DEF v, w
  <2> QED BY <1>3
<1>5. Singles(t) = Spelt(EscapedBy, t)
  BY <1>4 DEF Singles, Spelt
<1> HIDE DEF v, w
<1>6. Spelt(EscapedBy, t) \in Seq(Seen)
  BY <1>1, SpeltType
<1> QED BY <1>1, <1>5, <1>6

(* Within double quotes every text is read back. *)
LEMMA QuotesRead ==
    ASSUME NEW line \in Seq(Byte), NEW t \in Seq(Byte), NEW p \in Nat \ {0},
           Holds(line, p, Quotes(t)),
           NEW r, r = Token(line)[<<p + Len(Quotes(t)), DQUOTE>>], r = Bare(r, <<>>)
    PROVE  Token(line)[<<p, DQUOTE>>] = Bare(r, t)
<1> DEFINE E == QuotedBy
           W == Seq(Byte)
           q == DQUOTE
<1>1. E \in [Byte -> Seq(Seen)] /\ Quotes(t) = Spelt(E, t)
  BY QuotesAre
<1>2. \A u \in W : u # <<>> => Tail(u) \in W
  OBVIOUS
<1>3. ASSUME NEW u \in W, NEW k \in Nat \ {0}, u # <<>>, Holds(line, k, Spelt(E, u))
      PROVE  Token(line)[<<k, q>>] = Extended(Head(u), Token(line)[<<k + Len(E[Head(u)]), q>>])
  <2> DEFINE c == Head(u)
             rest == Tail(u)
  <2>1. c \in Byte /\ rest \in Seq(Byte) /\ u = <<c>> \o rest
    BY <1>3, HeadAndTail
  <2> HIDE DEF c, rest
  <2>2. Spelt(E, u) = E[c] \o Spelt(E, rest)
    BY <1>1, <2>1, SpeltCons, ZenonT(40)
  <2>3. E[c] = Quoted(c)
    BY <2>1 DEF QuotedBy
  <2>4. E[c] \in Seq(Seen) /\ Spelt(E, rest) \in Seq(Seen)
    BY <1>1, <2>1, SpeltType
  <2>5. Holds(line, k, E[c])
    <3> DEFINE x == E[c]
               y == Spelt(E, rest)
    <3>1. x \in Seq(Seen) /\ y \in Seq(Seen) /\ Holds(line, k, x \o y) /\ k \in Nat
      BY <1>3, <2>2, <2>4
    <3> HIDE DEF x, y
    <3>2. Holds(line, k, x)
      BY <3>1, HoldsParts
    <3> QED BY <3>2 DEF x
  <2> HIDE DEF E
  <2>6. Token(line)[<<k, DQUOTE>>] = Extended(c, Token(line)[<<k + Len(Quoted(c)), DQUOTE>>])
    BY <2>1, <2>3, <2>5, QuotedRead
  <2> QED BY <2>3, <2>6 DEF c
<1> HIDE DEF E, W, q
<1>4. W \in SUBSET Seq(Byte) /\ t \in W
  BY DEF W
<1>5. ReadsAll(line, q, E, W)
  <2> DEFINE A == Byte
  <2>1. E \in [A -> Seq(Seen)] /\ W \in SUBSET Seq(A)
    BY <1>1, <1>4
  <2>2. ReadsFirst(line, q, E, W)
    BY <1>3 DEF ReadsFirst
  <2> HIDE DEF A
  <2> QED BY <1>2, <2>1, <2>2, SpeltRead
<1>6. r = Token(line)[<<p + Len(Spelt(E, t)), q>>] /\ Holds(line, p, Spelt(E, t))
  BY <1>1 DEF q
<1>7. Token(line)[<<p, q>>] = Bare(r, t)
  BY <1>4, <1>5, <1>6 DEF ReadsAll
<1> QED BY <1>7 DEF q

(* Within single quotes, any byte but NUL, and a backslash unless a quote   *)
(* follows.                                                                 *)
LEMMA SingleRead ==
    ASSUME NEW line \in Seq(Byte), NEW p \in Nat \ {0}, NEW c \in Seen, Holds(line, p, Escaped(c)),
           c = BACKSLASH => At(line, p + 1) # SQUOTE
    PROVE  Token(line)[<<p, SQUOTE>>] =
             Extended(c, Token(line)[<<p + Len(Escaped(c)), SQUOTE>>])
<1> DEFINE at == <<p, SQUOTE>>
           w == Len(Escaped(c))
           n == Len(line)
           x == At(line, p)
           y == At(line, p + 1)
<1>0. /\ at[1] = p /\ at[2] = SQUOTE /\ n \in Nat /\ c \in 1 .. 255
      /\ \A i \in Int : At(line, i) # NUL => i <= n
      /\ Here(line, at) = x /\ After(line, at) = y
  BY DEF At, Seen, Here, After
<1> HIDE DEF n
<1>1. /\ ~TokenStops(line, at) /\ ByteTaken(line, at) = c /\ Width(line, at) = w
      /\ p <= n
  <2>0. ~HexTaken(line, at) /\ ~EscapeTaken(line, at)
    BY <1>0, Codes DEF HexTaken, EscapeTaken
  <2>1. CASE c = SQUOTE
    <3>1. Escaped(c) = <<BACKSLASH, SQUOTE>>
      BY <2>1 DEF Escaped
    <3>2. \A i \in 1 .. 2 : At(line, p + i - 1) = <<BACKSLASH, SQUOTE>>[i]
      BY <3>1 DEF Holds
    <3>3. x = BACKSLASH /\ y = SQUOTE /\ w = 2
      <4>1. 1 \in 1 .. 2 /\ 2 \in 1 .. 2 /\ p + 1 - 1 = p /\ p + 2 - 1 = p + 1
        OBVIOUS
      <4>2. At(line, p + 1 - 1) = BACKSLASH /\ At(line, p + 2 - 1) = SQUOTE
        BY <3>2, <4>1
      <4> QED BY <3>1, <4>1, <4>2
    <3>4. QuoteTaken(line, at) /\ p <= n
      BY <1>0, <3>3, Codes DEF QuoteTaken
    <3> HIDE DEF at, x, y, w
    <3> QED BY <1>0, <2>0, <2>1, <3>3, <3>4, Codes DEF TokenStops, ByteTaken, Width
  <2>2. CASE c # SQUOTE
    <3>1. Escaped(c) = <<c>>
      BY <2>2 DEF Escaped
    <3>2. x = c /\ w = 1
      <4>1. \A i \in 1 .. 1 : At(line, p + i - 1) = <<c>>[i]
        BY <3>1 DEF Holds
      <4>2. 1 \in 1 .. 1 /\ p + 1 - 1 = p
        OBVIOUS
      <4>3. At(line, p + 1 - 1) = c
        BY <4>1, <4>2
      <4> QED BY <3>1, <4>2, <4>3
    <3>3. ~QuoteTaken(line, at)
      BY <1>0, <3>2 DEF QuoteTaken
    <3>4. x # NUL /\ p <= n
      BY <1>0, <3>2, Codes
    <3> HIDE DEF at, x, y, w
    <3> QED BY <1>0, <2>0, <2>2, <3>2, <3>3, <3>4, Codes DEF TokenStops, ByteTaken, Width
  <2> QED BY <2>1, <2>2
<1>2. at \in TokenStates(line)
  BY <1>0, <1>1 DEF TokenStates, n
<1>3. ~Opens(line, at)
  BY <1>0, Codes DEF Opens
<1>4. TokenNext(line, at) = <<p + w, SQUOTE>>
  BY <1>0, <1>1, <1>3 DEF TokenNext
<1>5. Token(line)[at] = TokenMore(line, at, Token(line)[<<p + w, SQUOTE>>])
  BY <1>1, <1>2, <1>4, TokenIs DEF TokensBy
<1>6. TokenMore(line, at, Token(line)[<<p + w, SQUOTE>>]) =
        Extended(c, Token(line)[<<p + w, SQUOTE>>])
  BY <1>1, <1>3 DEF TokenMore
<1> QED BY <1>5, <1>6

(* What single quotes can hold. *)
Quotable == {t \in Seq(Seen) : t # <<>> => t[Len(t)] # BACKSLASH}

(* What single quotes can hold, they can hold without its first byte.       *)
LEMMA QuotableTail ==
    ASSUME NEW t \in Quotable, t # <<>>
    PROVE  Tail(t) \in Quotable /\ (Tail(t) = <<>> => t[1] # BACKSLASH)
<1> DEFINE u == Tail(t)
<1>1. /\ u \in Seq(Seen) /\ Len(t) = Len(u) + 1 /\ Len(u) \in Nat /\ t[Len(t)] # BACKSLASH
      /\ \A i \in 1 .. Len(u) : u[i] = t[i + 1]
  BY HeadAndTail DEF Quotable
<1> HIDE DEF u
<1>2. u # <<>> => u[Len(u)] = t[Len(t)]
  <2> SUFFICES ASSUME u # <<>> PROVE u[Len(u)] = t[Len(t)]
    OBVIOUS
  <2> DEFINE n == Len(u)
  <2>1. n \in 1 .. n
    BY <1>1
  <2> HIDE DEF n
  <2>2. u[n] = t[n + 1]
    BY <1>1, <2>1 DEF n
  <2> QED BY <1>1, <2>2 DEF n
<1>3. u = <<>> => Len(t) = 1
  BY <1>1
<1>4. u \in Quotable
  BY <1>1, <1>2 DEF Quotable
<1> QED BY <1>1, <1>3, <1>4 DEF u

(* Within single quotes every text they can hold is read back.              *)
LEMMA SinglesRead ==
    ASSUME NEW line \in Seq(Byte), NEW t \in Quotable, NEW p \in Nat \ {0},
           Holds(line, p, Singles(t)),
           NEW r, r = Token(line)[<<p + Len(Singles(t)), SQUOTE>>], r = Bare(r, <<>>)
    PROVE  Token(line)[<<p, SQUOTE>>] = Bare(r, t)
<1> DEFINE E == EscapedBy
           W == Quotable
           q == SQUOTE
           A == Seen
<1>1. /\ E \in [A -> Seq(Seen)] /\ Singles(t) = Spelt(E, t)
      /\ \A c \in Seen : E[c] = Escaped(c)
  <2>1. t \in Seq(Seen)
    BY DEF Quotable
  <2> QED BY <2>1, SinglesAre
<1> HIDE DEF E
<1>2. \A u \in W : u # <<>> => Tail(u) \in W
  BY QuotableTail
<1>3. ASSUME NEW u \in Seq(Seen), NEW k \in Nat, u # <<>>, Holds(line, k, Spelt(E, u))
      PROVE  /\ Holds(line, k, E[Head(u)]) /\ Len(E[Head(u)]) \in Nat
             /\ Holds(line, k + Len(E[Head(u)]), Spelt(E, Tail(u)))
  <2> DEFINE c == Head(u)
             rest == Tail(u)
  <2>1. c \in A /\ rest \in Seq(A) /\ u = <<c>> \o rest
    BY <1>3, HeadAndTail
  <2> HIDE DEF c, rest, A
  <2> DEFINE x == E[c]
             y == Spelt(E, rest)
  <2>2. Spelt(E, u) = x \o y
    BY <1>1, <2>1, SpeltCons
  <2>3. x \in Seq(Seen)
    BY <1>1, <2>1
  <2>4. y \in Seq(Seen)
    BY <1>1, <2>1, SpeltType
  <2> HIDE DEF x, y
  <2>5. Holds(line, k, x \o y)
    BY <1>3, <2>2
  <2>6. Holds(line, k, x) /\ Holds(line, k + Len(x), y) /\ Len(x) \in Nat
    BY <2>3, <2>4, <2>5, HoldsParts
  <2> QED BY <2>6 DEF x, y, c, rest
<1>4. ASSUME NEW u \in W, NEW k \in Nat \ {0}, u # <<>>, Holds(line, k, Spelt(E, u))
      PROVE  Token(line)[<<k, q>>] = Extended(Head(u), Token(line)[<<k + Len(E[Head(u)]), q>>])
  <2> DEFINE c == Head(u)
             rest == Tail(u)
  <2>1. u \in Seq(Seen)
    BY DEF Quotable
  <2>2. c \in Seen /\ rest \in Seq(Seen) /\ rest \in W /\ c = u[1]
    BY <1>2, <1>4, <2>1, HeadAndTail
  <2>3. Holds(line, k, E[c]) /\ Holds(line, k + Len(E[c]), Spelt(E, rest))
    BY <1>3, <1>4, <2>1
  <2>4. E[c] = Escaped(c)
    BY <1>1, <2>2
  <2>5. c = BACKSLASH => At(line, k + 1) # SQUOTE
    <3> SUFFICES ASSUME c = BACKSLASH PROVE At(line, k + 1) # SQUOTE
      OBVIOUS
    <3>1. rest # <<>>
      BY <1>4, <2>2, QuotableTail
    <3>2. E[c] = <<BACKSLASH>>
      BY <2>4, Codes DEF Escaped
    <3>3. Len(E[c]) = 1
      BY <3>2
    <3> DEFINE d == Head(rest)
               j == k + 1
    <3>4. d \in Seen
      BY <2>2, <3>1, HeadAndTail
    <3>5. Holds(line, j, Spelt(E, rest)) /\ j \in Nat
      BY <2>3, <3>3
    <3> HIDE DEF c, j, rest
    <3>6. Holds(line, j, E[d]) /\ E[d] = Escaped(d)
      BY <1>1, <1>3, <2>2, <3>1, <3>4, <3>5
    <3> HIDE DEF d
    <3>7. Len(Escaped(d)) \in {1, 2} /\ Escaped(d)[1] # SQUOTE
      BY Codes DEF Escaped
    <3>8. At(line, j + 1 - 1) = Escaped(d)[1]
      BY <3>6, <3>7 DEF Holds
    <3>9. j + 1 - 1 = k + 1
      BY DEF j
    <3> QED BY <3>7, <3>8, <3>9
  <2> HIDE DEF c
  <2>6. Token(line)[<<k, SQUOTE>>] = Extended(c, Token(line)[<<k + Len(Escaped(c)), SQUOTE>>])
    BY <2>2, <2>3, <2>4, <2>5, SingleRead
  <2> QED BY <2>4, <2>6 DEF c
<1> HIDE DEF W, q
<1>5. W \in SUBSET Seq(A) /\ t \in W
  BY DEF W, Quotable
<1>6. ReadsAll(line, q, E, W)
  <2>1. ReadsFirst(line, q, E, W)
    BY <1>4 DEF ReadsFirst
  <2> HIDE DEF A
  <2> QED BY <1>1, <1>2, <1>5, <2>1, SpeltRead
<1>7. r = Token(line)[<<p + Len(Spelt(E, t)), q>>] /\ Holds(line, p, Spelt(E, t))
  BY <1>1 DEF q
<1>8. Token(line)[<<p, q>>] = Bare(r, t)
  BY <1>5, <1>6, <1>7 DEF ReadsAll
<1> QED BY <1>8 DEF q

-----------------------------------------------------------------------------
(* Where a quoted token begins and ends. *)

(* A quote outside quotes opens a token; the same quote inside closes it.   *)
LEMMA QuoteOpens ==
    ASSUME NEW line \in Seq(Byte), NEW q \in {DQUOTE, SQUOTE}, NEW p \in Nat \ {0}, At(line, p) = q
    PROVE  /\ p \in 1 .. Len(line)
           /\ Token(line)[<<p, NUL>>] = Token(line)[<<p + 1, q>>]
           /\ Token(line)[<<p, q>>] = IF ClosesToken(line, p) THEN Complete(p + 1) ELSE Unbalanced
<1> DEFINE out == <<p, NUL>>
           in == <<p, q>>
<1>1. p \in 1 .. Len(line) /\ out \in TokenStates(line) /\ in \in TokenStates(line)
      /\ q \in {34, 39} /\ Len(line) \in Nat
  BY Codes DEF At, TokenStates
<1>2. /\ Here(line, out) = q /\ Here(line, in) = q
      /\ out[1] = p /\ out[2] = NUL /\ in[1] = p /\ in[2] = q
  BY DEF Here
<1> HIDE DEF out, in
<1>3. ~TokenStops(line, out) /\ Opens(line, out)
  BY <1>1, <1>2, Codes DEF TokenStops, Opens
<1>4. Token(line)[out] = Token(line)[<<p + 1, q>>]
  <2>1. TokenNext(line, out) = <<p + 1, q>>
    BY <1>2, <1>3 DEF TokenNext
  <2>2. \A rest : TokenMore(line, out, rest) = rest
    BY <1>3 DEF TokenMore
  <2>3. Token(line)[out] = TokenMore(line, out, Token(line)[TokenNext(line, out)])
    BY <1>1, <1>3, TokenIs DEF TokensBy
  <2> QED BY <2>1, <2>2, <2>3
<1>5. TokenStops(line, in)
  <2>1. ~HexTaken(line, in) /\ ~EscapeTaken(line, in) /\ ~QuoteTaken(line, in)
    <3>1. At(line, p) # BACKSLASH
      BY <1>1, Codes
    <3> QED BY <1>2, <3>1 DEF HexTaken, HexEscape, EscapeTaken, QuoteTaken, Here
  <2> QED BY <1>1, <1>2, <2>1, Codes DEF TokenStops
<1>6. Token(line)[in] = TokenEnd(line, in)
  BY <1>1, <1>5, TokenIs DEF TokensBy
<1>7. TokenEnd(line, in) = IF ClosesToken(line, p) THEN Complete(p + 1) ELSE Unbalanced
  BY <1>1, <1>2, Codes DEF TokenEnd
<1> QED BY <1>1, <1>4, <1>6, <1>7 DEF out, in

(* At the end of the line a quote is missing.                               *)
LEMMA QuoteMissing ==
    ASSUME NEW line \in Seq(Byte), NEW q \in {DQUOTE, SQUOTE}
    PROVE  Token(line)[<<Len(line) + 1, q>>] = Unbalanced
<1> DEFINE n == Len(line)
           at == <<n + 1, q>>
<1>1. n \in Nat /\ at \in TokenStates(line) /\ q # NUL /\ at[1] = n + 1 /\ at[2] = q
  BY Codes DEF TokenStates
<1>2. At(line, n + 1) = NUL
  BY <1>1 DEF At
<1> HIDE DEF at, n
<1>3. Here(line, at) = NUL
  BY <1>1, <1>2 DEF Here
<1>4. ~HexTaken(line, at) /\ ~EscapeTaken(line, at) /\ ~QuoteTaken(line, at)
  BY <1>1, <1>2, <1>3, Codes DEF HexTaken, HexEscape, EscapeTaken, QuoteTaken
<1>5. TokenStops(line, at) /\ TokenEnd(line, at) = Unbalanced
  BY <1>1, <1>3, <1>4 DEF TokenStops, TokenEnd
<1>6. Token(line)[at] = Unbalanced
  BY <1>1, <1>5, TokenIs DEF TokensBy
<1> QED BY <1>6 DEF at, n

Enclosed(q, body) == (<<q>> \o body) \o <<q>>
(* What has to stand behind a quoted token. *)
Apart(line, p) == At(line, p) = NUL \/ isspace(At(line, p))
(* Reading from p to what is behind the body yields t. *)
Yields(line, q, p, body, t) ==
    LET r == Token(line)[<<p + Len(body), q>>]
    IN Holds(line, p, body) /\ r = Bare(r, <<>>) => Token(line)[<<p, q>>] = Bare(r, t)

(* A text in quotes is two bytes longer.                                    *)
LEMMA EnclosedIs ==
    ASSUME NEW q \in {DQUOTE, SQUOTE}, NEW body \in Seq(Seen)
    PROVE  /\ Enclosed(q, body) \in Seq(Seen) /\ Len(Enclosed(q, body)) = Len(body) + 2
           /\ <<q>> \o body \in Seq(Seen) /\ Len(<<q>> \o body) = Len(body) + 1 /\ <<q>> \in Seq(Seen)
           /\ Len(body) \in Nat /\ Len(<<q>>) = 1 /\ q \in Seen
<1>1. q \in Seen
  BY Codes DEF Seen
<1> DEFINE b == <<q>>
           x == b \o body
           w == x \o b
<1>2. b \in Seq(Seen) /\ Len(b) = 1
  BY <1>1
<1> HIDE DEF b
<1>3. x \in Seq(Seen) /\ Len(x) = 1 + Len(body) /\ Len(body) \in Nat
  <2>1. x \in Seq(Seen) /\ Len(x) = Len(b) + Len(body)
    BY <1>2, ConcatProperties
  <2> HIDE DEF x
  <2> QED BY <1>2, <2>1
<1> HIDE DEF x
<1>4. w \in Seq(Seen) /\ Len(w) = Len(x) + 1
  <2>1. w \in Seq(Seen) /\ Len(w) = Len(x) + Len(b)
    BY <1>2, <1>3, ConcatProperties
  <2> HIDE DEF w
  <2> QED BY <1>2, <2>1
<1> HIDE DEF w
<1>5. Enclosed(q, body) = w
  BY DEF Enclosed, w, x, b
<1> QED BY <1>1, <1>2, <1>3, <1>4, <1>5 DEF x, b

(* A line that holds one byte has it there.                                 *)
LEMMA HoldsOne ==
    ASSUME NEW line, NEW p \in Nat, NEW c, Holds(line, p, <<c>>)
    PROVE  At(line, p) = c
<1>1. \A i \in 1 .. 1 : At(line, p + i - 1) = <<c>>[i]
  BY DEF Holds
<1>2. 1 \in 1 .. 1 /\ p + 1 - 1 = p
  OBVIOUS
<1>3. At(line, p + 1 - 1) = c
  BY <1>1, <1>2
<1> QED BY <1>2, <1>3

(* A token in quotes is complete exactly when a space or nothing follows.   *)
LEMMA TokenInQuotes ==
    ASSUME NEW line \in Seq(Byte), NEW q \in {DQUOTE, SQUOTE}, NEW p \in Nat \ {0},
           NEW body \in Seq(Seen), NEW t, Holds(line, p, Enclosed(q, body)),
           Yields(line, q, p + 1, body, t)
    PROVE  LET next == p + Len(body) + 2
           IN /\ At(line, p) = q
              /\ Token(line)[<<p, NUL>>] =
                   IF Apart(line, next) THEN [ok |-> TRUE, next |-> next, text |-> t]
                   ELSE Bare(Unbalanced, t)
<1> DEFINE b == <<q>>
           x == b \o body
           k == p + 1 + Len(body)
           next == p + Len(body) + 2
           r == Token(line)[<<k, q>>]
<1>1. /\ b \in Seq(Seen) /\ Len(b) = 1 /\ x \in Seq(Seen) /\ Len(x) = Len(body) + 1
      /\ Len(body) \in Nat
  BY EnclosedIs
<1>2. Holds(line, p, x \o b)
  BY DEF Enclosed
<1> HIDE DEF x, b
<1>3. Holds(line, p, x) /\ Holds(line, p + Len(x), b)
  BY <1>1, <1>2, HoldsParts
<1>4. Holds(line, p, b \o body)
  BY <1>3 DEF x
<1>5. Holds(line, p, b) /\ Holds(line, p + Len(b), body)
  BY <1>1, <1>4, HoldsParts
<1>6. Holds(line, p, <<q>>) /\ Holds(line, p + 1, body) /\ Holds(line, k, <<q>>)
      /\ k \in Nat \ {0} /\ k + 1 = next
  BY <1>1, <1>3, <1>5 DEF b
<1> HIDE DEF k, next
<1>7. At(line, p) = q /\ At(line, k) = q
  BY <1>6, HoldsOne
<1>8. Token(line)[<<p, NUL>>] = Token(line)[<<p + 1, q>>]
  BY <1>7, QuoteOpens
<1>9. r = IF Apart(line, next) THEN Complete(next) ELSE Unbalanced
  <2>1. r = IF ClosesToken(line, k) THEN Complete(k + 1) ELSE Unbalanced
    BY <1>6, <1>7, QuoteOpens
  <2>2. ClosesToken(line, k) <=> Apart(line, k + 1)
    BY DEF ClosesToken, Apart
  <2> HIDE DEF r
  <2> QED BY <1>6, <2>1, <2>2
<1>10. r = Bare(r, <<>>)
  <2> HIDE DEF r
  <2>1. Complete(next) = Bare(Complete(next), <<>>) /\ Unbalanced = Bare(Unbalanced, <<>>)
    BY DEF Complete, Unbalanced, Bare
  <2> QED BY <1>9, <2>1
<1>11. Token(line)[<<p + 1, q>>] = Bare(r, t)
  BY <1>6, <1>10 DEF Yields, k
<1> HIDE DEF r
<1>12. Bare(Complete(next), t) = [ok |-> TRUE, next |-> next, text |-> t]
  BY DEF Bare, Complete
<1>13. Token(line)[<<p, NUL>>] = IF Apart(line, next) THEN [ok |-> TRUE, next |-> next, text |-> t]
                                 ELSE Bare(Unbalanced, t)
  BY <1>8, <1>9, <1>11, <1>12
<1> QED BY <1>7, <1>13 DEF next

(* sdssplitargs() on a line that starts with a quoted token. *)
LEMMA TokenFirst ==
    ASSUME NEW line \in Seq(Byte), NEW q \in {DQUOTE, SQUOTE}, NEW p \in Nat \ {0}, At(line, p) = q
    PROVE  LET t == Token(line)[<<p, NUL>>]
           IN Tokens(line)[p] = IF t.ok /\ Tokens(line)[t.next].ok
                                THEN [ok |-> TRUE, args |-> <<t.text>> \o Tokens(line)[t.next].args]
                                ELSE [ok |-> FALSE, args |-> <<>>]
<1>1. p \in 1 .. Len(line) + 1
  <2>1. p \in 1 .. Len(line)
    BY QuoteOpens
  <2>2. Len(line) \in Nat
    OBVIOUS
  <2> QED BY <2>1, <2>2
<1>2. q # NUL /\ ~isspace(q)
  BY Codes DEF isspace
<1> QED BY <1>1, <1>2, TokensIs DEF TokensFrom

(* There is no token at the end of the line.                                *)
LEMMA TokensEnd ==
    ASSUME NEW line \in Seq(Byte)
    PROVE  Tokens(line)[Len(line) + 1] = [ok |-> TRUE, args |-> <<>>]
<1>1. Len(line) + 1 \in 1 .. Len(line) + 1 /\ At(line, Len(line) + 1) = NUL
  BY DEF At
<1>2. ~isspace(NUL)
  BY Codes DEF isspace
<1> QED BY <1>1, <1>2, TokensIs DEF TokensFrom

(* A written line has no NUL, and starts with what it is. *)
LEMMA WholeLine ==
    ASSUME NEW line \in Seq(Seen)
    PROVE  /\ line \in Seq(Byte) /\ CString(line) = line /\ Holds(line, 1, line)
           /\ Len(line) \in Nat /\ At(line, Len(line) + 1) = NUL
           /\ sdssplitargs(line) = Tokens(line)[1]
<1>1. Seen \subseteq Byte /\ \A c \in Seen : c # NUL
  BY Codes DEF Seen, Byte
<1>2. line \in Seq(Byte)
  BY <1>1, SeqMonotonic
<1>3. NoNul(line)
  BY <1>1 DEF NoNul
<1>4. CString(line) = line
  BY <1>2, <1>3, OwnCString
<1>5. Holds(line, 1, line)
  BY DEF Holds, At
<1>6. Len(line) \in Nat /\ At(line, Len(line) + 1) = NUL
  BY DEF At
<1> QED BY <1>2, <1>4, <1>5, <1>6 DEF sdssplitargs

Repr(t) == Enclosed(DQUOTE, Quotes(t))

(* sdscatrepr() appends the text in double quotes.                          *)
LEMMA ReprIs ==
    ASSUME NEW s \in Seq(Seen), NEW t \in Seq(Byte)
    PROVE  sdscatrepr(s, t) = s \o Repr(t) /\ Repr(t) \in Seq(Seen) /\ Len(Repr(t)) \in Nat
<1> DEFINE b == <<DQUOTE>>
           body == Quotes(t)
           x == b \o body
<1>1. body \in Seq(Seen)
  BY QuotesAre
<1> HIDE DEF body
<1>2. /\ b \in Seq(Seen) /\ x \in Seq(Seen)
      /\ Enclosed(DQUOTE, body) \in Seq(Seen) /\ Enclosed(DQUOTE, body) = x \o b
  BY <1>1, EnclosedIs DEF Enclosed
<1>3. sdscatrepr(s, t) = ((s \o b) \o body) \o b
  BY DEF sdscatrepr, body, Quotes
<1> HIDE DEF b
<1>4. (s \o b) \o body = s \o x
  BY <1>1, <1>2, ConcatAssociative, SMTT(30)
<1> HIDE DEF x
<1>5. (s \o x) \o b = s \o (x \o b)
  BY <1>2, ConcatAssociative, SMTT(30)
<1>6. sdscatrepr(s, t) = s \o (x \o b)
  BY <1>3, <1>4, <1>5
<1> QED BY <1>2, <1>6 DEF Repr, body

(* What sdscatrepr() has written is read back as one token.                 *)
LEMMA ReprToken ==
    ASSUME NEW line \in Seq(Byte), NEW t \in Seq(Byte), NEW p \in Nat \ {0}, Holds(line, p, Repr(t))
    PROVE  /\ At(line, p) = DQUOTE
           /\ Token(line)[<<p, NUL>>] =
                IF Apart(line, p + Len(Repr(t)))
                THEN [ok |-> TRUE, next |-> p + Len(Repr(t)), text |-> t]
                ELSE Bare(Unbalanced, t)
<1> DEFINE body == Quotes(t)
           q == DQUOTE
           next == p + Len(body) + 2
<1>1. body \in Seq(Seen)
  BY QuotesAre
<1>2. q \in {DQUOTE, SQUOTE}
  OBVIOUS
<1>3. Yields(line, q, p + 1, body, t)
  <2> DEFINE k == p + 1
             r == Token(line)[<<k + Len(body), DQUOTE>>]
  <2> SUFFICES ASSUME Holds(line, k, body), r = Bare(r, <<>>) PROVE Token(line)[<<k, DQUOTE>>] = Bare(r, t)
    BY DEF Yields
  <2>1. k \in Nat \ {0}
    OBVIOUS
  <2> HIDE DEF k, r
  <2> QED BY <2>1, QuotesRead DEF r
<1> HIDE DEF body
<1>4. Holds(line, p, Enclosed(q, body))
  BY DEF Repr, body
<1> HIDE DEF q
<1>5. /\ At(line, p) = q
      /\ Token(line)[<<p, NUL>>] =
           IF Apart(line, next) THEN [ok |-> TRUE, next |-> next, text |-> t] ELSE Bare(Unbalanced, t)
  BY <1>1, <1>2, <1>3, <1>4, TokenInQuotes
<1>6. Len(Enclosed(q, body)) = Len(body) + 2 /\ Len(body) \in Nat
  BY <1>1, <1>2, EnclosedIs, SMTT(30)
<1>7. next = p + Len(Repr(t))
  BY <1>6 DEF Repr, body, q
<1> HIDE DEF next
<1> QED BY <1>5, <1>7 DEF q

(* The token from p on ends the line. *)
LastToken(line, p, t) ==
    Token(line)[<<p, NUL>>] = [ok |-> TRUE, next |-> Len(line) + 1, text |-> t]

(* A complete token that ends the line is the last argument.                *)
LEMMA LastArg ==
    ASSUME NEW line \in Seq(Byte), NEW q \in {DQUOTE, SQUOTE}, NEW p \in Nat \ {0}, At(line, p) = q,
           NEW t, LastToken(line, p, t)
    PROVE  Tokens(line)[p] = [ok |-> TRUE, args |-> <<t>>]
<1> DEFINE T == Tokens(line)
           k == Token(line)[<<p, NUL>>]
<1>1. T[p] = IF k.ok /\ T[k.next].ok THEN [ok |-> TRUE, args |-> <<k.text>> \o T[k.next].args]
             ELSE [ok |-> FALSE, args |-> <<>>]
  BY TokenFirst
<1>2. T[Len(line) + 1] = [ok |-> TRUE, args |-> <<>>]
  BY TokensEnd
<1>3. k.ok /\ k.next = Len(line) + 1 /\ k.text = t
  BY DEF LastToken
<1> HIDE DEF T, k
<1>4. T[k.next].ok /\ T[k.next].args = <<>>
  BY <1>2, <1>3
<1>5. <<t>> \o <<>> = <<t>>
  <2>1. <<t>> \in Seq({t})
    OBVIOUS
  <2> QED BY <2>1, ConcatEmptySeq
<1>6. <<k.text>> \o T[k.next].args = <<t>>
  BY <1>3, <1>4, <1>5
<1>7. T[p] = [ok |-> TRUE, args |-> <<t>>]
  BY <1>1, <1>3, <1>4, <1>6
<1> QED BY <1>7 DEF T

(* Two sequences of one element.                                            *)
LEMMA PairIs ==
    ASSUME NEW a, NEW b
    PROVE  <<a>> \o <<b>> = <<a, b>>
<1> DEFINE S == {a, b}
           x == <<a>>
           y == <<b>>
           z == <<a, b>>
           w == x \o y
<1>1. x \in Seq(S) /\ y \in Seq(S) /\ z \in Seq(S) /\ Len(x) = 1 /\ Len(y) = 1 /\ Len(z) = 2
      /\ x[1] = a /\ y[1] = b /\ z[1] = a /\ z[2] = b
  OBVIOUS
<1> HIDE DEF S, x, y, z
<1>2. w \in Seq(S) /\ Len(w) = Len(x) + Len(y)
      /\ \A i \in 1 .. Len(x) + Len(y) : w[i] = IF i <= Len(x) THEN x[i] ELSE y[i - Len(x)]
  BY <1>1, ConcatProperties
<1> HIDE DEF w
<1>3. Len(w) = 2 /\ \A i \in 1 .. 2 : w[i] = IF i <= 1 THEN x[i] ELSE y[i - 1]
  BY <1>1, <1>2
<1>4. \A i \in 1 .. 2 : i = 1 \/ i = 2
  OBVIOUS
<1>5. w[1] = a /\ w[2] = b
  BY <1>1, <1>3
<1>6. \A i \in 1 .. Len(w) : w[i] = z[i]
  BY <1>1, <1>3, <1>4, <1>5
<1>7. w = z
  BY <1>1, <1>2, <1>3, <1>6, SeqEqual
<1> QED BY <1>7 DEF w, x, y, z

(* The texts written with sdscatrepr(), a space between them. *)
LEMMA TwoArgs ==
    ASSUME NEW s \in Seq(Byte), NEW t \in Seq(Byte)
    PROVE  sdssplitargs(sdscatrepr(sdscatrepr(<<>>, s) \o <<SP>>, t)) =
              [ok |-> TRUE, args |-> <<s, t>>]
<1> DEFINE a == Repr(s)
           b == Repr(t)
           sp == <<SP>>
           front == a \o sp
           line == front \o b
           m == Len(a)
           n == Len(b)
<1>1. a \in Seq(Seen) /\ b \in Seq(Seen) /\ sp \in Seq(Seen) /\ Len(sp) = 1
      /\ m \in Nat /\ n \in Nat
  <2> DEFINE e == <<>>
  <2>1. e \in Seq(Seen)
    OBVIOUS
  <2> HIDE DEF e
  <2>2. SP \in Seen
    BY Codes DEF Seen
  <2>3. sp \in Seq(Seen) /\ Len(sp) = 1
    BY <2>2
  <2>4. Repr(s) \in Seq(Seen) /\ Len(Repr(s)) \in Nat
    BY <2>1, ReprIs
  <2>5. Repr(t) \in Seq(Seen) /\ Len(Repr(t)) \in Nat
    BY <2>1, ReprIs
  <2> QED BY <2>3, <2>4, <2>5
<1>2. sdscatrepr(<<>>, s) = a
  <2>1. <<>> \in Seq(Seen)
    OBVIOUS
  <2>2. sdscatrepr(<<>>, s) = <<>> \o a
    BY <2>1, ReprIs
  <2> HIDE DEF a
  <2> QED BY <1>1, <2>2, ConcatEmptySeq
<1>3. front \in Seq(Seen) /\ Len(front) = m + 1
  <2> HIDE DEF a, sp
  <2>1. front \in Seq(Seen) /\ Len(front) = Len(a) + Len(sp)
    BY <1>1, ConcatProperties
  <2> HIDE DEF front
  <2> QED BY <1>1, <2>1
<1>4. sdscatrepr(front, t) = line
  <2> HIDE DEF front
  <2> QED BY <1>3, ReprIs
<1>5. sdscatrepr(sdscatrepr(<<>>, s) \o <<SP>>, t) = line
  BY <1>2, <1>4
<1>6. line \in Seq(Seen) /\ Len(line) = m + 1 + n
  <2> HIDE DEF a, sp, b, front
  <2>1. line \in Seq(Seen) /\ Len(line) = Len(front) + Len(b)
    BY <1>1, <1>3, ConcatProperties
  <2> HIDE DEF line
  <2> QED BY <1>1, <1>3, <2>1
<1>7. Holds(line, 1, a) /\ Holds(line, 1 + m, sp) /\ Holds(line, m + 2, b)
  <2> DEFINE one == 1
  <2> HIDE DEF a, sp, b
  <2>1. Holds(line, one, line)
    <3> HIDE DEF line
    <3> QED BY <1>6, WholeLine
  <2>2. one \in Nat /\ one = 1
    OBVIOUS
  <2> HIDE DEF one
  <2>3. Holds(line, one, front) /\ Holds(line, one + Len(front), b)
    <3> DEFINE l == line
    <3>1. Holds(l, one, front \o b)
      BY <2>1
    <3> HIDE DEF front, l
    <3>2. Holds(l, one, front) /\ Holds(l, one + Len(front), b)
      BY <1>1, <1>3, <2>2, <3>1, HoldsParts
    <3> QED BY <3>2 DEF l
  <2> HIDE DEF line
  <2>4. Holds(line, one, a) /\ Holds(line, one + Len(a), sp)
    BY <1>1, <2>2, <2>3, HoldsParts
  <2> HIDE DEF front
  <2>5. one + Len(front) = m + 2
    BY <1>1, <1>3, <2>2
  <2> QED BY <2>2, <2>3, <2>4, <2>5
<1> HIDE DEF a, b, front, line, m, n
<1>8. line \in Seq(Byte) /\ sdssplitargs(line) = Tokens(line)[1] /\ At(line, Len(line) + 1) = NUL
  BY <1>6, WholeLine
<1>9. At(line, 1 + m) = SP
  BY <1>1, <1>7, HoldsOne
<1>10. At(line, 1) = DQUOTE
       /\ Token(line)[<<1, NUL>>] = [ok |-> TRUE, next |-> 1 + m, text |-> s]
  <2> DEFINE one == 1
  <2>1. one \in Nat \ {0} /\ Holds(line, one, Repr(s))
    BY <1>7 DEF a
  <2> HIDE DEF one
  <2>2. /\ At(line, one) = DQUOTE
        /\ Token(line)[<<one, NUL>>] =
             IF Apart(line, one + Len(Repr(s)))
             THEN [ok |-> TRUE, next |-> one + Len(Repr(s)), text |-> s] ELSE Bare(Unbalanced, s)
    BY <1>8, <2>1, ReprToken
  <2>3. Apart(line, 1 + m)
    BY <1>9 DEF Apart, isspace
  <2> QED BY <2>2, <2>3 DEF one, m, a
<1>11. At(line, m + 2) = DQUOTE
       /\ Token(line)[<<m + 2, NUL>>] = [ok |-> TRUE, next |-> Len(line) + 1, text |-> t]
  <2> DEFINE k == m + 2
  <2>1. k \in Nat \ {0} /\ Holds(line, k, Repr(t))
    BY <1>1, <1>7 DEF b
  <2> HIDE DEF k
  <2>2. /\ At(line, k) = DQUOTE
        /\ Token(line)[<<k, NUL>>] =
             IF Apart(line, k + Len(Repr(t)))
             THEN [ok |-> TRUE, next |-> k + Len(Repr(t)), text |-> t] ELSE Bare(Unbalanced, t)
    BY <1>8, <2>1, ReprToken
  <2>3. k + Len(Repr(t)) = Len(line) + 1
    BY <1>1, <1>6 DEF k, n, b
  <2>4. Apart(line, Len(line) + 1)
    BY <1>8 DEF Apart
  <2> QED BY <2>2, <2>3, <2>4 DEF k
<1>12. Tokens(line)[m + 2] = [ok |-> TRUE, args |-> <<t>>]
  <2> DEFINE k == m + 2
             q == DQUOTE
  <2>1. k \in Nat \ {0} /\ q \in {DQUOTE, SQUOTE} /\ At(line, k) = q
        /\ LastToken(line, k, t)
    BY <1>1, <1>11 DEF LastToken
  <2> HIDE DEF k, q
  <2>2. Tokens(line)[k] = [ok |-> TRUE, args |-> <<t>>]
    BY <1>8, <2>1, LastArg
  <2> QED BY <2>2 DEF k
<1>13. Tokens(line)[1 + m] = Tokens(line)[m + 2]
  <2> DEFINE k == 1 + m
  <2>1. k \in 1 .. Len(line) + 1 /\ k + 1 = m + 2
    BY <1>1, <1>6
  <2>2. isspace(At(line, k))
    BY <1>9 DEF isspace
  <2> HIDE DEF k
  <2>3. Tokens(line)[k] = Tokens(line)[k + 1]
    BY <1>8, <2>1, <2>2, TokensIs DEF TokensFrom
  <2> QED BY <2>1, <2>3 DEF k
<1>14. Tokens(line)[1] = [ok |-> TRUE, args |-> <<s>> \o <<t>>]
  <2> DEFINE T == Tokens(line)
             q == DQUOTE
             one == 1
             k == Token(line)[<<one, NUL>>]
  <2>1. one \in Nat \ {0} /\ q \in {DQUOTE, SQUOTE} /\ At(line, one) = q
    BY <1>10
  <2> HIDE DEF one, q
  <2>2. T[one] = IF k.ok /\ T[k.next].ok THEN [ok |-> TRUE, args |-> <<k.text>> \o T[k.next].args]
                 ELSE [ok |-> FALSE, args |-> <<>>]
    BY <1>8, <2>1, TokenFirst
  <2>3. k.ok /\ k.next = 1 + m /\ k.text = s
    BY <1>10 DEF one
  <2>4. T[1 + m] = [ok |-> TRUE, args |-> <<t>>]
    BY <1>12, <1>13
  <2> HIDE DEF T, k
  <2>5. T[one] = [ok |-> TRUE, args |-> <<s>> \o <<t>>]
    BY <2>2, <2>3, <2>4
  <2> QED BY <2>5 DEF T, one
<1>15. <<s>> \o <<t>> = <<s, t>>
  BY PairIs
<1> QED BY <1>5, <1>8, <1>14, <1>15

(* A token that is not complete makes the line refused. *)
LEMMA FirstRefused ==
    ASSUME NEW line \in Seq(Seen), At(line, 1) = DQUOTE, ~Token(line)[<<1, NUL>>].ok
    PROVE  ~sdssplitargs(line).ok
<1> DEFINE one == 1
           q == DQUOTE
           T == Tokens(line)
           k == Token(line)[<<one, NUL>>]
<1>1. line \in Seq(Byte) /\ sdssplitargs(line) = T[one]
  BY WholeLine
<1>2. one \in Nat \ {0} /\ q \in {DQUOTE, SQUOTE} /\ At(line, one) = q /\ ~k.ok
  OBVIOUS
<1> HIDE DEF one, q
<1>3. T[one] = IF k.ok /\ T[k.next].ok THEN [ok |-> TRUE, args |-> <<k.text>> \o T[k.next].args]
               ELSE [ok |-> FALSE, args |-> <<>>]
  BY <1>1, <1>2, TokenFirst
<1> HIDE DEF T, k
<1>4. T[one] = [ok |-> FALSE, args |-> <<>>]
  BY <1>2, <1>3
<1> QED BY <1>1, <1>4

(* sdscatrepr() on an empty string.                                         *)
LEMMA OwnRepr ==
    ASSUME NEW t \in Seq(Byte)
    PROVE  /\ sdscatrepr(<<>>, t) = Repr(t) /\ Repr(t) \in Seq(Seen) /\ Len(Repr(t)) \in Nat
           /\ Quotes(t) \in Seq(Seen)
<1> DEFINE e == <<>>
           a == Repr(t)
<1>1. e \in Seq(Seen)
  OBVIOUS
<1> HIDE DEF e
<1>2. sdscatrepr(e, t) = e \o a /\ a \in Seq(Seen) /\ Len(a) \in Nat
  BY <1>1, ReprIs
<1> HIDE DEF a
<1>3. e \o a = a
  BY <1>2, ConcatEmptySeq DEF e
<1>4. Quotes(t) \in Seq(Seen)
  BY QuotesAre
<1> QED BY <1>2, <1>3, <1>4 DEF a, e

(* A line that goes on behind the closing quote is refused.                 *)
LEMMA GoesOnRefused ==
    ASSUME NEW t \in Seq(Byte)
    PROVE  ~sdssplitargs(sdscatrepr(<<>>, t) \o <<LOWER_X>>).ok
<1> DEFINE a == Repr(t)
           b == <<LOWER_X>>
           line == a \o b
           one == 1
           m == Len(a)
<1>1. a \in Seq(Seen) /\ sdscatrepr(<<>>, t) = a /\ m \in Nat
  BY OwnRepr
<1>2. b \in Seq(Seen) /\ one \in Nat \ {0}
  BY Codes DEF Seen
<1> HIDE DEF a, b, one
<1>3. line \in Seq(Seen)
  BY <1>1, <1>2, ConcatProperties
<1>4. Holds(line, one, a) /\ Holds(line, one + m, b)
  <2> DEFINE l == line
  <2>1. Holds(l, one, a \o b)
    <3>1. Holds(line, 1, line)
      <4> HIDE DEF line
      <4> QED BY <1>3, WholeLine
    <3> QED BY <3>1 DEF one
  <2> HIDE DEF l
  <2>2. Holds(l, one, a) /\ Holds(l, one + Len(a), b)
    BY <1>1, <1>2, <2>1, HoldsParts
  <2> QED BY <2>2 DEF l
<1> HIDE DEF line
<1>5. line \in Seq(Byte)
  BY <1>3, WholeLine
<1>6. At(line, one + m) = LOWER_X
  <2> DEFINE k == one + m
  <2>1. k \in Nat /\ Holds(line, k, <<LOWER_X>>)
    BY <1>1, <1>2, <1>4 DEF b
  <2> HIDE DEF k
  <2>2. At(line, k) = LOWER_X
    BY <2>1, HoldsOne
  <2> QED BY <2>2 DEF k
<1>7. ~Apart(line, one + m)
  BY <1>6, Codes DEF Apart, isspace
<1>8. At(line, one) = DQUOTE /\ Token(line)[<<one, NUL>>] = Bare(Unbalanced, t)
  <2>1. Holds(line, one, Repr(t))
    BY <1>4 DEF a
  <2>2. /\ At(line, one) = DQUOTE
        /\ Token(line)[<<one, NUL>>] =
             IF Apart(line, one + Len(Repr(t)))
             THEN [ok |-> TRUE, next |-> one + Len(Repr(t)), text |-> t] ELSE Bare(Unbalanced, t)
    BY <1>2, <1>5, <2>1, ReprToken
  <2> QED BY <1>7, <2>2 DEF m, a
<1>9. ~Bare(Unbalanced, t).ok
  BY DEF Bare, Unbalanced
<1>10. ~sdssplitargs(line).ok
  BY <1>3, <1>8, <1>9, FirstRefused DEF one
<1> QED BY <1>1, <1>10 DEF line, b

(* A line that lacks the closing quote is refused.                          *)
LEMMA CutRefused ==
    ASSUME NEW t \in Seq(Byte)
    PROVE  ~sdssplitargs(Front(sdscatrepr(<<>>, t))).ok
<1> DEFINE body == Quotes(t)
           q == DQUOTE
           b == <<q>>
           line == b \o body
           w == line \o b
           n == Len(body)
<1>1. body \in Seq(Seen) /\ sdscatrepr(<<>>, t) = Repr(t)
  BY OwnRepr
<1>2. q \in {DQUOTE, SQUOTE}
  OBVIOUS
<1> HIDE DEF body, q
<1>3. /\ w \in Seq(Seen) /\ Len(w) = n + 2 /\ line \in Seq(Seen) /\ Len(line) = n + 1
      /\ b \in Seq(Seen) /\ Len(b) = 1 /\ n \in Nat
  BY <1>1, <1>2, EnclosedIs DEF Enclosed
<1>4. Repr(t) = w
  BY DEF Repr, Enclosed, body, q
<1>5. Front(w) = line
  <2> DEFINE l == line
             x == l \o b
             k == n + 1
             f == SubSeq(x, 1, k)
  <2>1. l \in Seq(Seen) /\ Len(l) = k /\ b \in Seq(Seen) /\ Len(b) = 1 /\ k \in Nat
    BY <1>3
  <2> HIDE DEF l, b, k
  <2>2. x \in Seq(Seen) /\ Len(x) = Len(l) + Len(b)
        /\ \A i \in 1 .. Len(l) + Len(b) : x[i] = IF i <= Len(l) THEN l[i] ELSE b[i - Len(l)]
    BY <2>1, ConcatProperties
  <2> HIDE DEF x
  <2>3. Len(x) = k + 1 /\ \A i \in 1 .. k : x[i] = l[i]
    BY <2>1, <2>2
  <2>4. Front(x) = f
    BY <2>1, <2>3 DEF Front
  <2>5. f \in Seq(Seen) /\ Len(f) = k /\ \A i \in 1 .. k : f[i] = x[i]
    <3> DEFINE one == 1
    <3>1. one \in 1 .. Len(x) + 1 /\ k \in one - 1 .. Len(x) /\ k - one + 1 = k /\ one = 1
      BY <2>1, <2>3
    <3> HIDE DEF one
    <3>2. /\ SubSeq(x, one, k) \in Seq(Seen) /\ Len(SubSeq(x, one, k)) = k - one + 1
          /\ \A i \in 1 .. k - one + 1 : SubSeq(x, one, k)[i] = x[one + i - 1]
      BY <2>2, <3>1, PartIs
    <3>3. \A i \in 1 .. k : one + i - 1 = i
      BY <3>1
    <3> QED BY <3>1, <3>2, <3>3
  <2> HIDE DEF f
  <2>6. \A i \in 1 .. Len(f) : f[i] = l[i]
    BY <2>3, <2>5
  <2>7. f = l
    BY <2>1, <2>5, <2>6, SeqEqual
  <2> QED BY <2>4, <2>7 DEF x, l
<1> HIDE DEF b, n
<1>6. line \in Seq(Byte) /\ Holds(line, 1, line)
  <2> HIDE DEF line
  <2> QED BY <1>3, WholeLine
<1>7. Holds(line, 1, b) /\ Holds(line, 2, body)
  <2> DEFINE l == line
             one == 1
  <2>1. Holds(l, one, b \o body) /\ one \in Nat
    BY <1>6
  <2> HIDE DEF l, one
  <2>2. Holds(l, one, b) /\ Holds(l, one + Len(b), body)
    BY <1>1, <1>3, <2>1, HoldsParts
  <2>3. one = 1 /\ one + Len(b) = 2
    BY <1>3 DEF one
  <2> QED BY <2>2, <2>3 DEF l
<1> HIDE DEF line
<1>8. At(line, 1) = DQUOTE
  <2> DEFINE one == 1
  <2>1. one \in Nat /\ Holds(line, one, <<q>>)
    BY <1>7 DEF b
  <2> HIDE DEF one
  <2>2. At(line, one) = q
    BY <2>1, HoldsOne
  <2> QED BY <2>2 DEF one, q
<1>9. Token(line)[<<2 + n, DQUOTE>>] = Unbalanced
  <2>1. Token(line)[<<Len(line) + 1, DQUOTE>>] = Unbalanced
    BY <1>6, QuoteMissing
  <2>2. Len(line) + 1 = 2 + n
    BY <1>3
  <2> QED BY <2>1, <2>2
<1>10. Token(line)[<<2, DQUOTE>>] = Bare(Unbalanced, t)
  <2> DEFINE two == 2
             r == Token(line)[<<two + Len(Quotes(t)), DQUOTE>>]
  <2>1. two \in Nat \ {0} /\ Holds(line, two, Quotes(t))
    BY <1>7 DEF body
  <2>2. r = Unbalanced
    BY <1>9 DEF n, body
  <2>3. Unbalanced = Bare(Unbalanced, <<>>)
    BY DEF Bare, Unbalanced
  <2>4. r = Bare(r, <<>>)
    <3> HIDE DEF r
    <3> QED BY <2>2, <2>3
  <2> HIDE DEF two, r
  <2>5. Token(line)[<<two, DQUOTE>>] = Bare(r, t)
    BY <1>6, <2>1, <2>4, QuotesRead DEF r
  <2> QED BY <2>2, <2>5 DEF two
<1>11. Token(line)[<<1, NUL>>] = Bare(Unbalanced, t)
  <2> DEFINE one == 1
             d == DQUOTE
  <2>1. one \in Nat \ {0} /\ At(line, one) = d /\ d \in {DQUOTE, SQUOTE} /\ one + 1 = 2
    BY <1>8
  <2> HIDE DEF one, d
  <2>2. Token(line)[<<one, NUL>>] = Token(line)[<<one + 1, d>>]
    BY <1>6, <2>1, QuoteOpens
  <2>3. Token(line)[<<one, NUL>>] = Token(line)[<<2, DQUOTE>>]
    BY <2>1, <2>2 DEF d
  <2> QED BY <1>10, <2>3 DEF one
<1>12. ~Token(line)[<<1, NUL>>].ok
  BY <1>11 DEF Bare, Unbalanced
<1>13. ~sdssplitargs(line).ok
  BY <1>3, <1>8, <1>12, FirstRefused
<1> HIDE DEF w
<1> QED BY <1>1, <1>4, <1>5, <1>13

(* A text in single quotes is read back.                                    *)
LEMMA OneSingle ==
    ASSUME NEW t \in Quotable
    PROVE  sdssplitargs(SingleQuoted(t)) = [ok |-> TRUE, args |-> <<t>>]
<1> DEFINE body == Singles(t)
           q == SQUOTE
           line == Enclosed(q, body)
           one == 1
           next == one + Len(body) + 2
<1>1. body \in Seq(Seen)
  <2>1. t \in Seq(Seen)
    BY DEF Quotable
  <2> QED BY <2>1, SinglesAre
<1>2. SingleQuoted(t) = line
  BY DEF SingleQuoted, Enclosed, Singles, Escaped
<1>3. q \in {DQUOTE, SQUOTE} /\ one \in Nat \ {0}
  OBVIOUS
<1>4. \A l \in Seq(Byte) : Yields(l, q, one + 1, body, t)
  <2> SUFFICES ASSUME NEW l \in Seq(Byte) PROVE Yields(l, q, one + 1, body, t)
    OBVIOUS
  <2> DEFINE k == one + 1
             r == Token(l)[<<k + Len(body), SQUOTE>>]
  <2> SUFFICES ASSUME Holds(l, k, body), r = Bare(r, <<>>) PROVE Token(l)[<<k, SQUOTE>>] = Bare(r, t)
    BY DEF Yields
  <2>1. k \in Nat \ {0}
    OBVIOUS
  <2> HIDE DEF k, r
  <2> QED BY <2>1, SinglesRead DEF r
<1> HIDE DEF body, q
<1>5. line \in Seq(Seen) /\ Len(line) = Len(body) + 2 /\ Len(body) \in Nat
  BY <1>1, <1>3, EnclosedIs
<1> HIDE DEF line
<1>6. /\ line \in Seq(Byte) /\ Holds(line, one, line) /\ At(line, Len(line) + 1) = NUL
      /\ sdssplitargs(line) = Tokens(line)[one]
  BY <1>5, WholeLine
<1> HIDE DEF one
<1>7. next = Len(line) + 1
  BY <1>5 DEF one
<1>8. /\ At(line, one) = q
      /\ Token(line)[<<one, NUL>>] =
           IF Apart(line, next) THEN [ok |-> TRUE, next |-> next, text |-> t] ELSE Bare(Unbalanced, t)
  <2>1. Holds(line, one, Enclosed(q, body))
    BY <1>6 DEF line
  <2>2. Yields(line, q, one + 1, body, t)
    BY <1>4, <1>6
  <2> QED BY <1>1, <1>3, <1>6, <2>1, <2>2, TokenInQuotes
<1> HIDE DEF next
<1>9. LastToken(line, one, t)
  BY <1>6, <1>7, <1>8 DEF LastToken, Apart
<1>10. Tokens(line)[one] = [ok |-> TRUE, args |-> <<t>>]
  BY <1>3, <1>6, <1>8, <1>9, LastArg
<1> QED BY <1>2, <1>6, <1>10

(* ArgsRoundTrip holds of every text.                                       *)
LEMMA ArgsReadBack ==
    ASSUME text \in Seq(Byte)
    PROVE  ArgsRoundTrip
<1>1. ASSUME NEW k \in 0 .. Len(text)
      PROVE  LET pre == SubSeq(text, 1, k)
                 post == SubSeq(text, k + 1, Len(text))
             IN sdssplitargs(sdscatrepr(sdscatrepr(<<>>, pre) \o <<SP>>, post))
                  = [ok |-> TRUE, args |-> <<pre, post>>]
  <2> DEFINE pre == SubSeq(text, 1, k)
             post == SubSeq(text, k + 1, Len(text))
             one == 1
             n == Len(text)
  <2>1. n \in Nat /\ k \in 0 .. n /\ one \in Int /\ one >= 1 /\ k <= n /\ n <= n
        /\ k + 1 \in Int /\ k + 1 >= 1 /\ k \in Int
    OBVIOUS
  <2>2. pre \in Seq(Byte)
    <3> HIDE DEF one
    <3>1. SubSeq(text, one, k) \in Seq(Byte)
      BY <2>1, SubSeqType
    <3> QED BY <3>1 DEF one
  <2>3. post \in Seq(Byte)
    <3> DEFINE i == k + 1
    <3>1. i \in Int /\ i >= 1
      BY <2>1
    <3> HIDE DEF i, n
    <3>2. SubSeq(text, i, n) \in Seq(Byte)
      BY <2>1, <3>1, SubSeqType DEF n
    <3> QED BY <3>2 DEF i, n
  <2> HIDE DEF pre, post
  <2>4. sdssplitargs(sdscatrepr(sdscatrepr(<<>>, pre) \o <<SP>>, post))
          = [ok |-> TRUE, args |-> <<pre, post>>]
    BY <2>2, <2>3, TwoArgs
  <2> QED BY <2>4 DEF pre, post
<1>2. ASSUME CString(text) = text, At(text, Len(text)) # BACKSLASH
      PROVE  sdssplitargs(SingleQuoted(text)) = [ok |-> TRUE, args |-> <<text>>]
  <2>1. NoNul(text)
    BY <1>2, OwnCString
  <2>2. text \in Seq(Seen)
    <3> DEFINE n == Len(text)
    <3>1. n \in Nat /\ text = [i \in 1 .. n |-> text[i]] /\ DOMAIN text = 1 .. n
      OBVIOUS
    <3>2. ASSUME NEW i \in 1 .. n PROVE text[i] \in Seen
      <4>1. text[i] \in Byte /\ text[i] # NUL
        BY <2>1, <3>1 DEF NoNul
      <4> QED BY <4>1, Codes DEF Byte, Seen
    <3> HIDE DEF n
    <3> QED BY <3>1, <3>2, SequenceBy
  <2>3. text # <<>> => text[Len(text)] # BACKSLASH
    BY <1>2 DEF At
  <2>4. text \in Quotable
    BY <2>2, <2>3 DEF Quotable
  <2> QED BY <2>4, OneSingle
<1> QED BY <1>1, <1>2, CutRefused, GoesOnRefused DEF ArgsRoundTrip

(* Every text that the calls of an sds string leave can be quoted with      *)
(* sdscatrepr() and parsed back with sdssplitargs(), whatever bytes it      *)
(* holds and wherever it is cut in two; what lacks the closing quote or     *)
(* goes on behind it is refused; single quotes hold what ArgsRoundTrip says.*)
THEOREM QuotedArgsReadBack == Spec => []ArgsRoundTrip
<1>1. SdsInv => ArgsRoundTrip
  BY SoundFacts, ArgsReadBack
<1> QED BY <1>1, SdsInvariance, PTL
=============================================================================
