--------------------------- MODULE QueryPages_proofs ---------------------------
(***************************************************************************)
(* What a service reads from a URL, and where pages begin and end, for any *)
(* texts, numbers and service.  A text made of parts is described by where *)
(* each part lies in it.                                                   *)
(***************************************************************************)
EXTENDS QueryPages, NaturalsInduction, FiniteSetTheorems, SequenceTheorems, TLAPS

LEMMA SetInduction ==
  ASSUME NEW S \in SUBSET Nat, 0 \in S, \A n \in S : n + 1 \in S
  PROVE  S = Nat
<1> DEFINE R == OpToRel(<, Nat)
           T == Nat \ S
<1>1. \A x, y \in Nat : <<x, y>> \in R <=> x < y
  BY DEF OpToRel
<1>2. IsWellFoundedOn(R, Nat)
  BY NatLessThanWellFounded
<1> HIDE DEF R
<1>3. SUFFICES ASSUME T # {} PROVE FALSE
  OBVIOUS
<1>4. PICK x \in T : \A y \in T : ~(<<y, x>> \in R)
  BY <1>2, <1>3, WFMin
<1>5. x - 1 \in Nat /\ x - 1 < x /\ x # 0
  BY <1>4
<1>6. x - 1 \in S
  BY <1>1, <1>4, <1>5
<1>7. (x - 1) + 1 \in S
  BY <1>6
<1> QED
  BY <1>4, <1>5, <1>7

(* A set of numbers has a least one. *)
LEMMA HasLeast ==
  ASSUME NEW D \in SUBSET Nat, D # {}
  PROVE  \E i \in D : \A j \in D : i <= j
<1> DEFINE R == OpToRel(<, Nat)
<1>1. \A x, y \in Nat : <<x, y>> \in R <=> x < y
  BY DEF OpToRel
<1>2. IsWellFoundedOn(R, Nat)
  BY NatLessThanWellFounded
<1> HIDE DEF R
<1>3. PICK x \in D : \A y \in D : ~(<<y, x>> \in R)
  BY <1>2, WFMin
<1>4. ASSUME NEW y \in D PROVE x <= y
  <2>1. x \in Nat /\ y \in Nat /\ ~(y < x)
    BY <1>1, <1>3
  <2> QED
    BY <2>1
<1> QED
  BY <1>4

LEMMA LeastIs ==
  ASSUME NEW D \in SUBSET Nat, D # {}
  PROVE  Least(D) \in D /\ \A j \in D : Least(D) <= j
BY HasLeast DEF Least

(* A bounded set of numbers has a last one. *)
LEMMA HasLast ==
  ASSUME NEW n \in Nat, NEW D \in SUBSET (1..n), D # {}
  PROVE  \E i \in D : \A j \in D : j <= i
<1> DEFINE E == {n - i : i \in D}
<1>1. E \in SUBSET Nat /\ E # {}
  <2>1. ASSUME NEW i \in D PROVE n - i \in Nat
    <3>1. i \in 1..n
      OBVIOUS
    <3> QED
      BY <3>1
  <2>2. E \subseteq Nat
    BY <2>1
  <2>3. PICK i \in D : TRUE
    OBVIOUS
  <2>4. n - i \in E
    BY <2>3
  <2> QED
    BY <2>2, <2>4
<1>2. PICK e \in E : \A f \in E : e <= f
  BY <1>1, HasLeast
<1>3. PICK i \in D : e = n - i
  BY <1>2
<1>4. ASSUME NEW j \in D PROVE j <= i
  <2>1. n - j \in E
    OBVIOUS
  <2>2. n - i <= n - j
    BY <1>2, <1>3, <2>1
  <2> QED
    BY <2>2
<1> QED
  BY <1>4

-----------------------------------------------------------------------------
(* Cuts, in the order of a text. *)

Increasing(c, m) == c \in [0..m -> Nat] /\ \A i, j \in 0..m : i < j => c[i] < c[j]
Image(c, m) == {c[i] : i \in 0..m}
Below(c, k) == {c[i] : i \in 0..(k - 1)}

LEMMA BelowCounted ==
  ASSUME NEW m \in Nat, NEW c, Increasing(c, m), NEW k \in 0..(m + 1)
  PROVE  IsFiniteSet(Below(c, k)) /\ Cardinality(Below(c, k)) = k
<1> DEFINE Good(n) == n <= m + 1 => IsFiniteSet(Below(c, n)) /\ Cardinality(Below(c, n)) = n
           S == {n \in Nat : Good(n)}
<1>1. 0 \in S
  <2>1. Below(c, 0) = {}
    BY DEF Below
  <2> QED
    BY <2>1, FS_EmptySet
<1>2. ASSUME NEW n \in S PROVE n + 1 \in S
  <2> SUFFICES ASSUME n + 1 <= m + 1
               PROVE  IsFiniteSet(Below(c, n + 1)) /\ Cardinality(Below(c, n + 1)) = n + 1
    OBVIOUS
  <2>1. IsFiniteSet(Below(c, n)) /\ Cardinality(Below(c, n)) = n
    OBVIOUS
  <2>2. Below(c, n + 1) = Below(c, n) \cup {c[n]}
    BY DEF Below
  <2>3. c[n] \notin Below(c, n)
    BY DEF Below, Increasing
  <2> HIDE DEF S
  <2> QED
    BY <2>1, <2>2, <2>3, FS_AddElement
<1> HIDE DEF S
<1>3. S = Nat
  <2>1. S \in SUBSET Nat
    BY DEF S
  <2> QED
    BY <1>1, <1>2, <2>1, SetInduction
<1>4. k \in Nat /\ k <= m + 1
  OBVIOUS
<1> QED
  BY <1>3, <1>4 DEF S

LEMMA NthOf ==
  ASSUME NEW m \in Nat, NEW c, Increasing(c, m), NEW k \in 0..m
  PROVE  Nth(Image(c, m), k) = c[k]
<1> DEFINE C == Image(c, m)
           Under(x) == {d \in C : d < x}
<1>1. ASSUME NEW j \in 0..m PROVE Under(c[j]) = Below(c, j)
  <2>1. ASSUME NEW i \in 0..m PROVE c[i] < c[j] <=> i < j
    BY DEF Increasing
  <2> QED
    BY <2>1 DEF Below, Image
<1>2. ASSUME NEW j \in 0..m PROVE Cardinality(Under(c[j])) = j
  BY <1>1, BelowCounted
<1>3. c[k] \in C /\ \A x \in C : Cardinality(Under(x)) = k => x = c[k]
  BY <1>2 DEF Image
<1> QED
  BY <1>2, <1>3 DEF Nth

LEMMA ImageCounted ==
  ASSUME NEW m \in Nat, NEW c, Increasing(c, m)
  PROVE  Cardinality(Image(c, m)) = m + 1
<1>1. Image(c, m) = Below(c, m + 1)
  BY DEF Image, Below
<1>2. m + 1 \in 0..(m + 1)
  OBVIOUS
<1> QED
  BY <1>1, <1>2, BelowCounted

(* Every bounded set of numbers with 0 is enumerated like this. *)
LEMMA Enumerated ==
  ASSUME NEW n \in Nat, NEW D \in SUBSET (0..n), 0 \in D
  PROVE  \E m \in Nat : \E c : Increasing(c, m) /\ D = Image(c, m)
<1> DEFINE Listed(E) == \E m \in Nat : \E c : Increasing(c, m) /\ E = Image(c, m)
           S == {k \in Nat : \A E \in SUBSET (0..k) : 0 \in E => Listed(E)}
<1>1. 0 \in S
  <2> SUFFICES ASSUME NEW E \in SUBSET (0..0), 0 \in E PROVE Listed(E)
    OBVIOUS
  <2> DEFINE c == [i \in 0..0 |-> 0]
  <2>0. \A i : i \in 0..0 <=> i = 0
    OBVIOUS
  <2>1. 0..0 = {0} /\ E = {0}
    <3>1. E \subseteq 0..0 /\ 0 \in E
      OBVIOUS
    <3> QED
      BY <2>0, <3>1, Zenon
  <2>2. c[0] = 0 /\ c \in [0..0 -> Nat]
    BY <2>1
  <2> HIDE DEF c
  <2>3. Increasing(c, 0) /\ E = Image(c, 0)
    BY <2>1, <2>2 DEF Increasing, Image
  <2> QED
    BY <2>3
<1>2. ASSUME NEW k \in S PROVE k + 1 \in S
  <2> SUFFICES ASSUME NEW E \in SUBSET (0..(k + 1)), 0 \in E PROVE Listed(E)
    OBVIOUS
  <2> DEFINE F == E \ {k + 1}
  <2>1. F \in SUBSET (0..k) /\ 0 \in F
    OBVIOUS
  <2>2. Listed(F)
    BY <2>1
  <2>3. CASE k + 1 \notin E
    BY <2>2, <2>3
  <2>4. CASE k + 1 \in E
    <3>1. PICK m \in Nat : \E c : Increasing(c, m) /\ F = Image(c, m)
      BY <2>2
    <3>2. PICK c : Increasing(c, m) /\ F = Image(c, m)
      BY <3>1
    <3> DEFINE d == [i \in 0..(m + 1) |-> IF i <= m THEN c[i] ELSE k + 1]
    <3>3. \A i \in 0..m : c[i] \in 0..k
      BY <2>1, <3>2 DEF Image
    <3>4. (\A i \in 0..m : d[i] = c[i]) /\ d[m + 1] = k + 1 /\ d \in [0..(m + 1) -> Nat]
      BY <3>3
    <3> HIDE DEF d
    <3>5. Increasing(d, m + 1)
      <4>1. \A i \in 0..(m + 1) : i \in 0..m \/ i = m + 1
        OBVIOUS
      <4>2. ASSUME NEW i \in 0..(m + 1), NEW j \in 0..(m + 1), i < j PROVE d[i] < d[j]
        <5>1. i \in 0..m
          BY <4>2
        <5>2. CASE j \in 0..m
          BY <3>2, <3>4, <4>2, <5>1, <5>2 DEF Increasing
        <5>3. CASE j = m + 1
          BY <3>3, <3>4, <5>1, <5>3
        <5> QED
          BY <4>1, <5>2, <5>3
      <4> QED
        BY <3>4, <4>2 DEF Increasing
    <3>6. E = Image(d, m + 1)
      <4>1. 0..(m + 1) = (0..m) \cup {m + 1}
        OBVIOUS
      <4>2. Image(d, m + 1) = {d[i] : i \in 0..m} \cup {d[m + 1]}
        BY <4>1 DEF Image
      <4>3. {d[i] : i \in 0..m} = Image(c, m)
        BY <3>4 DEF Image
      <4> QED
        <5>1. E = F \cup {k + 1}
          BY <2>4
        <5> QED
          BY <3>2, <3>4, <4>2, <4>3, <5>1
    <3>7. m + 1 \in Nat
      OBVIOUS
    <3> QED
      BY <3>5, <3>6, <3>7
  <2> QED
    BY <2>3, <2>4
<1> HIDE DEF S
<1>3. S = Nat
  <2>1. S \in SUBSET Nat
    BY DEF S
  <2> QED
    BY <1>1, <1>2, <2>1, SetInduction
<1> QED
  BY <1>3 DEF S

LEMMA PiecesAt ==
  ASSUME NEW text, NEW places, NEW m \in Nat, NEW c, Increasing(c, m),
         {0, Len(text) + 1} \cup places = Image(c, m)
  PROVE  Pieces(text, places) = [n \in 1..m |-> SubSeq(text, c[n - 1] + 1, c[n] - 1)]
<1> DEFINE C == {0, Len(text) + 1} \cup places
<1>1. C = Image(c, m)
  OBVIOUS
<1>2. Pieces(text, places) =
        [n \in 1..(Cardinality(C) - 1) |-> SubSeq(text, Nth(C, n - 1) + 1, Nth(C, n) - 1)]
  BY DEF Pieces
<1> HIDE DEF C
<1>3. Cardinality(C) - 1 = m
  BY <1>1, ImageCounted
<1>4. \A n \in 0..m : Nth(C, n) = c[n]
  BY <1>1, NthOf
<1>5. \A n \in 1..m : n \in 0..m /\ n - 1 \in 0..m
  OBVIOUS
<1> QED
  BY <1>2, <1>3, <1>4, <1>5

-----------------------------------------------------------------------------
(* A text made of parts, one after the other. *)

(* The part lies in the text behind its first "at" symbols. *)
LiesAt(text, at, part) ==
  at + Len(part) <= Len(text) /\ \A i \in 1..Len(part) : text[at + i] = part[i]

LEMMA ConcatFacts ==
  ASSUME NEW S, NEW a \in Seq(S), NEW b \in Seq(S)
  PROVE  /\ a \o b \in Seq(S)
         /\ Len(a \o b) = Len(a) + Len(b)
         /\ \A i \in 1..Len(a) : (a \o b)[i] = a[i]
         /\ \A i \in 1..Len(b) : (a \o b)[Len(a) + i] = b[i]
<1>1. a \o b \in Seq(S) /\ Len(a \o b) = Len(a) + Len(b)
  OBVIOUS
<1>2. \A i \in 1..Len(a) : (a \o b)[i] = a[i]
  OBVIOUS
<1>3. \A i \in 1..Len(b) : (a \o b)[Len(a) + i] = b[i]
  OBVIOUS
<1> QED
  BY <1>1, <1>2, <1>3

LEMMA ConcatLies ==
  ASSUME NEW S, NEW a \in Seq(S), NEW b \in Seq(S)
  PROVE  LiesAt(a \o b, 0, a) /\ LiesAt(a \o b, Len(a), b)
<1>1. Len(a) \in Nat /\ Len(b) \in Nat
  OBVIOUS
<1>2. \A i \in 1..Len(a) : (a \o b)[0 + i] = a[i]
  BY ConcatFacts
<1> QED
  BY <1>1, <1>2, ConcatFacts DEF LiesAt

LEMMA LiesTrans ==
  ASSUME NEW S, NEW text \in Seq(S), NEW a \in Seq(S), NEW b \in Seq(S),
         NEW i \in Nat, NEW j \in Nat,
         LiesAt(text, i, a), LiesAt(a, j, b)
  PROVE  LiesAt(text, i + j, b)
<1>1. Len(a) \in Nat /\ Len(b) \in Nat /\ Len(text) \in Nat
  OBVIOUS
<1>2. (i + j) + Len(b) <= Len(text)
  BY <1>1 DEF LiesAt
<1>3. ASSUME NEW k \in 1..Len(b) PROVE text[(i + j) + k] = b[k]
  <2>1. j + k \in 1..Len(a) /\ i + (j + k) = (i + j) + k
    BY <1>1 DEF LiesAt
  <2>2. text[i + (j + k)] = a[j + k] /\ a[j + k] = b[k]
    BY <2>1 DEF LiesAt
  <2> QED
    BY <2>1, <2>2
<1> QED
  BY <1>2, <1>3 DEF LiesAt

LEMMA SubOfText ==
  ASSUME NEW S, NEW text \in Seq(S), NEW m \in Nat, NEW n \in Nat, m >= 1, n <= Len(text)
  PROVE  /\ SubSeq(text, m, n) \in Seq(S)
         /\ Len(SubSeq(text, m, n)) = IF m <= n THEN n - m + 1 ELSE 0
         /\ \A i \in 1..Len(SubSeq(text, m, n)) : SubSeq(text, m, n)[i] = text[m + i - 1]
<1>1. Len(text) \in Nat
  OBVIOUS
<1>2. \A i \in m..n : i \in 1..Len(text)
  BY <1>1
<1>3. SubSeq(text, m, n) = [i \in 1..(n - m + 1) |-> text[i + m - 1]]
  OBVIOUS
<1>4. \A i \in 1..(n - m + 1) : i + m - 1 \in 1..Len(text) /\ i + m - 1 = m + i - 1
  BY <1>1
<1>5. \A i \in 1..(n - m + 1) : text[i + m - 1] \in S
  BY <1>4
<1>6. CASE m <= n
  <2>1. n - m + 1 \in Nat
    BY <1>6
  <2>2. SubSeq(text, m, n) \in Seq(S)
    BY <1>3, <1>5, <2>1, IsASeq
  <2>3. Len(SubSeq(text, m, n)) = n - m + 1
    BY <1>3, <2>1
  <2> QED
    BY <1>3, <1>4, <1>6, <2>2, <2>3
<1>7. CASE ~(m <= n)
  <2>1. SubSeq(text, m, n) = << >>
    BY <1>7
  <2> QED
    BY <1>7, <2>1
<1> QED
  BY <1>6, <1>7

(* What lies somewhere is what is cut out there. *)
LEMMA LiesSub ==
  ASSUME NEW S, NEW text \in Seq(S), NEW part \in Seq(S), NEW at \in Nat,
         LiesAt(text, at, part)
  PROVE  SubSeq(text, at + 1, at + Len(part)) = part
<1> DEFINE s == SubSeq(text, at + 1, at + Len(part))
<1>1. Len(part) \in Nat /\ Len(text) \in Nat
  OBVIOUS
<1>2. at + 1 \in Nat /\ at + Len(part) \in Nat /\ at + 1 >= 1 /\ at + Len(part) <= Len(text)
  BY <1>1 DEF LiesAt
<1>3. /\ s \in Seq(S)
      /\ Len(s) = IF at + 1 <= at + Len(part) THEN (at + Len(part)) - (at + 1) + 1 ELSE 0
      /\ \A i \in 1..Len(s) : s[i] = text[(at + 1) + i - 1]
  BY <1>2, SubOfText
<1> HIDE DEF s
<1>4. Len(s) = Len(part)
  BY <1>1, <1>3
<1>5. \A i \in 1..Len(s) : (at + 1) + i - 1 = at + i
  BY <1>1, <1>4
<1>6. \A i \in 1..Len(s) : s[i] = part[i]
  BY <1>3, <1>4, <1>5 DEF LiesAt
<1>7. s = part
  BY <1>3, <1>4, <1>6, SeqEqual
<1> QED
  BY <1>7 DEF s

(* The texts FlattenSeq goes through. *)
Walks(seqs, f) ==
  f[0] = << >> /\ \A k \in 1..Len(seqs) : f[k] = f[k - 1] \o seqs[k]

FlattenStep(seqs, g, i) == IF i = 1 THEN seqs[i] ELSE g[i - 1] \o seqs[i]
Flattens(seqs, g, n) == g = [i \in 1..n |-> FlattenStep(seqs, g, i)]
Flattened(S, seqs, n) == \E g \in [1..n -> Seq(S)] : Flattens(seqs, g, n)

LEMMA FlattenAt ==
  ASSUME NEW seqs, NEW n, NEW g, Flattens(seqs, g, n), NEW i \in 1..n
  PROVE  g[i] = FlattenStep(seqs, g, i)
BY DEF Flattens

LEMMA PartType ==
  ASSUME NEW S, NEW seqs \in Seq(Seq(S)), NEW k \in 1..Len(seqs)
  PROVE  seqs[k] \in Seq(S) /\ Len(seqs[k]) \in Nat
<1>1. seqs[k] \in Seq(S)
  BY ElementOfSeq
<1> QED
  BY <1>1, LenProperties

LEMMA FlattenExists ==
  ASSUME NEW S, NEW seqs \in Seq(Seq(S)), NEW n \in 0..Len(seqs)
  PROVE  Flattened(S, seqs, n)
<1> DEFINE K == {k \in Nat : k <= Len(seqs) => Flattened(S, seqs, k)}
<1>0. Len(seqs) \in Nat
  OBVIOUS
<1>1. 0 \in K
  <2> DEFINE g == [i \in 1..0 |-> << >>]
  <2>1. g \in [1..0 -> Seq(S)] /\ Flattens(seqs, g, 0)
    BY DEF Flattens
  <2> QED
    BY <2>1 DEF Flattened
<1>2. ASSUME NEW k \in K PROVE k + 1 \in K
  <2> SUFFICES ASSUME k + 1 <= Len(seqs) PROVE Flattened(S, seqs, k + 1)
    OBVIOUS
  <2>0. k \in Nat /\ k + 1 \in 1..Len(seqs)
    BY <1>0
  <2>a. Flattened(S, seqs, k)
    BY <1>0, <2>0
  <2>1. PICK g \in [1..k -> Seq(S)] : Flattens(seqs, g, k)
    BY <2>a DEF Flattened
  <2> DEFINE last == IF k = 0 THEN seqs[1] ELSE g[k] \o seqs[k + 1]
             h == [i \in 1..(k + 1) |-> IF i <= k THEN g[i] ELSE last]
  <2>2. last \in Seq(S)
    <3>1. seqs[k + 1] \in Seq(S)
      BY <2>0
    <3>2. CASE k = 0
      BY <3>1, <3>2
    <3>3. CASE k # 0
      <4>1. g[k] \in Seq(S)
        BY <2>0, <2>1, <3>3
      <4> QED
        BY <3>1, <3>3, <4>1, ConcatFacts
    <3> QED
      BY <3>2, <3>3
  <2> HIDE DEF last
  <2>3. h \in [1..(k + 1) -> Seq(S)]
    BY <2>0, <2>1, <2>2
  <2>4. (\A i \in 1..k : h[i] = g[i]) /\ h[k + 1] = last
    BY <2>0
  <2> HIDE DEF h
  <2>5. ASSUME NEW i \in 1..(k + 1) PROVE h[i] = FlattenStep(seqs, h, i)
    <3>1. CASE i <= k
      <4>0. i \in 1..k
        BY <2>0, <3>1
      <4>1. g[i] = FlattenStep(seqs, g, i)
        BY <2>1, <4>0, FlattenAt
      <4>2. i # 1 => i - 1 \in 1..k
        BY <2>0, <4>0
      <4>3. h[i] = g[i] /\ (i # 1 => h[i - 1] = g[i - 1])
        BY <2>4, <4>0, <4>2
      <4> QED
        BY <4>1, <4>3, Zenon DEF FlattenStep
    <3>2. CASE i = k + 1
      <4>1. k # 0 => k \in 1..k /\ i # 1 /\ i - 1 = k
        BY <2>0, <3>2
      <4> QED
        BY <2>0, <2>4, <3>2, <4>1 DEF FlattenStep, last
    <3> QED
      BY <2>0, <3>1, <3>2
  <2>6. Flattens(seqs, h, k + 1)
    <3>1. h = [i \in 1..(k + 1) |-> h[i]]
      BY <2>3
    <3> QED
      BY <2>5, <3>1, Zenon DEF Flattens
  <2> QED
    BY <2>3, <2>6 DEF Flattened
<1> HIDE DEF K
<1>3. K = Nat
  <2>1. K \in SUBSET Nat
    BY DEF K
  <2> QED
    BY <1>1, <1>2, <2>1, SetInduction
<1>4. n \in K /\ n <= Len(seqs)
  BY <1>0, <1>3
<1> QED
  BY <1>4 DEF K

LEMMA FlattenWalk ==
  ASSUME NEW S, NEW seqs \in Seq(Seq(S))
  PROVE  \E f \in [0..Len(seqs) -> Seq(S)] :
           Walks(seqs, f) /\ FlattenSeq(seqs) = f[Len(seqs)]
<1> DEFINE n == Len(seqs)
           flat == CHOOSE g : Flattens(seqs, g, n)
           f == [k \in 0..n |-> IF k = 0 THEN << >> ELSE flat[k]]
<1>0. n \in Nat /\ n \in 0..Len(seqs)
  OBVIOUS
<1>1. Flattens(seqs, flat, n)
  <2>1. \E g : Flattens(seqs, g, n)
    BY <1>0, FlattenExists DEF Flattened
  <2> QED
    BY <2>1
<1>2. FlattenSeq(seqs) = IF n = 0 THEN seqs ELSE flat[n]
  BY DEF FlattenSeq, FlattenStep, Flattens
<1> HIDE DEF flat
<1>3. \A i \in 1..n : flat[i] = FlattenStep(seqs, flat, i)
  BY <1>1, FlattenAt
<1>4. \A i \in 1..n : flat[i] \in Seq(S)
  <2> DEFINE K == {k \in Nat : k \in 1..n => flat[k] \in Seq(S)}
  <2>1. 0 \in K
    OBVIOUS
  <2>2. ASSUME NEW k \in K PROVE k + 1 \in K
    <3> SUFFICES ASSUME k + 1 \in 1..n PROVE flat[k + 1] \in Seq(S)
      OBVIOUS
    <3>1. seqs[k + 1] \in Seq(S)
      OBVIOUS
    <3>2. CASE k = 0
      BY <1>3, <3>1, <3>2 DEF FlattenStep
    <3>3. CASE k # 0
      <4>1. k \in 1..n /\ k + 1 # 1 /\ (k + 1) - 1 = k
        BY <1>0, <3>3
      <4>2. flat[k] \in Seq(S)
        BY <4>1
      <4>3. flat[k + 1] = flat[k] \o seqs[k + 1]
        BY <1>3, <4>1 DEF FlattenStep
      <4> QED
        BY <3>1, <4>2, <4>3, ConcatFacts
    <3> QED
      BY <3>2, <3>3
  <2> HIDE DEF K
  <2>3. K = Nat
    <3>1. K \in SUBSET Nat
      BY DEF K
    <3> QED
      BY <2>1, <2>2, <3>1, SetInduction
  <2>4. \A i \in 1..n : i \in K
    BY <2>3
  <2> QED
    BY <2>4 DEF K
<1>5. f \in [0..n -> Seq(S)]
  BY <1>0, <1>4
<1>6. f[0] = << >> /\ \A k \in 1..n : f[k] = flat[k]
  BY <1>0
<1>7. FlattenSeq(seqs) = f[n]
  <2>1. n = 0 => seqs = << >>
    OBVIOUS
  <2> QED
    BY <1>0, <1>2, <1>6, <2>1
<1> HIDE DEF f
<1>8. ASSUME NEW k \in 1..n PROVE f[k] = f[k - 1] \o seqs[k]
  <2>1. CASE k = 1
    <3>1. f[k] = seqs[k] /\ f[k - 1] = << >> /\ seqs[k] \in Seq(S)
      BY <1>3, <1>6, <2>1 DEF FlattenStep
    <3> QED
      BY <3>1
  <2>2. CASE k # 1
    <3>1. k - 1 \in 1..n
      BY <1>0, <2>2
    <3> QED
      BY <1>3, <1>6, <2>2, <3>1 DEF FlattenStep
  <2> QED
    BY <2>1, <2>2
<1> QED
  BY <1>5, <1>6, <1>7, <1>8 DEF Walks

(* Every text it goes through is where it was in the ones that follow, each   *)
(* part behind the ones before it, and there is nothing else.                 *)
LEMMA WalkLens ==
  ASSUME NEW S, NEW seqs \in Seq(Seq(S)), NEW f \in [0..Len(seqs) -> Seq(S)],
         Walks(seqs, f), NEW k \in 1..Len(seqs)
  PROVE  /\ k - 1 \in 0..Len(seqs) /\ f[k - 1] \in Seq(S) /\ f[k] \in Seq(S) /\ seqs[k] \in Seq(S)
         /\ Len(f[k]) = Len(f[k - 1]) + Len(seqs[k])
         /\ LiesAt(f[k], 0, f[k - 1]) /\ LiesAt(f[k], Len(f[k - 1]), seqs[k])
<1>1. k - 1 \in 0..Len(seqs) /\ k \in 0..Len(seqs)
  OBVIOUS
<1>2. f[k - 1] \in Seq(S) /\ f[k] \in Seq(S)
  BY <1>1
<1>a. seqs[k] \in Seq(S)
  BY PartType
<1>3. f[k] = f[k - 1] \o seqs[k]
  BY DEF Walks
<1> QED
  BY <1>1, <1>2, <1>a, <1>3, ConcatFacts, ConcatLies

LEMMA WalkKeeps ==
  ASSUME NEW S, NEW seqs \in Seq(Seq(S)), NEW f \in [0..Len(seqs) -> Seq(S)],
         Walks(seqs, f), NEW k \in 0..Len(seqs)
  PROVE  \A m \in k..Len(seqs) : LiesAt(f[m], 0, f[k])
<1>0. Len(seqs) \in Nat /\ k \in Nat /\ f[k] \in Seq(S)
  OBVIOUS
<1> DEFINE J == {j \in Nat : k + j <= Len(seqs) => LiesAt(f[k + j], 0, f[k])}
<1>1. 0 \in J
  <2>1. LiesAt(f[k], 0, f[k])
    BY <1>0 DEF LiesAt
  <2> QED
    BY <1>0, <2>1
<1>2. ASSUME NEW j \in J PROVE j + 1 \in J
  <2> SUFFICES ASSUME k + (j + 1) <= Len(seqs) PROVE LiesAt(f[k + (j + 1)], 0, f[k])
    OBVIOUS
  <2>1. k + j <= Len(seqs) /\ k + j \in Nat /\ k + (j + 1) \in 1..Len(seqs) /\ (k + (j + 1)) - 1 = k + j
    BY <1>0
  <2>2. LiesAt(f[k + j], 0, f[k])
    BY <2>1
  <2>3. /\ f[k + j] \in Seq(S) /\ f[k + (j + 1)] \in Seq(S)
        /\ LiesAt(f[k + (j + 1)], 0, f[k + j])
    <3> DEFINE m == k + (j + 1)
    <3>1. m \in 1..Len(seqs) /\ m - 1 = k + j
      BY <2>1
    <3> HIDE DEF m
    <3>2. f[m - 1] \in Seq(S) /\ f[m] \in Seq(S) /\ LiesAt(f[m], 0, f[m - 1])
      BY <3>1, WalkLens
    <3> QED
      BY <3>1, <3>2 DEF m
  <2>4. LiesAt(f[k + (j + 1)], 0 + 0, f[k])
    BY <1>0, <2>2, <2>3, LiesTrans
  <2> QED
    BY <2>4
<1> HIDE DEF J
<1>3. J = Nat
  <2>1. J \in SUBSET Nat
    BY DEF J
  <2> QED
    BY <1>1, <1>2, <2>1, SetInduction
<1>4. SUFFICES ASSUME NEW m \in k..Len(seqs) PROVE LiesAt(f[m], 0, f[k])
  OBVIOUS
<1>5. m - k \in J /\ k + (m - k) = m
  BY <1>0, <1>3
<1> QED
  BY <1>5 DEF J

LEMMA WalkLies ==
  ASSUME NEW S, NEW seqs \in Seq(Seq(S)), NEW f \in [0..Len(seqs) -> Seq(S)],
         Walks(seqs, f), NEW k \in 1..Len(seqs)
  PROVE  LiesAt(f[Len(seqs)], Len(f[k - 1]), seqs[k])
<1>0. Len(seqs) \in k..Len(seqs) /\ k \in 0..Len(seqs) /\ f[Len(seqs)] \in Seq(S)
  <2>1. Len(seqs) \in Nat
    OBVIOUS
  <2>2. Len(seqs) \in 0..Len(seqs) /\ Len(seqs) \in k..Len(seqs) /\ k \in 0..Len(seqs)
    BY <2>1
  <2>3. f[Len(seqs)] \in Seq(S)
    BY <2>2
  <2> QED
    BY <2>2, <2>3
<1>1. LiesAt(f[Len(seqs)], 0, f[k])
  BY <1>0, WalkKeeps
<1>2. /\ f[k] \in Seq(S) /\ seqs[k] \in Seq(S) /\ f[k - 1] \in Seq(S)
      /\ LiesAt(f[k], Len(f[k - 1]), seqs[k])
  BY WalkLens
<1>a. Len(f[k - 1]) \in Nat
  BY <1>2
<1>3. LiesAt(f[Len(seqs)], 0 + Len(f[k - 1]), seqs[k])
  BY <1>0, <1>1, <1>2, <1>a, LiesTrans
<1> QED
  BY <1>a, <1>3

InPart(seqs, f, x) ==
  \E k \in 1..Len(seqs) : \E j \in 1..Len(seqs[k]) : x = Len(f[k - 1]) + j

Covered(seqs, f, m) == \A x \in 1..Len(f[m]) : InPart(seqs, f, x)

LEMMA CoverStep ==
  ASSUME NEW S, NEW seqs \in Seq(Seq(S)), NEW f \in [0..Len(seqs) -> Seq(S)],
         Walks(seqs, f), NEW k \in 1..Len(seqs), Covered(seqs, f, k - 1)
  PROVE  Covered(seqs, f, k)
<1>1. f[k - 1] \in Seq(S) /\ seqs[k] \in Seq(S)
  BY WalkLens
<1>a. Len(f[k]) = Len(f[k - 1]) + Len(seqs[k])
  <2>1. f[k] = f[k - 1] \o seqs[k]
    BY DEF Walks
  <2> QED
    BY <1>1, <2>1, ConcatFacts
<1>2. Len(f[k - 1]) \in Nat /\ Len(seqs[k]) \in Nat
  BY <1>1
<1> DEFINE a == Len(f[k - 1])
           b == Len(seqs[k])
<1>3. a \in Nat /\ b \in Nat /\ Len(f[k]) = a + b
  BY <1>2, <1>a
<1>4. SUFFICES ASSUME NEW x \in 1..(a + b) PROVE InPart(seqs, f, x)
  BY <1>3 DEF Covered
<1>5. CASE x \in 1..a
  BY <1>5 DEF Covered
<1>6. CASE x \notin 1..a
  <2> HIDE DEF a, b
  <2>1. x - a \in 1..b /\ x = a + (x - a)
    BY <1>3, <1>4, <1>6
  <2> QED
    BY <2>1 DEF InPart, a, b
<1> QED
  BY <1>5, <1>6

LEMMA WalkCovers ==
  ASSUME NEW S, NEW seqs \in Seq(Seq(S)), NEW f \in [0..Len(seqs) -> Seq(S)],
         Walks(seqs, f)
  PROVE  Covered(seqs, f, Len(seqs))
<1> DEFINE K == {m \in Nat : m <= Len(seqs) => Covered(seqs, f, m)}
<1>0. Len(seqs) \in Nat
  OBVIOUS
<1>1. 0 \in K
  <2>1. Len(f[0]) = 0
    BY DEF Walks
  <2> QED
    BY <2>1 DEF Covered
<1>2. ASSUME NEW m \in K PROVE m + 1 \in K
  <2> SUFFICES ASSUME m + 1 <= Len(seqs) PROVE Covered(seqs, f, m + 1)
    OBVIOUS
  <2>1. m <= Len(seqs) /\ m + 1 \in 1..Len(seqs) /\ (m + 1) - 1 = m
    BY <1>0
  <2>2. Covered(seqs, f, m)
    BY <2>1
  <2> QED
    BY <2>1, <2>2, CoverStep
<1> HIDE DEF K
<1>3. K = Nat
  <2>1. K \in SUBSET Nat
    BY DEF K
  <2> QED
    BY <1>1, <1>2, <2>1, SetInduction
<1>4. Len(seqs) \in K
  BY <1>0, <1>3
<1> QED
  BY <1>0, <1>4 DEF K

-----------------------------------------------------------------------------
(* Texts joined with a separator, and cut at it again. *)

(* The k-th text lies behind c[k - 1], and a separator at every c[k] inside. *)
Laid(text, ps, separator, c) ==
  /\ c \in [0..Len(ps) -> Nat] /\ c[0] = 0 /\ c[Len(ps)] = Len(text) + 1
  /\ \A k \in 1..Len(ps) : c[k] = c[k - 1] + Len(ps[k]) + 1 /\ LiesAt(text, c[k - 1], ps[k])
  /\ \A k \in 1..(Len(ps) - 1) : text[c[k]] = separator

Separated(ps, separator) ==
  [i \in DOMAIN ps |-> IF i = 1 THEN ps[i] ELSE <<separator>> \o ps[i]]

LEMMA SeparatedType ==
  ASSUME NEW S, NEW ps \in Seq(Seq(S)), NEW s \in S
  PROVE  /\ Separated(ps, s) \in Seq(Seq(S)) /\ Len(Separated(ps, s)) = Len(ps)
         /\ \A i \in 1..Len(ps) : Separated(ps, s)[i] = IF i = 1 THEN ps[i] ELSE <<s>> \o ps[i]
<1>1. DOMAIN ps = 1..Len(ps) /\ Len(ps) \in Nat
  OBVIOUS
<1>2. ASSUME NEW i \in 1..Len(ps) PROVE ps[i] \in Seq(S) /\ <<s>> \o ps[i] \in Seq(S)
  <2>1. ps[i] \in Seq(S)
    BY PartType
  <2>2. <<s>> \in Seq(S)
    OBVIOUS
  <2> QED
    BY <2>1, <2>2, ConcatFacts
<1>3. \A i \in 1..Len(ps) : (IF i = 1 THEN ps[i] ELSE <<s>> \o ps[i]) \in Seq(S)
  BY <1>2
<1>4. Separated(ps, s) = [i \in 1..Len(ps) |-> IF i = 1 THEN ps[i] ELSE <<s>> \o ps[i]]
  BY <1>1 DEF Separated
<1>5. Separated(ps, s) \in Seq(Seq(S))
  BY <1>1, <1>3, <1>4, IsASeq
<1>6. Len(Separated(ps, s)) = Len(ps)
  BY <1>1, <1>4
<1> QED
  BY <1>4, <1>5, <1>6

LEMMA JoinedLaid ==
  ASSUME NEW S, NEW ps \in Seq(Seq(S)), ps # << >>, NEW s \in S
  PROVE  /\ Joined(ps, s) \in Seq(S)
         /\ \E c : Laid(Joined(ps, s), ps, s, c)
<1> DEFINE J == Joined(ps, s)
           seqs == Separated(ps, s)
           m == Len(ps)
<1>1. seqs \in Seq(Seq(S)) /\ Len(seqs) = m
  BY SeparatedType
<1>2. \A i \in 1..m : seqs[i] = IF i = 1 THEN ps[i] ELSE <<s>> \o ps[i]
  BY SeparatedType
<1>3. J = FlattenSeq(seqs)
  BY DEF Joined, Separated
<1>4. m \in Nat /\ m >= 1
  <2>1. m \in Nat /\ (m = 0 => ps = << >>)
    OBVIOUS
  <2> QED
    BY <2>1
<1> HIDE DEF J, seqs
<1>5. PICK f \in [0..Len(seqs) -> Seq(S)] : Walks(seqs, f) /\ J = f[Len(seqs)]
  BY <1>1, <1>3, FlattenWalk
<1> HIDE DEF m
<1>6. \A k \in 0..m : f[k] \in Seq(S) /\ Len(f[k]) \in Nat
  BY <1>1, <1>5, LenProperties
<1>7. J \in Seq(S)
  BY <1>1, <1>4, <1>5, <1>6
<1> DEFINE c == [k \in 0..m |-> IF k = 0 THEN 0 ELSE Len(f[k]) + 1]
<1>8. c[0] = 0 /\ (\A k \in 1..m : c[k] = Len(f[k]) + 1) /\ c \in [0..m -> Nat]
  BY <1>4, <1>6
<1> HIDE DEF c
<1>9. c[m] = Len(J) + 1
  BY <1>1, <1>4, <1>5, <1>8
<1>10. ASSUME NEW k \in 1..m
       PROVE  /\ c[k] = c[k - 1] + Len(ps[k]) + 1 /\ LiesAt(J, c[k - 1], ps[k])
              /\ k # 1 => J[c[k - 1]] = s
  <2>1. ps[k] \in Seq(S) /\ Len(ps[k]) \in Nat
    BY PartType DEF m
  <2>2. k \in 0..m /\ k - 1 \in 0..m /\ (k # 1 => k - 1 \in 1..m)
    BY <1>4
  <2>3. f[k] = f[k - 1] \o seqs[k]
    BY <1>1, <1>5 DEF Walks
  <2>4. LiesAt(J, Len(f[k - 1]), seqs[k])
    BY <1>1, <1>5, WalkLies
  <2>5. CASE k = 1
    <3>1. seqs[k] = ps[k] /\ f[k - 1] = << >> /\ c[k - 1] = 0
      BY <1>2, <1>5, <1>8, <2>5 DEF Walks
    <3>2. f[k] = ps[k]
      BY <2>1, <2>3, <3>1
    <3>3. c[k] = c[k - 1] + Len(ps[k]) + 1
      <4>1. c[k] = Len(ps[k]) + 1
        BY <1>8, <3>2
      <4> QED
        BY <2>1, <3>1, <4>1
    <3>4. LiesAt(J, c[k - 1], ps[k])
      BY <2>4, <3>1
    <3> QED
      BY <2>5, <3>3, <3>4
  <2>6. CASE k # 1
    <3>1. seqs[k] = <<s>> \o ps[k] /\ c[k - 1] = Len(f[k - 1]) + 1
      BY <1>2, <1>8, <2>2, <2>6
    <3>2. <<s>> \in Seq(S) /\ Len(<<s>>) = 1 /\ <<s>>[1] = s
      OBVIOUS
    <3> DEFINE a == Len(f[k - 1])
    <3>3. a \in Nat /\ f[k - 1] \in Seq(S)
      BY <1>6, <2>2
    <3>4. /\ seqs[k] \in Seq(S) /\ Len(seqs[k]) = 1 + Len(ps[k])
          /\ LiesAt(seqs[k], 0, <<s>>) /\ LiesAt(seqs[k], 1, ps[k])
      <4> DEFINE one == <<s>>
                 p == ps[k]
      <4>1. one \in Seq(S) /\ Len(one) = 1 /\ p \in Seq(S)
        BY <2>1, <3>2
      <4> HIDE DEF one, p
      <4>2. one \o p \in Seq(S) /\ Len(one \o p) = Len(one) + Len(p)
        BY <4>1, ConcatFacts
      <4>3. LiesAt(one \o p, 0, one) /\ LiesAt(one \o p, Len(one), p)
        BY <4>1, ConcatLies
      <4>4. seqs[k] = one \o p
        BY <3>1 DEF one, p
      <4> QED
        BY <4>1, <4>2, <4>3, <4>4 DEF one, p
    <3>5. Len(f[k]) = a + Len(seqs[k])
      <4>1. Len(f[k - 1] \o seqs[k]) = Len(f[k - 1]) + Len(seqs[k])
        BY <3>3, <3>4, ConcatFacts
      <4> QED
        BY <2>3, <4>1
    <3>6. c[k] = c[k - 1] + Len(ps[k]) + 1
      <4>1. c[k] = Len(f[k]) + 1 /\ c[k - 1] = a + 1
        BY <1>8, <3>1
      <4> DEFINE b == Len(ps[k])
                 d == Len(seqs[k])
                 e == Len(f[k])
      <4>2. a \in Nat /\ b \in Nat /\ d = 1 + b /\ e = a + d /\ c[k] = e + 1 /\ c[k - 1] = a + 1
        BY <2>1, <3>3, <3>4, <3>5, <4>1
      <4> HIDE DEF a, b, d, e
      <4>3. c[k] = c[k - 1] + b + 1
        BY <4>2
      <4> QED
        BY <4>3 DEF b
    <3>7. LiesAt(J, a + 1, ps[k])
      BY <1>7, <2>1, <2>4, <3>3, <3>4, LiesTrans
    <3>8. LiesAt(J, a + 0, <<s>>)
      BY <1>7, <2>4, <3>2, <3>3, <3>4, LiesTrans
    <3>9. J[a + 1] = s
      <4>1. J[(a + 0) + 1] = <<s>>[1]
        BY <3>2, <3>8 DEF LiesAt
      <4> QED
        BY <3>2, <3>3, <4>1
    <3> QED
      BY <3>1, <3>6, <3>7, <3>9
  <2> QED
    BY <2>5, <2>6
<1>11. ASSUME NEW k \in 1..(m - 1) PROVE J[c[k]] = s
  <2>1. k + 1 \in 1..m /\ k + 1 # 1 /\ (k + 1) - 1 = k
    BY <1>4
  <2> QED
    BY <1>10, <2>1
<1>12. Laid(J, ps, s, c)
  BY <1>8, <1>9, <1>10, <1>11 DEF Laid, m
<1> QED
  BY <1>7, <1>12 DEF J

LEMMA LaidStep ==
  ASSUME NEW S, NEW text, NEW ps \in Seq(Seq(S)), NEW s, NEW c, Laid(text, ps, s, c),
         NEW k \in 1..Len(ps)
  PROVE  /\ Len(ps) \in Nat /\ k - 1 \in 0..Len(ps) /\ k \in 0..Len(ps)
         /\ c[k] \in Nat /\ c[k - 1] \in Nat /\ Len(ps[k]) \in Nat
         /\ c[k] = c[k - 1] + Len(ps[k]) + 1
<1>1. Len(ps) \in Nat /\ k - 1 \in 0..Len(ps) /\ k \in 0..Len(ps)
  OBVIOUS
<1>2. Len(ps[k]) \in Nat
  BY PartType
<1> QED
  BY <1>1, <1>2 DEF Laid

LEMMA LaidIncreasing ==
  ASSUME NEW S, NEW text, NEW ps \in Seq(Seq(S)), NEW s, NEW c, Laid(text, ps, s, c)
  PROVE  Increasing(c, Len(ps))
<1> DEFINE m == Len(ps)
           K == {k \in Nat : k <= m => \A i \in 0..m : i < k => c[i] < c[k]}
<1>0. m \in Nat /\ c \in [0..m -> Nat]
  BY DEF Laid
<1>1. 0 \in K
  OBVIOUS
<1>2. ASSUME NEW k \in K PROVE k + 1 \in K
  <2> SUFFICES ASSUME k + 1 <= m, NEW i \in 0..m, i < k + 1 PROVE c[i] < c[k + 1]
    OBVIOUS
  <2>0. k \in Nat /\ k \in 0..m /\ k + 1 \in 1..m /\ (k + 1) - 1 = k
    BY <1>0
  <2>1. i < k => c[i] < c[k]
    BY <2>0
  <2> HIDE DEF K
  <2>2. c[k] < c[k + 1]
    <3> DEFINE p == k + 1
    <3>1. p \in 1..m /\ p - 1 = k
      BY <2>0
    <3> HIDE DEF p
    <3>2. c[p] \in Nat /\ c[p - 1] \in Nat /\ Len(ps[p]) \in Nat /\ c[p] = c[p - 1] + Len(ps[p]) + 1
      BY <3>1, LaidStep
    <3>3. c[p - 1] < c[p]
      BY <3>2
    <3> QED
      BY <3>1, <3>3 DEF p
  <2>3. i = k \/ i < k
    BY <2>0
  <2>4. c[i] \in Nat /\ c[k] \in Nat /\ c[k + 1] \in Nat
    <3>1. i \in 0..m /\ k \in 0..m /\ k + 1 \in 0..m
      BY <1>0, <2>0
    <3> QED
      BY <1>0, <3>1
  <2> QED
    BY <2>1, <2>2, <2>3, <2>4
<1> HIDE DEF K
<1>3. K = Nat
  <2>1. K \in SUBSET Nat
    BY DEF K
  <2> QED
    BY <1>1, <1>2, <2>1, SetInduction
<1>4. ASSUME NEW i \in 0..m, NEW j \in 0..m, i < j PROVE c[i] < c[j]
  <2>1. j \in K /\ j <= m
    BY <1>0, <1>3
  <2> QED
    BY <1>4, <2>1 DEF K
<1> QED
  BY <1>0, <1>4 DEF Increasing

Marks(ps, c) == {c[k] : k \in 1..(Len(ps) - 1)}

LEMMA LaidPieces ==
  ASSUME NEW S, NEW text \in Seq(S), NEW ps \in Seq(Seq(S)), ps # << >>, NEW s, NEW c,
         Laid(text, ps, s, c)
  PROVE  Pieces(text, Marks(ps, c)) = ps
<1> DEFINE m == Len(ps)
           places == {c[k] : k \in 1..(m - 1)}
<1>0. m \in Nat /\ m >= 1
  <2>1. m \in Nat /\ (m = 0 => ps = << >>)
    OBVIOUS
  <2> QED
    BY <2>1
<1>1. Increasing(c, m)
  BY LaidIncreasing
<1>2. {0, Len(text) + 1} \cup places = Image(c, m)
  <2>1. \A i : i \in 0..m <=> i = 0 \/ i = m \/ i \in 1..(m - 1)
    BY <1>0
  <2>2. c[0] = 0 /\ c[m] = Len(text) + 1
    BY DEF Laid
  <2> HIDE DEF m
  <2> QED
    BY <2>1, <2>2 DEF Image
<1>3. Pieces(text, places) = [n \in 1..m |-> SubSeq(text, c[n - 1] + 1, c[n] - 1)]
  <2> HIDE DEF places, m
  <2> QED
    BY <1>0, <1>1, <1>2, PiecesAt
<1>4. ASSUME NEW n \in 1..m PROVE SubSeq(text, c[n - 1] + 1, c[n] - 1) = ps[n]
  <2>1. c[n] \in Nat /\ c[n - 1] \in Nat /\ Len(ps[n]) \in Nat /\ c[n] = c[n - 1] + Len(ps[n]) + 1
    BY LaidStep
  <2>2. c[n] - 1 = c[n - 1] + Len(ps[n])
    BY <2>1
  <2>3. ps[n] \in Seq(S) /\ LiesAt(text, c[n - 1], ps[n])
    BY PartType DEF Laid
  <2>4. SubSeq(text, c[n - 1] + 1, c[n - 1] + Len(ps[n])) = ps[n]
    BY <2>1, <2>3, LiesSub
  <2> QED
    BY <2>2, <2>4
<1>5. ps = [n \in 1..m |-> ps[n]]
  OBVIOUS
<1> HIDE DEF m, places
<1>6. Pieces(text, places) = ps
  BY <1>3, <1>4, <1>5, Zenon
<1> QED
  BY <1>6 DEF m, places, Marks

(* Every place of such a text is a separator or belongs to a part. *)
InLaid(ps, c, x) ==
  \/ \E k \in 1..(Len(ps) - 1) : x = c[k]
  \/ \E k \in 1..Len(ps) : \E j \in 1..Len(ps[k]) : x = c[k - 1] + j

LEMMA LaidCovers ==
  ASSUME NEW S, NEW text \in Seq(S), NEW ps \in Seq(Seq(S)), ps # << >>, NEW s, NEW c,
         Laid(text, ps, s, c), NEW x \in 1..Len(text)
  PROVE  InLaid(ps, c, x)
<1> DEFINE m == Len(ps)
           K == {k \in Nat : k <= m => \A y \in 1..(c[k] - 1) : InLaid(ps, c, y)}
<1>0. m \in Nat /\ m >= 1 /\ c \in [0..m -> Nat] /\ c[0] = 0 /\ c[m] = Len(text) + 1
  <2>1. m \in Nat /\ (m = 0 => ps = << >>)
    OBVIOUS
  <2> QED
    BY <2>1 DEF Laid
<1>1. 0 \in K
  BY <1>0
<1>2. ASSUME NEW k \in K PROVE k + 1 \in K
  <2> SUFFICES ASSUME k + 1 <= m, NEW y \in 1..(c[k + 1] - 1) PROVE InLaid(ps, c, y)
    OBVIOUS
  <2>0. k \in Nat /\ k \in 0..m /\ k + 1 \in 1..m /\ (k + 1) - 1 = k
    BY <1>0
  <2>1. \A z \in 1..(c[k] - 1) : InLaid(ps, c, z)
    BY <2>0
  <2> HIDE DEF K
  <2> DEFINE p == k + 1
  <2>2. p \in 1..m /\ p - 1 = k
    BY <2>0
  <2>3. y \in 1..(c[p] - 1)
    OBVIOUS
  <2> HIDE DEF p
  <2>4. c[p] \in Nat /\ c[p - 1] \in Nat /\ Len(ps[p]) \in Nat /\ c[p] = c[p - 1] + Len(ps[p]) + 1
    BY <2>2, LaidStep
  <2>5. CASE y \in 1..(c[p - 1] - 1)
    BY <2>1, <2>2, <2>5
  <2>6. CASE y = c[p - 1]
    <3>1. p - 1 # 0
      BY <1>0, <2>3, <2>6
    <3>2. p - 1 \in 1..(m - 1)
      BY <1>0, <2>2, <3>1
    <3> QED
      BY <2>6, <3>2 DEF InLaid
  <2>7. CASE y > c[p - 1]
    <3> DEFINE a == c[p - 1]
               b == Len(ps[p])
    <3>0. a \in Nat /\ b \in Nat /\ y \in Nat /\ y > a /\ y <= a + b
      BY <2>3, <2>4, <2>7
    <3> HIDE DEF a, b
    <3>1. y - a \in 1..b /\ y = a + (y - a)
      BY <3>0
    <3> QED
      BY <2>2, <3>1 DEF InLaid, a, b
  <2> QED
    BY <2>3, <2>4, <2>5, <2>6, <2>7
<1> HIDE DEF K
<1>3. K = Nat
  <2>1. K \in SUBSET Nat
    BY DEF K
  <2> QED
    BY <1>1, <1>2, <2>1, SetInduction
<1>4. m \in K /\ x \in 1..(c[m] - 1)
  <2>1. Len(text) \in Nat
    OBVIOUS
  <2> QED
    BY <1>0, <1>3, <2>1
<1> QED
  BY <1>0, <1>4 DEF K

(* A separator between the parts is a place of the text. *)
LEMMA LaidInside ==
  ASSUME NEW S, NEW text \in Seq(S), NEW ps \in Seq(Seq(S)), NEW s, NEW c,
         Laid(text, ps, s, c), NEW k \in 1..(Len(ps) - 1)
  PROVE  c[k] \in 1..Len(text) /\ text[c[k]] = s
<1> DEFINE m == Len(ps)
<1>0. m \in Nat /\ k \in 0..m /\ m \in 0..m /\ 0 \in 0..m /\ 0 < k /\ k < m /\ Len(text) \in Nat
  OBVIOUS
<1>1. Increasing(c, m)
  BY LaidIncreasing
<1>2. c[k] \in Nat /\ c[0] < c[k] /\ c[k] < c[m]
  BY <1>0, <1>1 DEF Increasing
<1>3. c[0] = 0 /\ c[m] = Len(text) + 1 /\ text[c[k]] = s
  BY DEF Laid
<1> QED
  BY <1>0, <1>2, <1>3

LEMMA LaidSplit ==
  ASSUME NEW S, NEW text \in Seq(S), NEW ps \in Seq(Seq(S)), ps # << >>, NEW s, NEW c,
         Laid(text, ps, s, c),
         \A k \in 1..Len(ps) : \A j \in 1..Len(ps[k]) : ps[k][j] # s
  PROVE  Split(text, s) = ps
<1>1. DOMAIN text = 1..Len(text)
  OBVIOUS
<1>2. ASSUME NEW x \in 1..Len(text)
      PROVE  text[x] = s <=> \E k \in 1..(Len(ps) - 1) : x = c[k]
  <2>1. ASSUME NEW k \in 1..(Len(ps) - 1), x = c[k] PROVE text[x] = s
    BY <2>1, LaidInside
  <2>2. ASSUME NEW k \in 1..Len(ps), NEW j \in 1..Len(ps[k]), x = c[k - 1] + j
        PROVE  text[x] # s
    <3>1. LiesAt(text, c[k - 1], ps[k])
      BY DEF Laid
    <3>2. text[c[k - 1] + j] = ps[k][j]
      BY <3>1 DEF LiesAt
    <3> QED
      BY <2>2, <3>2
  <2>3. InLaid(ps, c, x)
    BY LaidCovers
  <2> QED
    BY <2>1, <2>2, <2>3 DEF InLaid
<1>3. ASSUME NEW k \in 1..(Len(ps) - 1) PROVE c[k] \in 1..Len(text)
  BY LaidInside
<1> DEFINE D == {i \in DOMAIN text : text[i] = s}
           E == Marks(ps, c)
<1>4. D = E
  <2>1. \A x : x \in D <=> x \in 1..Len(text) /\ text[x] = s
    BY <1>1
  <2>2. \A x : x \in E <=> \E k \in 1..(Len(ps) - 1) : x = c[k]
    BY DEF Marks
  <2>3. ASSUME NEW x \in D PROVE x \in E
    BY <1>2, <2>1, <2>2
  <2>4. ASSUME NEW x \in E PROVE x \in D
    <3>1. PICK k \in 1..(Len(ps) - 1) : x = c[k]
      BY <2>2
    <3>2. x \in 1..Len(text)
      BY <1>3, <3>1
    <3> QED
      BY <1>2, <2>1, <3>1, <3>2
  <2> QED
    BY <2>3, <2>4
<1>5. Pieces(text, E) = ps
  BY LaidPieces
<1>6. Split(text, s) = Pieces(text, D)
  BY DEF Split
<1> HIDE DEF D, E
<1> QED
  BY <1>4, <1>5, <1>6

(* Split takes Joined apart. *)
LEMMA SplitJoined ==
  ASSUME NEW S, NEW ps \in Seq(Seq(S)), ps # << >>, NEW s \in S,
         \A k \in 1..Len(ps) : \A j \in 1..Len(ps[k]) : ps[k][j] # s
  PROVE  Joined(ps, s) \in Seq(S) /\ Split(Joined(ps, s), s) = ps
<1>1. PICK c : Laid(Joined(ps, s), ps, s, c)
  BY JoinedLaid
<1>2. Joined(ps, s) \in Seq(S)
  BY JoinedLaid
<1> QED
  BY <1>1, <1>2, LaidSplit

-----------------------------------------------------------------------------
(* Escapes. *)

Escapes == {Code[c] : c \in Special}
Names == {"$select", "$filter", "$top", "$skip", "$skiptoken", "$count", "$inlinecount",
          "$search", "search", "$format"}
Written == Symbols \cup Escapes \cup Names

EncodedSymbol(x, escaped) == IF x \in escaped THEN Escape(x) ELSE x
DecodedSymbol(x) ==
  IF \E c \in Special : Escape(c) = x THEN CHOOSE c \in Special : Escape(c) = x ELSE x

LEMMA SymbolDecoded ==
  ASSUME NEW x \in Symbols, NEW escaped \in SUBSET Special
  PROVE  /\ EncodedSymbol(x, escaped) \in Symbols \cup Escapes
         /\ EncodedSymbol(x, escaped) \notin escaped
         /\ DecodedSymbol(EncodedSymbol(x, escaped)) = x
<1>1. CASE x \in escaped
  <2>1. EncodedSymbol(x, escaped) = Code[x] /\ x \in Special
    BY <1>1 DEF EncodedSymbol, Escape
  <2>2. Code[x] \in Escapes /\ Code[x] \notin Symbols
    BY <2>1, EncodingAssumption DEF Escapes
  <2>3. escaped \subseteq Symbols
    BY EncodingAssumption
  <2>4. \A c \in Special : Escape(c) = Code[x] <=> c = x
    BY <2>1, EncodingAssumption DEF Escape
  <2>5. DecodedSymbol(Code[x]) = x
    BY <2>1, <2>4 DEF DecodedSymbol
  <2> QED
    BY <2>1, <2>2, <2>3, <2>5
<1>2. CASE x \notin escaped
  <2>1. EncodedSymbol(x, escaped) = x
    BY <1>2 DEF EncodedSymbol
  <2>2. \A c \in Special : Escape(c) # x
    BY EncodingAssumption DEF Escape
  <2>3. DecodedSymbol(x) = x
    BY <2>2 DEF DecodedSymbol
  <2> QED
    BY <1>2, <2>1, <2>3
<1> QED
  BY <1>1, <1>2

(* What is written holds none of the symbols it escapes, and is read again.  *)
LEMMA EncWritten ==
  ASSUME NEW text \in Seq(Symbols), NEW escaped \in SUBSET Special
  PROVE  /\ Enc(text, escaped) \in Seq(Written)
         /\ \A i \in 1..Len(Enc(text, escaped)) : Enc(text, escaped)[i] \notin escaped
<1> DEFINE e == Enc(text, escaped)
<1>1. Len(text) \in Nat /\ DOMAIN text = 1..Len(text)
  OBVIOUS
<1>2. e = [i \in 1..Len(text) |-> EncodedSymbol(text[i], escaped)]
  BY <1>1 DEF Enc, EncodedSymbol
<1>3. \A i \in 1..Len(text) : text[i] \in Symbols
  OBVIOUS
<1> HIDE DEF e
<1>4. \A i \in 1..Len(text) : e[i] = EncodedSymbol(text[i], escaped)
  BY <1>2
<1>5. \A i \in 1..Len(text) : EncodedSymbol(text[i], escaped) \in Written
  BY <1>3, SymbolDecoded DEF Written
<1>6. e \in Seq(Written)
  BY <1>1, <1>2, <1>5, IsASeq
<1>7. Len(e) = Len(text)
  BY <1>1, <1>2
<1>8. \A i \in 1..Len(e) : e[i] \notin escaped
  BY <1>3, <1>4, <1>7, SymbolDecoded
<1> QED
  BY <1>6, <1>8 DEF e

LEMMA DecodedEnc ==
  ASSUME NEW text \in Seq(Symbols), NEW escaped \in SUBSET Special
  PROVE  Decoded(Enc(text, escaped)) = text
<1> DEFINE e == Enc(text, escaped)
<1>1. Len(text) \in Nat /\ DOMAIN text = 1..Len(text) /\ text = [i \in 1..Len(text) |-> text[i]]
  OBVIOUS
<1>2. e = [i \in 1..Len(text) |-> EncodedSymbol(text[i], escaped)]
  BY <1>1 DEF Enc, EncodedSymbol
<1>3. Decoded(e) = [i \in DOMAIN e |-> DecodedSymbol(e[i])]
  BY DEF Decoded, DecodedSymbol
<1> HIDE DEF e
<1>4. DOMAIN e = 1..Len(text) /\ \A i \in 1..Len(text) : e[i] = EncodedSymbol(text[i], escaped)
  BY <1>2
<1>5. \A i \in 1..Len(text) : text[i] \in Symbols
  OBVIOUS
<1>6. \A i \in 1..Len(text) : DecodedSymbol(e[i]) = text[i]
  BY <1>4, <1>5, SymbolDecoded
<1>7. Decoded(e) = text
  BY <1>1, <1>3, <1>4, <1>6, Zenon
<1> QED
  BY <1>7 DEF e

-----------------------------------------------------------------------------
(* What is before a symbol and what is behind it. *)

Without(text, symbol) == \A i \in 1..Len(text) : text[i] # symbol

LEMMA FirstNone ==
  ASSUME NEW S, NEW text \in Seq(S), NEW s, Without(text, s)
  PROVE  First(text, s) = 0 /\ Before(text, s) = text /\ After(text, s) = << >>
<1>1. First(text, s) = 0
  BY DEF First, SelectInSeq, Without
<1> QED
  BY <1>1 DEF Before, After

LEMMA FirstAt ==
  ASSUME NEW S, NEW a \in Seq(S), NEW s \in S, NEW b \in Seq(S), Without(a, s)
  PROVE  /\ First(a \o <<s>> \o b, s) # 0
         /\ Before(a \o <<s>> \o b, s) = a
         /\ After(a \o <<s>> \o b, s) = b
<1> DEFINE t == a \o <<s>> \o b
           n == Len(a)
           D == {i \in 1..Len(t) : t[i] = s}
<1>1. n \in Nat /\ Len(b) \in Nat /\ <<s>> \in Seq(S) /\ Len(<<s>>) = 1 /\ <<s>>[1] = s
  OBVIOUS
<1>2. a \o <<s>> \in Seq(S) /\ Len(a \o <<s>>) = n + 1
  BY <1>1, ConcatFacts
<1>3. t \in Seq(S) /\ Len(t) = (n + 1) + Len(b)
  BY <1>2, ConcatFacts
<1>4. LiesAt(t, 0, a \o <<s>>) /\ LiesAt(t, n + 1, b)
  BY <1>2, ConcatLies
<1>5. LiesAt(a \o <<s>>, 0, a) /\ LiesAt(a \o <<s>>, n, <<s>>)
  BY <1>1, ConcatLies
<1>6. LiesAt(t, 0, a) /\ t[n + 1] = s
  <2>1. LiesAt(t, 0 + 0, a) /\ LiesAt(t, 0 + n, <<s>>)
    BY <1>1, <1>2, <1>3, <1>4, <1>5, LiesTrans
  <2>2. t[(0 + n) + 1] = <<s>>[1]
    BY <1>1, <2>1 DEF LiesAt
  <2> QED
    BY <1>1, <2>1, <2>2
<1> HIDE DEF t
<1>7. n + 1 \in D /\ \A i \in D : n + 1 <= i
  <2>1. n + 1 \in 1..Len(t)
    BY <1>1, <1>3
  <2>2. ASSUME NEW i \in 1..n PROVE t[i] # s
    <3>1. t[0 + i] = a[i] /\ 0 + i = i
      BY <1>6 DEF LiesAt
    <3> QED
      BY <3>1 DEF Without
  <2>3. ASSUME NEW i \in D PROVE n + 1 <= i
    <3>1. i \in 1..Len(t) /\ i \notin 1..n
      BY <2>2
    <3> QED
      BY <1>1, <1>3, <3>1
  <2> QED
    BY <1>6, <2>1, <2>3
<1>8. First(t, s) = IF D # {} THEN CHOOSE x \in D : \A y \in D : x <= y ELSE 0
  BY DEF First, SelectInSeq, Min
<1>9. First(t, s) = n + 1
  <2>1. \A x \in D : (\A y \in D : x <= y) => x = n + 1
    <3> SUFFICES ASSUME NEW x \in D, \A y \in D : x <= y PROVE x = n + 1
      OBVIOUS
    <3>1. x \in Int /\ x <= n + 1 /\ n + 1 <= x
      BY <1>7
    <3> QED
      BY <1>1, <3>1
  <2> HIDE DEF D
  <2> QED
    BY <1>7, <1>8, <2>1
<1>10. Before(t, s) = a
  <2>1. Before(t, s) = SubSeq(t, 1, (n + 1) - 1)
    BY <1>1, <1>9 DEF Before
  <2>2. SubSeq(t, 0 + 1, 0 + Len(a)) = a
    BY <1>3, <1>6, LiesSub
  <2> QED
    BY <1>1, <2>1, <2>2
<1>11. After(t, s) = b
  <2>1. After(t, s) = SubSeq(t, (n + 1) + 1, Len(t))
    BY <1>1, <1>9 DEF After
  <2>2. SubSeq(t, (n + 1) + 1, (n + 1) + Len(b)) = b
    BY <1>1, <1>3, <1>4, LiesSub
  <2> QED
    BY <1>3, <2>1, <2>2
<1> QED
  BY <1>1, <1>9, <1>10, <1>11 DEF t

LEMMA WithoutConcat ==
  ASSUME NEW S, NEW a \in Seq(S), NEW b \in Seq(S), NEW s, Without(a, s), Without(b, s)
  PROVE  Without(a \o b, s)
<1>1. Len(a) \in Nat /\ Len(b) \in Nat /\ Len(a \o b) = Len(a) + Len(b)
  OBVIOUS
<1>2. ASSUME NEW i \in 1..Len(a \o b) PROVE (a \o b)[i] # s
  <2>1. CASE i <= Len(a)
    <3>1. i \in 1..Len(a)
      BY <1>1, <2>1
    <3> QED
      BY <3>1, ConcatFacts DEF Without
  <2>2. CASE i > Len(a)
    <3>1. i - Len(a) \in 1..Len(b) /\ Len(a) + (i - Len(a)) = i
      BY <1>1, <2>2
    <3>2. (a \o b)[Len(a) + (i - Len(a))] = b[i - Len(a)]
      BY <3>1, ConcatFacts
    <3> QED
      BY <3>1, <3>2 DEF Without
  <2> QED
    BY <1>1, <2>1, <2>2
<1> QED
  BY <1>2 DEF Without

-----------------------------------------------------------------------------
(* Options, and the parameters of a URL. *)

Texts == Seq(Symbols)

LEMMA OptionSeq ==
  /\ SetToSeq({}) = << >>
  /\ \A x : SetToSeq({x}) = <<x>>
<1>1. SetToSeq({}) = << >>
  <2>1. Cardinality({}) = 0
    BY FS_EmptySet
  <2>2. [1..0 -> {}] = {<< >>}
    <3>1. 1..0 = {}
      OBVIOUS
    <3>2. \A f \in [1..0 -> {}] : f = << >>
      BY <3>1
    <3>3. << >> \in [1..0 -> {}]
      BY <3>1
    <3> QED
      BY <3>2, <3>3, Zenon
  <2>3. IsInjective(<< >>)
    BY DEF IsInjective
  <2>4. SetToSeq({}) = CHOOSE f \in {<< >>} : IsInjective(f)
    BY <2>1, <2>2 DEF SetToSeq
  <2> QED
    BY <2>3, <2>4
<1>2. ASSUME NEW x PROVE SetToSeq({x}) = <<x>>
  <2>1. Cardinality({x}) = 1
    BY FS_Singleton
  <2>2. \A f : f \in [1..1 -> {x}] <=> f = <<x>>
    OBVIOUS
  <2>3. IsInjective(<<x>>)
    BY DEF IsInjective
  <2>4. SetToSeq({x}) = CHOOSE f \in [1..1 -> {x}] : IsInjective(f)
    BY <2>1 DEF SetToSeq
  <2> QED
    BY <2>2, <2>3, <2>4
<1> QED
  BY <1>1, <1>2

LEMMA FlattenOption ==
  /\ FlattenSeq(<< >>) = << >>
  /\ \A S : \A t \in Seq(S) : FlattenSeq(<<t>>) = t
<1>1. FlattenSeq(<< >>) = << >>
  BY DEF FlattenSeq
<1>2. ASSUME NEW S, NEW t \in Seq(S) PROVE FlattenSeq(<<t>>) = t
  <2> DEFINE ts == <<t>>
  <2>1. ts \in Seq(Seq(S)) /\ Len(ts) = 1 /\ ts[1] = t
    OBVIOUS
  <2> HIDE DEF ts
  <2>2. PICK f \in [0..Len(ts) -> Seq(S)] : Walks(ts, f) /\ FlattenSeq(ts) = f[Len(ts)]
    BY <2>1, FlattenWalk
  <2>3. f[0] = << >> /\ f[1] = f[0] \o ts[1]
    <3>1. f[1] = f[1 - 1] \o ts[1]
      BY <2>1, <2>2 DEF Walks
    <3>2. 1 - 1 = 0
      OBVIOUS
    <3> QED
      BY <2>2, <3>1, <3>2 DEF Walks
  <2>4. FlattenSeq(ts) = << >> \o t
    BY <2>1, <2>2, <2>3
  <2> QED
    BY <2>4 DEF ts
<1> QED
  BY <1>1, <1>2

LEMMA ToSetConcat ==
  ASSUME NEW S, NEW a \in Seq(S), NEW b \in Seq(S)
  PROVE  a \o b \in Seq(S) /\ ToSet(a \o b) = ToSet(a) \cup ToSet(b)
<1>1. /\ Len(a) \in Nat /\ Len(b) \in Nat /\ Len(a \o b) = Len(a) + Len(b)
      /\ DOMAIN a = 1..Len(a) /\ DOMAIN b = 1..Len(b) /\ DOMAIN (a \o b) = 1..Len(a \o b)
  OBVIOUS
<1>2. ASSUME NEW x \in ToSet(a \o b) PROVE x \in ToSet(a) \cup ToSet(b)
  <2>1. PICK i \in 1..Len(a \o b) : x = (a \o b)[i]
    BY <1>1 DEF ToSet
  <2>2. CASE i <= Len(a)
    <3>1. i \in 1..Len(a)
      BY <1>1, <2>2
    <3> QED
      BY <1>1, <2>1, <3>1, ConcatFacts DEF ToSet
  <2>3. CASE i > Len(a)
    <3>1. i - Len(a) \in 1..Len(b) /\ Len(a) + (i - Len(a)) = i
      BY <1>1, <2>3
    <3>2. (a \o b)[Len(a) + (i - Len(a))] = b[i - Len(a)]
      BY <3>1, ConcatFacts
    <3> QED
      BY <1>1, <2>1, <3>1, <3>2 DEF ToSet
  <2> QED
    BY <1>1, <2>2, <2>3
<1>3. ASSUME NEW x \in ToSet(a) PROVE x \in ToSet(a \o b)
  <2>1. PICK i \in 1..Len(a) : x = a[i]
    BY <1>1 DEF ToSet
  <2>2. i \in 1..Len(a \o b) /\ (a \o b)[i] = a[i]
    BY <1>1, ConcatFacts
  <2> QED
    BY <1>1, <2>1, <2>2 DEF ToSet
<1>4. ASSUME NEW x \in ToSet(b) PROVE x \in ToSet(a \o b)
  <2>1. PICK i \in 1..Len(b) : x = b[i]
    BY <1>1 DEF ToSet
  <2>2. Len(a) + i \in 1..Len(a \o b) /\ (a \o b)[Len(a) + i] = b[i]
    BY <1>1, ConcatFacts
  <2> QED
    BY <1>1, <2>1, <2>2 DEF ToSet
<1> QED
  BY <1>2, <1>3, <1>4, ConcatFacts

WrittenParam(name, value) == <<name, "=">> \o Enc(value, COMPONENT)

LEMMA SpecialSets ==
  /\ COMPONENT \in SUBSET Special /\ KEY_PATH \in SUBSET Special
  /\ {"&", "#", "=", "/", ",", "?"} \subseteq COMPONENT
  /\ {"&", "#", "/", "?", "(", ")"} \subseteq KEY_PATH
  /\ Special \subseteq Symbols /\ Words \subseteq Symbols
  /\ Symbols \subseteq Written /\ Names \subseteq Written
<1>1. COMPONENT \in SUBSET Special /\ KEY_PATH \in SUBSET Special
  BY DEF COMPONENT, KEY_PATH
<1>2. {"&", "#", "=", "/", ",", "?"} \subseteq COMPONENT
  BY DEF COMPONENT, Special
<1>3. {"&", "#", "/", "?", "(", ")"} \subseteq KEY_PATH
  BY DEF KEY_PATH, Special
<1> QED
  BY <1>1, <1>2, <1>3, EncodingAssumption DEF Written

LEMMA EncWithout ==
  ASSUME NEW v \in Texts, NEW escaped \in SUBSET Special, NEW s \in escaped
  PROVE  Enc(v, escaped) \in Seq(Written) /\ Without(Enc(v, escaped), s)
BY EncWritten DEF Texts, Without

LEMMA ParamRead ==
  ASSUME NEW name \in Names, NEW v \in Texts
  PROVE  /\ WrittenParam(name, v) \in Seq(Written)
         /\ Without(WrittenParam(name, v), "&") /\ Without(WrittenParam(name, v), "#")
         /\ Before(WrittenParam(name, v), "=") = <<name>>
         /\ Decoded(After(WrittenParam(name, v), "=")) = v
<1> DEFINE e == Enc(v, COMPONENT)
           p == WrittenParam(name, v)
<1>1. e \in Seq(Written) /\ Without(e, "&") /\ Without(e, "#")
  BY SpecialSets, EncWithout
<1>2. Decoded(e) = v
  BY SpecialSets, DecodedEnc DEF Texts
<1>3. p = <<name, "=">> \o e
  BY DEF WrittenParam
<1>4. name \in Written /\ "=" \in Written
  BY SpecialSets
<1> HIDE DEF e, p
<1>5. <<name, "=">> \in Seq(Written) /\ <<name>> \in Seq(Written)
  BY <1>4
<1>6. Without(<<name, "=">>, "&") /\ Without(<<name, "=">>, "#") /\ Without(<<name>>, "=")
  BY DEF Without, Names
<1>7. p \in Seq(Written) /\ Without(p, "&") /\ Without(p, "#")
  BY <1>1, <1>3, <1>5, <1>6, WithoutConcat, ConcatFacts
<1>8. p = <<name>> \o <<"=">> \o e
  <2>1. <<name, "=">> = <<name>> \o <<"=">>
    OBVIOUS
  <2> QED
    BY <1>3, <2>1
<1>9. Before(p, "=") = <<name>> /\ After(p, "=") = e
  <2> DEFINE n == <<name>>
  <2>1. n \in Seq(Written) /\ Without(n, "=") /\ p = n \o <<"=">> \o e
    BY <1>5, <1>6, <1>8
  <2> HIDE DEF n
  <2>2. Before(p, "=") = n /\ After(p, "=") = e
    BY <1>1, <1>4, <2>1, FirstAt
  <2> QED
    BY <2>2 DEF n
<1> QED
  BY <1>2, <1>7, <1>9 DEF p

(* The values that a query gives a name. *)
Given(q, name) ==
  CASE name = "$select" -> IF q.select = << >> THEN {} ELSE {Joined(q.select, ",")}
    [] name = "$filter" -> q.filter
    [] name = "$top" -> q.top
    [] name = "$skip" -> q.skip
    [] name = "$skiptoken" -> q.skiptoken
    [] name = "$count" -> IF q.count /\ q.version = "V4" THEN {<<"true">>} ELSE {}
    [] name = "$inlinecount" -> IF q.count /\ q.version # "V4" THEN {<<"allpages">>} ELSE {}
    [] name = "$search" -> IF q.version = "V4" THEN {<<"\"">> \o Phrase(t) \o <<"\"">> : t \in q.search} ELSE {}
    [] name = "search" -> IF q.version = "V4" THEN {} ELSE q.search
    [] name = "$format" -> {<<"json">>}

WellFormed(q) ==
  /\ q.set = <<"Set">>
  /\ q.key \in Optional(Texts) /\ q.navigation \in Optional(Texts)
  /\ q.select \in Seq(Texts)
  /\ q.filter \in Optional(Texts) /\ q.search \in Optional(Texts)
  /\ q.top \in Optional(Texts) /\ q.skip \in Optional(Texts) /\ q.skiptoken \in Optional(Texts)
  /\ q.count \in BOOLEAN

ParamsOf(name, values) == {WrittenParam(name, v) : v \in values}

LEMMA ParamIs ==
  ASSUME NEW name \in Names, NEW values \in Optional(Texts)
  PROVE  Param(name, values) \in Seq(Seq(Written)) /\ ToSet(Param(name, values)) = ParamsOf(name, values)
<1>1. Param(name, values) = SetToSeq(ParamsOf(name, values))
  BY DEF Param, ParamsOf, WrittenParam
<1>2. CASE values = {}
  <2>1. ParamsOf(name, values) = {}
    BY <1>2 DEF ParamsOf
  <2>2. Param(name, values) = << >>
    BY <1>1, <2>1, OptionSeq
  <2> QED
    BY <2>1, <2>2 DEF ToSet
<1>3. CASE \E v \in Texts : values = {v}
  <2>1. PICK v \in Texts : values = {v}
    BY <1>3
  <2> DEFINE p == WrittenParam(name, v)
  <2>2. p \in Seq(Written)
    BY ParamRead
  <2> HIDE DEF p
  <2>3. ParamsOf(name, values) = {p}
    BY <2>1 DEF ParamsOf, p
  <2>4. Param(name, values) = <<p>>
    BY <1>1, <2>3, OptionSeq
  <2>5. <<p>> \in Seq(Seq(Written)) /\ ToSet(<<p>>) = {p}
    BY <2>2 DEF ToSet
  <2> QED
    BY <2>3, <2>4, <2>5
<1> QED
  BY <1>2, <1>3 DEF Optional

LEMMA ConcatOfTwo ==
  ASSUME NEW S, NEW a \in Seq(S), NEW b \in Seq(S), NEW P, NEW Q, ToSet(a) = P, ToSet(b) = Q
  PROVE  a \o b \in Seq(S) /\ ToSet(a \o b) = P \cup Q
BY ToSetConcat

(* The parameters of a URL are its names with their values. *)
Pairs(q) ==
  ParamsOf("$select", Given(q, "$select")) \cup ParamsOf("$filter", Given(q, "$filter"))
  \cup ParamsOf("$top", Given(q, "$top")) \cup ParamsOf("$skip", Given(q, "$skip"))
  \cup ParamsOf("$skiptoken", Given(q, "$skiptoken"))
  \cup (ParamsOf("$count", Given(q, "$count")) \cup ParamsOf("$inlinecount", Given(q, "$inlinecount")))
  \cup (ParamsOf("$search", Given(q, "$search")) \cup ParamsOf("search", Given(q, "search")))
  \cup ParamsOf("$format", Given(q, "$format"))

LEMMA TrimmedCut ==
  ASSUME NEW x \in Texts, NEW s
  PROVE  \/ Trimmed(x, s) = << >>
         \/ \E low, high \in 1..Len(x) : Trimmed(x, s) = SubSeq(x, low, high)
<1> DEFINE kept == {i \in DOMAIN x : x[i] # s}
           low == CHOOSE i \in kept : \A j \in kept : i <= j
           high == CHOOSE i \in kept : \A j \in kept : i >= j
<1>1. DOMAIN x = 1..Len(x) /\ Len(x) \in Nat
  BY DEF Texts
<1>2. CASE kept = {}
  BY <1>2 DEF Trimmed
<1>3. CASE kept # {}
  <2>1. Trimmed(x, s) = SubSeq(x, low, high)
    BY <1>3 DEF Trimmed
  <2>2. kept \in SUBSET (1..Len(x)) /\ kept \in SUBSET Nat
    BY <1>1
  <2>3. low \in kept
    <3>1. \E i \in kept : \A j \in kept : i <= j
      BY <1>3, <2>2, HasLeast
    <3> QED
      BY <3>1
  <2>4. high \in kept
    <3>1. PICK i \in kept : \A j \in kept : j <= i
      BY <1>1, <1>3, <2>2, HasLast
    <3>2. \A j \in kept : i >= j
      BY <2>2, <3>1
    <3>3. \E k \in kept : \A j \in kept : k >= j
      BY <3>2
    <3> QED
      BY <3>3
  <2> HIDE DEF kept, low, high
  <2> QED
    BY <2>1, <2>2, <2>3, <2>4
<1> QED
  BY <1>2, <1>3

LEMMA TrimmedType ==
  ASSUME NEW x \in Texts, NEW s
  PROVE  Trimmed(x, s) \in Texts
<1>1. CASE Trimmed(x, s) = << >>
  BY <1>1 DEF Texts
<1>2. CASE Trimmed(x, s) # << >>
  <2>1. PICK low, high \in 1..Len(x) : Trimmed(x, s) = SubSeq(x, low, high)
    BY <1>2, TrimmedCut
  <2>2. Len(x) \in Nat /\ x \in Seq(Symbols)
    BY DEF Texts
  <2>3. low \in Nat /\ high \in Nat /\ low >= 1 /\ high <= Len(x)
    BY <2>2
  <2>4. SubSeq(x, low, high) \in Seq(Symbols)
    BY <2>2, <2>3, SubOfText
  <2> QED
    BY <2>1, <2>4 DEF Texts
<1> QED
  BY <1>1, <1>2

LEMMA QuotedPhrase ==
  ASSUME NEW t \in Texts
  PROVE  Phrase(t) \in Texts /\ <<"\"">> \o Phrase(t) \o <<"\"">> \in Texts
         /\ Inner(<<"\"">> \o Phrase(t) \o <<"\"">>) = Phrase(t)
<1>2. Phrase(t) \in Texts
  BY TrimmedType DEF Phrase
<1> DEFINE p == Phrase(t)
           quote == <<"\"">>
<1>1. "\"" \in Symbols
  BY EncodingAssumption DEF Special
<1>3. quote \in Seq(Symbols) /\ Len(quote) = 1
  <2>1. \A x \in Symbols : <<x>> \in Seq(Symbols)
    OBVIOUS
  <2>2. Len(quote) = 1
    OBVIOUS
  <2> QED
    BY <1>1, <2>1, <2>2
<1>4. p \in Seq(Symbols) /\ Len(p) \in Nat
  BY <1>2 DEF Texts
<1> HIDE DEF p, quote
<1>5. quote \o p \in Seq(Symbols) /\ Len(quote \o p) = 1 + Len(p)
  <2>1. quote \o p \in Seq(Symbols) /\ Len(quote \o p) = Len(quote) + Len(p)
    BY <1>3, <1>4, ConcatFacts
  <2> QED
    BY <1>3, <2>1
<1>6. quote \o p \o quote \in Seq(Symbols) /\ Len(quote \o p \o quote) = (1 + Len(p)) + 1
  BY <1>3, <1>5, ConcatFacts
<1>7. LiesAt(quote \o p, 1, p) /\ LiesAt(quote \o p \o quote, 0, quote \o p)
  BY <1>3, <1>4, <1>5, ConcatLies
<1>8. LiesAt(quote \o p \o quote, 0 + 1, p)
  BY <1>4, <1>5, <1>6, <1>7, LiesTrans
<1>9. SubSeq(quote \o p \o quote, (0 + 1) + 1, (0 + 1) + Len(p)) = p
  BY <1>4, <1>6, <1>8, LiesSub
<1>10. Inner(quote \o p \o quote) = p
  BY <1>4, <1>6, <1>9 DEF Inner
<1> QED
  BY <1>2, <1>6, <1>10 DEF p, quote, Texts

LEMMA GivenTexts ==
  ASSUME NEW q, WellFormed(q), NEW name \in Names
  PROVE  Given(q, name) \in Optional(Texts)
<1>1. CASE name = "$select"
  <2>1. CASE q.select = << >>
    BY <1>1, <2>1 DEF Given, Optional
  <2>2. CASE q.select # << >>
    <3>1. Joined(q.select, ",") \in Texts
      <4>1. "," \in Symbols /\ q.select \in Seq(Seq(Symbols))
        BY EncodingAssumption DEF Special, WellFormed, Texts
      <4> QED
        BY <2>2, <4>1, JoinedLaid DEF Texts
    <3> QED
      BY <1>1, <2>2, <3>1 DEF Given, Optional
  <2> QED
    BY <2>1, <2>2
<1>2. CASE name \in {"$filter", "$top", "$skip", "$skiptoken"}
  BY <1>2 DEF Given, WellFormed
<1>w. \A w \in Words : <<w>> \in Texts
  <2>1. \A x \in Symbols : <<x>> \in Seq(Symbols)
    OBVIOUS
  <2> QED
    BY <2>1, SpecialSets DEF Texts
<1>3. CASE name \in {"$count", "$inlinecount", "$format"}
  <2>1. {"true", "allpages", "json"} \subseteq Words
    BY DEF Words
  <2>2. \A w \in {"true", "allpages", "json"} : <<w>> \in Texts
    BY <1>w, <2>1
  <2>3. Given(q, name) \in {{}, {<<"true">>}, {<<"allpages">>}, {<<"json">>}}
    BY <1>3 DEF Given
  <2> QED
    BY <2>2, <2>3 DEF Optional
<1>4. CASE name = "$search"
  <2>1. PICK x : q.search = {} \/ (x \in Texts /\ q.search = {x})
    BY DEF WellFormed, Optional
  <2>2. CASE q.search = {}
    BY <1>4, <2>2 DEF Given, Optional
  <2>3. CASE x \in Texts /\ q.search = {x}
    <3> DEFINE t == <<"\"">> \o Phrase(x) \o <<"\"">>
    <3>1. t \in Texts
      BY <2>3, QuotedPhrase
    <3>2. {<<"\"">> \o Phrase(y) \o <<"\"">> : y \in q.search} = {t}
      BY <2>3
    <3> HIDE DEF t
    <3>3. Given(q, name) = {} \/ Given(q, name) = {t}
      BY <1>4, <3>2 DEF Given
    <3> QED
      BY <3>1, <3>3 DEF Optional
  <2> QED
    BY <2>1, <2>2, <2>3
<1>5. CASE name = "search"
  BY <1>5 DEF Given, WellFormed, Optional
<1> QED
  BY <1>1, <1>2, <1>3, <1>4, <1>5 DEF Names

LEMMA ParamOfName ==
  ASSUME NEW q, WellFormed(q), NEW name \in Names
  PROVE  /\ Param(name, Given(q, name)) \in Seq(Seq(Written))
         /\ ToSet(Param(name, Given(q, name))) = ParamsOf(name, Given(q, name))
BY GivenTexts, ParamIs

LEMMA ParamsAre ==
  ASSUME NEW q, WellFormed(q)
  PROVE  Params(q) \in Seq(Seq(Written)) /\ ToSet(Params(q)) = Pairs(q)
<1> DEFINE P(n) == Param(n, Given(q, n))
           O(n) == ParamsOf(n, Given(q, n))
           counted == IF ~q.count THEN << >>
                      ELSE IF q.version = "V4" THEN Param("$count", {<<"true">>})
                                               ELSE Param("$inlinecount", {<<"allpages">>})
           searched == IF q.version = "V4" THEN Param("$search", {<<"\"">> \o Phrase(t) \o <<"\"">> : t \in q.search})
                       ELSE Param("search", q.search)
<1>1. \A n \in Names : P(n) \in Seq(Seq(Written)) /\ ToSet(P(n)) = O(n)
  BY ParamOfName
<1>2. /\ Param("$select", IF q.select = <<>> THEN {} ELSE {Joined(q.select, ",")}) = P("$select")
      /\ Param("$filter", q.filter) = P("$filter")
      /\ Param("$top", q.top) = P("$top") /\ Param("$skip", q.skip) = P("$skip")
      /\ Param("$skiptoken", q.skiptoken) = P("$skiptoken")
      /\ Param("$format", {<<"json">>}) = P("$format")
  BY DEF Given
<1>e. \A n : Given(q, n) = {} => P(n) = << >> /\ O(n) = {}
  BY ParamIs, OptionSeq DEF Param, ParamsOf
<1>3. counted \in Seq(Seq(Written)) /\ ToSet(counted) = O("$count") \cup O("$inlinecount")
  <2>1. CASE ~q.count
    <3>1. Given(q, "$count") = {} /\ Given(q, "$inlinecount") = {}
      BY <2>1 DEF Given
    <3>2. counted = << >>
      BY <2>1
    <3>3. O("$count") = {} /\ O("$inlinecount") = {} /\ P("$count") = << >>
      BY <1>e, <3>1
    <3>4. "$count" \in Names
      BY DEF Names
    <3> HIDE DEF P, O, counted
    <3> QED
      BY <1>1, <3>2, <3>3, <3>4
  <2>2. CASE q.count /\ q.version = "V4"
    <3>1. Given(q, "$count") = {<<"true">>} /\ Given(q, "$inlinecount") = {}
      BY <2>2 DEF Given
    <3>2. counted = P("$count")
      BY <2>2, <3>1
    <3>3. O("$inlinecount") = {}
      BY <1>e, <3>1
    <3>4. "$count" \in Names
      BY DEF Names
    <3> HIDE DEF P, O, counted
    <3> QED
      BY <1>1, <3>2, <3>3, <3>4
  <2>3. CASE q.count /\ q.version # "V4"
    <3>1. Given(q, "$inlinecount") = {<<"allpages">>} /\ Given(q, "$count") = {}
      BY <2>3 DEF Given
    <3>2. counted = P("$inlinecount")
      BY <2>3, <3>1
    <3>3. O("$count") = {}
      BY <1>e, <3>1
    <3>4. "$inlinecount" \in Names
      BY DEF Names
    <3> HIDE DEF P, O, counted
    <3> QED
      BY <1>1, <3>2, <3>3, <3>4
  <2> QED
    BY <2>1, <2>2, <2>3 DEF WellFormed
<1>4. searched \in Seq(Seq(Written)) /\ ToSet(searched) = O("$search") \cup O("search")
  <2>1. CASE q.version = "V4"
    <3>1. Given(q, "$search") = {<<"\"">> \o Phrase(t) \o <<"\"">> : t \in q.search} /\ Given(q, "search") = {}
      BY <2>1 DEF Given
    <3>2. searched = P("$search")
      BY <2>1, <3>1
    <3>3. O("search") = {}
      BY <1>e, <3>1
    <3>4. "$search" \in Names
      BY DEF Names
    <3> HIDE DEF P, O, searched
    <3> QED
      BY <1>1, <3>2, <3>3, <3>4
  <2>2. CASE q.version # "V4"
    <3>1. Given(q, "search") = q.search /\ Given(q, "$search") = {}
      BY <2>2 DEF Given
    <3>2. searched = P("search")
      BY <2>2, <3>1
    <3>3. O("$search") = {}
      BY <1>e, <3>1
    <3>4. "search" \in Names
      BY DEF Names
    <3> HIDE DEF P, O, searched
    <3> QED
      BY <1>1, <3>2, <3>3, <3>4
  <2> QED
    BY <2>1, <2>2
<1>5. Params(q) = P("$select") \o P("$filter") \o P("$top") \o P("$skip") \o P("$skiptoken")
                  \o counted \o searched \o P("$format")
  BY <1>2 DEF Params
<1>6. Pairs(q) = O("$select") \cup O("$filter") \cup O("$top") \cup O("$skip") \cup O("$skiptoken")
                 \cup (O("$count") \cup O("$inlinecount")) \cup (O("$search") \cup O("search")) \cup O("$format")
  BY DEF Pairs
<1>7. {"$select", "$filter", "$top", "$skip", "$skiptoken", "$format"} \subseteq Names
  BY DEF Names
<1> HIDE DEF P, O, counted, searched
<1> DEFINE T == Seq(Written)
           a == P("$select")
           b == a \o P("$filter")
           c == b \o P("$top")
           d == c \o P("$skip")
           e == d \o P("$skiptoken")
           f == e \o counted
           g == f \o searched
<1>8. a \in Seq(T) /\ ToSet(a) = O("$select")
  BY <1>1, <1>7
<1>9. b \in Seq(T) /\ ToSet(b) = O("$select") \cup O("$filter")
  <2> HIDE DEF a
  <2> QED
    BY <1>1, <1>7, <1>8, ConcatOfTwo
<1>10. c \in Seq(T) /\ ToSet(c) = O("$select") \cup O("$filter") \cup O("$top")
  <2> HIDE DEF b
  <2> QED
    BY <1>1, <1>7, <1>9, ConcatOfTwo
<1>11. d \in Seq(T) /\ ToSet(d) = O("$select") \cup O("$filter") \cup O("$top") \cup O("$skip")
  <2> HIDE DEF c
  <2> QED
    BY <1>1, <1>7, <1>10, ConcatOfTwo
<1>12. e \in Seq(T) /\ ToSet(e) = O("$select") \cup O("$filter") \cup O("$top") \cup O("$skip") \cup O("$skiptoken")
  <2> HIDE DEF d
  <2> QED
    BY <1>1, <1>7, <1>11, ConcatOfTwo
<1>13. f \in Seq(T) /\ ToSet(f) = O("$select") \cup O("$filter") \cup O("$top") \cup O("$skip") \cup O("$skiptoken")
                                 \cup (O("$count") \cup O("$inlinecount"))
  <2> HIDE DEF e
  <2> QED
    BY <1>3, <1>12, ConcatOfTwo
<1>14. g \in Seq(T) /\ ToSet(g) = O("$select") \cup O("$filter") \cup O("$top") \cup O("$skip") \cup O("$skiptoken")
                                 \cup (O("$count") \cup O("$inlinecount")) \cup (O("$search") \cup O("search"))
  <2> HIDE DEF f
  <2> QED
    BY <1>4, <1>13, ConcatOfTwo
<1>15. g \o P("$format") \in Seq(T) /\ ToSet(g \o P("$format")) = Pairs(q)
  <2> HIDE DEF g
  <2>1. P("$format") \in Seq(T) /\ ToSet(P("$format")) = O("$format")
    BY <1>1, <1>7
  <2> QED
    BY <1>6, <1>14, <2>1, ConcatOfTwo
<1> QED
  BY <1>5, <1>15

-----------------------------------------------------------------------------
(* The path, and the whole URL. *)

LEMMA JoinedWithout ==
  ASSUME NEW S, NEW ps \in Seq(Seq(S)), ps # << >>, NEW s \in S, NEW r, r # s,
         \A k \in 1..Len(ps) : Without(ps[k], r)
  PROVE  Without(Joined(ps, s), r)
<1> DEFINE t == Joined(ps, s)
<1>1. t \in Seq(S)
  BY JoinedLaid
<1>2. PICK c : Laid(t, ps, s, c)
  BY JoinedLaid
<1> HIDE DEF t
<1>3. ASSUME NEW x \in 1..Len(t) PROVE t[x] # r
  <2>1. InLaid(ps, c, x)
    BY <1>1, <1>2, LaidCovers
  <2>2. CASE \E k \in 1..(Len(ps) - 1) : x = c[k]
    BY <1>1, <1>2, <2>2, LaidInside
  <2>3. CASE \E k \in 1..Len(ps) : \E j \in 1..Len(ps[k]) : x = c[k - 1] + j
    <3>1. PICK k \in 1..Len(ps) : \E j \in 1..Len(ps[k]) : x = c[k - 1] + j
      BY <2>3
    <3>2. PICK j \in 1..Len(ps[k]) : x = c[k - 1] + j
      BY <3>1
    <3>3. LiesAt(t, c[k - 1], ps[k])
      BY <1>2 DEF Laid
    <3>4. t[x] = ps[k][j]
      BY <3>2, <3>3 DEF LiesAt
    <3> QED
      BY <3>4 DEF Without
  <2> QED
    BY <2>1, <2>2, <2>3 DEF InLaid
<1> QED
  BY <1>3 DEF Without, t

LEMMA OneSymbol ==
  /\ \A S : \A x \in S : <<x>> \in Seq(S)
  /\ \A x, s : x # s => Without(<<x>>, s)
BY DEF Without

Cat(a, b) == a \o b

LEMMA CatRegrouped ==
  ASSUME NEW S, NEW a \in Seq(S), NEW b \in Seq(S), NEW c \in Seq(S)
  PROVE  Cat(Cat(a, b), c) = Cat(a, Cat(b, c)) /\ Cat(a, b) \in Seq(S)
<1>1. (a \o b) \o c = a \o (b \o c)
  BY ConcatAssociative
<1> QED
  BY <1>1 DEF Cat

LEMMA FiveRegrouped ==
  ASSUME NEW S, NEW a \in Seq(S), NEW l \in Seq(S), NEW e \in Seq(S), NEW r \in Seq(S),
         NEW t \in Seq(S)
  PROVE  /\ Cat(Cat(Cat(l, e), r), t) = Cat(l, Cat(Cat(e, r), t))
         /\ Cat(a, Cat(Cat(Cat(l, e), r), t)) = Cat(Cat(Cat(Cat(a, l), e), r), t)
<1>1. Cat(l, e) \in Seq(S) /\ Cat(e, r) \in Seq(S) /\ Cat(Cat(l, e), r) \in Seq(S)
  BY CatRegrouped
<1>2. Cat(Cat(l, e), r) = Cat(l, Cat(e, r))
  BY CatRegrouped
<1>3. Cat(Cat(l, Cat(e, r)), t) = Cat(l, Cat(Cat(e, r), t))
  BY <1>1, CatRegrouped
<1>4. Cat(a, Cat(Cat(Cat(l, e), r), t)) = Cat(Cat(a, Cat(Cat(l, e), r)), t)
  BY <1>1, CatRegrouped
<1>5. Cat(a, Cat(Cat(l, e), r)) = Cat(Cat(a, Cat(l, e)), r)
  BY <1>1, CatRegrouped
<1>6. Cat(a, Cat(l, e)) = Cat(Cat(a, l), e)
  BY CatRegrouped
<1> QED
  BY <1>2, <1>3, <1>4, <1>5, <1>6, Zenon

LEMMA PathWithoutKey ==
  ASSUME NEW q, q.set = <<"Set">>, q.key = {}
  PROVE  Path(q) = <<"Set">>
<1> DEFINE F(k) == <<"(">> \o Enc(k, KEY_PATH) \o <<")">> \o
                       FlattenSeq(SetToSeq({<<"/">> \o Enc(n, KEY_PATH) : n \in q.navigation}))
<1>1. {F(k) : k \in q.key} = {}
  OBVIOUS
<1>2. Path(q) = q.set \o FlattenSeq(SetToSeq({F(k) : k \in q.key}))
  BY DEF Path
<1> HIDE DEF F
<1>3. Path(q) = <<"Set">> \o << >>
  BY <1>1, <1>2, OptionSeq, FlattenOption
<1> QED
  BY <1>3

Suffix(q) == FlattenSeq(SetToSeq({<<"/">> \o Enc(n, KEY_PATH) : n \in q.navigation}))

LEMMA TailIs ==
  ASSUME NEW q, q.navigation \in Optional(Texts)
  PROVE  \/ q.navigation = {} /\ Suffix(q) = << >>
         \/ \E n \in Texts : q.navigation = {n} /\ Suffix(q) = <<"/">> \o Enc(n, KEY_PATH)
<1>1. CASE q.navigation = {}
  <2>1. {<<"/">> \o Enc(n, KEY_PATH) : n \in q.navigation} = {}
    BY <1>1
  <2> QED
    BY <1>1, <2>1, OptionSeq, FlattenOption DEF Suffix
<1>2. CASE \E n \in Texts : q.navigation = {n}
  <2>1. PICK n \in Texts : q.navigation = {n}
    BY <1>2
  <2> DEFINE t == <<"/">> \o Enc(n, KEY_PATH)
  <2>2. {<<"/">> \o Enc(m, KEY_PATH) : m \in q.navigation} = {t}
    BY <2>1
  <2>3. t \in Seq(Written)
    <3>1. Enc(n, KEY_PATH) \in Seq(Written)
      BY SpecialSets, EncWritten DEF Texts
    <3>2. "/" \in Written
      BY SpecialSets
    <3>3. <<"/">> \in Seq(Written)
      BY <3>2, OneSymbol
    <3> QED
      BY <3>1, <3>3
  <2> HIDE DEF t
  <2>4. Suffix(q) = t
    BY <2>2, <2>3, OptionSeq, FlattenOption DEF Suffix
  <2> QED
    BY <2>1, <2>4 DEF t
<1> QED
  BY <1>1, <1>2 DEF Optional

LEMMA PathWithKey ==
  ASSUME NEW q, q.set = <<"Set">>, NEW k \in Texts, q.key = {k}, q.navigation \in Optional(Texts)
  PROVE  /\ Suffix(q) \in Seq(Written)
         /\ Path(q) = <<"Set">> \o (<<"(">> \o Enc(k, KEY_PATH) \o <<")">> \o Suffix(q))
<1> DEFINE F(x) == <<"(">> \o Enc(x, KEY_PATH) \o <<")">> \o Suffix(q)
<1>1. Path(q) = q.set \o FlattenSeq(SetToSeq({F(x) : x \in q.key}))
  BY DEF Path, Suffix
<1>2. {F(x) : x \in q.key} = {F(k)}
  OBVIOUS
<1>3. \A n \in Texts : Enc(n, KEY_PATH) \in Seq(Written)
  BY SpecialSets, EncWritten DEF Texts
<1>4. <<"(">> \in Seq(Written) /\ <<")">> \in Seq(Written) /\ <<"/">> \in Seq(Written)
  <2>1. {"(", ")", "/"} \subseteq Written
    BY SpecialSets
  <2> QED
    BY <2>1, OneSymbol
<1>5. Suffix(q) \in Seq(Written)
  <2>1. CASE Suffix(q) = << >>
    BY <2>1
  <2>2. CASE \E n \in Texts : Suffix(q) = <<"/">> \o Enc(n, KEY_PATH)
    <3>1. PICK n \in Texts : Suffix(q) = <<"/">> \o Enc(n, KEY_PATH)
      BY <2>2
    <3> QED
      BY <1>3, <1>4, <3>1
  <2> QED
    BY <2>1, <2>2, TailIs
<1>6. F(k) \in Seq(Written)
  <2> DEFINE e == Enc(k, KEY_PATH)
  <2>1. e \in Seq(Written)
    BY <1>3
  <2> HIDE DEF e
  <2>2. <<"(">> \o e \o <<")">> \o Suffix(q) \in Seq(Written)
    BY <1>4, <1>5, <2>1
  <2> QED
    BY <2>2 DEF e
<1> HIDE DEF F
<1>7. FlattenSeq(SetToSeq({F(k)})) = F(k)
  BY <1>6, OptionSeq, FlattenOption
<1>8. Path(q) = <<"Set">> \o F(k)
  BY <1>1, <1>2, <1>7
<1> QED
  BY <1>5, <1>8 DEF F

KeyRead(path) == IF First(path, "(") = 0 THEN {} ELSE {Decoded(Before(After(path, "("), ")"))}
NavigationRead(path) == IF First(path, "/") = 0 THEN {} ELSE {Decoded(After(path, "/"))}

PathReads(q) ==
  /\ Path(q) \in Seq(Written) /\ Without(Path(q), "?") /\ Without(Path(q), "#")
  /\ Path(q)[1] = "Set"
  /\ KeyRead(Path(q)) = q.key
  /\ q.key # {} \/ q.navigation = {} => NavigationRead(Path(q)) = q.navigation

LEMMA PathWithoutKeyRead ==
  ASSUME NEW q, q.set = <<"Set">>, q.key = {}
  PROVE  PathReads(q)
<1> DEFINE t == <<"Set">>
<1>1. t \in Seq(Written)
  <2>1. "Set" \in Written
    BY SpecialSets DEF Words
  <2> QED
    BY <2>1, OneSymbol
<1>2. Without(t, "?") /\ Without(t, "#") /\ Without(t, "(") /\ Without(t, "/")
  BY DEF Without
<1>3. t[1] = "Set"
  OBVIOUS
<1> HIDE DEF t
<1>4. First(t, "(") = 0 /\ First(t, "/") = 0
  BY <1>1, <1>2, FirstNone
<1>5. Path(q) = t
  BY PathWithoutKey DEF t
<1> QED
  BY <1>1, <1>2, <1>3, <1>4, <1>5 DEF PathReads, KeyRead, NavigationRead

LEMMA PathWithKeyRead ==
  ASSUME NEW q, q.set = <<"Set">>, NEW k \in Texts, q.key = {k}, q.navigation \in Optional(Texts)
  PROVE  PathReads(q)
<1> DEFINE W == Seq(Written)
           set == <<"Set">>
           left == <<"(">>
           right == <<")">>
           slash == <<"/">>
           e == Enc(k, KEY_PATH)
           tail == Suffix(q)
           P == Path(q)
<1>1. set \in W /\ left \in W /\ right \in W /\ slash \in W
  <2>1. {"Set", "(", ")", "/"} \subseteq Written
    BY SpecialSets DEF Words
  <2> QED
    BY <2>1, OneSymbol
<1>2. \A s \in {"?", "#", "(", "/"} : Without(set, s)
  BY DEF Without
<1>3. \A s \in {"?", "#", "/"} : Without(left, s) /\ Without(right, s)
  BY DEF Without
<1>4. Without(slash, "?") /\ Without(slash, "#")
  BY DEF Without
<1>5. \A n \in Texts : /\ Enc(n, KEY_PATH) \in W /\ Decoded(Enc(n, KEY_PATH)) = n
                       /\ \A s \in {"?", "#", "/", ")"} : Without(Enc(n, KEY_PATH), s)
  <2>1. \A s \in {"?", "#", "/", ")"} : s \in KEY_PATH
    BY SpecialSets
  <2> QED
    BY <2>1, SpecialSets, EncWithout, DecodedEnc DEF Texts
<1>6. tail \in W /\ P = set \o (left \o e \o right \o tail)
  BY PathWithKey
<1>t. tail \in W
  BY <1>6
<1>7. e \in W /\ Decoded(e) = k /\ \A s \in {"?", "#", "/", ")"} : Without(e, s)
  BY <1>5
<1>8. Len(set) = 1 /\ set[1] = "Set"
  OBVIOUS
<1>9. \/ q.navigation = {} /\ tail = << >>
      \/ \E n \in Texts : q.navigation = {n} /\ tail = slash \o Enc(n, KEY_PATH)
  BY TailIs
<1> HIDE DEF set, left, right, slash, e, tail, P
<1>10. P \in W /\ P[1] = "Set"
  <2> DEFINE r == left \o e \o right \o tail
  <2>1. r \in W
    BY <1>1, <1>6, <1>7
  <2> HIDE DEF r
  <2>2. P = set \o r
    BY <1>6 DEF r
  <2>3. 1 \in 1..Len(set)
    BY <1>8
  <2> QED
    BY <1>1, <1>8, <2>1, <2>2, <2>3, ConcatFacts
<1>11. \A s \in {"?", "#"} : Without(tail, s)
  <2>1. CASE tail = << >>
    BY <2>1 DEF Without
  <2>2. CASE \E n \in Texts : tail = slash \o Enc(n, KEY_PATH)
    <3>1. PICK n \in Texts : tail = slash \o Enc(n, KEY_PATH)
      BY <2>2
    <3> QED
      BY <1>1, <1>4, <1>5, <3>1, WithoutConcat
  <2> QED
    BY <1>9, <2>1, <2>2
<1> DEFINE head == set \o left \o e \o right
<1>12. head \in W /\ P = head \o tail
  <2>1. head \in W
    BY <1>1, <1>7
  <2>2. Cat(set, Cat(Cat(Cat(left, e), right), tail)) = Cat(Cat(Cat(Cat(set, left), e), right), tail)
    BY <1>1, <1>7, <1>t, FiveRegrouped
  <2>3. set \o (left \o e \o right \o tail) = head \o tail
    BY <2>2, Zenon DEF Cat
  <2> QED
    BY <1>6, <2>1, <2>3, Zenon
<1>13. \A s \in {"?", "#", "/"} : Without(head, s)
  <2>1. set \o left \in W /\ set \o left \o e \in W
    BY <1>1, <1>7
  <2>2. ASSUME NEW s \in {"?", "#", "/"} PROVE Without(head, s)
    <3>1. Without(set \o left, s)
      BY <1>1, <1>2, <1>3, WithoutConcat
    <3>2. Without(set \o left \o e, s)
      BY <1>7, <2>1, <3>1, WithoutConcat
    <3> QED
      BY <1>1, <1>3, <2>1, <3>2, WithoutConcat
  <2> QED
    BY <2>2
<1>14. Without(P, "?") /\ Without(P, "#")
  <2> HIDE DEF head
  <2> QED
    BY <1>6, <1>11, <1>12, <1>13, WithoutConcat
<1>15. KeyRead(P) = {k}
  <2>1. left \o e \o right \o tail = left \o (e \o right \o tail)
    <3>1. Cat(Cat(Cat(left, e), right), tail) = Cat(left, Cat(Cat(e, right), tail))
      BY <1>1, <1>7, <1>t, FiveRegrouped
    <3> QED
      BY <3>1, Zenon DEF Cat
  <2> DEFINE r == e \o right \o tail
  <2>2. r \in W
    BY <1>1, <1>6, <1>7
  <2>3. Before(r, ")") = e
    <3>1. ")" \in Written
      BY SpecialSets
    <3>2. Before(e \o <<")">> \o tail, ")") = e
      BY <1>6, <1>7, <3>1, FirstAt
    <3> QED
      BY <3>2 DEF right
  <2>4. P = set \o (left \o r)
    BY <1>6, <2>1, Zenon
  <2> HIDE DEF r
  <2>5. P = set \o left \o r
    <3>1. Cat(Cat(set, left), r) = Cat(set, Cat(left, r))
      BY <1>1, <2>2, CatRegrouped
    <3> QED
      BY <2>4, <3>1, Zenon DEF Cat
  <2>6. First(P, "(") # 0 /\ After(P, "(") = r
    <3>1. "(" \in Written
      BY SpecialSets
    <3>2. First(set \o <<"(">> \o r, "(") # 0 /\ After(set \o <<"(">> \o r, "(") = r
      BY <1>1, <1>2, <2>2, <3>1, FirstAt
    <3> QED
      BY <2>5, <3>2 DEF left
  <2> QED
    BY <1>7, <2>3, <2>6 DEF KeyRead
<1>16. NavigationRead(P) = q.navigation
  <2>1. CASE q.navigation = {} /\ tail = << >>
    <3> HIDE DEF head
    <3>1. P = head
      BY <1>12, <2>1
    <3>2. First(P, "/") = 0
      BY <1>12, <1>13, <3>1, FirstNone
    <3> QED
      BY <2>1, <3>2 DEF NavigationRead
  <2>2. CASE \E n \in Texts : q.navigation = {n} /\ tail = slash \o Enc(n, KEY_PATH)
    <3>1. PICK n \in Texts : q.navigation = {n} /\ tail = slash \o Enc(n, KEY_PATH)
      BY <2>2
    <3> HIDE DEF head
    <3> DEFINE m == Enc(n, KEY_PATH)
    <3>2. m \in W /\ Decoded(m) = n /\ tail = slash \o m
      BY <1>5, <3>1
    <3> HIDE DEF m
    <3>3. P = head \o slash \o m
      <4>1. Cat(Cat(head, slash), m) = Cat(head, Cat(slash, m))
        BY <1>1, <1>12, <3>2, CatRegrouped
      <4>2. P = Cat(head, Cat(slash, m))
        BY <1>12, <3>2, Zenon DEF Cat
      <4> QED
        BY <4>1, <4>2, Zenon DEF Cat
    <3>4. "/" \in Written
      BY SpecialSets
    <3>5. First(head \o <<"/">> \o m, "/") # 0 /\ After(head \o <<"/">> \o m, "/") = m
      BY <1>12, <1>13, <3>2, <3>4, FirstAt
    <3>6. First(P, "/") # 0 /\ After(P, "/") = m
      BY <3>3, <3>5 DEF slash
    <3> QED
      BY <3>1, <3>2, <3>6 DEF NavigationRead
  <2> QED
    BY <1>9, <2>1, <2>2
<1> QED
  BY <1>10, <1>14, <1>15, <1>16 DEF PathReads, P

LEMMA PathRead ==
  ASSUME NEW q, WellFormed(q)
  PROVE  PathReads(q)
<1>1. CASE q.key = {}
  BY <1>1, PathWithoutKeyRead DEF WellFormed
<1>2. CASE \E k \in Texts : q.key = {k}
  BY <1>2, PathWithKeyRead DEF WellFormed
<1> QED
  BY <1>1, <1>2 DEF WellFormed, Optional

LEMMA InPairs ==
  ASSUME NEW q, NEW x
  PROVE  x \in Pairs(q) <=> \E n \in Names : \E v \in Given(q, n) : x = WrittenParam(n, v)
<1>1. ASSUME x \in Pairs(q)
      PROVE  \E n \in Names : \E v \in Given(q, n) : x = WrittenParam(n, v)
  <2>1. \E n \in Names : x \in ParamsOf(n, Given(q, n))
    BY <1>1 DEF Pairs, Names
  <2> QED
    BY <2>1 DEF ParamsOf
<1>2. ASSUME NEW n \in Names, NEW v \in Given(q, n), x = WrittenParam(n, v)
      PROVE  x \in Pairs(q)
  <2>1. x \in ParamsOf(n, Given(q, n))
    BY <1>2 DEF ParamsOf
  <2> QED
    BY <2>1 DEF Pairs, Names
<1> QED
  BY <1>1, <1>2

LEMMA ParamsWithout ==
  ASSUME NEW q, WellFormed(q)
  PROVE  /\ Params(q) # << >>
         /\ \A k \in 1..Len(Params(q)) : Without(Params(q)[k], "&") /\ Without(Params(q)[k], "#")
<1> DEFINE ps == Params(q)
<1>1. ps \in Seq(Seq(Written)) /\ ToSet(ps) = Pairs(q)
  BY ParamsAre
<1>2. Pairs(q) # {}
  <2>1. "$format" \in Names /\ <<"json">> \in Given(q, "$format")
    BY DEF Names, Given
  <2> QED
    BY <2>1, InPairs
<1> HIDE DEF ps
<1>3. ps # << >>
  BY <1>1, <1>2 DEF ToSet
<1>4. ASSUME NEW k \in 1..Len(ps) PROVE Without(ps[k], "&") /\ Without(ps[k], "#")
  <2>1. ps[k] \in Pairs(q)
    BY <1>1 DEF ToSet
  <2>2. PICK n \in Names : \E v \in Given(q, n) : ps[k] = WrittenParam(n, v)
    BY <2>1, InPairs
  <2>3. PICK v \in Given(q, n) : ps[k] = WrittenParam(n, v)
    BY <2>2
  <2>4. v \in Texts
    BY GivenTexts DEF Optional
  <2> QED
    BY <2>3, <2>4, ParamRead
<1> QED
  BY <1>3, <1>4 DEF ps

(* The service takes the URL apart into the path and the parameters.         *)
LEMMA BuildRead ==
  ASSUME NEW q, WellFormed(q)
  PROVE  /\ Before(Before(Build(q), "#"), "?") = Path(q)
         /\ ToSet(Split(After(Before(Build(q), "#"), "?"), "&")) = Pairs(q)
<1> DEFINE ps == Params(q)
           t == Joined(ps, "&")
           P == Path(q)
           mark == <<"?">>
<1>1. ps \in Seq(Seq(Written)) /\ ps # << >> /\ ToSet(ps) = Pairs(q)
  BY ParamsAre, ParamsWithout
<1>2. \A k \in 1..Len(ps) : Without(ps[k], "&") /\ Without(ps[k], "#")
  BY ParamsWithout
<1>3. P \in Seq(Written) /\ Without(P, "?") /\ Without(P, "#")
  BY PathRead DEF PathReads
<1>4. "?" \in Written /\ "&" \in Written /\ "#" # "&"
  BY SpecialSets
<1>5. mark \in Seq(Written) /\ Without(mark, "#")
  BY <1>4, OneSymbol
<1>6. Build(q) = P \o mark \o t
  BY DEF Build
<1> HIDE DEF ps, P
<1>7. t \in Seq(Written) /\ Split(t, "&") = ps
  BY <1>1, <1>2, <1>4, SplitJoined DEF Without
<1>8. Without(t, "#")
  BY <1>1, <1>2, <1>4, JoinedWithout
<1> HIDE DEF t, mark
<1>9. P \o mark \in Seq(Written) /\ P \o mark \o t \in Seq(Written)
  BY <1>3, <1>5, <1>7
<1>10. Without(P \o mark \o t, "#")
  <2>1. Without(P \o mark, "#")
    BY <1>3, <1>5, WithoutConcat
  <2> QED
    BY <1>7, <1>8, <1>9, <2>1, WithoutConcat
<1>11. Before(P \o mark \o t, "#") = P \o mark \o t
  BY <1>9, <1>10, FirstNone
<1>12. Before(P \o mark \o t, "?") = P /\ After(P \o mark \o t, "?") = t
  <2>1. Before(P \o <<"?">> \o t, "?") = P /\ After(P \o <<"?">> \o t, "?") = t
    BY <1>3, <1>4, <1>7, FirstAt
  <2> QED
    BY <2>1 DEF mark
<1> QED
  BY <1>1, <1>6, <1>7, <1>11, <1>12, Zenon DEF P

LEMMA ValuesOfBuild ==
  ASSUME NEW q, WellFormed(q), NEW name \in Names
  PROVE  ValuesOf(Build(q), name) = Given(q, name)
<1> DEFINE mine == {x \in Pairs(q) : Before(x, "=") = <<name>>}
<1>1. ValuesOf(Build(q), name) = {Decoded(After(p, "=")) : p \in mine}
  <2> DEFINE params == ToSet(Split(After(Before(Build(q), "#"), "?"), "&"))
  <2>1. ValuesOf(Build(q), name) = {Decoded(After(p, "=")) : p \in {x \in params : Before(x, "=") = <<name>>}}
    BY DEF ValuesOf
  <2>2. params = Pairs(q)
    BY BuildRead
  <2> HIDE DEF params
  <2> QED
    BY <2>1, <2>2
<1>2. \A n \in Names : \A v \in Given(q, n) :
        /\ Before(WrittenParam(n, v), "=") = <<n>>
        /\ Decoded(After(WrittenParam(n, v), "=")) = v
  <2>1. \A n \in Names : Given(q, n) \subseteq Texts
    BY GivenTexts DEF Optional
  <2> QED
    BY <2>1, ParamRead
<1>3. \A n \in Names : <<n>> = <<name>> => n = name
  OBVIOUS
<1>4. mine = ParamsOf(name, Given(q, name))
  <2>1. ASSUME NEW x \in mine PROVE x \in ParamsOf(name, Given(q, name))
    <3>1. PICK n \in Names : \E v \in Given(q, n) : x = WrittenParam(n, v)
      BY InPairs
    <3>2. PICK v \in Given(q, n) : x = WrittenParam(n, v)
      BY <3>1
    <3>3. n = name
      BY <1>2, <1>3, <3>2
    <3> QED
      BY <3>2, <3>3 DEF ParamsOf
  <2>2. ASSUME NEW x \in ParamsOf(name, Given(q, name)) PROVE x \in mine
    <3>1. PICK v \in Given(q, name) : x = WrittenParam(name, v)
      BY DEF ParamsOf
    <3>2. x \in Pairs(q)
      BY <3>1, InPairs
    <3> QED
      BY <1>2, <3>1, <3>2
  <2> QED
    BY <2>1, <2>2
<1> HIDE DEF mine
<1>5. ASSUME NEW x \in {Decoded(After(p, "=")) : p \in mine} PROVE x \in Given(q, name)
  <2>1. PICK p \in mine : x = Decoded(After(p, "="))
    BY <1>5
  <2>2. PICK v \in Given(q, name) : p = WrittenParam(name, v)
    BY <1>4, <2>1 DEF ParamsOf
  <2> QED
    BY <1>2, <2>1, <2>2
<1>6. ASSUME NEW v \in Given(q, name) PROVE v \in {Decoded(After(p, "=")) : p \in mine}
  <2>1. WrittenParam(name, v) \in mine
    BY <1>4 DEF ParamsOf
  <2>2. Decoded(After(WrittenParam(name, v), "=")) = v
    BY <1>2
  <2> QED
    BY <2>1, <2>2
<1> QED
  BY <1>1, <1>5, <1>6

-----------------------------------------------------------------------------
(* Numbers and tokens, as they are written and read. *)

LEMMA ValueIs ==
  \A d : Value({}, d) = d /\ \A x : Value({x}, d) = x
BY DEF Value

LEMMA NumIs ==
  ASSUME NEW n \in 0..(RowCount + Largest)
  PROVE  /\ Num(n) \in Texts /\ NumOf(Num(n)) = n /\ Len(Num(n)) = 1 /\ Num(n)[1] = Numeral[n]
         /\ \A m \in 0..(RowCount + Largest) : Num(m) = Num(n) => m = n
<1>1. n \in DOMAIN Numeral /\ Numeral[n] \in Symbols
  BY QueryAssumption
<1>2. Num(n) \in Texts
  BY <1>1, OneSymbol DEF Num, Texts
<1>3. Len(Num(n)) = 1 /\ Num(n)[1] = Numeral[n]
  BY DEF Num
<1>4. \A m \in DOMAIN Numeral : Num(m) = Num(n) => m = n
  <2>1. \A m : <<Numeral[m]>> = <<Numeral[n]>> => Numeral[m] = Numeral[n]
    OBVIOUS
  <2> QED
    BY <1>1, <2>1, QueryAssumption DEF Num
<1>5. NumOf(Num(n)) = n
  BY <1>1, <1>4 DEF NumOf
<1> QED
  BY <1>2, <1>3, <1>4, <1>5, QueryAssumption

LEMMA RowsBound == RowCount \in Nat /\ Largest \in Nat /\ RowCount <= Largest
                   /\ \A n \in 0..RowCount : n \in 0..(RowCount + Largest)
BY QueryAssumption

LEMMA KeyToken ==
  ASSUME NEW n \in 0..RowCount
  PROVE  LET t == <<"'", "A", ",">> \o Num(n) \o <<"'">>
         IN t \in Texts /\ Len(t) = 5 /\ t[4] = Numeral[n]
<1> DEFINE lead == <<"'", "A", ",">>
           end == <<"'">>
           num == Num(n)
<1>1. num \in Seq(Symbols) /\ Len(num) = 1 /\ num[1] = Numeral[n]
  BY NumIs, RowsBound DEF Texts
<1>2. {"'", "A", ","} \subseteq Symbols
  BY EncodingAssumption, QueryAssumption DEF Special
<1>3. lead \in Seq(Symbols) /\ Len(lead) = 3 /\ end \in Seq(Symbols) /\ Len(end) = 1
  <2>1. \A x, y, z \in Symbols : <<x, y, z>> \in Seq(Symbols)
    OBVIOUS
  <2>2. <<"'", "A", ",">> \in Seq(Symbols)
    BY <1>2, <2>1
  <2>3. <<"'">> \in Seq(Symbols)
    BY <1>2, OneSymbol
  <2>4. Len(lead) = 3 /\ Len(end) = 1
    OBVIOUS
  <2> QED
    BY <2>2, <2>3, <2>4
<1> HIDE DEF lead, end, num
<1>4. /\ lead \o num \in Seq(Symbols) /\ Len(lead \o num) = Len(lead) + Len(num)
      /\ \A i \in 1..Len(num) : (lead \o num)[Len(lead) + i] = num[i]
  <2>1. lead \o num \in Seq(Symbols) /\ Len(lead \o num) = Len(lead) + Len(num)
    BY <1>1, <1>3, ConcatFacts
  <2>2. LiesAt(lead \o num, Len(lead), num)
    BY <1>1, <1>3, ConcatLies
  <2> QED
    BY <2>1, <2>2 DEF LiesAt
<1>5. Len(lead \o num) = 4 /\ (lead \o num)[4] = Numeral[n]
  <2>1. 1 \in 1..Len(num) /\ Len(lead) + 1 = 4
    BY <1>1, <1>3
  <2> QED
    BY <1>1, <1>3, <1>4, <2>1
<1>6. lead \o num \o end \in Seq(Symbols) /\ Len(lead \o num \o end) = Len(lead \o num) + Len(end)
      /\ (lead \o num \o end)[4] = (lead \o num)[4]
  BY <1>3, <1>4, <1>5, ConcatFacts
<1>7. Len(lead \o num \o end) = 5
  BY <1>3, <1>5, <1>6
<1> QED
  BY <1>5, <1>6, <1>7 DEF lead, num, end, Texts

ServiceOK == service \in Services

LEMMA ServiceIs ==
  ASSUME ServiceOK
  PROVE  service.version \in {"V2", "V4"} /\ service.limit \in SUBSET Nat
         /\ service.token \in {"offset", "number", "key"}
BY QueryAssumption DEF ServiceOK

LEMMA MatchingIs ==
  ASSUME NEW f \in Optional(BarFilters)
  PROVE  Matching[f] \in Nat /\ Matching[f] <= RowCount /\ RowCount \in Nat
BY QueryAssumption

LEMMA TokenIs ==
  ASSUME ServiceOK, NEW n \in 0..RowCount
  PROVE  /\ TokenAt(n) \in Texts /\ PositionOf(TokenAt(n)) = n
         /\ service.token = "offset" => TokenAt(n) = Num(n)
         /\ service.token = "number" => TokenAt(n) = Num(RowCount - n)
         /\ service.token = "key" => \A m \in 0..RowCount : TokenAt(n) # Num(m)
<1> DEFINE K(m) == <<"'", "A", ",">> \o Num(m) \o <<"'">>
<1>1. \A m \in 0..RowCount : K(m) \in Texts /\ Len(K(m)) = 5 /\ K(m)[4] = Numeral[m]
  BY KeyToken
<1>2. \A m \in 0..RowCount : Num(m) \in Texts /\ Len(Num(m)) = 1 /\ (Num(m) = Num(n) => m = n)
  BY NumIs, RowsBound
<1>i. \A m, k \in 0..RowCount : Num(m) = Num(k) => m = k
  BY NumIs, RowsBound
<1>3. /\ service.token = "offset" => \A m : TokenAt(m) = Num(m)
      /\ service.token = "number" => \A m : TokenAt(m) = Num(RowCount - m)
      /\ service.token = "key" => \A m : TokenAt(m) = K(m)
  BY DEF TokenAt
<1>n. \A m \in 0..RowCount : Numeral[m] = Numeral[n] => m = n
  BY RowsBound, QueryAssumption
<1>c. \A m \in 0..RowCount : RowCount - m \in 0..RowCount /\ (RowCount - m = RowCount - n => m = n)
  BY RowsBound
<1> HIDE DEF K
<1>4. \A m \in 0..RowCount : TokenAt(m) = TokenAt(n) => m = n
  <2>1. CASE service.token = "offset"
    BY <1>2, <1>3, <2>1
  <2>2. CASE service.token = "number"
    <3>1. ASSUME NEW m \in 0..RowCount, TokenAt(m) = TokenAt(n) PROVE m = n
      <4>1. Num(RowCount - m) = Num(RowCount - n)
        BY <1>3, <2>2, <3>1
      <4>2. RowCount - m = RowCount - n
        BY <1>c, <1>i, <4>1
      <4> QED
        BY <1>c, <4>2
    <3> QED
      BY <3>1
  <2>3. CASE service.token = "key"
    BY <1>1, <1>3, <1>n, <2>3
  <2> QED
    BY <2>1, <2>2, <2>3, ServiceIs
<1>5. PositionOf(TokenAt(n)) = n
  BY <1>4 DEF PositionOf
<1>6. service.token = "key" => \A m \in 0..RowCount : TokenAt(n) # Num(m)
  BY <1>1, <1>2, <1>3
<1>7. TokenAt(n) \in Texts
  BY <1>1, <1>2, <1>3, <1>c, ServiceIs
<1> QED
  BY <1>3, <1>5, <1>6, <1>7

LEMMA LeastOfTwo ==
  ASSUME NEW a \in Nat, NEW b \in Nat
  PROVE  Least({a, b}) = IF a <= b THEN a ELSE b
<1>1. {a, b} \in SUBSET Nat /\ {a, b} # {}
  OBVIOUS
<1>2. Least({a, b}) \in {a, b} /\ \A j \in {a, b} : Least({a, b}) <= j
  BY <1>1, LeastIs
<1> QED
  BY <1>2

-----------------------------------------------------------------------------
(* What an answer holds. *)

Numbers == 1..(RowCount + Largest)
TokensHere == {{}} \cup {{TokenAt(n)} : n \in 0..RowCount}

AsksFor(w) ==
  /\ w.filter \in Optional(BarFilters) /\ ValuesOf(w.url, "$filter") = w.filter
  /\ w.top \in Optional(Tops) /\ w.skip \in Optional(Numbers) /\ w.token \in TokensHere
  /\ w.skip = {} \/ w.token = {}
  /\ ValuesOf(w.url, "$top") = {Num(n) : n \in w.top}
  /\ ValuesOf(w.url, "$skip") = {Num(n) : n \in w.skip}
  /\ ValuesOf(w.url, "$skiptoken") = w.token

Begin(w) == Value({PositionOf(t) : t \in w.token}, Value(w.skip, 0))

Rows(w) == Matching[w.filter]

Answers(w, a) ==
  /\ a.from \in Nat /\ a.to \in Nat /\ a.from <= a.to /\ a.to <= Rows(w)
  /\ a.from = IF Begin(w) <= Rows(w) THEN Begin(w) ELSE Rows(w)
  /\ \A n \in w.top \cup service.limit : a.to <= a.from + n
  /\ a.to = Rows(w) \/ \E n \in w.top \cup service.limit : a.to = a.from + n
  /\ a.next = IF a.to < Rows(w) /\ \A n \in w.top : a.to - a.from < n THEN {TokenAt(a.to)} ELSE {}
  /\ a.total \in {{}, {Rows(w)}}

LEMMA RowsAsked ==
  ASSUME NEW w, AsksFor(w)
  PROVE  Rows(w) \in Nat /\ Rows(w) <= RowCount /\ RowCount \in Nat
BY MatchingIs DEF AsksFor, Rows

LEMMA BeginIs ==
  ASSUME ServiceOK, NEW w, AsksFor(w)
  PROVE  /\ Begin(w) \in Nat
         /\ \A k : w.skip = {k} => Begin(w) = k
         /\ w.skip = {} /\ w.token = {} => Begin(w) = 0
         /\ \A n \in 0..RowCount : w.token = {TokenAt(n)} => Begin(w) = n
<1>1. w.skip = {} \/ \E k \in Numbers : w.skip = {k}
  BY DEF AsksFor, Optional
<1>2. w.token = {} \/ \E n \in 0..RowCount : w.token = {TokenAt(n)}
  BY DEF AsksFor, TokensHere
<1>3. CASE w.token = {}
  <2>1. {PositionOf(t) : t \in w.token} = {}
    BY <1>3
  <2>2. Begin(w) = Value(w.skip, 0)
    BY <2>1, ValueIs DEF Begin
  <2>3. \A n : w.token # {TokenAt(n)}
    BY <1>3
  <2>4. CASE w.skip = {}
    BY <2>2, <2>3, <2>4, ValueIs
  <2>5. CASE \E k \in Numbers : w.skip = {k}
    <3>1. PICK k \in Numbers : w.skip = {k}
      BY <2>5
    <3>2. k \in Nat
      BY RowsBound DEF Numbers
    <3>3. Begin(w) = k
      BY <2>2, <3>1, ValueIs
    <3> QED
      BY <2>3, <3>1, <3>2, <3>3
  <2> QED
    BY <1>1, <2>4, <2>5
<1>4. CASE \E n \in 0..RowCount : w.token = {TokenAt(n)}
  <2>1. PICK n \in 0..RowCount : w.token = {TokenAt(n)}
    BY <1>4
  <2>2. w.skip = {} /\ w.token # {}
    BY <2>1 DEF AsksFor
  <2>3. ASSUME NEW m \in 0..RowCount, w.token = {TokenAt(m)} PROVE Begin(w) = m
    <3>1. {PositionOf(t) : t \in w.token} = {m}
      BY <2>3, TokenIs
    <3> QED
      BY <3>1, ValueIs DEF Begin
  <2>4. Begin(w) \in Nat
    BY <2>1, <2>3, RowsBound
  <2> QED
    BY <2>2, <2>3, <2>4
<1> QED
  BY <1>2, <1>3, <1>4

LEMMA AnswerIs ==
  ASSUME ServiceOK, NEW w, AsksFor(w)
  PROVE  Answers(w, AnswerTo(w.url))
<1> DEFINE rows == Matching[ValuesOf(w.url, "$filter")]
           skip == Value({NumOf(s) : s \in ValuesOf(w.url, "$skip")}, 0)
           from == Least({Value({PositionOf(t) : t \in ValuesOf(w.url, "$skiptoken")}, skip), rows})
           top == {NumOf(t) : t \in ValuesOf(w.url, "$top")}
           ends == {rows} \cup {from + n : n \in top \cup service.limit}
           to == Least(ends)
           next == IF to < rows /\ \A n \in top : to - from < n
                   THEN {Decoded(Enc(TokenAt(to), COMPONENT))} ELSE {}
           total == IF ValuesOf(w.url, "$count") = {<<"true">>} \/ ValuesOf(w.url, "$inlinecount") = {<<"allpages">>}
                    THEN {rows} ELSE {}
           a == AnswerTo(w.url)
<1>1. a = [from |-> from, to |-> to, next |-> next, total |-> total]
  BY DEF AnswerTo
<1>r. RowCount \in Nat /\ \A n \in Numbers \cup Tops : n \in 0..(RowCount + Largest) /\ n \in Nat
  BY QueryAssumption DEF Numbers
<1>m. rows = Rows(w) /\ rows \in Nat /\ rows <= RowCount
  <2>1. rows = Rows(w)
    BY DEF AsksFor, Rows
  <2> QED
    BY <2>1, RowsAsked
<1>2. {NumOf(s) : s \in ValuesOf(w.url, "$skip")} = w.skip
  <2>1. w.skip \subseteq 0..(RowCount + Largest)
    BY <1>r DEF AsksFor, Optional
  <2>2. \A k \in w.skip : NumOf(Num(k)) = k
    BY <2>1, NumIs
  <2>3. {NumOf(s) : s \in {Num(n) : n \in w.skip}} = w.skip
    BY <2>2
  <2> QED
    BY <2>3 DEF AsksFor
<1>3. top = w.top /\ w.top \in SUBSET Nat
  <2>1. w.top \subseteq 0..(RowCount + Largest) /\ w.top \in SUBSET Nat
    BY <1>r DEF AsksFor, Optional
  <2>2. \A k \in w.top : NumOf(Num(k)) = k
    BY <2>1, NumIs
  <2>3. {NumOf(s) : s \in {Num(n) : n \in w.top}} = w.top
    BY <2>2
  <2> QED
    BY <2>1, <2>3 DEF AsksFor
<1>4. Value({PositionOf(t) : t \in ValuesOf(w.url, "$skiptoken")}, skip) = Begin(w)
  BY <1>2 DEF AsksFor, Begin
<1>5. from = (IF Begin(w) <= rows THEN Begin(w) ELSE rows) /\ Begin(w) \in Nat
  <2>1. Begin(w) \in Nat
    BY BeginIs
  <2> QED
    BY <1>4, <1>m, <2>1, LeastOfTwo
<1> HIDE DEF skip, from, top, rows
<1>6. from \in Nat /\ from <= rows
  BY <1>m, <1>5
<1>7. ends \in SUBSET Nat /\ ends # {}
  BY <1>3, <1>6, <1>m, ServiceIs
<1>8. to \in ends /\ \A j \in ends : to <= j
  BY <1>7, LeastIs
<1> HIDE DEF to
<1>9. to \in Nat /\ to <= rows
  BY <1>7, <1>8
<1>10. \A n \in w.top \cup service.limit : from + n \in ends
  BY <1>3
<1>11. \A n \in w.top \cup service.limit : to <= from + n
  BY <1>8, <1>10
<1>12. to = rows \/ \E n \in w.top \cup service.limit : to = from + n
  BY <1>3, <1>8
<1>13. from <= to
  <2>1. w.top \cup service.limit \in SUBSET Nat
    BY <1>3, ServiceIs
  <2> HIDE DEF ends
  <2> QED
    BY <1>6, <1>9, <1>12, <1>m, <2>1
<1>14. Decoded(Enc(TokenAt(to), COMPONENT)) = TokenAt(to)
  <2>1. to \in 0..RowCount
    BY <1>9, <1>m, <1>r
  <2>2. TokenAt(to) \in Seq(Symbols)
    BY <2>1, TokenIs DEF Texts
  <2> QED
    BY <2>2, SpecialSets, DecodedEnc
<1>15. next = IF to < rows /\ \A n \in w.top : to - from < n THEN {TokenAt(to)} ELSE {}
  BY <1>3, <1>14
<1>16. total \in {{}, {rows}}
  OBVIOUS
<1> HIDE DEF next, total, ends, a
<1>17. a.from = from /\ a.to = to /\ a.next = next /\ a.total = total
  BY <1>1
<1>18. Answers(w, a)
  BY <1>5, <1>6, <1>9, <1>11, <1>12, <1>13, <1>15, <1>16, <1>17, <1>m DEF Answers
<1> QED
  BY <1>18 DEF a

-----------------------------------------------------------------------------
(* What the pager makes of an answer. *)

KnownIn(w) == w.token = {} \/ service.token = "offset"

LEMMA OffsetIs ==
  ASSUME ServiceOK, NEW w, AsksFor(w)
  PROVE  /\ Offset(w) \in 0..(RowCount + Largest)
         /\ KnownIn(w) => Offset(w) = Begin(w)
         /\ ~KnownIn(w) => Offset(w) <= RowCount
<1>1. w.skip = {} \/ \E k \in Numbers : w.skip = {k}
  BY DEF AsksFor, Optional
<1>2. w.token = {} \/ \E n \in 0..RowCount : w.token = {TokenAt(n)}
  BY DEF AsksFor, TokensHere
<1>3. ASSUME w.token = {}
      PROVE  TokenOffset(w.token) = {}
  BY <1>3 DEF TokenOffset
<1>4. CASE w.token = {} /\ w.skip = {}
  <2>1. Offset(w) = 0
    BY <1>3, <1>4, ValueIs DEF Offset
  <2>2. Begin(w) = 0 /\ KnownIn(w)
    BY <1>4, BeginIs DEF KnownIn
  <2> QED
    BY <2>1, <2>2, RowsBound
<1>5. CASE w.token = {} /\ \E k \in Numbers : w.skip = {k}
  <2>1. PICK k \in Numbers : w.skip = {k}
    BY <1>5
  <2>2. Offset(w) = k
    BY <2>1, ValueIs DEF Offset
  <2>3. Begin(w) = k /\ KnownIn(w)
    BY <1>5, <2>1, BeginIs DEF KnownIn
  <2> QED
    BY <2>2, <2>3, RowsBound DEF Numbers
<1>6. CASE \E n \in 0..RowCount : w.token = {TokenAt(n)}
  <2>1. PICK n \in 0..RowCount : w.token = {TokenAt(n)}
    BY <1>6
  <2>2. w.skip = {} /\ w.token # {}
    BY <2>1 DEF AsksFor
  <2>3. CASE service.token = "offset"
    <3>1. TokenAt(n) = Num(n) /\ NumOf(Num(n)) = n
      BY <2>3, TokenIs, NumIs, RowsBound
    <3>2. {x \in w.token : \E m \in 0..RowCount : x = Num(m)} = {Num(n)}
      BY <2>1, <3>1
    <3>3. TokenOffset(w.token) = {n}
      BY <3>1, <3>2 DEF TokenOffset
    <3>4. Offset(w) = n
      BY <2>2, <3>3, ValueIs DEF Offset
    <3>5. Begin(w) = n /\ KnownIn(w)
      BY <2>1, <2>3, BeginIs DEF KnownIn
    <3> QED
      BY <3>4, <3>5, RowsBound
  <2>4. CASE service.token = "number"
    <3>1. TokenAt(n) = Num(RowCount - n) /\ RowCount - n \in 0..RowCount
      BY <2>4, TokenIs, RowsBound
    <3>2. NumOf(Num(RowCount - n)) = RowCount - n
      BY <3>1, NumIs, RowsBound
    <3>3. {x \in w.token : \E m \in 0..RowCount : x = Num(m)} = {Num(RowCount - n)}
      BY <2>1, <3>1
    <3>4. TokenOffset(w.token) = {RowCount - n}
      BY <3>2, <3>3 DEF TokenOffset
    <3>5. Offset(w) = RowCount - n
      BY <2>2, <3>4, ValueIs DEF Offset
    <3>6. ~KnownIn(w)
      BY <2>2, <2>4 DEF KnownIn
    <3> QED
      BY <3>1, <3>5, <3>6, RowsBound
  <2>5. CASE service.token = "key"
    <3>1. \A m \in 0..RowCount : TokenAt(n) # Num(m)
      BY <2>5, TokenIs
    <3>2. {x \in w.token : \E m \in 0..RowCount : x = Num(m)} = {}
      BY <2>1, <3>1
    <3>3. TokenOffset(w.token) = {}
      BY <3>2 DEF TokenOffset
    <3>4. Offset(w) = 0
      BY <2>2, <3>3, ValueIs DEF Offset
    <3>5. ~KnownIn(w)
      BY <2>2, <2>5 DEF KnownIn
    <3> QED
      BY <3>4, <3>5, RowsBound
  <2> QED
    BY <2>3, <2>4, <2>5, ServiceIs
<1> QED
  BY <1>1, <1>2, <1>4, <1>5, <1>6

(* A page has rows of the entity set, no more than the service sends at once. *)
RowsOf(b) ==
  /\ b.filter \in Optional(BarFilters)
  /\ b.from \in Nat /\ b.to \in Nat /\ b.from < b.to
  /\ b.to <= Matching[b.filter] /\ b.to <= RowCount
  /\ b.top \in Optional(Tops)
  /\ \A l \in service.limit : b.to <= b.from + l

Size(b) == Value(b.top, b.to - b.from)
PrevOf(b) == IF Size(b) < b.from THEN b.from - Size(b) ELSE 0

LEMMA SizeIs ==
  ASSUME NEW b, RowsOf(b)
  PROVE  /\ Size(b) \in 1..Largest
         /\ b.top = {} => Size(b) = b.to - b.from
         /\ \A t : b.top = {t} => Size(b) = t
         /\ PrevOf(b) \in 0..RowCount
         /\ b.from > 0 => PrevOf(b) < b.from
<1>1. CASE b.top = {}
  <2>1. Size(b) = b.to - b.from
    BY <1>1, ValueIs DEF Size
  <2> QED
    BY <1>1, <2>1, RowsBound DEF RowsOf, PrevOf
<1>2. CASE \E t \in Tops : b.top = {t}
  <2>1. PICK t \in Tops : b.top = {t}
    BY <1>2
  <2>2. Size(b) = t /\ t \in 1..Largest
    <3>1. t \in 1..Largest
      BY QueryAssumption
    <3>2. Size(b) = Value({t}, b.to - b.from)
      BY <2>1 DEF Size
    <3>3. Value({t}, b.to - b.from) = t
      BY ValueIs, Zenon
    <3> QED
      BY <3>1, <3>2, <3>3
  <2> QED
    BY <2>1, <2>2, RowsBound DEF RowsOf, PrevOf
<1> QED
  BY <1>1, <1>2 DEF RowsOf, Optional

(* The buttons lead to where the page ends, and to a page's length before it. *)
Offers(p) ==
  /\ p.info.token \in {{}, {TokenAt(p.to)}}
  /\ p.info.nextSkip \in Optional(Numbers)
  /\ p.known => p.info.nextSkip \subseteq {p.to}
  /\ p.info.prevSkip \in Optional(0..RowCount)
  /\ p.known /\ p.info.prevSkip # {} => p.from > 0 /\ p.info.prevSkip = {PrevOf(p)}

Shows(p) ==
  p.known => /\ p.info.offset = p.from
             /\ p.total # {} => (p.info.hasMore <=> p.to < Matching[p.filter])

LEMMA PageOffers ==
  ASSUME ServiceOK, NEW w, AsksFor(w), NEW a, Answers(w, a), a.to # a.from,
         NEW p, p.filter = w.filter, p.from = a.from, p.to = a.to, p.total = a.total, p.top = w.top,
         p.known = KnownIn(w), p.info = PagingInfo(w, a)
  PROVE  RowsOf(p) /\ Offers(p) /\ Shows(p)
<1> DEFINE offset == Offset(w)
           rows == a.to - a.from
           size == Value(w.top, rows)
           more == \/ a.next # {}
                   \/ a.next = {} /\ IF a.total # {} THEN \E t \in a.total : offset + rows < t
                                     ELSE w.top = {rows}
           nextSkip == IF a.next = {} /\ more THEN {offset + size} ELSE {}
           prevSkip == IF offset > 0 /\ (w.skip # {} \/ TokenOffset(w.token) # {})
                       THEN {IF size < offset THEN offset - size ELSE 0} ELSE {}
<1>1. /\ p.info.offset = offset /\ p.info.token = a.next /\ (p.info.hasMore <=> more)
      /\ p.info.nextSkip = nextSkip /\ p.info.prevSkip = prevSkip
  BY DEF PagingInfo
<1>2. /\ a.from \in Nat /\ a.to \in Nat /\ a.from < a.to /\ a.to <= RowCount /\ RowCount \in Nat
      /\ a.from < RowCount
  BY RowsAsked, BeginIs DEF Answers
<1>m. Rows(w) = Matching[p.filter] /\ Rows(w) \in Nat /\ a.to <= Rows(w) /\ a.from < Rows(w)
  <2>1. Rows(w) = Matching[p.filter]
    BY DEF Rows
  <2> QED
    BY <1>2, <2>1, RowsAsked DEF Answers
<1>3. a.from = Begin(w)
  <2>1. Begin(w) \in Nat
    BY BeginIs
  <2> QED
    BY <1>m, <2>1 DEF Answers
<1>4. RowsOf(p)
  <2>1. p.top \in Optional(Tops) /\ p.filter \in Optional(BarFilters)
    BY DEF AsksFor
  <2>2. \A l \in service.limit : p.to <= p.from + l
    BY DEF Answers
  <2> QED
    BY <1>2, <1>m, <2>1, <2>2 DEF RowsOf
<1>5. size = Size(p) /\ size \in 1..Largest
  <2>1. Size(p) = size
    BY DEF Size
  <2> QED
    BY <1>4, <2>1, SizeIs
<1>6. /\ offset \in 0..(RowCount + Largest)
      /\ KnownIn(w) => offset = a.from
      /\ ~KnownIn(w) => offset <= RowCount
  BY <1>3, OffsetIs
<1> HIDE DEF offset
<1>7. Shows(p)
  <2> SUFFICES ASSUME KnownIn(w)
               PROVE  p.info.offset = p.from
                      /\ (p.total # {} => (p.info.hasMore <=> p.to < Matching[p.filter]))
    BY DEF Shows
  <2>1. offset = a.from /\ offset + rows = a.to
    BY <1>2, <1>6
  <2>2. ASSUME p.total # {} PROVE more <=> a.to < Rows(w)
    <3>1. a.total = {Rows(w)}
      BY <2>2 DEF Answers
    <3>2. a.next # {} => a.to < Rows(w)
      BY DEF Answers
    <3> QED
      BY <2>1, <3>1, <3>2
  <2> QED
    BY <1>1, <1>m, <2>1, <2>2
<1>8. Offers(p)
  <2>1. p.info.token \in {{}, {TokenAt(p.to)}}
    BY <1>1 DEF Answers
  <2>v. \A d, x : w.top = {x} => Value(w.top, d) = x
    <3> SUFFICES ASSUME NEW d, NEW x, w.top = {x} PROVE Value({x}, d) = x
      OBVIOUS
    <3> QED
      BY ValueIs, Zenon
  <2>u. \A x : w.top = {x} => size = x
    BY <2>v
  (* Without a token, the answer is as long as $top asked for. *)
  <2>2. ASSUME a.next = {}, more PROVE size = rows \/ ~KnownIn(w)
    <3>1. CASE a.total # {}
      <4>1. a.total = {Rows(w)}
        BY <3>1 DEF Answers
      <4>2. offset + rows < Rows(w)
        BY <2>2, <4>1
      <4>3. CASE KnownIn(w)
        <5>1. a.to < Rows(w)
          BY <1>2, <1>6, <4>2, <4>3
        <5>2. PICK n \in w.top : ~(a.to - a.from < n)
          BY <2>2, <5>1 DEF Answers
        <5>3. n \in Nat /\ w.top = {n}
          BY <5>2, QueryAssumption DEF AsksFor, Optional
        <5>4. a.to <= a.from + n
          BY <5>2 DEF Answers
        <5>5. rows = n
          BY <1>2, <5>2, <5>3, <5>4
        <5> QED
          BY <2>u, <5>3, <5>5
      <4> QED
        BY <4>3
    <3>2. CASE a.total = {}
      <4>1. w.top = {rows}
        BY <2>2, <3>2
      <4> QED
        BY <2>u, <4>1
    <3> QED
      BY <3>1, <3>2
  <2>3. nextSkip \in Optional(Numbers)
    <3>1. CASE nextSkip = {}
      BY <3>1 DEF Optional
    <3>2. CASE nextSkip = {offset + size}
      <4>1. offset <= RowCount
        BY <1>2, <1>6
      <4>2. offset + size \in Numbers
        BY <1>5, <1>6, <4>1, RowsBound DEF Numbers
      <4> QED
        BY <3>2, <4>2 DEF Optional
    <3> QED
      BY <3>1, <3>2
  <2>4. KnownIn(w) => nextSkip \subseteq {a.to}
    <3>1. CASE a.next = {} /\ more /\ KnownIn(w)
      <4>1. size = rows /\ offset = a.from
        BY <1>6, <2>2, <3>1
      <4>2. a.from + (a.to - a.from) = a.to
        BY <1>2
      <4>3. offset + size = a.to
        BY <4>1, <4>2
      <4> QED
        BY <4>3
    <3> QED
      BY <3>1
  <2>5. ASSUME prevSkip # {}, KnownIn(w) PROVE a.from > 0 /\ prevSkip = {PrevOf(p)}
    <3>1. offset > 0 /\ offset = a.from
      BY <1>6, <2>5
    <3>2. prevSkip = {IF size < offset THEN offset - size ELSE 0}
      BY <2>5
    <3> QED
      BY <1>5, <3>1, <3>2 DEF PrevOf
  <2>6. prevSkip \in Optional(0..RowCount)
    <3>1. CASE prevSkip = {}
      BY <3>1 DEF Optional
    <3>2. CASE prevSkip # {}
      <4>1. offset \in Nat /\ offset <= RowCount
        BY <1>2, <1>6
      <4>2. prevSkip = {IF size < offset THEN offset - size ELSE 0}
        BY <3>2
      <4>3. (IF size < offset THEN offset - size ELSE 0) \in 0..RowCount
        BY <1>2, <1>5, <4>1
      <4> QED
        BY <4>2, <4>3 DEF Optional
    <3> QED
      BY <3>1, <3>2
  <2> QED
    BY <1>1, <2>1, <2>3, <2>4, <2>5, <2>6 DEF Offers
<1> QED
  BY <1>4, <1>7, <1>8

(* Where a query that a button sent begins, from the page it was pressed on. *)
Leads(w) ==
  \A b \in w.base :
    /\ RowsOf(b)
    /\ w.by = "next" /\ (b.known \/ ~KnownIn(w)) => Begin(w) = b.to
    /\ w.by = "prev" /\ b.known => b.from > 0 /\ Begin(w) = PrevOf(b)

Meets(p) ==
  \A b \in p.base : p.filter = b.filter =>
    /\ p.by = "next" /\ (b.known \/ ~p.known) => p.from = b.to
    /\ p.by = "prev" /\ b.known /\ p.top = b.top /\ (\A t \in p.top, l \in service.limit : t <= l) =>
         p.from < b.from /\ b.from <= p.to

LEMMA PageMeets ==
  ASSUME ServiceOK, NEW w, AsksFor(w), Leads(w), NEW a, Answers(w, a), a.to # a.from,
         NEW p, p.filter = w.filter, p.from = a.from, p.to = a.to, p.top = w.top,
         p.known = KnownIn(w), p.by = w.by, p.base = w.base
  PROVE  Meets(p)
<1>1. /\ a.from \in Nat /\ a.to \in Nat /\ a.from < a.to /\ a.to <= Rows(w) /\ Rows(w) \in Nat
      /\ a.from < Rows(w)
  BY RowsAsked DEF Answers
<1>2. a.from = Begin(w)
  <2>1. Begin(w) \in Nat
    BY BeginIs
  <2> QED
    BY <1>1, <2>1 DEF Answers
<1>3. ASSUME NEW b \in w.base, w.by = "next", b.known \/ ~KnownIn(w)
      PROVE  a.from = b.to
  BY <1>2, <1>3 DEF Leads
<1>4. ASSUME NEW b \in w.base, w.by = "prev", b.known, p.filter = b.filter, w.top = b.top,
             \A t \in w.top, l \in service.limit : t <= l
      PROVE  a.from < b.from /\ b.from <= a.to
  <2>1. RowsOf(b) /\ b.from > 0 /\ a.from = PrevOf(b)
    BY <1>2, <1>4 DEF Leads
  <2>2. /\ Size(b) \in 1..Largest /\ PrevOf(b) < b.from
        /\ b.top = {} => Size(b) = b.to - b.from
        /\ \A t : b.top = {t} => Size(b) = t
    BY <2>1, SizeIs
  <2>3. b.from \in Nat /\ b.to \in Nat /\ b.from < b.to /\ b.to <= Rows(w)
    BY <1>4, <2>1 DEF RowsOf, Rows
  <2>4. Size(b) \in Nat /\ b.from <= PrevOf(b) + Size(b)
    BY <2>2, <2>3, RowsBound DEF PrevOf
  <2>5. \A n \in w.top \cup service.limit : n \in Nat /\ Size(b) <= n
    <3>1. \A l \in service.limit : l \in Nat /\ b.to <= b.from + l
      BY <2>1, ServiceIs DEF RowsOf
    <3>2. CASE b.top = {}
      BY <1>4, <2>2, <2>3, <3>1, <3>2
    <3>3. CASE \E t \in Tops : b.top = {t}
      <4>1. PICK t \in Tops : b.top = {t}
        BY <3>3
      <4>2. Size(b) = t /\ t \in Nat
        BY <2>2, <2>4, <4>1
      <4> QED
        BY <1>4, <3>1, <4>1, <4>2
    <3> QED
      BY <2>1, <3>2, <3>3 DEF RowsOf, Optional
  <2>6. b.from <= a.to
    <3>1. CASE a.to = Rows(w)
      BY <1>1, <2>3, <3>1
    <3>2. CASE \E n \in w.top \cup service.limit : a.to = a.from + n
      <4>1. PICK n \in w.top \cup service.limit : a.to = a.from + n
        BY <3>2
      <4>2. n \in Nat /\ Size(b) <= n
        BY <2>5
      <4> QED
        BY <1>1, <2>1, <2>3, <2>4, <4>1, <4>2
    <3> QED
      BY <3>1, <3>2 DEF Answers
  <2> QED
    BY <2>1, <2>2, <2>6
<1> QED
  BY <1>3, <1>4 DEF Meets

-----------------------------------------------------------------------------
(* The pager, step by step. *)

Bars == [filter : Optional(BarFilters), top : Optional(Tops), skip : Optional(Numbers), count : BOOLEAN]

PagerInv ==
  /\ ServiceOK
  /\ bar \in Bars
  /\ \A w \in waiting : AsksFor(w) /\ Leads(w)
  /\ \A p \in page : RowsOf(p) /\ Offers(p) /\ Shows(p) /\ Meets(p)
  /\ \A p, q \in page : p = q

LEMMA Frame ==
  ASSUME service' = service
  PROVE  /\ ServiceOK' <=> ServiceOK
         /\ \A w : (AsksFor(w)' <=> AsksFor(w)) /\ (Leads(w)' <=> Leads(w))
         /\ \A p : /\ RowsOf(p)' <=> RowsOf(p)
                   /\ Offers(p)' <=> Offers(p)
                   /\ Shows(p)' <=> Shows(p)
                   /\ Meets(p)' <=> Meets(p)
<1>1. \A n : TokenAt(n)' = TokenAt(n)
  BY DEF TokenAt
<1>2. TokensHere' = TokensHere
  BY DEF TokensHere, TokenAt
<1>3. ServiceOK' <=> ServiceOK
  BY DEF ServiceOK
<1>4. \A w : AsksFor(w)' <=> AsksFor(w)
  BY <1>2 DEF AsksFor
<1>5. \A w : (KnownIn(w)' <=> KnownIn(w))
  BY DEF KnownIn
<1>6. \A w : Begin(w)' = Begin(w)
  BY DEF Begin, PositionOf, TokenAt
<1>7. \A p : RowsOf(p)' <=> RowsOf(p)
  BY DEF RowsOf
<1>8. \A w : Leads(w)' <=> Leads(w)
  BY <1>5, <1>6, <1>7 DEF Leads
<1>9. \A p : (Offers(p)' <=> Offers(p)) /\ (Shows(p)' <=> Shows(p)) /\ (Meets(p)' <=> Meets(p))
  BY <1>1 DEF Offers, Shows, Meets
<1> QED
  BY <1>3, <1>4, <1>7, <1>8, <1>9

LEMMA PagerStays ==
  ASSUME PagerInv, service' = service, page' = page, bar' \in Bars,
         \A w \in waiting' : AsksFor(w) /\ Leads(w)
  PROVE  PagerInv'
BY Frame DEF PagerInv, Bars

BarQuery(b, token) ==
  [[NoQuery EXCEPT !.filter = b.filter, !.top = {Num(n) : n \in b.top},
      !.skip = {Num(n) : n \in b.skip}, !.skiptoken = token, !.count = b.count]
     EXCEPT !.version = service.version]

LEMMA NumbersWritten ==
  ASSUME NEW S \in SUBSET (0..(RowCount + Largest)), NEW set \in Optional(S)
  PROVE  {Num(n) : n \in set} \in Optional(Texts)
<1>1. CASE set = {}
  BY <1>1 DEF Optional
<1>2. CASE \E n \in S : set = {n}
  <2>1. PICK n \in S : set = {n}
    BY <1>2
  <2>2. Num(n) \in Texts /\ {Num(m) : m \in set} = {Num(n)}
    BY <2>1, NumIs
  <2> QED
    BY <2>2 DEF Optional
<1> QED
  BY <1>1, <1>2 DEF Optional

LEMMA BarQueryIs ==
  ASSUME ServiceOK, NEW b \in Bars, NEW token \in TokensHere
  PROVE  LET q == BarQuery(b, token)
         IN /\ WellFormed(q)
            /\ q.top = {Num(n) : n \in b.top} /\ q.skip = {Num(n) : n \in b.skip}
            /\ q.skiptoken = token /\ q.filter = b.filter /\ q.count = b.count
            /\ q.key = {} /\ q.navigation = {} /\ q.select = << >> /\ q.search = {}
            /\ q.version = service.version
<1> DEFINE q == BarQuery(b, token)
           tops == {Num(n) : n \in b.top}
           skips == {Num(n) : n \in b.skip}
<1>1. tops \in Optional(Texts) /\ skips \in Optional(Texts)
  <2>1. b.top \in Optional(Tops) /\ b.skip \in Optional(Numbers)
    BY DEF Bars
  <2>2. Tops \in SUBSET (0..(RowCount + Largest)) /\ Numbers \in SUBSET (0..(RowCount + Largest))
    BY QueryAssumption DEF Numbers
  <2> QED
    BY <2>1, <2>2, NumbersWritten
<1>2. token \in Optional(Texts)
  BY TokenIs DEF TokensHere, Optional
<1>3. b.filter \in Optional(Texts) /\ b.count \in BOOLEAN
  BY QueryAssumption DEF Bars, Optional, Texts
<1> HIDE DEF tops, skips
<1>4. /\ q.set = <<"Set">> /\ q.top = tops /\ q.skip = skips /\ q.skiptoken = token
      /\ q.filter = b.filter /\ q.count = b.count
      /\ q.key = {} /\ q.navigation = {} /\ q.select = << >> /\ q.search = {}
      /\ q.version = service.version
  BY DEF BarQuery, NoQuery, tops, skips
<1> HIDE DEF q
<1>5. WellFormed(q)
  BY <1>1, <1>2, <1>3, <1>4 DEF WellFormed, Optional
<1> QED
  BY <1>4, <1>5 DEF q, tops, skips

LEMMA Executes ==
  ASSUME PagerInv, NEW b \in Bars, NEW token \in TokensHere, b.skip = {} \/ token = {},
         NEW meant, NEW by, Execute(b, token, meant, by)
  PROVE  /\ service' = service /\ page' = page /\ bar' = b
         /\ \A w \in waiting' :
              /\ AsksFor(w) /\ w.by = by /\ w.token = token /\ w.skip = b.skip
              /\ \A x \in w.base : \E p \in page :
                   x = Extent(p)
<1> DEFINE q == BarQuery(b, token)
           base == {Extent(p) : p \in page}
<1>1. ServiceOK
  BY DEF PagerInv
<1>2. /\ WellFormed(q) /\ q.top = {Num(n) : n \in b.top} /\ q.skip = {Num(n) : n \in b.skip}
      /\ q.skiptoken = token /\ q.filter = b.filter
  BY <1>1, BarQueryIs
<1>3. PICK m : sent' = {[url |-> Build(q), meant |-> m]}
  BY DEF Execute, Leaves, BarQuery
<1> HIDE DEF q
<1>4. waiting' = {[filter |-> b.filter, top |-> b.top, skip |-> b.skip, token |-> token,
                   by |-> by, url |-> s.url, base |-> base] : s \in sent'}
  BY DEF Execute
<1> HIDE DEF base
<1>5. ASSUME NEW w \in waiting'
      PROVE  /\ w.filter = b.filter /\ w.top = b.top /\ w.skip = b.skip /\ w.token = token /\ w.by = by
             /\ w.url = Build(q) /\ w.base = base
  BY <1>3, <1>4, <1>5
<1>6. /\ ValuesOf(Build(q), "$top") = q.top /\ ValuesOf(Build(q), "$skip") = q.skip
      /\ ValuesOf(Build(q), "$skiptoken") = q.skiptoken /\ ValuesOf(Build(q), "$filter") = q.filter
  <2>1. {"$top", "$skip", "$skiptoken", "$filter"} \subseteq Names
    BY DEF Names
  <2>2. Given(q, "$top") = q.top /\ Given(q, "$skip") = q.skip /\ Given(q, "$skiptoken") = q.skiptoken
        /\ Given(q, "$filter") = q.filter
    BY DEF Given
  <2> QED
    BY <1>2, <2>1, <2>2, ValuesOfBuild
<1>7. ASSUME NEW w \in waiting' PROVE AsksFor(w)
  <2>1. b.filter \in Optional(BarFilters) /\ b.top \in Optional(Tops) /\ b.skip \in Optional(Numbers)
    BY DEF Bars
  <2> QED
    BY <1>2, <1>5, <1>6, <2>1 DEF AsksFor
<1>8. ASSUME NEW x \in base
      PROVE  \E p \in page : x = Extent(p)
  BY DEF base, Extent
<1>9. service' = service /\ page' = page /\ bar' = b
  BY DEF Execute
<1> QED
  BY <1>5, <1>7, <1>8, <1>9

LEMMA BarEdited ==
  ASSUME bar \in Bars
  PROVE  /\ \A s \in Optional(Numbers) : /\ [bar EXCEPT !.skip = s] \in Bars
                                         /\ [bar EXCEPT !.skip = s].skip = s
         /\ \A t \in Optional(Tops) : [bar EXCEPT !.top = t] \in Bars
         /\ \A f \in Optional(BarFilters) : [bar EXCEPT !.filter = f] \in Bars
         /\ [bar EXCEPT !.count = ~bar.count] \in Bars
<1>1. \A s \in Optional(Numbers) : [bar EXCEPT !.skip = s] \in Bars /\ [bar EXCEPT !.skip = s].skip = s
  BY DEF Bars
<1>2. \A t \in Optional(Tops) : [bar EXCEPT !.top = t] \in Bars
  BY DEF Bars
<1>3. \A f \in Optional(BarFilters) : [bar EXCEPT !.filter = f] \in Bars
  BY DEF Bars
<1>4. [bar EXCEPT !.count = ~bar.count] \in Bars
  BY DEF Bars
<1> QED
  BY <1>1, <1>2, <1>3, <1>4

LEMMA RunKeeps ==
  ASSUME PagerInv, Run
  PROVE  PagerInv'
<1> DEFINE none == {}
<1>1. bar \in Bars /\ none \in TokensHere
  BY DEF PagerInv, TokensHere
<1>2. Execute(bar, none, {}, "run")
  BY DEF Run
<1>3. none = {}
  OBVIOUS
<1> HIDE DEF none
<1>4. /\ service' = service /\ page' = page /\ bar' = bar
      /\ \A w \in waiting' :
           /\ AsksFor(w) /\ w.by = "run"
           /\ \A x \in w.base : \E p \in page :
                x = Extent(p)
  BY <1>1, <1>2, <1>3, Executes
<1>5. ASSUME NEW w \in waiting' PROVE Leads(w)
  <2>1. ASSUME NEW x \in w.base PROVE RowsOf(x)
    <3>1. PICK p \in page : x = Extent(p)
      BY <1>4
    <3>2. RowsOf(p)
      BY DEF PagerInv
    <3> QED
      BY <3>1, <3>2 DEF RowsOf, Extent
  <2>2. w.by = "run"
    BY <1>4
  <2> QED
    BY <2>1, <2>2 DEF Leads
<1> QED
  BY <1>1, <1>4, <1>5, PagerStays

LEMMA NextPageKeeps ==
  ASSUME PagerInv, NextPage
  PROVE  PagerInv'
<1>1. PICK p \in page :
        \/ /\ p.info.token # {}
           /\ Execute([bar EXCEPT !.skip = {}], p.info.token, {TokenAt(p.to)}, "next")
        \/ /\ p.info.token = {} /\ p.info.nextSkip # {}
           /\ Execute([bar EXCEPT !.skip = p.info.nextSkip], {}, {}, "next")
  BY DEF NextPage
<1>2. ServiceOK /\ bar \in Bars /\ RowsOf(p) /\ Offers(p) /\ \A q \in page : q = p
  BY DEF PagerInv
<1>3. PICK skip, token, meant :
        /\ skip \in Optional(Numbers) /\ token \in TokensHere
        /\ skip = {} \/ token = {}
        /\ Execute([bar EXCEPT !.skip = skip], token, meant, "next")
        /\ token = {TokenAt(p.to)} \/ (token = {} /\ skip = p.info.nextSkip /\ skip # {})
  <2>1. CASE p.info.token # {} /\ Execute([bar EXCEPT !.skip = {}], p.info.token, {TokenAt(p.to)}, "next")
    <3>1. p.info.token = {TokenAt(p.to)}
      BY <1>2, <2>1 DEF Offers
    <3>2. p.to \in 0..RowCount
      BY <1>2 DEF RowsOf
    <3>3. p.info.token \in TokensHere
      BY <3>1, <3>2 DEF TokensHere
    <3>4. {} \in Optional(Numbers)
      BY DEF Optional
    <3> QED
      BY <2>1, <3>1, <3>3, <3>4
  <2>2. CASE p.info.token = {} /\ p.info.nextSkip # {}
             /\ Execute([bar EXCEPT !.skip = p.info.nextSkip], {}, {}, "next")
    <3>1. p.info.nextSkip \in Optional(Numbers)
      BY <1>2 DEF Offers
    <3>2. {} \in TokensHere
      BY DEF TokensHere
    <3> QED
      BY <2>2, <3>1, <3>2
  <2> QED
    BY <1>1, <2>1, <2>2
<1> DEFINE b == [bar EXCEPT !.skip = skip]
<1>4. b \in Bars /\ b.skip = skip
  BY <1>2, <1>3, BarEdited
<1>5. Execute(b, token, meant, "next")
  BY <1>3
<1> HIDE DEF b
<1>6. /\ service' = service /\ page' = page /\ bar' = b
      /\ \A w \in waiting' :
           /\ AsksFor(w) /\ w.by = "next" /\ w.token = token /\ w.skip = skip
           /\ \A x \in w.base : \E o \in page :
                x = Extent(o)
  BY <1>3, <1>4, <1>5, Executes
<1>7. ASSUME NEW w \in waiting' PROVE Leads(w)
  <2>1. AsksFor(w) /\ w.by = "next" /\ w.token = token /\ w.skip = skip
    BY <1>6
  <2>2. ASSUME NEW x \in w.base
        PROVE  RowsOf(x) /\ (x.known \/ ~KnownIn(w) => Begin(w) = x.to)
    <3>1. x = Extent(p)
      BY <1>2, <1>6
    <3>2. RowsOf(x) /\ x.to = p.to /\ x.known = p.known
      BY <1>2, <3>1 DEF RowsOf, Extent
    <3>3. CASE token = {TokenAt(p.to)}
      <4>1. p.to \in 0..RowCount
        BY <1>2 DEF RowsOf
      <4>2. Begin(w) = p.to
        BY <1>2, <2>1, <3>3, <4>1, BeginIs
      <4> QED
        BY <3>2, <4>2
    <3>4. CASE token = {} /\ skip = p.info.nextSkip /\ skip # {}
      <4>1. KnownIn(w)
        BY <2>1, <3>4 DEF KnownIn
      <4>2. ASSUME p.known PROVE Begin(w) = p.to
        <5>1. w.skip = {p.to}
          BY <1>2, <2>1, <3>4, <4>2 DEF Offers
        <5> QED
          BY <1>2, <2>1, <5>1, BeginIs
      <4> QED
        BY <3>2, <4>1, <4>2
    <3> QED
      BY <1>3, <3>3, <3>4
  <2> QED
    BY <2>1, <2>2 DEF Leads
<1> QED
  BY <1>4, <1>6, <1>7, PagerStays

LEMMA PrevPageKeeps ==
  ASSUME PagerInv, PrevPage
  PROVE  PagerInv'
<1>1. PICK p \in page : p.info.prevSkip # {}
                        /\ Execute([bar EXCEPT !.skip = p.info.prevSkip \ {0}], {}, {}, "prev")
  BY DEF PrevPage
<1>2. ServiceOK /\ bar \in Bars /\ RowsOf(p) /\ Offers(p) /\ \A q \in page : q = p
  BY DEF PagerInv
<1>3. PICK start \in 0..RowCount : p.info.prevSkip = {start}
  BY <1>1, <1>2 DEF Offers, Optional
<1>s. p.known => p.from > 0 /\ start = PrevOf(p)
  BY <1>2, <1>3 DEF Offers
<1> DEFINE skip == p.info.prevSkip \ {0}
           none == {}
           b == [bar EXCEPT !.skip = skip]
<1>4. (start = 0 /\ skip = {}) \/ (skip = {start} /\ start \in Numbers)
  BY <1>3, RowsBound DEF Numbers
<1>5. none = {} /\ none \in TokensHere
  BY DEF TokensHere
<1>6. Execute(b, none, {}, "prev")
  BY <1>1
<1> HIDE DEF none, skip
<1>7. skip \in Optional(Numbers)
  BY <1>4 DEF Optional
<1>8. b \in Bars /\ b.skip = skip
  BY <1>2, <1>7, BarEdited
<1> HIDE DEF b
<1>9. /\ service' = service /\ page' = page /\ bar' = b
      /\ \A w \in waiting' :
           /\ AsksFor(w) /\ w.by = "prev" /\ w.token = none /\ w.skip = skip
           /\ \A x \in w.base : \E o \in page :
                x = Extent(o)
  BY <1>5, <1>6, <1>8, Executes
<1>10. ASSUME NEW w \in waiting' PROVE Leads(w)
  <2>1. AsksFor(w) /\ w.by = "prev" /\ w.token = {} /\ w.skip = skip
    BY <1>5, <1>9
  <2>2. Begin(w) = start
    BY <1>2, <1>4, <2>1, BeginIs
  <2>3. ASSUME NEW x \in w.base
        PROVE  RowsOf(x) /\ (x.known => x.from > 0 /\ Begin(w) = PrevOf(x))
    <3>1. x = Extent(p)
      BY <1>2, <1>9
    <3>2. /\ x.filter = p.filter /\ x.from = p.from /\ x.to = p.to /\ x.top = p.top
          /\ x.known = p.known
      BY <3>1 DEF Extent
    <3>3. RowsOf(x)
      BY <1>2, <3>2 DEF RowsOf
    <3>4. PrevOf(x) = PrevOf(p)
      BY <3>2 DEF PrevOf, Size
    <3> QED
      BY <1>s, <2>2, <3>2, <3>3, <3>4
  <2> QED
    BY <2>1, <2>3 DEF Leads
<1> QED
  BY <1>8, <1>9, <1>10, PagerStays

LEMMA AnsweredKeeps ==
  ASSUME PagerInv, Answered
  PROVE  PagerInv'
<1>1. PICK w \in waiting :
        LET answer == AnswerTo(w.url)
        IN page' = IF answer.to = answer.from THEN {}
                   ELSE {[filter |-> w.filter, from |-> answer.from, to |-> answer.to,
                          total |-> answer.total, top |-> w.top, by |-> w.by, base |-> w.base,
                          known |-> w.token = {} \/ service.token = "offset", info |-> PagingInfo(w, answer)]}
  BY DEF Answered
<1>2. ServiceOK /\ bar \in Bars /\ AsksFor(w) /\ Leads(w)
  BY DEF PagerInv
<1>3. waiting' = {} /\ service' = service /\ bar' = bar
  BY DEF Answered
<1> DEFINE a == AnswerTo(w.url)
           p == [filter |-> w.filter, from |-> a.from, to |-> a.to, total |-> a.total,
                 top |-> w.top, by |-> w.by, base |-> w.base,
                 known |-> w.token = {} \/ service.token = "offset", info |-> PagingInfo(w, a)]
<1>4. Answers(w, a)
  BY <1>2, AnswerIs
<1>5. page' = IF a.to = a.from THEN {} ELSE {p}
  BY <1>1
<1> HIDE DEF a
<1>6. /\ p.filter = w.filter /\ p.from = a.from /\ p.to = a.to /\ p.total = a.total /\ p.top = w.top /\ p.by = w.by
      /\ p.base = w.base /\ p.info = PagingInfo(w, a)
  OBVIOUS
<1>7. p.known = KnownIn(w)
  BY DEF KnownIn
<1> HIDE DEF p
<1>8. a.to # a.from => RowsOf(p) /\ Offers(p) /\ Shows(p) /\ Meets(p)
  <2> SUFFICES ASSUME a.to # a.from PROVE RowsOf(p) /\ Offers(p) /\ Shows(p) /\ Meets(p)
    OBVIOUS
  <2>1. RowsOf(p) /\ Offers(p) /\ Shows(p)
    BY <1>2, <1>4, <1>6, <1>7, PageOffers
  <2>2. Meets(p)
    BY <1>2, <1>4, <1>6, <1>7, PageMeets
  <2> QED
    BY <2>1, <2>2
<1>9. \A o \in page' : RowsOf(o) /\ Offers(o) /\ Shows(o) /\ Meets(o)
  BY <1>5, <1>8
<1>10. \A o, r \in page' : o = r
  BY <1>5
<1> QED
  BY <1>2, <1>3, <1>9, <1>10, Frame DEF PagerInv, Bars

LEMMA PagerInit ==
  ASSUME Init
  PROVE  PagerInv
<1>1. bar \in Bars
  BY DEF Init, EmptyBar, Bars, Optional
<1> QED
  BY <1>1 DEF Init, PagerInv, ServiceOK

LEMMA PagerNext ==
  ASSUME PagerInv, [Next]_vars
  PROVE  PagerInv'
<1>0. bar \in Bars
  BY DEF PagerInv
<1>1. ASSUME NEW q, NEW meant, OneShot(q, meant) PROVE PagerInv'
  <2>1. service' = service /\ page' = page /\ bar' = bar /\ waiting' = waiting
    BY <1>1 DEF OneShot
  <2> QED
    BY <1>0, <2>1, PagerStays DEF PagerInv
<1>2. ASSUME NEW b \in Bars, Edit(b) PROVE PagerInv'
  <2>1. service' = service /\ page' = page /\ bar' = b /\ waiting' = waiting
    BY <1>2 DEF Edit
  <2> QED
    BY <2>1, PagerStays DEF PagerInv
<1>3. CASE \E f \in Optional(Filters), in \in Optional(Ins), list \in Optional(Lists) : CliQuery(f, in, list, {})
  BY <1>1, <1>3 DEF CliQuery
<1>4. CASE \E key \in Keys : CliQuery({}, {}, {}, {key}) \/ Navigate(key)
  BY <1>1, <1>4 DEF CliQuery, Navigate
<1>5. CASE \E f \in Optional(Filters), t \in Optional(Terms) : PickValues(f, t)
  BY <1>1, <1>5 DEF PickValues
<1>6. CASE \/ \E f \in Optional(BarFilters) : Edit([bar EXCEPT !.filter = f])
           \/ \E t \in Optional(Tops) : Edit([bar EXCEPT !.top = t])
           \/ Edit([bar EXCEPT !.count = ~bar.count])
  BY <1>0, <1>2, <1>6, BarEdited
<1>7. CASE \E k \in Optional(Skips) : Edit([bar EXCEPT !.skip = k])
  <2>1. Skips \subseteq Numbers
    BY QueryAssumption DEF Numbers
  <2>2. Optional(Skips) \subseteq Optional(Numbers)
    BY <2>1 DEF Optional
  <2> QED
    BY <1>0, <1>2, <1>7, <2>2, BarEdited
<1>8. CASE QueryFails
  <2>1. service' = service /\ bar' = bar /\ waiting' = {} /\ page' = {}
    BY <1>8 DEF QueryFails
  <2> QED
    BY <2>1, Frame DEF PagerInv, Bars
<1>9. CASE UNCHANGED vars
  <2>1. service' = service /\ page' = page /\ bar' = bar /\ waiting' = waiting
    BY <1>9 DEF vars
  <2> QED
    BY <1>0, <2>1, PagerStays DEF PagerInv
<1> QED
  BY <1>3, <1>4, <1>5, <1>6, <1>7, <1>8, <1>9, RunKeeps, NextPageKeeps, PrevPageKeeps, AnsweredKeeps DEF Next

LEMMA PagerHolds == Spec => []PagerInv
<1>1. Init => PagerInv
  BY PagerInit
<1>2. PagerInv /\ [Next]_vars => PagerInv'
  BY PagerNext
<1> QED
  BY <1>1, <1>2, PTL DEF Spec

(* For every entity set, service and sequence of edits and clicks, while the *)
(* filter stays: "next" begins where the page on screen ends, "prev" leaves  *)
(* no gap before it, the range shown is the range there is, and with a count *)
(* "next" is offered exactly while rows remain (format.js, pagingInfo).      *)
(* Except where a token that is no row offset hides the place, and "prev"    *)
(* where $top asks for more than the service sends or was changed meanwhile. *)
THEOREM PagesMeetAlways == Spec => []PagesMeet
<1>1. PagerInv => PagesMeet
  BY DEF PagerInv, PagesMeet, Shows, Meets
<1> QED
  BY <1>1, PagerHolds, PTL

-----------------------------------------------------------------------------
(* Literals and parentheses of a filter, symbol by symbol. *)

Count(D, n) == Cardinality(D \cap (1..n))

LEMMA CountStep ==
  ASSUME NEW D, NEW n \in Nat
  PROVE  /\ Count(D, n) \in Nat
         /\ Count(D, n + 1) = IF n + 1 \in D THEN Count(D, n) + 1 ELSE Count(D, n)
<1>1. IsFiniteSet(1..n)
  BY FS_Interval
<1>2. IsFiniteSet(D \cap (1..n))
  BY <1>1, FS_Intersection
<1>3. CASE n + 1 \in D
  <2> DEFINE E == D \cap (1..n)
             F == D \cap (1..(n + 1))
  <2>1. F = E \cup {n + 1}
    BY <1>3
  <2>2. n + 1 \notin E
    OBVIOUS
  <2> HIDE DEF E, F
  <2>3. Cardinality(E \cup {n + 1}) = Cardinality(E) + 1
    BY <1>2, <2>2, FS_AddElement DEF E
  <2>4. Cardinality(E) \in Nat
    BY <1>2, FS_CardinalityType DEF E
  <2> QED
    BY <1>3, <2>1, <2>3, <2>4 DEF Count, E, F
<1>4. CASE n + 1 \notin D
  <2>1. D \cap (1..(n + 1)) = D \cap (1..n)
    BY <1>4
  <2> QED
    BY <1>2, <1>4, <2>1, FS_CardinalityType DEF Count
<1> QED
  BY <1>3, <1>4

LEMMA CountNone == \A D : Count(D, 0) = 0
<1>1. \A D : D \cap (1..0) = {}
  OBVIOUS
<1> QED
  BY <1>1, FS_EmptySet DEF Count

Quotes(t) == {j \in Nat : t[j] = "'"}
Lefts(t) == {j \in Nat : t[j] = "(" /\ Outside(t, j)}
Rights(t) == {j \in Nat : t[j] = ")" /\ Outside(t, j)}

LEMMA OutsideCounts ==
  ASSUME NEW t, NEW n \in Nat
  PROVE  /\ Outside(t, n + 1) <=> Count(Quotes(t), n) % 2 = 0
         /\ Open(t, n + 1) = Count(Lefts(t), n) - Count(Rights(t), n)
<1>1. (n + 1) - 1 = n
  OBVIOUS
<1>2. {j \in 1..n : t[j] = "'"} = Quotes(t) \cap (1..n)
  BY DEF Quotes
<1>3. {j \in 1..n : t[j] = "(" /\ Outside(t, j)} = Lefts(t) \cap (1..n)
  BY DEF Lefts
<1>4. {j \in 1..n : t[j] = ")" /\ Outside(t, j)} = Rights(t) \cap (1..n)
  BY DEF Rights
<1>5. Outside(t, n + 1) <=> Cardinality({j \in 1..n : t[j] = "'"}) % 2 = 0
  BY <1>1, Zenon DEF Outside
<1>6. Open(t, n + 1) = Cardinality({j \in 1..n : t[j] = "(" /\ Outside(t, j)})
                       - Cardinality({j \in 1..n : t[j] = ")" /\ Outside(t, j)})
  BY <1>1, Zenon DEF Open
<1> QED
  BY <1>2, <1>3, <1>4, <1>5, <1>6, Zenon DEF Count

(* A text begins outside of literals and parentheses. *)
LEMMA OutsideFirst ==
  \A t : Outside(t, 1) /\ Open(t, 1) = 0
<1>1. ASSUME NEW t PROVE Outside(t, 1) /\ Open(t, 1) = 0
  <2>1. 0 + 1 = 1 /\ 0 \in Nat
    OBVIOUS
  <2>2. /\ Outside(t, 0 + 1) <=> Count(Quotes(t), 0) % 2 = 0
        /\ Open(t, 0 + 1) = Count(Lefts(t), 0) - Count(Rights(t), 0)
    BY <2>1, OutsideCounts
  <2> QED
    BY <2>1, <2>2, CountNone
<1> QED
  BY <1>1

LEMMA OutsideStep ==
  ASSUME NEW t, NEW i \in Nat, i >= 1
  PROVE  /\ Outside(t, i + 1) <=> IF t[i] = "'" THEN ~Outside(t, i) ELSE Outside(t, i)
         /\ Open(t, i) \in Int
         /\ Open(t, i + 1) = IF t[i] = "(" /\ Outside(t, i) THEN Open(t, i) + 1
                             ELSE IF t[i] = ")" /\ Outside(t, i) THEN Open(t, i) - 1 ELSE Open(t, i)
<1> DEFINE n == i - 1
           q == Count(Quotes(t), n)
           l == Count(Lefts(t), n)
           r == Count(Rights(t), n)
<1>1. n \in Nat /\ n + 1 = i
  OBVIOUS
<1>2. /\ i \in Quotes(t) <=> t[i] = "'"
      /\ i \in Lefts(t) <=> t[i] = "(" /\ Outside(t, i)
      /\ i \in Rights(t) <=> t[i] = ")" /\ Outside(t, i)
  BY DEF Quotes, Lefts, Rights
<1> HIDE DEF n
<1>3. /\ q \in Nat /\ l \in Nat /\ r \in Nat
      /\ Count(Quotes(t), i) = IF i \in Quotes(t) THEN q + 1 ELSE q
      /\ Count(Lefts(t), i) = IF i \in Lefts(t) THEN l + 1 ELSE l
      /\ Count(Rights(t), i) = IF i \in Rights(t) THEN r + 1 ELSE r
  BY <1>1, CountStep
<1>4. (Outside(t, i) <=> q % 2 = 0) /\ Open(t, i) = l - r
  BY <1>1, OutsideCounts
<1>5. /\ Outside(t, i + 1) <=> Count(Quotes(t), i) % 2 = 0
      /\ Open(t, i + 1) = Count(Lefts(t), i) - Count(Rights(t), i)
  BY OutsideCounts
<1> HIDE DEF q, l, r
<1>6. Outside(t, i + 1) <=> IF t[i] = "'" THEN ~Outside(t, i) ELSE Outside(t, i)
  <2>1. (q + 1) % 2 = 0 <=> q % 2 # 0
    BY <1>3
  <2> QED
    BY <1>2, <1>3, <1>4, <1>5, <2>1
<1>7. t[i] = "(" => t[i] # ")"
  OBVIOUS
<1> QED
  BY <1>2, <1>3, <1>4, <1>5, <1>6, <1>7

(* Where a part begins outside of literals, it counts as it does by itself. *)
SameWithin(text, at, part, i) ==
  /\ Outside(text, at + i) <=> Outside(part, i)
  /\ Open(text, at + i) = Open(text, at + 1) + Open(part, i)

LEMMA Within ==
  ASSUME NEW S, NEW text \in Seq(S), NEW part \in Seq(S), NEW at \in Nat, LiesAt(text, at, part),
         Outside(text, at + 1), NEW i \in 1..(Len(part) + 1)
  PROVE  SameWithin(text, at, part, i)
<1> DEFINE m == Len(part)
           K == {k \in Nat : k <= m => SameWithin(text, at, part, k + 1)}
<1>0. m \in Nat
  OBVIOUS
<1>1. 0 \in K
  <2>1. 0 + 1 = 1 /\ Open(text, at + 1) \in Int
    BY OutsideStep
  <2> QED
    BY <2>1, OutsideFirst DEF SameWithin
<1>2. ASSUME NEW k \in K PROVE k + 1 \in K
  <2> SUFFICES ASSUME k + 1 <= m PROVE SameWithin(text, at, part, (k + 1) + 1)
    OBVIOUS
  <2> DEFINE x == at + (k + 1)
             j == k + 1
  <2>1. k \in Nat /\ j \in Nat /\ j >= 1 /\ x \in Nat /\ x >= 1 /\ k <= m /\ j \in 1..m
    BY <1>0
  <2>2. SameWithin(text, at, part, j)
    BY <1>2, <2>1
  <2>3. text[x] = part[j]
    BY <2>1 DEF LiesAt
  <2>4. at + (j + 1) = x + 1
    OBVIOUS
  <2>5. Open(text, at + 1) \in Int
    BY OutsideStep
  <2> HIDE DEF j, K, m
  <2>6. (Outside(text, x) <=> Outside(part, j)) /\ Open(text, x) = Open(text, at + 1) + Open(part, j)
    BY <2>2 DEF SameWithin, j
  <2> HIDE DEF x
  <2>7. /\ Outside(text, x + 1) <=> IF text[x] = "'" THEN ~Outside(text, x) ELSE Outside(text, x)
        /\ Open(text, x) \in Int
        /\ Open(text, x + 1) = IF text[x] = "(" /\ Outside(text, x) THEN Open(text, x) + 1
                               ELSE IF text[x] = ")" /\ Outside(text, x) THEN Open(text, x) - 1 ELSE Open(text, x)
    BY <2>1, OutsideStep
  <2>8. /\ Outside(part, j + 1) <=> IF part[j] = "'" THEN ~Outside(part, j) ELSE Outside(part, j)
        /\ Open(part, j) \in Int
        /\ Open(part, j + 1) = IF part[j] = "(" /\ Outside(part, j) THEN Open(part, j) + 1
                               ELSE IF part[j] = ")" /\ Outside(part, j) THEN Open(part, j) - 1 ELSE Open(part, j)
    BY <2>1, OutsideStep
  <2>9. Outside(text, x + 1) <=> Outside(part, j + 1)
    BY <2>3, <2>6, <2>7, <2>8
  <2>10. Open(text, x + 1) = Open(text, at + 1) + Open(part, j + 1)
    BY <2>3, <2>5, <2>6, <2>7, <2>8
  <2>11. SameWithin(text, at, part, j + 1)
    BY <2>4, <2>9, <2>10 DEF SameWithin
  <2> QED
    BY <2>11 DEF j
<1>3. K = Nat
  <2>1. K \in SUBSET Nat
    BY DEF K
  <2> HIDE DEF K
  <2> QED
    BY <1>1, <1>2, <2>1, SetInduction
<1>4. i - 1 \in Nat /\ i - 1 <= m /\ (i - 1) + 1 = i
  BY <1>0
<1> QED
  BY <1>3, <1>4 DEF K

(* Inside of a literal, only what is outside of the part's own is one. *)
LEMMA InLiteral ==
  ASSUME NEW S, NEW text \in Seq(S), NEW part \in Seq(S), NEW at \in Nat, LiesAt(text, at, part),
         ~Outside(text, at + 1), \A j \in 1..Len(part) : part[j] # "'" => Outside(part, j),
         NEW i \in 1..(Len(part) + 1)
  PROVE  /\ Outside(text, at + i) <=> ~Outside(part, i)
         /\ Open(text, at + i) = Open(text, at + 1)
<1> DEFINE m == Len(part)
           Good(k) == /\ Outside(text, at + k) <=> ~Outside(part, k)
                      /\ Open(text, at + k) = Open(text, at + 1)
           K == {k \in Nat : k <= m => Good(k + 1)}
<1>0. m \in Nat
  OBVIOUS
<1>1. 0 \in K
  <2>1. 0 + 1 = 1
    OBVIOUS
  <2> QED
    BY <2>1, OutsideFirst
<1>2. ASSUME NEW k \in K PROVE k + 1 \in K
  <2> SUFFICES ASSUME k + 1 <= m PROVE Good((k + 1) + 1)
    OBVIOUS
  <2> DEFINE x == at + (k + 1)
             j == k + 1
  <2>1. k \in Nat /\ j \in Nat /\ j >= 1 /\ x \in Nat /\ x >= 1 /\ k <= m /\ j \in 1..m
    BY <1>0
  <2>2. Good(j)
    BY <1>2, <2>1
  <2>3. text[x] = part[j]
    BY <2>1 DEF LiesAt
  <2>4. at + (j + 1) = x + 1
    OBVIOUS
  <2>5. part[j] # "'" => Outside(part, j)
    BY <2>1
  <2> HIDE DEF j, K, m
  <2>6. (Outside(text, x) <=> ~Outside(part, j)) /\ Open(text, x) = Open(text, at + 1)
    BY <2>2 DEF j
  <2> HIDE DEF x
  <2>7. /\ Outside(text, x + 1) <=> IF text[x] = "'" THEN ~Outside(text, x) ELSE Outside(text, x)
        /\ Open(text, x + 1) = IF text[x] = "(" /\ Outside(text, x) THEN Open(text, x) + 1
                               ELSE IF text[x] = ")" /\ Outside(text, x) THEN Open(text, x) - 1 ELSE Open(text, x)
    BY <2>1, OutsideStep
  <2>8. Outside(part, j + 1) <=> IF part[j] = "'" THEN ~Outside(part, j) ELSE Outside(part, j)
    BY <2>1, OutsideStep
  <2>9. Outside(text, x + 1) <=> ~Outside(part, j + 1)
    BY <2>3, <2>6, <2>7, <2>8
  <2>10. Open(text, x + 1) = Open(text, at + 1)
    BY <2>3, <2>5, <2>6, <2>7
  <2> HIDE DEF Good
  <2>11. Good(j + 1)
    BY <2>4, <2>9, <2>10 DEF Good
  <2> QED
    BY <2>11 DEF j
<1>3. K = Nat
  <2>1. K \in SUBSET Nat
    BY DEF K
  <2> HIDE DEF K
  <2> QED
    BY <1>1, <1>2, <2>1, SetInduction
<1>4. i - 1 \in Nat /\ i - 1 <= m /\ (i - 1) + 1 = i
  BY <1>0
<1>5. Good((i - 1) + 1)
  <2> HIDE DEF Good, m
  <2> QED
    BY <1>3, <1>4 DEF K
<1> QED
  BY <1>4, <1>5

(* No operator between its parentheses and literals. *)
Single(text, operator) ==
  \A i \in 1..Len(text) : Outside(text, i) /\ Open(text, i) = 0 => text[i] # operator

LEMMA Parenthesised ==
  ASSUME NEW S, {"(", ")"} \subseteq S, NEW e \in Seq(S)
  PROVE  LET a == <<"(">> \o e \o <<")">>
         IN /\ a \in Seq(S) /\ Inner(a) = e
            /\ Expression(e) => Expression(a) /\ \A op : op \notin {"(", ")"} => Single(a, op)
<1> DEFINE l == <<"(">>
           r == <<")">>
           a == l \o e \o r
           n == Len(e)
<1>1. l \in Seq(S) /\ r \in Seq(S)
  BY OneSymbol
<1>2. Len(l) = 1 /\ Len(r) = 1 /\ l[1] = "(" /\ r[1] = ")"
  OBVIOUS
<1>3. n \in Nat
  OBVIOUS
<1> HIDE DEF l, r
<1>4. l \o e \in Seq(S) /\ Len(l \o e) = 1 + n
  <2>1. l \o e \in Seq(S) /\ Len(l \o e) = Len(l) + Len(e)
    BY <1>1, ConcatFacts
  <2> QED
    BY <1>2, <2>1
<1>5. a \in Seq(S) /\ Len(a) = n + 2
  <2>1. l \o e \o r \in Seq(S) /\ Len(l \o e \o r) = Len(l \o e) + Len(r)
    BY <1>1, <1>4, ConcatFacts
  <2> QED
    BY <1>2, <1>3, <1>4, <2>1
<1>6. LiesAt(a, 0, l) /\ LiesAt(a, 1, e) /\ LiesAt(a, n + 1, r)
  <2>1. LiesAt(l \o e, 0, l) /\ LiesAt(l \o e, Len(l), e)
    BY <1>1, ConcatLies
  <2>2. LiesAt(a, 0, l \o e) /\ LiesAt(a, Len(l \o e), r)
    BY <1>1, <1>4, ConcatLies
  <2> HIDE DEF a
  <2>3. LiesAt(a, 0 + 0, l)
    BY <1>1, <1>4, <1>5, <2>1, <2>2, LiesTrans
  <2>4. LiesAt(a, 0 + 1, e)
    BY <1>2, <1>4, <1>5, <2>1, <2>2, LiesTrans
  <2> QED
    BY <1>3, <1>4, <2>2, <2>3, <2>4
<1> HIDE DEF a
<1>7. a[1] = "(" /\ a[n + 2] = ")"
  <2>1. a[0 + 1] = l[1]
    BY <1>2, <1>6 DEF LiesAt
  <2>2. a[(n + 1) + 1] = r[1]
    BY <1>2, <1>6 DEF LiesAt
  <2> QED
    BY <1>2, <1>3, <2>1, <2>2
<1>8. Inner(a) = e
  <2>1. SubSeq(a, 1 + 1, 1 + n) = e
    BY <1>5, <1>6, LiesSub
  <2>2. Len(a) - 1 = 1 + n /\ 1 + 1 = 2
    BY <1>3, <1>5
  <2> HIDE DEF n
  <2> QED
    BY <2>1, <2>2 DEF Inner
<1>9. ASSUME Expression(e)
      PROVE  Expression(a) /\ \A op : op \notin {"(", ")"} => Single(a, op)
  <2>1. Outside(a, 1) /\ Open(a, 1) = 0
    BY OutsideFirst
  <2>2. Outside(a, 1 + 1) /\ Open(a, 1 + 1) = 1
    <3>1. 1 \in Nat /\ 1 >= 1 /\ "(" # "'" /\ 0 + 1 = 1
      OBVIOUS
    <3>2. Outside(a, 1 + 1) <=> IF a[1] = "'" THEN ~Outside(a, 1) ELSE Outside(a, 1)
      BY <3>1, OutsideStep
    <3>3. Open(a, 1 + 1) = IF a[1] = "(" /\ Outside(a, 1) THEN Open(a, 1) + 1
                           ELSE IF a[1] = ")" /\ Outside(a, 1) THEN Open(a, 1) - 1 ELSE Open(a, 1)
      BY <3>1, OutsideStep
    <3> QED
      BY <1>7, <2>1, <3>1, <3>2, <3>3
  <2>3. ASSUME NEW i \in 1..(n + 1)
        PROVE  /\ Outside(a, 1 + i) <=> Outside(e, i)
               /\ Open(a, 1 + i) = 1 + Open(e, i)
    BY <1>5, <1>6, <2>2, <2>3, Within DEF SameWithin
  <2>4. Outside(a, n + 2) /\ Open(a, n + 2) = 1
    <3>1. n + 1 \in 1..(n + 1) /\ 1 + (n + 1) = n + 2
      BY <1>3
    <3>2. Outside(e, n + 1) /\ Open(e, n + 1) = 0
      BY <1>9 DEF Expression
    <3> QED
      BY <2>3, <3>1, <3>2
  <2>5. Outside(a, (n + 2) + 1) /\ Open(a, (n + 2) + 1) = 0
    <3>1. n + 2 \in Nat /\ n + 2 >= 1
      BY <1>3
    <3> DEFINE x == n + 2
    <3>2. x \in Nat /\ x >= 1
      BY <3>1
    <3>3. a[x] = ")" /\ Outside(a, x) /\ Open(a, x) = 1
      BY <1>7, <2>4
    <3> HIDE DEF x
    <3>4. /\ Outside(a, x + 1) <=> IF a[x] = "'" THEN ~Outside(a, x) ELSE Outside(a, x)
          /\ Open(a, x + 1) = IF a[x] = "(" /\ Outside(a, x) THEN Open(a, x) + 1
                               ELSE IF a[x] = ")" /\ Outside(a, x) THEN Open(a, x) - 1 ELSE Open(a, x)
      BY <3>2, OutsideStep
    <3>5. Outside(a, x + 1) /\ Open(a, x + 1) = 0
      BY <3>3, <3>4
    <3> QED
      BY <3>5 DEF x
  <2>6. ASSUME NEW x \in 1..(n + 2)
        PROVE  \/ x = 1 \/ x = n + 2
               \/ Outside(a, x) => Open(a, x) >= 1
    <3> SUFFICES ASSUME x # 1, x # n + 2, Outside(a, x) PROVE Open(a, x) >= 1
      OBVIOUS
    <3>1. x - 1 \in 1..(n + 1) /\ x - 1 \in 1..n /\ 1 + (x - 1) = x
      BY <1>3
    <3>2. Outside(e, x - 1) /\ Open(a, x) = 1 + Open(e, x - 1)
      BY <2>3, <3>1
    <3>3. Open(e, x - 1) >= 0 /\ Open(e, x - 1) \in Int
      BY <1>9, <3>1, <3>2, OutsideStep DEF Expression
    <3> QED
      BY <3>2, <3>3
  <2>7. \A i \in 1..(n + 2) : Outside(a, i) => Open(a, i) >= 0
    <3> SUFFICES ASSUME NEW i \in 1..(n + 2), Outside(a, i) PROVE Open(a, i) >= 0
      OBVIOUS
    <3>1. i \in Nat /\ i >= 1
      BY <1>3
    <3>2. Open(a, i) \in Int
      BY <3>1, OutsideStep
    <3>3. CASE i = 1
      BY <2>1, <3>3
    <3>4. CASE i = n + 2
      BY <2>4, <3>4
    <3>5. CASE Open(a, i) >= 1
      BY <3>2, <3>5
    <3> QED
      BY <2>6, <3>3, <3>4, <3>5
  <2>8. Expression(a)
    <3>1. DOMAIN a = 1..(n + 2)
      BY <1>5
    <3> QED
      BY <1>5, <2>5, <2>7, <3>1 DEF Expression
  <2>9. ASSUME NEW op, op \notin {"(", ")"} PROVE Single(a, op)
    <3> SUFFICES ASSUME NEW x \in 1..(n + 2), Outside(a, x), Open(a, x) = 0 PROVE a[x] # op
      BY <1>5 DEF Single
    <3>1. x = 1 \/ x = n + 2
      BY <2>6
    <3> QED
      BY <1>7, <2>9, <3>1
  <2> QED
    BY <2>8, <2>9
<1> QED
  BY <1>5, <1>8, <1>9 DEF a, l, r

(* Whole operands, and operators between them. *)
AtStart(text, c, k) == Outside(text, c[k] + 1) /\ Open(text, c[k] + 1) = 0
AtEnd(text, c, k) == Outside(text, c[k]) /\ Open(text, c[k]) = 0

LEMMA EndOfPart ==
  ASSUME NEW S, NEW text \in Seq(S), NEW ps \in Seq(Seq(S)), NEW op, NEW c, Laid(text, ps, op, c),
         NEW k \in 1..Len(ps), Expression(ps[k]), AtStart(text, c, k - 1)
  PROVE  AtEnd(text, c, k)
<1> DEFINE at == c[k - 1]
           p == ps[k]
           n == Len(p)
<1>1. p \in Seq(S) /\ n \in Nat /\ at \in Nat /\ c[k] = at + n + 1
  BY LaidStep, PartType
<1>2. LiesAt(text, at, p)
  BY DEF Laid
<1>3. Outside(text, at + 1) /\ Open(text, at + 1) = 0
  BY DEF AtStart
<1>4. Outside(p, n + 1) /\ Open(p, n + 1) = 0
  BY DEF Expression
<1> HIDE DEF at, p
<1>5. SameWithin(text, at, p, n + 1)
  <2>1. n + 1 \in 1..(n + 1)
    BY <1>1
  <2> QED
    BY <1>1, <1>2, <1>3, <2>1, Within
<1>6. at + (n + 1) = c[k]
  BY <1>1
<1>7. Outside(text, at + (n + 1)) /\ Open(text, at + (n + 1)) = 0
  BY <1>3, <1>4, <1>5 DEF SameWithin
<1> QED
  BY <1>6, <1>7 DEF AtEnd

LEMMA LaidStarts ==
  ASSUME NEW S, NEW text \in Seq(S), NEW ps \in Seq(Seq(S)), NEW op, op \notin {"'", "(", ")"},
         NEW c, Laid(text, ps, op, c), \A k \in 1..Len(ps) : Expression(ps[k])
  PROVE  \A k \in 1..Len(ps) : AtStart(text, c, k - 1) /\ AtEnd(text, c, k)
<1> DEFINE m == Len(ps)
           K == {k \in Nat : k + 1 <= m => AtStart(text, c, k)}
<1>0. m \in Nat
  OBVIOUS
<1>1. 0 \in K
  <2>1. c[0] + 1 = 1
    BY DEF Laid
  <2> QED
    BY <2>1, OutsideFirst DEF AtStart
<1>2. ASSUME NEW k \in K PROVE k + 1 \in K
  <2> SUFFICES ASSUME (k + 1) + 1 <= m PROVE AtStart(text, c, k + 1)
    OBVIOUS
  <2>1. k \in Nat /\ k + 1 \in 1..m /\ (k + 1) - 1 = k /\ k + 1 \in 1..(m - 1) /\ k + 1 <= m
    BY <1>0
  <2>2. AtStart(text, c, (k + 1) - 1)
    BY <1>2, <2>1
  <2>3. AtEnd(text, c, k + 1)
    BY <2>1, <2>2, EndOfPart
  <2>4. text[c[k + 1]] = op /\ c[k + 1] \in 1..Len(text)
    BY <2>1, LaidInside
  <2> DEFINE x == c[k + 1]
  <2>5. x \in Nat /\ x >= 1 /\ text[x] # "'" /\ text[x] # "(" /\ text[x] # ")"
    BY <2>4
  <2>6. Outside(text, x) /\ Open(text, x) = 0
    BY <2>3 DEF AtEnd
  <2> HIDE DEF x, K, m
  <2>7. /\ Outside(text, x + 1) <=> IF text[x] = "'" THEN ~Outside(text, x) ELSE Outside(text, x)
        /\ Open(text, x + 1) = IF text[x] = "(" /\ Outside(text, x) THEN Open(text, x) + 1
                               ELSE IF text[x] = ")" /\ Outside(text, x) THEN Open(text, x) - 1 ELSE Open(text, x)
    BY <2>5, OutsideStep
  <2>8. Outside(text, x + 1) /\ Open(text, x + 1) = 0
    BY <2>5, <2>6, <2>7
  <2> QED
    BY <2>8 DEF AtStart, x
<1>3. K = Nat
  <2>1. K \in SUBSET Nat
    BY DEF K
  <2> HIDE DEF K
  <2> QED
    BY <1>1, <1>2, <2>1, SetInduction
<1>4. ASSUME NEW k \in 1..m PROVE AtStart(text, c, k - 1) /\ AtEnd(text, c, k)
  <2>1. k - 1 \in Nat /\ (k - 1) + 1 <= m
    BY <1>0
  <2>2. AtStart(text, c, k - 1)
    BY <1>3, <2>1
  <2> QED
    BY <2>2, EndOfPart
<1> QED
  BY <1>4

LEMMA LaidOperands ==
  ASSUME NEW S, NEW text \in Seq(S), NEW ps \in Seq(Seq(S)), ps # << >>, NEW op,
         op \notin {"'", "(", ")"}, NEW c, Laid(text, ps, op, c),
         \A k \in 1..Len(ps) : Expression(ps[k]) /\ Single(ps[k], op)
  PROVE  Operands(text, op) = ToSet(ps) /\ Expression(text)
<1> DEFINE m == Len(ps)
           places == {i \in DOMAIN text : text[i] = op /\ Outside(text, i) /\ Open(text, i) = 0}
<1>0. m \in Nat /\ m >= 1 /\ DOMAIN text = 1..Len(text)
  OBVIOUS
<1>1. \A k \in 1..m : AtStart(text, c, k - 1) /\ AtEnd(text, c, k)
  BY LaidStarts
<1>2. \A k \in 1..m : /\ ps[k] \in Seq(S) /\ Len(ps[k]) \in Nat
                      /\ c[k - 1] \in Nat /\ LiesAt(text, c[k - 1], ps[k])
  <2>1. \A k \in 1..m : ps[k] \in Seq(S) /\ Len(ps[k]) \in Nat
    BY PartType
  <2>2. \A k \in 1..m : c[k - 1] \in Nat
    BY LaidStep
  <2>3. \A k \in 1..m : LiesAt(text, c[k - 1], ps[k])
    BY DEF Laid
  <2> QED
    BY <2>1, <2>2, <2>3
<1>3. ASSUME NEW k \in 1..m, NEW j \in 1..Len(ps[k])
      PROVE  /\ text[c[k - 1] + j] = ps[k][j]
             /\ Outside(text, c[k - 1] + j) <=> Outside(ps[k], j)
             /\ Open(text, c[k - 1] + j) = Open(ps[k], j)
  <2>1. text[c[k - 1] + j] = ps[k][j]
    BY <1>2 DEF LiesAt
  <2>2. Outside(text, c[k - 1] + 1) /\ Open(text, c[k - 1] + 1) = 0
    BY <1>1 DEF AtStart
  <2> DEFINE at == c[k - 1]
             p == ps[k]
  <2>3. p \in Seq(S) /\ at \in Nat /\ LiesAt(text, at, p) /\ j \in 1..(Len(p) + 1)
        /\ j \in Nat /\ j >= 1
    BY <1>2
  <2> HIDE DEF at, p
  <2>4. SameWithin(text, at, p, j)
    BY <2>2, <2>3, Within DEF at
  <2>5. Open(p, j) \in Int
    BY <2>3, OutsideStep
  <2>6. (Outside(text, at + j) <=> Outside(p, j)) /\ Open(text, at + j) = Open(text, at + 1) + Open(p, j)
    BY <2>4 DEF SameWithin
  <2>7. Open(text, at + 1) = 0
    BY <2>2 DEF at
  <2>8. Open(text, at + j) = Open(p, j)
    BY <2>5, <2>6, <2>7
  <2> QED
    BY <2>1, <2>6, <2>8 DEF at, p
<1>4. places = Marks(ps, c)
  <2>1. ASSUME NEW x \in places PROVE x \in Marks(ps, c)
    <3>1. x \in 1..Len(text)
      BY <1>0
    <3>2. InLaid(ps, c, x)
      BY <3>1, LaidCovers
    <3>3. CASE \E k \in 1..m : \E j \in 1..Len(ps[k]) : x = c[k - 1] + j
      <4>1. PICK k \in 1..m : \E j \in 1..Len(ps[k]) : x = c[k - 1] + j
        BY <3>3
      <4>2. PICK j \in 1..Len(ps[k]) : x = c[k - 1] + j
        BY <4>1
      <4>3. text[x] = op /\ Outside(text, x) /\ Open(text, x) = 0
        OBVIOUS
      <4>4. Outside(ps[k], j) /\ Open(ps[k], j) = 0 /\ ps[k][j] = op
        BY <1>3, <4>2, <4>3
      <4>5. Single(ps[k], op)
        OBVIOUS
      <4> QED
        BY <4>4, <4>5 DEF Single
    <3> QED
      BY <3>2, <3>3 DEF InLaid, Marks
  <2>2. ASSUME NEW x \in Marks(ps, c) PROVE x \in places
    <3>1. PICK k \in 1..(m - 1) : x = c[k]
      BY DEF Marks
    <3>2. c[k] \in 1..Len(text) /\ text[c[k]] = op
      BY LaidInside
    <3>3. k \in 1..m
      BY <1>0
    <3>4. Outside(text, c[k]) /\ Open(text, c[k]) = 0
      BY <1>1, <3>3 DEF AtEnd
    <3> QED
      BY <1>0, <3>1, <3>2, <3>4
  <2> QED
    BY <2>1, <2>2
<1>5. Operands(text, op) = ToSet(ps)
  <2>1. Operands(text, op) = ToSet(Pieces(text, places))
    BY DEF Operands
  <2> HIDE DEF places
  <2> QED
    BY <1>4, <2>1, LaidPieces
<1>6. Outside(text, Len(text) + 1) /\ Open(text, Len(text) + 1) = 0
  <2>1. c[m] = Len(text) + 1 /\ m \in 1..m
    BY <1>0 DEF Laid
  <2> QED
    BY <1>1, <2>1 DEF AtEnd
<1>7. ASSUME NEW x \in 1..Len(text), Outside(text, x) PROVE Open(text, x) >= 0
  <2>1. InLaid(ps, c, x)
    BY LaidCovers
  <2>2. CASE \E k \in 1..(m - 1) : x = c[k]
    <3>1. PICK k \in 1..(m - 1) : x = c[k]
      BY <2>2
    <3>2. k \in 1..m
      BY <1>0
    <3>3. Open(text, c[k]) = 0
      BY <1>1, <3>2 DEF AtEnd
    <3> QED
      BY <3>1, <3>3
  <2>3. CASE \E k \in 1..m : \E j \in 1..Len(ps[k]) : x = c[k - 1] + j
    <3>1. PICK k \in 1..m : \E j \in 1..Len(ps[k]) : x = c[k - 1] + j
      BY <2>3
    <3>2. PICK j \in 1..Len(ps[k]) : x = c[k - 1] + j
      BY <3>1
    <3>3. Outside(ps[k], j) /\ Open(text, x) = Open(ps[k], j)
      BY <1>3, <1>7, <3>2
    <3>4. DOMAIN ps[k] = 1..Len(ps[k])
      BY <1>2
    <3>5. Open(ps[k], j) >= 0
      BY <3>3, <3>4 DEF Expression
    <3> QED
      BY <3>3, <3>5
  <2> QED
    BY <2>1, <2>2, <2>3 DEF InLaid
<1>8. Expression(text)
  BY <1>0, <1>6, <1>7 DEF Expression
<1> QED
  BY <1>5, <1>8

LEMMA LaidOne ==
  ASSUME NEW S, NEW a \in Seq(S), NEW op
  PROVE  \E c : Laid(a, <<a>>, op, c)
<1> DEFINE c == [k \in 0..1 |-> IF k = 0 THEN 0 ELSE Len(a) + 1]
           ps == <<a>>
<1>1. Len(a) \in Nat /\ Len(ps) = 1 /\ ps[1] = a
  OBVIOUS
<1>2. c \in [0..1 -> Nat] /\ c[0] = 0 /\ c[1] = Len(a) + 1
  BY <1>1
<1> HIDE DEF c, ps
<1>3. LiesAt(a, 0, a)
  BY <1>1 DEF LiesAt
<1>4. Laid(a, ps, op, c)
  BY <1>1, <1>2, <1>3 DEF Laid
<1> QED
  BY <1>4 DEF ps

LEMMA LaidTwo ==
  ASSUME NEW S, NEW a \in Seq(S), NEW op \in S, NEW b \in Seq(S)
  PROVE  \E c : Laid(a \o <<op>> \o b, <<a, b>>, op, c)
<1> DEFINE o == <<op>>
           t == a \o o \o b
           m == Len(a)
           n == Len(b)
           c == [k \in 0..2 |-> IF k = 0 THEN 0 ELSE IF k = 1 THEN m + 1 ELSE m + 1 + n + 1]
           ps == <<a, b>>
<1>1. m \in Nat /\ n \in Nat /\ Len(ps) = 2 /\ ps[1] = a /\ ps[2] = b
  OBVIOUS
<1>2. c \in [0..2 -> Nat] /\ c[0] = 0 /\ c[1] = m + 1 /\ c[2] = m + 1 + n + 1
  BY <1>1
<1>3. o \in Seq(S) /\ Len(o) = 1 /\ o[1] = op
  OBVIOUS
<1> HIDE DEF o
<1>4. a \o o \in Seq(S) /\ Len(a \o o) = m + 1
  <2>1. a \o o \in Seq(S) /\ Len(a \o o) = Len(a) + Len(o)
    BY <1>3, ConcatFacts
  <2> QED
    BY <1>3, <2>1
<1>5. t \in Seq(S) /\ Len(t) = m + 1 + n
  <2>1. t \in Seq(S) /\ Len(t) = Len(a \o o) + Len(b)
    BY <1>4, ConcatFacts
  <2> QED
    BY <1>4, <2>1
<1>6. LiesAt(t, 0, a) /\ LiesAt(t, m + 1, b) /\ t[m + 1] = op
  <2>1. LiesAt(a \o o, 0, a) /\ LiesAt(a \o o, Len(a), o)
    BY <1>3, ConcatLies
  <2>2. LiesAt(t, 0, a \o o) /\ LiesAt(t, Len(a \o o), b)
    BY <1>4, ConcatLies
  <2> HIDE DEF t
  <2>3. LiesAt(t, 0 + 0, a)
    BY <1>4, <1>5, <2>1, <2>2, LiesTrans
  <2>4. LiesAt(t, 0 + Len(a), o)
    BY <1>1, <1>3, <1>4, <1>5, <2>1, <2>2, LiesTrans
  <2>5. t[(0 + Len(a)) + 1] = o[1]
    BY <1>3, <2>4 DEF LiesAt
  <2>6. (0 + Len(a)) + 1 = m + 1
    BY <1>1
  <2>7. LiesAt(t, m + 1, b)
    BY <1>4, <2>2
  <2> QED
    BY <1>3, <2>3, <2>5, <2>6, <2>7
<1> HIDE DEF t, c, ps, m, n
<1>7. Laid(t, ps, op, c)
  <2>1. \A k \in 1..2 : c[k] = c[k - 1] + Len(ps[k]) + 1 /\ LiesAt(t, c[k - 1], ps[k])
    <3>1. c[1] = c[0] + Len(ps[1]) + 1 /\ LiesAt(t, c[0], ps[1])
      BY <1>1, <1>2, <1>6 DEF m
    <3>2. c[2] = c[1] + Len(ps[2]) + 1 /\ LiesAt(t, c[1], ps[2])
      BY <1>1, <1>2, <1>6 DEF n
    <3>3. 1 - 1 = 0 /\ 2 - 1 = 1 /\ \A k \in 1..2 : k = 1 \/ k = 2
      OBVIOUS
    <3> QED
      BY <3>1, <3>2, <3>3
  <2>2. c[2] = Len(t) + 1
    BY <1>1, <1>2, <1>5
  <2>3. \A k \in 1..(2 - 1) : t[c[k]] = op
    BY <1>2, <1>6
  <2> QED
    BY <1>1, <1>2, <2>1, <2>2, <2>3 DEF Laid
<1> QED
  BY <1>7 DEF t, ps, o

-----------------------------------------------------------------------------
(* Values as literals. *)

Twice(x) == IF x = "'" THEN <<"'", "'">> ELSE <<x>>
DoubledParts(v) == [i \in DOMAIN v |-> Twice(v[i])]
KeptSymbol(t, i) ==
  IF t[i] = "'" /\ i > 1 /\ t[i - 1] = "'" /\ ~Outside(t, i) THEN << >> ELSE <<t[i]>>
Kept(t) == [i \in DOMAIN t |-> KeptSymbol(t, i)]

LEMMA TwiceIs ==
  ASSUME NEW S, NEW x \in S, "'" \in S
  PROVE  /\ Twice(x) \in Seq(S)
         /\ x # "'" => Len(Twice(x)) = 1 /\ Twice(x)[1] = x
         /\ x = "'" => Len(Twice(x)) = 2 /\ Twice(x)[1] = "'" /\ Twice(x)[2] = "'"
<1>1. CASE x = "'"
  <2>1. \A y \in S : <<y, y>> \in Seq(S) /\ Len(<<y, y>>) = 2 /\ <<y, y>>[1] = y /\ <<y, y>>[2] = y
    OBVIOUS
  <2>2. Twice(x) = <<x, x>>
    BY <1>1 DEF Twice
  <2> QED
    BY <1>1, <2>1, <2>2
<1>2. CASE x # "'"
  <2>1. \A y \in S : <<y>> \in Seq(S) /\ Len(<<y>>) = 1 /\ <<y>>[1] = y
    OBVIOUS
  <2>2. Twice(x) = <<x>>
    BY <1>2 DEF Twice
  <2> QED
    BY <1>2, <2>1, <2>2
<1> QED
  BY <1>1, <1>2

LEMMA DoubledPartsType ==
  ASSUME NEW S, "'" \in S, NEW v \in Seq(S)
  PROVE  /\ DoubledParts(v) \in Seq(Seq(S)) /\ Len(DoubledParts(v)) = Len(v)
         /\ \A i \in 1..Len(v) : DoubledParts(v)[i] = Twice(v[i]) /\ v[i] \in S
<1>1. Len(v) \in Nat /\ DOMAIN v = 1..Len(v) /\ \A i \in 1..Len(v) : v[i] \in S
  OBVIOUS
<1>2. \A i \in 1..Len(v) : Twice(v[i]) \in Seq(S)
  BY <1>1, TwiceIs
<1> DEFINE d == [i \in 1..Len(v) |-> Twice(v[i])]
<1>3. DoubledParts(v) = d
  BY <1>1 DEF DoubledParts
<1>4. d \in Seq(Seq(S)) /\ Len(d) = Len(v)
  BY <1>1, <1>2, IsASeq
<1>5. \A i \in 1..Len(v) : d[i] = Twice(v[i])
  OBVIOUS
<1> HIDE DEF d
<1> QED
  BY <1>1, <1>3, <1>4, <1>5

LEMMA KeptType ==
  ASSUME NEW S, NEW t \in Seq(S)
  PROVE  /\ Kept(t) \in Seq(Seq(S)) /\ Len(Kept(t)) = Len(t)
         /\ \A i \in 1..Len(t) : Kept(t)[i] = KeptSymbol(t, i)
<1>1. Len(t) \in Nat /\ DOMAIN t = 1..Len(t) /\ \A i \in 1..Len(t) : t[i] \in S
  OBVIOUS
<1>2. \A i \in 1..Len(t) : KeptSymbol(t, i) \in Seq(S)
  <2>1. \A x \in S : <<x>> \in Seq(S)
    OBVIOUS
  <2>2. << >> \in Seq(S)
    OBVIOUS
  <2>3. \A i \in 1..Len(t) : KeptSymbol(t, i) = << >> \/ KeptSymbol(t, i) = <<t[i]>>
    BY DEF KeptSymbol
  <2> QED
    BY <1>1, <2>1, <2>2, <2>3
<1> DEFINE d == [i \in 1..Len(t) |-> KeptSymbol(t, i)]
<1>3. Kept(t) = d
  BY <1>1 DEF Kept
<1>4. d \in Seq(Seq(S)) /\ Len(d) = Len(t)
  BY <1>1, <1>2, IsASeq
<1>5. \A i \in 1..Len(t) : d[i] = KeptSymbol(t, i)
  OBVIOUS
<1> HIDE DEF d
<1> QED
  BY <1>1, <1>3, <1>4, <1>5

DoubledAt(v, d, f, k, x) ==
  /\ x \in Nat
  /\ v[k] # "'" => Len(f[k]) = x + 1 /\ d[x + 1] = v[k] /\ x + 1 \in 1..Len(d)
  /\ v[k] = "'" => /\ Len(f[k]) = x + 2 /\ d[x + 1] = "'" /\ d[x + 2] = "'"
                   /\ x + 1 \in 1..Len(d) /\ x + 2 \in 1..Len(d)

(* Behind each symbol of the value, an even number of apostrophes. *)
LEMMA DoubledStep ==
  ASSUME NEW S, "'" \in S, NEW v \in Seq(S), NEW d \in Seq(S),
         NEW f \in [0..Len(v) -> Seq(S)], Walks(DoubledParts(v), f), d = f[Len(v)],
         NEW k \in 1..Len(v), NEW x, x = Len(f[k - 1])
  PROVE  DoubledAt(v, d, f, k, x)
<1> DEFINE ps == DoubledParts(v)
           p == ps[k]
<1>1. ps \in Seq(Seq(S)) /\ Len(ps) = Len(v) /\ p = Twice(v[k]) /\ v[k] \in S
  BY DoubledPartsType
<1>a. f \in [0..Len(ps) -> Seq(S)] /\ Walks(ps, f) /\ k \in 1..Len(ps)
  BY <1>1
<1> HIDE DEF ps
<1>2. f[k - 1] \in Seq(S) /\ Len(f[k]) = Len(f[k - 1]) + Len(ps[k])
  <2> DEFINE a == f[k - 1]
             b == ps[k]
  <2>1. a \in Seq(S) /\ b \in Seq(S)
    BY <1>1, <1>a, WalkLens
  <2>2. f[k] = a \o b
    BY <1>a DEF Walks
  <2> HIDE DEF a, b
  <2>3. Len(a \o b) = Len(a) + Len(b)
    BY <2>1, ConcatFacts
  <2> QED
    BY <2>1, <2>2, <2>3 DEF a, b
<1>3. LiesAt(f[Len(ps)], Len(f[k - 1]), ps[k])
  BY <1>1, <1>a, WalkLies
<1>4. x \in Nat /\ Len(f[k]) = x + Len(p) /\ LiesAt(d, x, p)
  BY <1>1, <1>2, <1>3
<1>5. Len(d) \in Nat
  OBVIOUS
<1> HIDE DEF p
<1>6. CASE v[k] # "'"
  <2>1. Len(p) = 1 /\ p[1] = v[k]
    BY <1>1, <1>6, TwiceIs
  <2>2. d[x + 1] = v[k] /\ x + 1 <= Len(d)
    BY <1>4, <2>1 DEF LiesAt
  <2> QED
    BY <1>4, <1>5, <1>6, <2>1, <2>2 DEF DoubledAt
<1>7. CASE v[k] = "'"
  <2>1. Len(p) = 2 /\ p[1] = "'" /\ p[2] = "'"
    BY <1>1, <1>7, TwiceIs
  <2>2. d[x + 1] = "'" /\ d[x + 2] = "'" /\ x + 2 <= Len(d)
    BY <1>4, <2>1 DEF LiesAt
  <2> QED
    BY <1>4, <1>5, <1>7, <2>1, <2>2 DEF DoubledAt
<1> QED
  BY <1>6, <1>7

LEMMA OutsideNext ==
  ASSUME NEW t, NEW x \in Nat, NEW y, y = x + 1
  PROVE  /\ Outside(t, y + 1) <=> IF t[y] = "'" THEN ~Outside(t, y) ELSE Outside(t, y)
         /\ y + 1 = x + 2
<1>1. y \in Nat /\ y >= 1
  OBVIOUS
<1> QED
  BY <1>1, OutsideStep

LEMMA DoubledEven ==
  ASSUME NEW S, "'" \in S, NEW v \in Seq(S), NEW d \in Seq(S),
         NEW f \in [0..Len(v) -> Seq(S)], Walks(DoubledParts(v), f), d = f[Len(v)]
  PROVE  \A k \in 0..Len(v) : Outside(d, Len(f[k]) + 1)
<1> DEFINE K == {k \in Nat : k <= Len(v) => Outside(d, Len(f[k]) + 1)}
<1>0. Len(v) \in Nat
  OBVIOUS
<1>1. 0 \in K
  <2>1. f[0] = << >>
    BY DEF Walks
  <2>2. Len(f[0]) + 1 = 1
    BY <2>1
  <2> QED
    BY <2>2, OutsideFirst
<1>2. ASSUME NEW n \in K PROVE n + 1 \in K
  <2> SUFFICES ASSUME n + 1 <= Len(v) PROVE Outside(d, Len(f[n + 1]) + 1)
    OBVIOUS
  <2> DEFINE k == n + 1
             x == Len(f[n])
             y == x + 1
             z == x + 2
  <2>1. n \in Nat /\ k \in 1..Len(v) /\ k - 1 = n /\ n <= Len(v)
    BY <1>0
  <2>x. x = Len(f[k - 1])
    BY <2>1
  <2>2. Outside(d, x + 1)
    BY <1>2, <2>1
  <2> HIDE DEF k, x
  <2>3. /\ x \in Nat
        /\ v[k] # "'" => Len(f[k]) = x + 1 /\ d[x + 1] = v[k]
        /\ v[k] = "'" => Len(f[k]) = x + 2 /\ d[x + 1] = "'" /\ d[x + 2] = "'"
    <3>1. DoubledAt(v, d, f, k, x)
      BY <2>1, <2>x, DoubledStep
    <3> QED
      BY <3>1 DEF DoubledAt
  <2>a. /\ y \in Nat /\ y = x + 1 /\ z = y + 1 /\ Outside(d, y)
        /\ v[k] # "'" => Len(f[k]) = y /\ d[y] = v[k]
        /\ v[k] = "'" => Len(f[k]) = z /\ d[y] = "'" /\ d[z] = "'"
    BY <2>2, <2>3 DEF x
  <2> HIDE DEF y, z, K
  <2>4. Outside(d, y + 1) <=> IF d[y] = "'" THEN ~Outside(d, y) ELSE Outside(d, y)
    BY <2>3, <2>a, OutsideNext
  <2>5. Outside(d, z + 1) <=> IF d[z] = "'" THEN ~Outside(d, z) ELSE Outside(d, z)
    BY <2>a, OutsideNext
  <2>7. Outside(d, Len(f[k]) + 1)
    <3>1. CASE v[k] # "'"
      BY <2>a, <2>4, <3>1
    <3>2. CASE v[k] = "'"
      <4>1. ~Outside(d, z)
        BY <2>a, <2>4, <3>2
      <4> QED
        BY <2>a, <2>5, <3>2, <4>1
    <3> QED
      BY <3>1, <3>2
  <2> QED
    BY <2>7 DEF k
<1>3. K = Nat
  <2>1. K \in SUBSET Nat
    BY DEF K
  <2> HIDE DEF K
  <2> QED
    BY <1>1, <1>2, <2>1, SetInduction
<1> QED
  BY <1>0, <1>3

(* The value is read again, symbol by symbol. *)
ReadSoFar(v, w, k) == Len(w) = k /\ LiesAt(v, 0, w)

LEMMA ReadStep ==
  ASSUME NEW S, NEW v \in Seq(S), NEW k \in 1..Len(v), NEW w \in Seq(S), ReadSoFar(v, w, k - 1)
  PROVE  w \o <<v[k]>> \in Seq(S) /\ ReadSoFar(v, w \o <<v[k]>>, k)
<1> DEFINE o == <<v[k]>>
           t == w \o o
<1>1. o \in Seq(S) /\ Len(o) = 1 /\ o[1] = v[k]
  OBVIOUS
<1>2. Len(v) \in Nat /\ Len(w) = k - 1 /\ k \in Nat /\ k >= 1 /\ k <= Len(v)
  BY DEF ReadSoFar
<1> HIDE DEF o
<1>3. t \in Seq(S) /\ Len(t) = Len(w) + Len(o)
  BY <1>1, ConcatFacts
<1>4. LiesAt(t, 0, w) /\ LiesAt(t, Len(w), o)
  BY <1>1, ConcatLies
<1> HIDE DEF t
<1>5. Len(t) = k
  BY <1>1, <1>2, <1>3
<1>6. t[(k - 1) + 1] = v[k]
  BY <1>1, <1>2, <1>4 DEF LiesAt
<1>7. ASSUME NEW i \in 1..k PROVE v[0 + i] = t[i]
  <2>1. CASE i = k
    BY <1>2, <1>6, <2>1
  <2>2. CASE i # k
    <3>1. i \in 1..Len(w)
      BY <1>2, <2>2
    <3>2. t[0 + i] = w[i] /\ v[0 + i] = w[i]
      BY <1>4, <3>1 DEF LiesAt, ReadSoFar
    <3> QED
      BY <3>2
  <2> QED
    BY <2>1, <2>2
<1>8. LiesAt(v, 0, t)
  BY <1>2, <1>5, <1>7 DEF LiesAt
<1>9. ReadSoFar(v, t, k)
  BY <1>5, <1>8 DEF ReadSoFar
<1> QED
  BY <1>3, <1>9 DEF t, o

LEMMA LiteralStep ==
  ASSUME NEW S, "'" \in S, NEW v \in Seq(S), NEW d \in Seq(S),
         NEW f \in [0..Len(v) -> Seq(S)], Walks(DoubledParts(v), f), d = f[Len(v)],
         NEW h \in [0..Len(Kept(d)) -> Seq(S)], Walks(Kept(d), h),
         NEW k \in 1..Len(v), ReadSoFar(v, h[Len(f[k - 1])], k - 1)
  PROVE  ReadSoFar(v, h[Len(f[k])], k)
<1> DEFINE x == Len(f[k - 1])
           g == Kept(d)
<1>1. /\ x \in Nat
      /\ v[k] # "'" => Len(f[k]) = x + 1 /\ d[x + 1] = v[k] /\ x + 1 \in 1..Len(d)
      /\ v[k] = "'" => /\ Len(f[k]) = x + 2 /\ d[x + 1] = "'" /\ d[x + 2] = "'"
                       /\ x + 1 \in 1..Len(d) /\ x + 2 \in 1..Len(d)
  <2>1. DoubledAt(v, d, f, k, x)
    BY DoubledStep
  <2> HIDE DEF x
  <2> QED
    BY <2>1 DEF DoubledAt
<1>2. Outside(d, x + 1)
  <2>1. k - 1 \in 0..Len(v)
    OBVIOUS
  <2> QED
    BY <2>1, DoubledEven
<1>3. Len(g) = Len(d) /\ \A i \in 1..Len(d) : g[i] = KeptSymbol(d, i)
  BY KeptType
<1>4. ReadSoFar(v, h[x], k - 1)
  OBVIOUS
<1>5. \A i \in 1..Len(g) : h[i] = h[i - 1] \o g[i]
  BY DEF Walks
<1>6. Len(d) \in Nat
  OBVIOUS
<1> HIDE DEF x, g
<1>7. h \in [0..Len(d) -> Seq(S)]
  BY <1>3 DEF g
<1>8. (x + 1) - 1 = x /\ (x + 2) - 1 = x + 1 /\ (x + 1) + 1 = x + 2
  BY <1>1
<1>9. x + 1 \in 1..Len(d)
  BY <1>1
<1>10. g[x + 1] = <<v[k]>>
  BY <1>1, <1>2, <1>3, <1>9 DEF KeptSymbol
<1>11. h[x] \in Seq(S) /\ h[x + 1] = h[x] \o <<v[k]>>
  <2>1. x \in 0..Len(d)
    BY <1>1, <1>6, <1>9
  <2>2. h[x + 1] = h[(x + 1) - 1] \o g[x + 1]
    BY <1>3, <1>5, <1>9
  <2> QED
    BY <1>7, <1>8, <1>10, <2>1, <2>2
<1>12. h[x + 1] \in Seq(S) /\ ReadSoFar(v, h[x + 1], k)
  BY <1>4, <1>11, ReadStep
<1>13. CASE v[k] # "'"
  BY <1>1, <1>12, <1>13
<1>14. CASE v[k] = "'"
  <2>1. ~Outside(d, x + 2)
    <3> DEFINE y == x + 1
    <3>1. y = x + 1 /\ Outside(d, y) /\ d[y] = "'"
      BY <1>1, <1>2, <1>14
    <3> HIDE DEF y
    <3>2. /\ Outside(d, y + 1) <=> IF d[y] = "'" THEN ~Outside(d, y) ELSE Outside(d, y)
          /\ y + 1 = x + 2
      BY <1>1, <3>1, OutsideNext
    <3> QED
      BY <3>1, <3>2
  <2>2. x + 2 > 1 /\ d[(x + 2) - 1] = "'" /\ d[x + 2] = "'" /\ x + 2 \in 1..Len(d)
    BY <1>1, <1>8, <1>14
  <2>3. g[x + 2] = << >>
    BY <1>3, <2>1, <2>2 DEF KeptSymbol
  <2>4. h[x + 2] = h[(x + 2) - 1] \o g[x + 2]
    BY <1>3, <1>5, <2>2
  <2>5. h[x + 2] = h[x + 1] \o << >>
    BY <1>8, <2>3, <2>4
  <2>6. h[x + 1] \o << >> = h[x + 1]
    <3> DEFINE y == h[x + 1]
    <3>1. y \in Seq(S)
      BY <1>12
    <3> HIDE DEF y
    <3>2. y \o << >> = y
      BY <3>1
    <3> QED
      BY <3>2 DEF y
  <2> QED
    BY <1>1, <1>12, <1>14, <2>5, <2>6
<1> QED
  BY <1>13, <1>14

(* A doubled value holds an even number of apostrophes before any other      *)
(* symbol and in all, and is the value again once they are undone.           *)
LEMMA DoubledIs ==
  ASSUME NEW S, "'" \in S, NEW v \in Seq(S)
  PROVE  /\ Doubled(v) \in Seq(S)
         /\ Outside(Doubled(v), Len(Doubled(v)) + 1)
         /\ \A j \in 1..Len(Doubled(v)) : Doubled(v)[j] # "'" => Outside(Doubled(v), j)
         /\ Literal(Doubled(v)) = v
<1> DEFINE ps == DoubledParts(v)
           d == Doubled(v)
           n == Len(v)
<1>1. ps \in Seq(Seq(S)) /\ Len(ps) = n /\ \A i \in 1..n : ps[i] = Twice(v[i]) /\ v[i] \in S
  BY DoubledPartsType
<1>2. d = FlattenSeq(ps)
  BY DEF Doubled, DoubledParts, Twice
<1> HIDE DEF ps
<1>3. PICK f \in [0..Len(ps) -> Seq(S)] : Walks(ps, f) /\ FlattenSeq(ps) = f[Len(ps)]
  BY <1>1, FlattenWalk
<1>4. n \in Nat /\ f \in [0..n -> Seq(S)] /\ Walks(DoubledParts(v), f) /\ d = f[n]
  BY <1>1, <1>2, <1>3 DEF ps
<1> HIDE DEF d
<1>5. d \in Seq(S)
  BY <1>4
<1>6. \A k \in 0..n : Outside(d, Len(f[k]) + 1)
  BY <1>4, <1>5, DoubledEven
<1>7. Outside(d, Len(d) + 1)
  BY <1>4, <1>6
<1>8. ASSUME NEW j \in 1..Len(d), d[j] # "'" PROVE Outside(d, j)
  <2>1. Covered(ps, f, Len(ps))
    BY <1>1, <1>3, WalkCovers
  <2>2. InPart(ps, f, j)
    BY <1>1, <1>4, <2>1 DEF Covered
  <2>3. PICK k \in 1..n : \E i \in 1..Len(ps[k]) : j = Len(f[k - 1]) + i
    BY <1>1, <2>2 DEF InPart
  <2>4. PICK i \in 1..Len(ps[k]) : j = Len(f[k - 1]) + i
    BY <2>3
  <2>5. LiesAt(d, Len(f[k - 1]), ps[k])
    BY <1>1, <1>3, <1>4, WalkLies
  <2>6. d[j] = ps[k][i]
    BY <2>4, <2>5 DEF LiesAt
  <2>7. ps[k] = Twice(v[k]) /\ v[k] \in S
    BY <1>1
  <2>8. CASE v[k] = "'"
    <3>1. Len(ps[k]) = 2 /\ ps[k][1] = "'" /\ ps[k][2] = "'"
      BY <2>7, <2>8, TwiceIs
    <3>2. i = 1 \/ i = 2
      BY <3>1
    <3> QED
      BY <1>8, <2>6, <3>1, <3>2
  <2>9. CASE v[k] # "'"
    <3>1. Len(ps[k]) = 1
      BY <2>7, <2>9, TwiceIs
    <3>2. j = Len(f[k - 1]) + 1 /\ k - 1 \in 0..n
      BY <1>4, <2>4, <3>1
    <3> QED
      BY <1>6, <3>2
  <2> QED
    BY <2>8, <2>9
<1>9. Literal(d) = v
  <2> DEFINE g == Kept(d)
  <2>1. g \in Seq(Seq(S)) /\ Len(g) = Len(d)
    BY <1>5, KeptType
  <2>2. Literal(d) = FlattenSeq(g)
    BY DEF Literal, Kept, KeptSymbol
  <2> HIDE DEF g
  <2>3. PICK h \in [0..Len(g) -> Seq(S)] : Walks(g, h) /\ FlattenSeq(g) = h[Len(g)]
    BY <2>1, FlattenWalk
  <2> DEFINE K == {k \in Nat : k <= n => ReadSoFar(v, h[Len(f[k])], k)}
  <2>4. 0 \in K
    <3>1. f[0] = << >> /\ h[0] = << >>
      BY <1>3, <2>3 DEF Walks
    <3>2. Len(f[0]) = 0 /\ Len(h[0]) = 0
      BY <3>1
    <3>3. ReadSoFar(v, h[0], 0)
      BY <1>4, <3>2 DEF ReadSoFar, LiesAt
    <3> QED
      BY <3>2, <3>3
  <2>5. ASSUME NEW k \in K PROVE k + 1 \in K
    <3> SUFFICES ASSUME k + 1 <= n PROVE ReadSoFar(v, h[Len(f[k + 1])], k + 1)
      OBVIOUS
    <3>1. k \in Nat /\ k + 1 \in 1..n /\ (k + 1) - 1 = k /\ k <= n
      BY <1>4
    <3>2. ReadSoFar(v, h[Len(f[(k + 1) - 1])], (k + 1) - 1)
      BY <2>5, <3>1
    <3>3. h \in [0..Len(Kept(d)) -> Seq(S)] /\ Walks(Kept(d), h)
      BY <2>3 DEF g
    <3> HIDE DEF K
    <3> QED
      BY <1>4, <1>5, <3>1, <3>2, <3>3, LiteralStep
  <2>6. K = Nat
    <3>1. K \in SUBSET Nat
      BY DEF K
    <3> HIDE DEF K
    <3> QED
      BY <2>4, <2>5, <3>1, SetInduction
  <2>7. ReadSoFar(v, h[Len(d)], n)
    BY <1>4, <2>6
  <2>8. h[Len(d)] \in Seq(S)
    BY <1>5, <2>1, <2>3
  <2>9. h[Len(d)] = v
    <3> DEFINE w == h[Len(d)]
    <3>1. w \in Seq(S) /\ Len(w) = n /\ LiesAt(v, 0, w)
      BY <2>7, <2>8 DEF ReadSoFar
    <3> HIDE DEF w
    <3>2. \A i \in 1..Len(w) : w[i] = v[i]
      BY <3>1 DEF LiesAt
    <3>3. w = v
      BY <3>1, <3>2, SeqEqual
    <3> QED
      BY <3>3 DEF w
  <2> QED
    BY <2>1, <2>2, <2>3, <2>9
<1> QED
  BY <1>5, <1>7, <1>8, <1>9 DEF d

LEMMA CalmPrefix ==
  ASSUME NEW t, NEW n \in Nat, \A i \in 1..n : t[i] \notin {"'", "(", ")"}
  PROVE  \A i \in 1..(n + 1) : Outside(t, i) /\ Open(t, i) = 0
<1> DEFINE K == {k \in Nat : k <= n => Outside(t, k + 1) /\ Open(t, k + 1) = 0}
<1>1. 0 \in K
  <2>1. 0 + 1 = 1
    OBVIOUS
  <2> QED
    BY <2>1, OutsideFirst
<1>2. ASSUME NEW k \in K PROVE k + 1 \in K
  <2> SUFFICES ASSUME k + 1 <= n PROVE Outside(t, (k + 1) + 1) /\ Open(t, (k + 1) + 1) = 0
    OBVIOUS
  <2> DEFINE x == k + 1
  <2>1. k \in Nat /\ x \in Nat /\ x >= 1 /\ x \in 1..n /\ k <= n
    OBVIOUS
  <2>2. Outside(t, x) /\ Open(t, x) = 0 /\ t[x] # "'" /\ t[x] # "(" /\ t[x] # ")"
    BY <1>2, <2>1
  <2> HIDE DEF x, K
  <2>3. /\ Outside(t, x + 1) <=> IF t[x] = "'" THEN ~Outside(t, x) ELSE Outside(t, x)
        /\ Open(t, x + 1) = IF t[x] = "(" /\ Outside(t, x) THEN Open(t, x) + 1
                            ELSE IF t[x] = ")" /\ Outside(t, x) THEN Open(t, x) - 1 ELSE Open(t, x)
    BY <2>1, OutsideStep
  <2>4. Outside(t, x + 1) /\ Open(t, x + 1) = 0
    BY <2>2, <2>3
  <2> QED
    BY <2>4 DEF x
<1>3. K = Nat
  <2>1. K \in SUBSET Nat
    BY DEF K
  <2> HIDE DEF K
  <2> QED
    BY <1>1, <1>2, <2>1, SetInduction
<1>4. ASSUME NEW i \in 1..(n + 1) PROVE Outside(t, i) /\ Open(t, i) = 0
  <2>1. i - 1 \in Nat /\ i - 1 <= n /\ (i - 1) + 1 = i
    OBVIOUS
  <2>2. i - 1 \in K
    BY <1>3, <2>1
  <2> QED
    BY <2>1, <2>2
<1> QED
  BY <1>4

(* One alternative: the property equals a literal. *)
Lead(p) == p \o <<" eq ", "'">>
Alternative(p, v) == p \o <<" eq ", "'">> \o Doubled(v) \o <<"'">>

LEMMA LeadIs ==
  ASSUME NEW p \in Texts
  PROVE  /\ Lead(p) \in Texts /\ Len(Lead(p)) = Len(p) + 2 /\ Len(p) \in Nat
         /\ \A i \in 1..Len(p) : Lead(p)[i] = p[i]
         /\ Lead(p)[Len(p) + 1] = " eq " /\ Lead(p)[Len(p) + 2] = "'"
<1> DEFINE eq == <<" eq ", "'">>
           t == Lead(p)
<1>1. p \in Seq(Symbols) /\ Len(p) \in Nat
  BY DEF Texts
<1>2. eq \in Seq(Symbols) /\ Len(eq) = 2 /\ eq[1] = " eq " /\ eq[2] = "'"
  <2>1. {" eq ", "'"} \subseteq Symbols
    BY EncodingAssumption DEF Special
  <2>2. \A x, y \in Symbols : <<x, y>> \in Seq(Symbols)
    OBVIOUS
  <2>3. <<" eq ", "'">> \in Seq(Symbols)
    BY <2>1, <2>2
  <2>4. Len(eq) = 2 /\ eq[1] = " eq " /\ eq[2] = "'"
    OBVIOUS
  <2> QED
    BY <2>3, <2>4
<1>3. t = p \o eq
  BY DEF Lead
<1> HIDE DEF eq, t
<1>4. p \o eq \in Seq(Symbols) /\ Len(p \o eq) = Len(p) + Len(eq)
  BY <1>1, <1>2, ConcatFacts
<1>5. LiesAt(p \o eq, 0, p) /\ LiesAt(p \o eq, Len(p), eq)
  BY <1>1, <1>2, ConcatLies
<1>6. LiesAt(t, 0, p) /\ LiesAt(t, Len(p), eq)
  BY <1>3, <1>5
<1>7. \A i \in 1..Len(p) : t[i] = p[i]
  BY <1>1, <1>6 DEF LiesAt
<1>8. t[Len(p) + 1] = " eq " /\ t[Len(p) + 2] = "'"
  <2>1. \A i \in 1..2 : t[Len(p) + i] = eq[i]
    BY <1>2, <1>6 DEF LiesAt
  <2>2. 1 \in 1..2 /\ 2 \in 1..2
    OBVIOUS
  <2> QED
    BY <1>2, <2>1, <2>2
<1> QED
  BY <1>1, <1>2, <1>3, <1>4, <1>7, <1>8 DEF t, Texts

AlternativeAt(o, p, d) ==
  /\ Len(o) = (Len(p) + 2) + Len(d) + 1
  /\ \A i \in 1..Len(p) : o[i] = p[i]
  /\ o[Len(p) + 1] = " eq " /\ o[Len(p) + 2] = "'"
  /\ LiesAt(o, Len(p) + 2, d)
  /\ o[(Len(p) + 2) + Len(d) + 1] = "'"
  /\ LiesAt(o, 0, Lead(p))

LEMMA AlternativeLies ==
  ASSUME NEW p \in Texts, NEW v \in Texts
  PROVE  /\ Doubled(v) \in Texts /\ Alternative(p, v) \in Texts
         /\ AlternativeAt(Alternative(p, v), p, Doubled(v))
<1> DEFINE l == Lead(p)
           d == Doubled(v)
           q == <<"'">>
           o == Alternative(p, v)
           n == Len(p) + 2
<1>1. "'" \in Symbols
  BY EncodingAssumption DEF Special
<1>2. l \in Seq(Symbols) /\ Len(l) = n /\ n \in Nat /\ Len(p) \in Nat
  BY LeadIs DEF Texts
<1>3. d \in Seq(Symbols) /\ Len(d) \in Nat
  <2>1. Doubled(v) \in Seq(Symbols)
    BY <1>1, DoubledIs DEF Texts
  <2> QED
    BY <2>1, LenProperties
<1>4. q \in Seq(Symbols) /\ Len(q) = 1 /\ q[1] = "'"
  <2>1. \A x \in Symbols : <<x>> \in Seq(Symbols)
    OBVIOUS
  <2>2. Len(q) = 1 /\ q[1] = "'"
    OBVIOUS
  <2> QED
    BY <1>1, <2>1, <2>2
<1>5. o = l \o d \o q
  BY DEF Alternative, Lead
<1>6. /\ \A i \in 1..Len(p) : l[i] = p[i]
      /\ l[Len(p) + 1] = " eq " /\ l[Len(p) + 2] = "'"
  BY LeadIs
<1> HIDE DEF l, d, q, o
<1>7. l \o d \in Seq(Symbols) /\ Len(l \o d) = n + Len(d)
  <2>1. l \o d \in Seq(Symbols) /\ Len(l \o d) = Len(l) + Len(d)
    BY <1>2, <1>3, ConcatFacts
  <2> QED
    BY <1>2, <2>1
<1>8. o \in Seq(Symbols) /\ Len(o) = n + Len(d) + 1
  <2>1. l \o d \o q \in Seq(Symbols) /\ Len(l \o d \o q) = Len(l \o d) + Len(q)
    BY <1>4, <1>7, ConcatFacts
  <2> QED
    BY <1>4, <1>5, <1>7, <2>1
<1>9. LiesAt(o, 0, l) /\ LiesAt(o, n, d) /\ LiesAt(o, n + Len(d), q)
  <2>1. LiesAt(l \o d, 0, l) /\ LiesAt(l \o d, Len(l), d)
    BY <1>2, <1>3, ConcatLies
  <2>2. LiesAt(l \o d \o q, 0, l \o d) /\ LiesAt(l \o d \o q, Len(l \o d), q)
    BY <1>4, <1>7, ConcatLies
  <2>3. LiesAt(o, 0, l \o d) /\ LiesAt(o, Len(l \o d), q)
    BY <1>5, <2>2
  <2>4. LiesAt(o, 0 + 0, l)
    BY <1>2, <1>7, <1>8, <2>1, <2>3, LiesTrans
  <2>5. LiesAt(l \o d, n, d)
    BY <1>2, <2>1
  <2> HIDE DEF n
  <2>6. LiesAt(o, 0 + n, d)
    BY <1>2, <1>3, <1>7, <1>8, <2>3, <2>5, LiesTrans
  <2>7. LiesAt(o, n + Len(d), q)
    BY <1>7, <2>3
  <2>8. 0 + 0 = 0 /\ 0 + n = n
    BY <1>2
  <2> QED
    BY <2>4, <2>6, <2>7, <2>8
<1>10. /\ \A i \in 1..Len(p) : o[i] = p[i]
       /\ o[Len(p) + 1] = " eq " /\ o[Len(p) + 2] = "'"
  <2>1. \A i \in 1..n : o[0 + i] = l[i]
    BY <1>2, <1>9 DEF LiesAt
  <2>2. \A i \in 1..n : o[i] = l[i]
    BY <1>2, <2>1
  <2>3. Len(p) + 1 \in 1..n /\ Len(p) + 2 \in 1..n /\ \A i \in 1..Len(p) : i \in 1..n
    BY <1>2
  <2> QED
    BY <1>6, <2>2, <2>3
<1>11. o[(n + Len(d)) + 1] = "'"
  BY <1>4, <1>9 DEF LiesAt
<1> QED
  BY <1>3, <1>8, <1>9, <1>10, <1>11 DEF AlternativeAt, l, d, o, Texts

LEMMA AlternativeIs ==
  ASSUME NEW p \in Seq(Symbols \ Special), NEW v \in Texts
  PROVE  /\ Alternative(p, v) \in Texts
         /\ Expression(Alternative(p, v)) /\ Single(Alternative(p, v), " or ")
         /\ IsPrefix(Lead(p), Alternative(p, v))
         /\ Literal(SubSeq(Alternative(p, v), Len(Lead(p)) + 1, Len(Alternative(p, v)) - 1)) = v
<1> DEFINE o == Alternative(p, v)
           d == Doubled(v)
           n == Len(p) + 2
           m == Len(d)
           e == n + m + 1
<1>0. p \in Texts
  BY DEF Texts
<1>s. /\ Len(p) \in Nat
      /\ \A i \in 1..Len(p) : p[i] \in Symbols \ Special
  OBVIOUS
<1>t. {"'", "(", ")", " or ", " eq "} \subseteq Special
  BY DEF Special
<1>1. d \in Texts /\ o \in Texts /\ AlternativeAt(o, p, d)
  BY <1>0, AlternativeLies
<1>2. /\ Outside(d, Len(d) + 1) /\ Literal(d) = v
      /\ \A j \in 1..Len(d) : d[j] # "'" => Outside(d, j)
  <2>1. "'" \in Symbols
    BY EncodingAssumption DEF Special
  <2> QED
    BY <2>1, DoubledIs DEF Texts
<1>3. d \in Seq(Symbols) /\ o \in Seq(Symbols) /\ m \in Nat /\ Len(o) \in Nat
  BY <1>1 DEF Texts
<1> HIDE DEF o, d
<1>4. /\ Len(o) = e /\ e \in Nat /\ n \in Nat
      /\ \A i \in 1..Len(p) : o[i] = p[i]
      /\ o[Len(p) + 1] = " eq " /\ o[n] = "'" /\ LiesAt(o, n, d) /\ o[e] = "'"
      /\ LiesAt(o, 0, Lead(p))
  <2>1. n \in Nat /\ e \in Nat
    BY <1>3, <1>s
  <2>2. /\ Len(o) = (Len(p) + 2) + Len(d) + 1
        /\ \A i \in 1..Len(p) : o[i] = p[i]
        /\ o[Len(p) + 1] = " eq " /\ o[Len(p) + 2] = "'"
        /\ LiesAt(o, Len(p) + 2, d)
        /\ o[(Len(p) + 2) + Len(d) + 1] = "'"
        /\ LiesAt(o, 0, Lead(p))
    BY <1>1 DEF AlternativeAt
  <2> QED
    BY <2>1, <2>2
<1>n. n \in Nat /\ n >= 2 /\ e = n + m + 1 /\ e - 1 = n + m /\ e >= 1 /\ n = Len(p) + 2
  BY <1>3, <1>s
<1>5. \A i \in 1..n : Outside(o, i) /\ Open(o, i) = 0
  <2> DEFINE k == Len(p) + 1
  <2>1. \A i \in 1..k : o[i] \notin {"'", "(", ")"}
    <3> SUFFICES ASSUME NEW i \in 1..k PROVE o[i] \notin {"'", "(", ")"}
      OBVIOUS
    <3>1. CASE i \in 1..Len(p)
      BY <1>4, <1>s, <1>t, <3>1
    <3>2. CASE i = Len(p) + 1
      BY <1>4, <3>2
    <3> QED
      BY <1>s, <3>1, <3>2
  <2>2. k \in Nat /\ k + 1 = n
    BY <1>s
  <2> HIDE DEF k
  <2>3. \A i \in 1..(k + 1) : Outside(o, i) /\ Open(o, i) = 0
    BY <2>1, <2>2, CalmPrefix
  <2> QED
    BY <2>2, <2>3
<1>6. ~Outside(o, n + 1) /\ Open(o, n + 1) = 0
  <2>1. n \in Nat /\ n >= 1 /\ n \in 1..n
    BY <1>s
  <2>2. o[n] = "'" /\ Outside(o, n) /\ Open(o, n) = 0
    BY <1>4, <1>5, <2>1
  <2> HIDE DEF n
  <2>3. /\ Outside(o, n + 1) <=> IF o[n] = "'" THEN ~Outside(o, n) ELSE Outside(o, n)
        /\ Open(o, n + 1) = IF o[n] = "(" /\ Outside(o, n) THEN Open(o, n) + 1
                            ELSE IF o[n] = ")" /\ Outside(o, n) THEN Open(o, n) - 1 ELSE Open(o, n)
    BY <2>1, OutsideStep
  <2> QED
    BY <2>2, <2>3
<1>7. ASSUME NEW i \in 1..(m + 1)
      PROVE  (Outside(o, n + i) <=> ~Outside(d, i)) /\ Open(o, n + i) = 0
  <2> HIDE DEF n
  <2>1. (Outside(o, n + i) <=> ~Outside(d, i)) /\ Open(o, n + i) = Open(o, n + 1)
    BY <1>2, <1>3, <1>4, <1>6, InLiteral
  <2> QED
    BY <1>6, <2>1
<1>8. ~Outside(o, e) /\ Open(o, e) = 0
  <2>1. m + 1 \in 1..(m + 1) /\ n + (m + 1) = e
    BY <1>3, <1>s
  <2> HIDE DEF n, e
  <2>2. (Outside(o, n + (m + 1)) <=> ~Outside(d, m + 1)) /\ Open(o, n + (m + 1)) = 0
    BY <1>7, <2>1
  <2> QED
    BY <1>2, <2>1, <2>2
<1>9. Outside(o, e + 1) /\ Open(o, e + 1) = 0
  <2>1. e \in Nat /\ e >= 1 /\ o[e] = "'"
    BY <1>4, <1>n
  <2> HIDE DEF e
  <2>2. /\ Outside(o, e + 1) <=> IF o[e] = "'" THEN ~Outside(o, e) ELSE Outside(o, e)
        /\ Open(o, e + 1) = IF o[e] = "(" /\ Outside(o, e) THEN Open(o, e) + 1
                            ELSE IF o[e] = ")" /\ Outside(o, e) THEN Open(o, e) - 1 ELSE Open(o, e)
    BY <2>1, OutsideStep
  <2> QED
    BY <1>8, <2>1, <2>2
<1>10. ASSUME NEW x \in 1..e
       PROVE  \/ x \in 1..n
              \/ x = e
              \/ \E j \in 1..m : x = n + j
  <2>1. CASE x > n /\ x < e
    <3>1. x - n \in 1..m /\ x = n + (x - n)
      BY <1>3, <1>s, <2>1
    <3> QED
      BY <3>1
  <2> HIDE DEF n, e
  <2> QED
    BY <1>n, <2>1
<1>11. ASSUME NEW x \in 1..e PROVE Open(o, x) = 0
  <2>1. CASE x \in 1..n
    BY <1>5, <2>1
  <2>2. CASE x = e
    BY <1>8, <2>2
  <2>3. CASE \E j \in 1..m : x = n + j
    <3>1. PICK j \in 1..m : x = n + j
      BY <2>3
    <3>2. j \in 1..(m + 1)
      BY <1>3
    <3> QED
      BY <1>7, <3>1, <3>2
  <2> QED
    BY <1>10, <2>1, <2>2, <2>3
<1>12. Expression(o)
  <2>1. DOMAIN o = 1..e /\ Len(o) = e
    <3>1. DOMAIN o = 1..Len(o)
      BY <1>3
    <3>2. Len(o) = e
      BY <1>4
    <3> QED
      BY <3>1, <3>2, Zenon
  <2> HIDE DEF e
  <2> QED
    BY <1>9, <1>11, <2>1 DEF Expression
<1>13. Single(o, " or ")
  <2> SUFFICES ASSUME NEW x \in 1..e, Outside(o, x) PROVE o[x] # " or "
    BY <1>4 DEF Single
  <2>1. CASE x \in 1..n
    <3>1. CASE x \in 1..Len(p)
      BY <1>4, <1>s, <1>t, <3>1
    <3>2. CASE x = Len(p) + 1 \/ x = n
      BY <1>4, <3>2
    <3>3. x \in 1..Len(p) \/ x = Len(p) + 1 \/ x = n
      <4> HIDE DEF n
      <4> QED
        BY <1>n, <1>s, <2>1
    <3> QED
      BY <3>1, <3>2, <3>3
  <2>2. CASE x = e
    BY <1>4, <2>2
  <2>3. CASE \E j \in 1..m : x = n + j
    <3>1. PICK j \in 1..m : x = n + j
      BY <2>3
    <3>2. j \in 1..(m + 1)
      BY <1>3
    <3>3. ~Outside(d, j)
      BY <1>7, <3>1, <3>2
    <3>4. d[j] = "'"
      BY <1>2, <3>3
    <3>5. o[x] = d[j]
      BY <1>4, <3>1 DEF LiesAt
    <3> QED
      BY <3>4, <3>5
  <2> QED
    BY <1>10, <2>1, <2>2, <2>3
<1>14. Lead(p) \in Seq(Symbols) /\ Len(Lead(p)) = n
  BY <1>0, LeadIs DEF Texts
<1>15. IsPrefix(Lead(p), o)
  <2> DEFINE l == Lead(p)
  <2>1. l \in Seq(Symbols) /\ Len(l) \in Nat /\ LiesAt(o, 0, l)
    BY <1>4, <1>14
  <2>2. LiesAt(l, 0, l)
    BY <2>1 DEF LiesAt
  <2> HIDE DEF l
  <2>3. SubSeq(o, 0 + 1, 0 + Len(l)) = l
    BY <1>3, <2>1, LiesSub
  <2>4. SubSeq(l, 0 + 1, 0 + Len(l)) = l
    BY <2>1, <2>2, LiesSub
  <2>5. 0 + 1 = 1 /\ 0 + Len(l) = Len(l) /\ Len(l) <= Len(o)
    BY <2>1 DEF LiesAt
  <2>6. IsPrefix(l, o)
    BY <2>3, <2>4, <2>5 DEF IsPrefix
  <2> QED
    BY <2>6 DEF l
<1>16. SubSeq(o, Len(Lead(p)) + 1, Len(o) - 1) = d
  <2>1. Len(o) - 1 = n + Len(d)
    BY <1>4, <1>n
  <2> HIDE DEF n, e
  <2>2. SubSeq(o, n + 1, n + Len(d)) = d
    BY <1>3, <1>4, LiesSub
  <2> QED
    BY <1>14, <2>1, <2>2
<1> QED
  BY <1>1, <1>2, <1>12, <1>13, <1>15, <1>16 DEF o

(* --in: its alternatives, in parentheses. *)
AlternativesOf(in) == [i \in DOMAIN in.values |-> Alternative(in.property, in.values[i])]
Choice(in) == Joined(AlternativesOf(in), " or ")

LEMMA InsType ==
  ASSUME NEW in \in Ins
  PROVE  /\ in.property \in Seq(Symbols \ Special) /\ in.property \in Texts
         /\ in.values \in Seq(Texts) /\ in.values # << >>
<1>1. in \in [property : Seq(Symbols \ Special), values : Seq(Seq(Symbols)) \ {<<>>}]
  BY QueryAssumption
<1>2. in.property \in Seq(Symbols \ Special) /\ in.values \in Seq(Texts) /\ in.values # << >>
  BY <1>1 DEF Texts
<1> DEFINE p == in.property
<1>3. p \in Seq(Symbols \ Special)
  BY <1>2
<1> HIDE DEF p
<1>4. p \in Texts
  BY <1>3 DEF Texts
<1> QED
  BY <1>2, <1>4 DEF p

LEMMA ValuesIn ==
  ASSUME NEW S, NEW vs \in Seq(S)
  PROVE  ToSet(vs) \subseteq S
BY DEF ToSet

LEMMA InsValues ==
  ASSUME NEW in \in Ins
  PROVE  ToSet(in.values) \subseteq Texts
<1> DEFINE vs == in.values
<1>1. vs \in Seq(Texts)
  BY InsType
<1> HIDE DEF vs
<1>2. ToSet(vs) \subseteq Texts
  BY <1>1, ValuesIn
<1> QED
  BY <1>2 DEF vs

LEMMA AlternativesType ==
  ASSUME NEW in \in Ins
  PROVE  /\ AlternativesOf(in) \in Seq(Texts) /\ AlternativesOf(in) # << >>
         /\ Len(AlternativesOf(in)) = Len(in.values)
         /\ \A i \in 1..Len(in.values) :
              AlternativesOf(in)[i] = Alternative(in.property, in.values[i]) /\ in.values[i] \in Texts
<1> DEFINE vs == in.values
           p == in.property
           n == Len(vs)
           d == [i \in 1..n |-> Alternative(p, vs[i])]
<1>1. p \in Texts /\ vs \in Seq(Texts) /\ vs # << >>
  BY InsType
<1>2. AlternativesOf(in) = [i \in DOMAIN vs |-> Alternative(p, vs[i])]
  BY DEF AlternativesOf
<1> HIDE DEF vs, p
<1>3. n \in Nat /\ DOMAIN vs = 1..n /\ n # 0 /\ \A i \in 1..n : vs[i] \in Texts
  BY <1>1
<1>4. \A i \in 1..n : Alternative(p, vs[i]) \in Texts
  BY <1>1, <1>3, AlternativeLies
<1>5. AlternativesOf(in) = d
  BY <1>2, <1>3
<1>6. d \in Seq(Texts) /\ Len(d) = n
  BY <1>3, <1>4, IsASeq
<1>7. \A i \in 1..n : d[i] = Alternative(p, vs[i])
  OBVIOUS
<1> HIDE DEF d
<1>8. d # << >>
  BY <1>3, <1>6
<1> QED
  BY <1>3, <1>5, <1>6, <1>7, <1>8 DEF vs, p

LEMMA ChoiceIs ==
  ASSUME NEW in \in Ins
  PROVE  /\ Choice(in) \in Texts /\ Expression(Choice(in))
         /\ Operands(Choice(in), " or ") = {Alternative(in.property, v) : v \in ToSet(in.values)}
         /\ InFilter(in) = <<"(">> \o Choice(in) \o <<")">>
<1> DEFINE ps == AlternativesOf(in)
           t == Choice(in)
           p == in.property
           vs == in.values
           n == Len(vs)
<1>1. ps \in Seq(Texts) /\ ps # << >> /\ Len(ps) = n
      /\ \A i \in 1..n : ps[i] = Alternative(p, vs[i]) /\ vs[i] \in Texts
  BY AlternativesType
<1>2. p \in Seq(Symbols \ Special) /\ vs \in Seq(Texts)
  BY InsType
<1>3. InFilter(in) = <<"(">> \o t \o <<")">>
  BY DEF InFilter, Choice, AlternativesOf, Alternative
<1>4. t = Joined(ps, " or ")
  BY DEF Choice
<1>5. " or " \in Symbols /\ " or " \notin {"'", "(", ")"}
  BY EncodingAssumption DEF Special
<1> HIDE DEF ps, t, p, vs
<1>6. ps \in Seq(Seq(Symbols))
  BY <1>1 DEF Texts
<1>7. t \in Seq(Symbols) /\ \E c : Laid(t, ps, " or ", c)
  BY <1>1, <1>4, <1>5, <1>6, JoinedLaid
<1>8. PICK c : Laid(t, ps, " or ", c)
  BY <1>7
<1>9. \A k \in 1..Len(ps) : Expression(ps[k]) /\ Single(ps[k], " or ")
  BY <1>1, <1>2, AlternativeIs
<1>10. Operands(t, " or ") = ToSet(ps) /\ Expression(t)
  BY <1>1, <1>5, <1>6, <1>7, <1>8, <1>9, LaidOperands
<1>11. ToSet(ps) = {Alternative(p, v) : v \in ToSet(vs)}
  <2>1. DOMAIN ps = 1..n /\ DOMAIN vs = 1..n
    <3>1. DOMAIN ps = 1..Len(ps)
      BY <1>1
    <3>2. DOMAIN vs = 1..Len(vs)
      BY <1>2
    <3> QED
      BY <1>1, <3>1, <3>2
  <2> QED
    BY <1>1, <2>1 DEF ToSet
<1> QED
  BY <1>3, <1>7, <1>10, <1>11 DEF t, p, vs, Texts

(* The whole filter: the user's, in parentheses, and --in. *)
LEMMA Combined ==
  ASSUME NEW filter \in Optional(Texts), NEW in \in Ins
  PROVE  \E text \in Texts :
           /\ CombineFilterWithIn(filter, {in}) = {text}
           /\ (\A f \in filter : Expression(f)) =>
                {Inner(c) : c \in Operands(text, " and ")} = {Choice(in)} \cup filter
<1> DEFINE j == Choice(in)
           B == <<"(">> \o j \o <<")">>
           and == " and "
<1>1. j \in Seq(Symbols) /\ Expression(j) /\ InFilter(in) = B
  BY ChoiceIs DEF Texts
<1>2. {"(", ")"} \subseteq Symbols /\ and \in Symbols /\ and \notin {"'", "(", ")"}
  BY EncodingAssumption DEF Special
<1>3. B \in Seq(Symbols) /\ Inner(B) = j /\ Expression(B) /\ Single(B, and)
  BY <1>1, <1>2, Parenthesised
<1> HIDE DEF j, B, and
<1>4. CASE filter = {}
  <2> DEFINE G(f) == <<"(">> \o f \o <<")", " and ">>
  <2>1. CombineFilterWithIn(filter, {in}) = {FlattenSeq(SetToSeq({G(f) : f \in filter})) \o InFilter(in)}
    BY DEF CombineFilterWithIn
  <2>2. {G(f) : f \in filter} = {}
    BY <1>4
  <2> HIDE DEF G
  <2>3. FlattenSeq(SetToSeq({G(f) : f \in filter})) = << >>
    BY <2>2, OptionSeq, FlattenOption
  <2>4. << >> \o B = B
    BY <1>3
  <2>5. CombineFilterWithIn(filter, {in}) = {B}
    BY <1>1, <2>1, <2>3, <2>4
  <2>6. Operands(B, and) = {B}
    <3> DEFINE ps == <<B>>
    <3>1. PICK c : Laid(B, ps, and, c)
      BY <1>3, LaidOne
    <3>2. ps \in Seq(Seq(Symbols)) /\ ps # << >> /\ Len(ps) = 1 /\ ps[1] = B
      BY <1>3
    <3>3. ToSet(ps) = {B}
      BY DEF ToSet
    <3> HIDE DEF ps
    <3>4. \A k \in 1..Len(ps) : Expression(ps[k]) /\ Single(ps[k], and)
      BY <1>3, <3>2
    <3> QED
      BY <1>2, <1>3, <3>1, <3>2, <3>3, <3>4, LaidOperands
  <2>7. {Inner(c) : c \in Operands(B, and)} = {j} \cup filter
    BY <1>3, <1>4, <2>6
  <2> QED
    BY <1>3, <2>5, <2>7 DEF Texts, j, and
<1>5. CASE \E f \in Texts : filter = {f}
  <2>1. PICK f \in Texts : filter = {f}
    BY <1>5
  <2> DEFINE G(x) == <<"(">> \o x \o <<")", " and ">>
             l == <<"(">>
             r == <<")">>
             o == <<and>>
             ro == <<")", " and ">>
             A == l \o f \o r
  <2>2. CombineFilterWithIn(filter, {in}) = {FlattenSeq(SetToSeq({G(x) : x \in filter})) \o InFilter(in)}
    BY DEF CombineFilterWithIn
  <2>3. {G(x) : x \in filter} = {G(f)}
    BY <2>1
  <2>4. f \in Seq(Symbols)
    BY DEF Texts
  <2>5. A \in Seq(Symbols) /\ Inner(A) = f /\ (Expression(f) => Expression(A) /\ Single(A, and))
    <3>1. A = <<"(">> \o f \o <<")">>
      OBVIOUS
    <3> HIDE DEF A
    <3> QED
      BY <1>2, <2>4, <3>1, Parenthesised
  <2>6. l \in Seq(Symbols) /\ r \in Seq(Symbols) /\ o \in Seq(Symbols) /\ ro = r \o o
    <3>1. l \in Seq(Symbols) /\ r \in Seq(Symbols) /\ o \in Seq(Symbols)
      BY <1>2, OneSymbol
    <3>2. ASSUME NEW x \in Symbols, NEW y \in Symbols PROVE <<x, y>> = <<x>> \o <<y>>
      <4> DEFINE u == <<x, y>>
                 v == <<x>>
                 w == <<y>>
      <4>1. u \in Seq(Symbols) /\ v \in Seq(Symbols) /\ w \in Seq(Symbols)
        OBVIOUS
      <4>2. Len(u) = 2 /\ Len(v) = 1 /\ Len(w) = 1 /\ u[1] = x /\ u[2] = y /\ v[1] = x /\ w[1] = y
        OBVIOUS
      <4> HIDE DEF u, v, w
      <4> DEFINE vw == v \o w
      <4>3. vw \in Seq(Symbols) /\ Len(vw) = Len(v) + Len(w)
            /\ (\A i \in 1..Len(v) : vw[i] = v[i])
            /\ (\A i \in 1..Len(w) : vw[Len(v) + i] = w[i])
        BY <4>1, ConcatFacts
      <4> HIDE DEF vw
      <4>5. Len(vw) = 2 /\ vw[1] = x /\ vw[2] = y
        BY <4>2, <4>3
      <4>4. u = vw
        BY <4>1, <4>2, <4>3, <4>5
      <4> QED
        BY <4>4 DEF u, v, w, vw
    <3>3. <<")", " and ">> = <<")">> \o <<" and ">>
      BY <1>2, <3>2 DEF and
    <3> QED
      BY <3>1, <3>3 DEF and
  <2>7. G(f) = l \o f \o ro
    OBVIOUS
  <2> HIDE DEF G, l, r, o, ro
  <2>8. G(f) = A \o o
    <3>1. l \o f \in Seq(Symbols)
      BY <2>4, <2>6
    <3> DEFINE lf == l \o f
    <3>2. Cat(Cat(lf, r), o) = Cat(lf, Cat(r, o))
      <4>1. lf \in Seq(Symbols)
        BY <3>1
      <4> HIDE DEF lf
      <4> QED
        BY <2>6, <4>1, CatRegrouped
    <3>3. (lf \o r) \o o = lf \o (r \o o)
      BY <3>2, Zenon DEF Cat
    <3> QED
      BY <2>6, <2>7, <3>3, Zenon
  <2> HIDE DEF A
  <2>9. A \o o \in Seq(Symbols)
    BY <2>5, <2>6
  <2>10. FlattenSeq(SetToSeq({G(x) : x \in filter})) = A \o o
    <3>1. FlattenSeq(<<A \o o>>) = A \o o
      BY <2>9, FlattenOption
    <3> QED
      BY <2>3, <2>8, <3>1, OptionSeq, Zenon
  <2> DEFINE t == A \o o \o B
  <2>11. CombineFilterWithIn(filter, {in}) = {t}
    BY <1>1, <2>2, <2>10
  <2>12. t \in Seq(Symbols)
    BY <1>3, <2>9
  <2>13. ASSUME Expression(f) PROVE Operands(t, and) = {A, B}
    <3> DEFINE ps == <<A, B>>
    <3>1. \E c : Laid(A \o <<and>> \o B, ps, and, c)
      BY <1>2, <1>3, <2>5, LaidTwo
    <3>2. PICK c : Laid(t, ps, and, c)
      BY <3>1 DEF o
    <3>3. ps \in Seq(Seq(Symbols)) /\ ps # << >> /\ Len(ps) = 2 /\ ps[1] = A /\ ps[2] = B
      BY <1>3, <2>5
    <3>4. ToSet(ps) = {A, B}
      BY DEF ToSet
    <3> HIDE DEF ps, t
    <3>5. \A k \in 1..Len(ps) : Expression(ps[k]) /\ Single(ps[k], and)
      BY <1>3, <2>5, <2>13, <3>3
    <3> QED
      BY <1>2, <2>12, <3>2, <3>3, <3>4, <3>5, LaidOperands
  <2> HIDE DEF t
  <2>14. ASSUME Expression(f) PROVE {Inner(c) : c \in Operands(t, and)} = {j} \cup filter
    BY <1>3, <2>1, <2>5, <2>13, <2>14
  <2> QED
    BY <2>1, <2>11, <2>12, <2>14 DEF Texts, j, and
<1> QED
  BY <1>4, <1>5 DEF Optional

LEMMA FilterRead ==
  ASSUME NEW filter \in Optional(Texts), NEW in \in Ins, NEW text,
         (\A f \in filter : Expression(f)) =>
           {Inner(c) : c \in Operands(text, " and ")} = {Choice(in)} \cup filter,
         NEW meant, meant.filter = filter, meant.ins = {in}
  PROVE  FilterArrives(text, meant)
<1> SUFFICES ASSUME \A f \in filter : Expression(f)
             PROVE  FilterArrives(text, meant)
  BY DEF FilterArrives
<1> DEFINE lead == in.property \o <<" eq ", "'">>
           alternatives(c) == {Literal(SubSeq(o, Len(lead) + 1, Len(o) - 1)) : o \in Operands(c, " or ")}
           conjuncts == {Inner(c) : c \in Operands(text, " and ")}
           c == Choice(in)
           p == in.property
<1>1. conjuncts = {c} \cup filter
  OBVIOUS
<1>2. lead = Lead(p)
  BY DEF Lead
<1>3. p \in Seq(Symbols \ Special) /\ in.values \in Seq(Texts)
  BY InsType
<1>4. ToSet(in.values) \subseteq Texts
  BY InsValues
<1>5. Operands(c, " or ") = {Alternative(p, v) : v \in ToSet(in.values)}
  BY ChoiceIs
<1>6. \A v \in ToSet(in.values) :
        /\ IsPrefix(lead, Alternative(p, v))
        /\ Literal(SubSeq(Alternative(p, v), Len(lead) + 1, Len(Alternative(p, v)) - 1)) = v
  BY <1>2, <1>3, <1>4, AlternativeIs
<1> HIDE DEF lead, c, p
<1>7. \A o \in Operands(c, " or ") : IsPrefix(lead, o)
  BY <1>5, <1>6
<1>8. alternatives(c) = ToSet(in.values)
  <2>1. ASSUME NEW x \in alternatives(c) PROVE x \in ToSet(in.values)
    <3>1. PICK o \in Operands(c, " or ") : x = Literal(SubSeq(o, Len(lead) + 1, Len(o) - 1))
      BY <2>1
    <3>2. PICK v \in ToSet(in.values) : o = Alternative(p, v)
      BY <1>5
    <3> QED
      BY <1>6, <3>1, <3>2
  <2>2. ASSUME NEW v \in ToSet(in.values) PROVE v \in alternatives(c)
    <3>1. Alternative(p, v) \in Operands(c, " or ")
      BY <1>5
    <3>2. Literal(SubSeq(Alternative(p, v), Len(lead) + 1, Len(Alternative(p, v)) - 1)) = v
      BY <1>6
    <3> QED
      BY <3>1, <3>2
  <2> QED
    BY <2>1, <2>2
<1> HIDE DEF conjuncts, alternatives
<1>9. \E x \in conjuncts :
        /\ \A o \in Operands(x, " or ") : IsPrefix(lead, o)
        /\ alternatives(x) = ToSet(in.values)
        /\ conjuncts = {x} \cup filter
  BY <1>1, <1>7, <1>8
<1> QED
  BY <1>9 DEF FilterArrives, conjuncts, alternatives, lead

(* Splitting leaves no separator in any part, whatever the text. *)
LEMMA SplitParts ==
  ASSUME NEW S, NEW text \in Seq(S), NEW s
  PROVE  /\ Split(text, s) \in Seq(Seq(S)) /\ Split(text, s) # << >>
         /\ \A k \in 1..Len(Split(text, s)) : Without(Split(text, s)[k], s)
<1> DEFINE n == Len(text)
           places == {i \in DOMAIN text : text[i] = s}
           D == {0, n + 1} \cup places
<1>1. n \in Nat /\ DOMAIN text = 1..n
  OBVIOUS
<1>2. places \subseteq 1..n /\ \A i \in 1..n : text[i] = s => i \in places
  BY <1>1
<1>3. Split(text, s) = Pieces(text, places)
  BY DEF Split
<1> HIDE DEF places
<1>4. D \in SUBSET (0..(n + 1)) /\ 0 \in D /\ n + 1 \in D
  <2> HIDE DEF n
  <2>1. n + 1 \in Nat /\ 0 \in 0..(n + 1) /\ n + 1 \in 0..(n + 1) /\ 1..n \subseteq 0..(n + 1)
    BY <1>1
  <2> QED
    BY <1>2, <2>1
<1>5. \E m \in Nat : \E c : Increasing(c, m) /\ D = Image(c, m)
  <2> DEFINE N == n + 1
  <2>1. N \in Nat /\ D \in SUBSET (0..N) /\ 0 \in D
    BY <1>1, <1>4
  <2> HIDE DEF N, D
  <2> QED
    BY <2>1, Enumerated
<1>6. PICK m \in Nat : \E c : Increasing(c, m) /\ D = Image(c, m)
  BY <1>5
<1>7. PICK c : Increasing(c, m) /\ D = Image(c, m)
  BY <1>6
<1> DEFINE cut(k) == SubSeq(text, c[k - 1] + 1, c[k] - 1)
           parts == [k \in 1..m |-> cut(k)]
<1>8. Split(text, s) = parts
  <2>1. {0, Len(text) + 1} \cup places = Image(c, m)
    BY <1>7
  <2> QED
    BY <1>3, <1>7, <2>1, PiecesAt
<1>9. \A i \in 0..m : c[i] \in D
  BY <1>7 DEF Image
<1>10. \A x \in D : \E i \in 0..m : x = c[i]
  BY <1>7 DEF Image
<1> HIDE DEF D
<1>11. m >= 1
  <2>1. PICK i \in 0..m : c[i] = 0
    BY <1>4, <1>10
  <2>2. PICK j \in 0..m : c[j] = n + 1
    BY <1>4, <1>10
  <2>3. i # j
    BY <1>1, <2>1, <2>2
  <2> QED
    BY <2>3
<1>12. ASSUME NEW k \in 1..m
       PROVE  cut(k) \in Seq(S) /\ Without(cut(k), s)
  <2> DEFINE a == c[k - 1]
             b == c[k]
  <2>1. k - 1 \in 0..m /\ k \in 0..m /\ k - 1 < k
    OBVIOUS
  <2>2. a \in 0..(n + 1) /\ b \in 0..(n + 1) /\ a < b
    BY <1>4, <1>7, <1>9, <2>1 DEF Increasing
  <2>3. \A i \in 0..m : c[i] <= a \/ b <= c[i]
    <3> SUFFICES ASSUME NEW i \in 0..m PROVE c[i] <= a \/ b <= c[i]
      OBVIOUS
    <3>1. c \in [0..m -> Nat] /\ \A x, y \in 0..m : x < y => c[x] < c[y]
      BY <1>7 DEF Increasing
    <3>2. i < k - 1 \/ i = k - 1 \/ i = k \/ k < i
      BY <2>1
    <3>3. c[i] < a \/ c[i] = a \/ c[i] = b \/ b < c[i]
      BY <2>1, <3>1, <3>2
    <3>4. c[i] \in Nat
      BY <3>1
    <3> QED
      BY <1>1, <2>2, <3>3, <3>4
  <2>4. cut(k) = SubSeq(text, a + 1, b - 1)
    OBVIOUS
  <2> HIDE DEF a, b, cut
  <2> DEFINE p == cut(k)
             lo == a + 1
             hi == b - 1
  <2>5. lo \in Nat /\ hi \in Nat /\ lo >= 1 /\ hi <= n
    BY <1>1, <2>2
  <2>6. p = SubSeq(text, lo, hi)
    BY <2>4
  <2> HIDE DEF p, lo, hi, n
  <2>7. /\ p \in Seq(S)
        /\ Len(p) = IF lo <= hi THEN hi - lo + 1 ELSE 0
        /\ \A j \in 1..Len(p) : p[j] = text[lo + j - 1]
    BY <2>5, <2>6, SubOfText DEF n
  <2>8. ASSUME NEW j \in 1..Len(p), p[j] = s PROVE FALSE
    <3> DEFINE x == lo + j - 1
    <3>1. Len(p) \in Nat /\ j \in Nat
      BY <2>7
    <3>2. x \in 1..n /\ a < x /\ x < b
      BY <1>1, <2>2, <2>5, <2>7, <2>8, <3>1 DEF lo, hi
    <3>3. text[x] = s
      BY <2>7, <2>8
    <3> HIDE DEF x
    <3>4. x \in D
      BY <1>2, <3>2, <3>3 DEF D
    <3>5. PICK i \in 0..m : x = c[i]
      BY <1>10, <3>4
    <3> QED
      BY <1>1, <2>2, <2>3, <3>2, <3>5
  <2> QED
    BY <2>7, <2>8 DEF p, Without
<1> HIDE DEF cut
<1>13. parts \in Seq(Seq(S)) /\ Len(parts) = m
  BY <1>12, IsASeq
<1>14. \A k \in 1..m : parts[k] = cut(k)
  OBVIOUS
<1> HIDE DEF parts
<1>15. parts # << >>
  BY <1>11, <1>13
<1> QED
  BY <1>8, <1>12, <1>13, <1>14, <1>15

LEMMA TrimmedWithout ==
  ASSUME NEW x \in Texts, NEW blank, NEW s, Without(x, s)
  PROVE  Without(Trimmed(x, blank), s)
<1> DEFINE y == Trimmed(x, blank)
<1>1. CASE y = << >>
  BY <1>1 DEF Without
<1>2. CASE \E low, high \in 1..Len(x) : y = SubSeq(x, low, high)
  <2>1. PICK low, high \in 1..Len(x) : y = SubSeq(x, low, high)
    BY <1>2
  <2> HIDE DEF y
  <2>2. x \in Seq(Symbols) /\ Len(x) \in Nat
    BY DEF Texts
  <2>3. low \in Nat /\ high \in Nat /\ low >= 1 /\ high <= Len(x)
    BY <2>2
  <2>4. /\ y \in Seq(Symbols)
        /\ Len(y) = IF low <= high THEN high - low + 1 ELSE 0
        /\ \A i \in 1..Len(y) : y[i] = x[low + i - 1]
    BY <2>1, <2>2, <2>3, SubOfText
  <2>5. ASSUME NEW i \in 1..Len(y) PROVE y[i] # s
    <3>1. Len(y) \in Nat
      BY <2>4
    <3>2. low + i - 1 \in 1..Len(x)
      BY <2>2, <2>3, <2>4, <3>1
    <3> QED
      BY <2>4, <3>2 DEF Without
  <2> QED
    BY <2>5 DEF Without, y
<1> QED
  BY <1>1, <1>2, TrimmedCut

(* The parts of a list: without commas, so that they come back as written. *)
LEMMA FieldsAre ==
  ASSUME NEW l \in Texts
  PROVE  /\ Fields(l) \in Seq(Texts) /\ Fields(l) # << >>
         /\ \A k \in 1..Len(Fields(l)) : Without(Fields(l)[k], ",")
<1> DEFINE parts == Split(l, ",")
           n == Len(parts)
           d == [i \in 1..n |-> Trimmed(parts[i], " ")]
<1>1. parts \in Seq(Texts) /\ parts # << >> /\ \A k \in 1..n : Without(parts[k], ",")
  BY SplitParts DEF Texts
<1>0. parts \in Seq(Texts) /\ parts # << >>
  BY <1>1
<1>2. Fields(l) = [i \in DOMAIN parts |-> Trimmed(parts[i], " ")]
  BY DEF Fields
<1> HIDE DEF parts
<1>3. n \in Nat /\ DOMAIN parts = 1..n /\ n # 0 /\ \A i \in 1..n : parts[i] \in Texts
  BY <1>0
<1>4. \A i \in 1..n : Trimmed(parts[i], " ") \in Texts /\ Without(Trimmed(parts[i], " "), ",")
  BY <1>1, <1>3, TrimmedType, TrimmedWithout
<1>5. Fields(l) = d
  BY <1>2, <1>3
<1>6. d \in Seq(Texts) /\ Len(d) = n
  <2> DEFINE T(i) == Trimmed(parts[i], " ")
             e == [i \in 1..n |-> T(i)]
  <2>1. n \in Nat /\ \A i \in 1..n : T(i) \in Texts
    BY <1>3, <1>4
  <2>2. d = e
    OBVIOUS
  <2> HIDE DEF n, T, d
  <2>3. e \in Seq(Texts) /\ Len(e) = n
    BY <2>1, IsASeq
  <2> QED
    BY <2>2, <2>3
<1>7. \A i \in 1..n : d[i] = Trimmed(parts[i], " ")
  OBVIOUS
<1> HIDE DEF d
<1>8. d # << >>
  BY <1>3, <1>6
<1> QED
  BY <1>4, <1>5, <1>6, <1>7, <1>8

LEMMA ListRead ==
  ASSUME NEW ps \in Seq(Texts), \A k \in 1..Len(ps) : Without(ps[k], ",")
  PROVE  {Split(v, ",") : v \in IF ps = << >> THEN {} ELSE {Joined(ps, ",")}} = {ps} \ {<< >>}
<1>1. CASE ps = << >>
  BY <1>1
<1>2. CASE ps # << >>
  <2>1. "," \in Symbols /\ ps \in Seq(Seq(Symbols))
    BY EncodingAssumption DEF Special, Texts
  <2>2. \A k \in 1..Len(ps) : \A j \in 1..Len(ps[k]) : ps[k][j] # ","
    BY DEF Without
  <2>3. Split(Joined(ps, ","), ",") = ps
    BY <1>2, <2>1, <2>2, SplitJoined
  <2> QED
    BY <1>2, <2>3
<1> QED
  BY <1>1, <1>2

-----------------------------------------------------------------------------
(* A request and what its sender meant. *)

FilterRight(values, meant) ==
  IF meant.filter = {} /\ meant.ins = {} THEN values = {}
  ELSE \E text \in values : values = {text} /\ FilterArrives(text, meant)

Arrives(s) ==
  /\ Before(Before(s.url, "#"), "?")[1] = "Set"
  /\ KeyRead(Before(Before(s.url, "#"), "?")) = s.meant.key
  /\ NavigationRead(Before(Before(s.url, "#"), "?")) = s.meant.navigation
  /\ {Split(v, ",") : v \in ValuesOf(s.url, "$select")} = {s.meant.select} \ {<< >>}
  /\ FilterRight(ValuesOf(s.url, "$filter"), s.meant)
  /\ SearchArrives(s.url, s.meant.search)
  /\ ValuesOf(s.url, "$top") = {Num(n) : n \in s.meant.top}
  /\ ValuesOf(s.url, "$skip") = {Num(n) : n \in s.meant.skip}
  /\ ValuesOf(s.url, "$skiptoken") = s.meant.skiptoken
  /\ s.meant.count <=> ValuesOf(s.url, IF service.version = "V4" THEN "$count" ELSE "$inlinecount") # {}

LEMMA ArrivesIs == RequestsArrive <=> \A s \in sent : Arrives(s)
BY DEF RequestsArrive, Arrives, KeyRead, NavigationRead, FilterRight

LEMMA ArrivesFrame ==
  ASSUME service' = service
  PROVE  \A s : Arrives(s)' <=> Arrives(s)
BY DEF Arrives, SearchArrives

(* What the program puts into a query for what is meant. *)
Means(q, m) ==
  /\ m.key = q.key /\ m.navigation = q.navigation /\ (q.key # {} \/ q.navigation = {})
  /\ m.select = q.select /\ (\A k \in 1..Len(q.select) : Without(q.select[k], ","))
  /\ m.filter \in Optional(Texts) /\ m.ins \in Optional(Ins)
  /\ q.filter = CombineFilterWithIn(m.filter, m.ins)
  /\ m.search = q.search /\ \A t \in q.search : Trimmed(t, " ") = t
  /\ {Num(n) : n \in m.top} = q.top /\ {Num(n) : n \in m.skip} = q.skip
  /\ m.skiptoken = q.skiptoken /\ m.count = q.count

(* The filter of a request, with or without --in. *)
LEMMA FilterGiven ==
  ASSUME NEW filter \in Optional(Texts), NEW ins \in Optional(Ins)
  PROVE  /\ CombineFilterWithIn(filter, ins) \in Optional(Texts)
         /\ \A m : m.filter = filter /\ m.ins = ins => FilterRight(CombineFilterWithIn(filter, ins), m)
<1>1. CASE ins = {}
  <2>1. CombineFilterWithIn(filter, ins) = filter
    BY <1>1 DEF CombineFilterWithIn
  <2>2. ASSUME NEW m, m.filter = filter, m.ins = ins PROVE FilterRight(filter, m)
    <3>1. CASE filter = {}
      BY <1>1, <2>2, <3>1 DEF FilterRight
    <3>2. CASE \E f \in Texts : filter = {f}
      <4>1. PICK f \in Texts : filter = {f}
        BY <3>2
      <4>2. FilterArrives(f, m)
        BY <1>1, <2>2, <4>1 DEF FilterArrives
      <4> QED
        BY <2>2, <4>1, <4>2 DEF FilterRight
    <3> QED
      BY <3>1, <3>2 DEF Optional
  <2> QED
    BY <2>1, <2>2
<1>2. CASE \E in \in Ins : ins = {in}
  <2>1. PICK in \in Ins : ins = {in}
    BY <1>2
  <2>2. PICK text \in Texts :
          /\ CombineFilterWithIn(filter, {in}) = {text}
          /\ (\A f \in filter : Expression(f)) =>
               {Inner(c) : c \in Operands(text, " and ")} = {Choice(in)} \cup filter
    BY Combined
  <2>3. CombineFilterWithIn(filter, ins) = {text}
    BY <2>1, <2>2
  <2>4. ASSUME NEW m, m.filter = filter, m.ins = ins PROVE FilterRight({text}, m)
    <3>1. FilterArrives(text, m)
      BY <2>1, <2>2, <2>4, FilterRead
    <3> QED
      BY <2>1, <2>4, <3>1 DEF FilterRight
  <2>5. {text} \in Optional(Texts)
    BY DEF Optional
  <2> QED
    BY <2>3, <2>4, <2>5
<1> QED
  BY <1>1, <1>2 DEF Optional

Quoted(t) == <<"\"">> \o Phrase(t) \o <<"\"">>

LEMMA LastPlace ==
  ASSUME NEW n \in Int, NEW i \in Int, i >= n, i <= n
  PROVE  i = n
OBVIOUS

LEMMA EndsOrBetween ==
  ASSUME NEW n \in Nat, NEW i \in 1..n
  PROVE  i \in 2..(n - 1) \/ i = 1 \/ i = n
OBVIOUS

(* What a trim leaves neither begins nor ends with the symbol, and whoever   *)
(* neither begins nor ends with it is left as it is.                         *)
LEMMA NothingToTrim ==
  ASSUME NEW t \in Texts, NEW c, t # <<>> => t[1] # c /\ t[Len(t)] # c
  PROVE  Trimmed(t, c) = t
<1> DEFINE kept == {i \in DOMAIN t : t[i] # c}
<1>0. t \in Seq(Symbols) /\ Len(t) \in Nat /\ DOMAIN t = 1..Len(t)
  BY DEF Texts
<1>1. CASE t = <<>>
  <2>1. kept = {}
    BY <1>1
  <2> QED
    BY <1>1, <2>1 DEF Trimmed
<1>2. CASE t # <<>>
  <2>1. Len(t) >= 1
    BY <1>0, <1>2
  <2>2. kept \subseteq 1..Len(t) /\ 1 \in kept /\ Len(t) \in kept
    BY <1>0, <1>2, <2>1
  <2> HIDE DEF kept
  <2>3. (CHOOSE i \in kept : \A j \in kept : i <= j) = 1
    <3>1. \A j \in kept : 1 <= j
      BY <2>2
    <3>2. \A i \in kept : (\A j \in kept : i <= j) => i = 1
      BY <1>0, <2>2
    <3> QED
      BY <2>2, <3>1, <3>2
  <2>4. (CHOOSE i \in kept : \A j \in kept : i >= j) = Len(t)
    <3>1. \A j \in kept : Len(t) >= j
      BY <1>0, <2>2
    <3>2. ASSUME NEW i \in kept, \A j \in kept : i >= j PROVE i = Len(t)
      <4>1. i >= Len(t)
        BY <2>2, <3>2
      <4>2. i \in Int /\ i <= Len(t) /\ Len(t) \in Int
        BY <1>0, <2>2
      <4> QED
        BY <4>1, <4>2, LastPlace
    <3> QED
      BY <2>2, <3>1, <3>2
  <2>5. kept # {}
    BY <2>2
  <2>6. SubSeq(t, 1, Len(t)) = t
    BY <1>0
  <2> QED
    BY <2>3, <2>4, <2>5, <2>6 DEF Trimmed, kept
<1> QED
  BY <1>1, <1>2

LEMMA TrimIsDone ==
  ASSUME NEW t \in Texts, NEW c
  PROVE  Trimmed(Trimmed(t, c), c) = Trimmed(t, c)
<1> DEFINE kept == {i \in DOMAIN t : t[i] # c}
           low == CHOOSE i \in kept : \A j \in kept : i <= j
           high == CHOOSE i \in kept : \A j \in kept : i >= j
           x == SubSeq(t, low, high)
<1>0. t \in Seq(Symbols) /\ Len(t) \in Nat /\ DOMAIN t = 1..Len(t)
  BY DEF Texts
<1>1. CASE kept = {}
  <2>1. Trimmed(t, c) = <<>>
    BY <1>1 DEF Trimmed
  <2>2. <<>> \in Texts
    BY DEF Texts
  <2> QED
    BY <2>1, <2>2, NothingToTrim
<1>2. CASE kept # {}
  <2>1. kept \subseteq 1..Len(t)
    BY <1>0
  <2>2. Trimmed(t, c) = x
    BY <1>2 DEF Trimmed
  <2>b. \A i \in kept : t[i] # c
    OBVIOUS
  <2>3. low \in kept /\ (\A j \in kept : low <= j)
    <3> HIDE DEF kept
    <3>1. kept \in SUBSET Nat
      BY <1>0, <2>1
    <3>2. \E i \in kept : \A j \in kept : i <= j
      BY <1>2, <3>1, HasLeast
    <3> QED
      BY <3>2
  <2>4. high \in kept /\ (\A j \in kept : high >= j)
    <3> HIDE DEF kept
    <3>1. PICK i \in kept : \A j \in kept : j <= i
      BY <1>0, <1>2, <2>1, HasLast
    <3>2. \A j \in kept : i >= j
      BY <1>0, <2>1, <3>1
    <3>3. \E k \in kept : \A j \in kept : k >= j
      BY <3>2
    <3> QED
      BY <3>3
  <2>5. /\ low \in 1..Len(t) /\ high \in 1..Len(t) /\ low <= high
        /\ t[low] # c /\ t[high] # c
    BY <2>1, <2>3, <2>4, <2>b
  <2> HIDE DEF kept, low, high
  <2>6. x \in Texts
    BY <1>0, <2>5, SubOfText DEF Texts
  <2>7. Len(x) = high - low + 1 /\ x[1] = t[low] /\ x[Len(x)] = t[high]
    <3>1. /\ low \in Nat /\ high \in Nat /\ low >= 1 /\ high <= Len(t)
      BY <1>0, <2>5
    <3>2. /\ Len(x) = high - low + 1
          /\ \A i \in 1..Len(x) : x[i] = t[low + i - 1]
      BY <1>0, <2>5, <3>1, SubOfText
    <3>3. 1 \in 1..Len(x) /\ Len(x) \in 1..Len(x) /\ low + 1 - 1 = low /\ low + Len(x) - 1 = high
      BY <2>5, <3>1, <3>2
    <3> QED
      BY <3>2, <3>3
  <2>8. Trimmed(x, c) = x
    BY <2>5, <2>6, <2>7, NothingToTrim
  <2> QED
    BY <2>2, <2>8
<1> QED
  BY <1>1, <1>2

Bare(t, c) == IF Len(t) > 1 /\ t[1] = c /\ t[Len(t)] = c THEN Inner(t) ELSE t

LEMMA TrimmedBare ==
  ASSUME NEW t \in Texts, NEW c, Bare(t, c) # <<>>,
         \A i \in DOMAIN Bare(t, c) : Bare(t, c)[i] # c
  PROVE  Trimmed(t, c) = Bare(t, c)
<1> DEFINE u == Bare(t, c)
<1>0. t \in Seq(Symbols) /\ Len(t) \in Nat /\ DOMAIN t = 1..Len(t)
  BY DEF Texts
<1>1. CASE ~(Len(t) > 1 /\ t[1] = c /\ t[Len(t)] = c)
  <2>1. u = t
    BY <1>1 DEF Bare
  <2>2. t # <<>> /\ \A i \in DOMAIN t : t[i] # c
    BY <2>1
  <2>3. t[1] # c /\ t[Len(t)] # c
    BY <1>0, <2>2
  <2>4. Trimmed(t, c) = t
    BY <2>3, NothingToTrim
  <2> QED
    BY <2>1, <2>4
<1>2. CASE Len(t) > 1 /\ t[1] = c /\ t[Len(t)] = c
  <2>1. u = SubSeq(t, 2, Len(t) - 1)
    BY <1>2 DEF Bare, Inner
  <2>2. u # <<>> /\ \A i \in DOMAIN u : u[i] # c
    OBVIOUS
  <2> HIDE DEF u
  <2>3. 2 <= Len(t) - 1
    <3> SUFFICES ASSUME ~(2 <= Len(t) - 1) PROVE FALSE
      OBVIOUS
    <3>1. Len(t) = 2
      BY <1>0, <1>2
    <3>2. u = <<>>
      <4>1. u \in Seq(Symbols) /\ Len(u) = 0
        BY <1>0, <2>1, <3>1, SubOfText
      <4> QED
        BY <4>1
    <3> QED
      BY <2>2, <3>2
  <2>s. 2 \in Nat /\ Len(t) - 1 \in Nat /\ 2 >= 1 /\ Len(t) - 1 <= Len(t)
    BY <1>0, <1>2
  <2>n. /\ u \in Seq(Symbols) /\ Len(u) = (Len(t) - 1) - 2 + 1
        /\ \A i \in 1..Len(u) : u[i] = t[2 + i - 1]
    BY <1>0, <2>1, <2>3, <2>s, SubOfText
  <2>4. Len(u) = Len(t) - 2 /\ \A i \in 1..Len(u) : u[i] = t[i + 1]
    <3>1. Len(u) = Len(t) - 2
      BY <1>0, <2>n
    <3>2. \A i \in 1..Len(u) : 2 + i - 1 = i + 1
      BY <1>0, <3>1
    <3> QED
      BY <2>n, <3>1, <3>2
  <2>u. DOMAIN u = 1..Len(u)
    BY <2>n
  <2> DEFINE kept == {i \in DOMAIN t : t[i] # c}
  <2>5. \A i \in 2..(Len(t) - 1) : t[i] # c
    <3> SUFFICES ASSUME NEW i \in 2..(Len(t) - 1) PROVE t[i] # c
      OBVIOUS
    <3>1. i - 1 \in 1..Len(u) /\ (i - 1) + 1 = i
      BY <1>0, <2>4
    <3>2. u[i - 1] = t[i]
      BY <2>4, <3>1
    <3> QED
      BY <2>2, <2>u, <3>1, <3>2
  <2>6. kept = 2..(Len(t) - 1)
    <3>1. \A i \in 1..Len(t) : i \in 2..(Len(t) - 1) \/ i = 1 \/ i = Len(t)
      BY <1>0, EndsOrBetween
    <3>2. \A i \in 2..(Len(t) - 1) : i \in 1..Len(t)
      BY <1>0
    <3>3. \A i \in kept : i \in 2..(Len(t) - 1)
      BY <1>0, <1>2, <3>1
    <3>4. \A i \in 2..(Len(t) - 1) : i \in kept
      BY <1>0, <2>5, <3>2
    <3> QED
      BY <3>3, <3>4
  <2>7. Trimmed(t, c) = SubSeq(t, CHOOSE i \in kept : \A j \in kept : i <= j,
                                   CHOOSE i \in kept : \A j \in kept : i >= j)
    <3>1. kept # {}
      BY <1>0, <2>3, <2>6
    <3> QED
      BY <3>1 DEF Trimmed
  <2> HIDE DEF kept
  <2>8. (CHOOSE i \in kept : \A j \in kept : i <= j) = 2
    <3>1. 2 \in kept /\ \A j \in kept : 2 <= j
      BY <1>0, <2>3, <2>6
    <3>2. ASSUME NEW i \in kept, \A j \in kept : i <= j PROVE i = 2
      <4>1. i <= 2
        BY <3>1, <3>2
      <4>2. i \in Nat /\ 2 <= i
        BY <1>0, <2>6
      <4> QED
        BY <4>1, <4>2
    <3> QED
      BY <3>1, <3>2
  <2>9. (CHOOSE i \in kept : \A j \in kept : i >= j) = Len(t) - 1
    <3>1. Len(t) - 1 \in kept /\ \A j \in kept : Len(t) - 1 >= j
      BY <1>0, <2>3, <2>6
    <3>2. ASSUME NEW i \in kept, \A j \in kept : i >= j PROVE i = Len(t) - 1
      <4>1. i >= Len(t) - 1
        BY <3>1, <3>2
      <4>2. i \in Int /\ i <= Len(t) - 1 /\ Len(t) - 1 \in Int
        BY <1>0, <2>6
      <4> QED
        BY <4>1, <4>2, LastPlace
    <3> QED
      BY <3>1, <3>2
  <2>10. Trimmed(t, c) = u
    BY <2>1, <2>7, <2>8, <2>9
  <2> QED
    BY <2>10 DEF u
<1> QED
  BY <1>1, <1>2

LEMMA SearchRead ==
  ASSUME NEW t \in Texts, Trimmed(t, " ") = t, Plain(Unquoted(t))
  PROVE  Quoted(t) = <<"\"">> \o Unquoted(t) \o <<"\"">>
<1>1. Unquoted(t) = Bare(t, "\"")
  BY Zenon DEF Unquoted, Bare
<1>2. Bare(t, "\"") # <<>> /\ \A i \in DOMAIN Bare(t, "\"") : Bare(t, "\"")[i] # "\""
  BY <1>1, Zenon DEF Plain
<1>3. Trimmed(t, "\"") = Bare(t, "\"")
  BY <1>2, TrimmedBare, Zenon
<1>4. Phrase(t) = Unquoted(t)
  BY <1>1, <1>3, Zenon DEF Phrase
<1> QED
  BY <1>4, Zenon DEF Quoted

LEMMA RequestRead ==
  ASSUME ServiceOK, NEW q, WellFormed(q), q.version = service.version, NEW m, Means(q, m)
  PROVE  Arrives([url |-> Build(q), meant |-> m])
<1> DEFINE u == Build(q)
           s == [url |-> u, meant |-> m]
<1>1. Before(Before(u, "#"), "?") = Path(q)
  BY BuildRead
<1>2. \A name \in Names : ValuesOf(u, name) = Given(q, name)
  BY ValuesOfBuild
<1> HIDE DEF u
<1>3. s.url = u /\ s.meant = m
  OBVIOUS
<1> HIDE DEF s
<1>4. PathReads(q)
  BY PathRead
<1>5. /\ Before(Before(s.url, "#"), "?")[1] = "Set"
      /\ KeyRead(Before(Before(s.url, "#"), "?")) = s.meant.key
      /\ NavigationRead(Before(Before(s.url, "#"), "?")) = s.meant.navigation
  BY <1>1, <1>3, <1>4 DEF PathReads, Means
<1>6. {Split(v, ",") : v \in ValuesOf(s.url, "$select")} = {s.meant.select} \ {<< >>}
  <2>1. ValuesOf(u, "$select") = IF q.select = << >> THEN {} ELSE {Joined(q.select, ",")}
    BY <1>2 DEF Given, Names
  <2>2. q.select \in Seq(Texts) /\ \A k \in 1..Len(q.select) : Without(q.select[k], ",")
    BY DEF WellFormed, Means
  <2>3. {Split(v, ",") : v \in ValuesOf(u, "$select")} = {q.select} \ {<< >>}
    BY <2>1, <2>2, ListRead
  <2> QED
    BY <1>3, <2>3 DEF Means
<1>7. FilterRight(ValuesOf(s.url, "$filter"), s.meant)
  <2>1. ValuesOf(u, "$filter") = q.filter
    BY <1>2 DEF Given, Names
  <2>2. FilterRight(q.filter, m)
    BY FilterGiven DEF Means
  <2> QED
    BY <1>3, <2>1, <2>2
<1>8. SearchArrives(s.url, s.meant.search)
  <2>1. m.search = q.search /\ \A t \in q.search : t \in Texts /\ Trimmed(t, " ") = t
    BY DEF WellFormed, Means, Optional
  <2>2. CASE service.version = "V4"
    <3>1. ValuesOf(u, "$search") = {Quoted(t) : t \in q.search}
      BY <1>2, <2>2 DEF Given, Names, Quoted
    <3>2. ASSUME \A t \in q.search : Plain(Unquoted(t))
          PROVE  ValuesOf(u, "$search") = {<<"\"">> \o Unquoted(t) \o <<"\"">> : t \in q.search}
      <4>1. \A t \in q.search : Quoted(t) = <<"\"">> \o Unquoted(t) \o <<"\"">>
        BY <2>1, <3>2, SearchRead
      <4> QED
        BY <3>1, <4>1
    <3> QED
      BY <1>3, <2>1, <2>2, <3>2 DEF SearchArrives
  <2>3. CASE service.version = "V2"
    <3>1. ValuesOf(u, "search") = q.search
      BY <1>2, <2>3 DEF Given, Names
    <3> QED
      BY <1>3, <2>1, <2>3, <3>1 DEF SearchArrives
  <2> QED
    BY <2>2, <2>3, ServiceIs
<1>9. /\ ValuesOf(s.url, "$top") = {Num(n) : n \in s.meant.top}
      /\ ValuesOf(s.url, "$skip") = {Num(n) : n \in s.meant.skip}
      /\ ValuesOf(s.url, "$skiptoken") = s.meant.skiptoken
  <2>1. ValuesOf(u, "$top") = q.top /\ ValuesOf(u, "$skip") = q.skip
        /\ ValuesOf(u, "$skiptoken") = q.skiptoken
    BY <1>2 DEF Given, Names
  <2> QED
    BY <1>3, <2>1 DEF Means
<1>10. s.meant.count <=> ValuesOf(s.url, IF service.version = "V4" THEN "$count" ELSE "$inlinecount") # {}
  <2>1. m.count = q.count /\ q.count \in BOOLEAN
    BY DEF Means, WellFormed
  <2>2. CASE service.version = "V4"
    <3>1. ValuesOf(u, "$count") = IF q.count THEN {<<"true">>} ELSE {}
      BY <1>2, <2>2 DEF Given, Names
    <3> QED
      BY <1>3, <2>1, <2>2, <3>1
  <2>3. CASE service.version # "V4"
    <3>1. ValuesOf(u, "$inlinecount") = IF q.count THEN {<<"allpages">>} ELSE {}
      BY <1>2, <2>3 DEF Given, Names
    <3> QED
      BY <1>3, <2>1, <2>3, <3>1
  <2> QED
    BY <2>2, <2>3
<1>11. Arrives(s)
  BY <1>5, <1>6, <1>7, <1>8, <1>9, <1>10 DEF Arrives
<1> QED
  BY <1>11 DEF s, u

LEMMA RequestLeaves ==
  ASSUME ServiceOK, service' = service,
         NEW q, WellFormed(q), q.version = service.version, NEW m, Means(q, m),
         sent' = {[url |-> Build(q), meant |-> m]}
  PROVE  RequestsArrive'
<1> DEFINE s == [url |-> Build(q), meant |-> m]
<1>1. Arrives(s)
  BY RequestRead
<1>2. sent' = {s}
  OBVIOUS
<1> HIDE DEF s
<1>3. \A x \in sent' : Arrives(x)
  BY <1>1, <1>2
<1>4. \A x \in sent' : Arrives(x)'
  BY <1>3, ArrivesFrame
<1>5. RequestsArrive' <=> \A x \in sent' : Arrives(x)'
  BY DEF RequestsArrive, Arrives, KeyRead, NavigationRead, FilterRight
<1> QED
  BY <1>4, <1>5

LEMMA NothingLeaves ==
  ASSUME sent' = {}
  PROVE  RequestsArrive'
BY DEF RequestsArrive

LEMMA EmptyOption == \A S : {} \in Optional(S)
BY DEF Optional

LEMMA EmptyList ==
  /\ << >> \in Seq(Texts)
  /\ \A k \in 1..Len(<< >>) : Without(<< >>[k], ",")
<1>1. << >> \in Seq(Texts) /\ Len(<< >>) = 0
  OBVIOUS
<1>2. 1..0 = {}
  OBVIOUS
<1> QED
  BY <1>1, <1>2

SelectOf(list) == FlattenSeq(SetToSeq({Fields(l) : l \in list}))

LEMMA SelectIs ==
  ASSUME NEW list \in Optional(Texts)
  PROVE  /\ SelectOf(list) \in Seq(Texts)
         /\ \A k \in 1..Len(SelectOf(list)) : Without(SelectOf(list)[k], ",")
<1>1. CASE list = {}
  <2>1. {Fields(l) : l \in list} = {}
    BY <1>1
  <2>2. SelectOf(list) = << >>
    BY <2>1, OptionSeq, FlattenOption DEF SelectOf
  <2> QED
    BY <2>2
<1>2. CASE \E l \in Texts : list = {l}
  <2>1. PICK l \in Texts : list = {l}
    BY <1>2
  <2>2. {Fields(x) : x \in list} = {Fields(l)}
    BY <2>1
  <2>3. Fields(l) \in Seq(Texts)
    BY FieldsAre
  <2>4. FlattenSeq(<<Fields(l)>>) = Fields(l)
    BY <2>3, FlattenOption
  <2>5. SelectOf(list) = Fields(l)
    BY <2>2, <2>4, OptionSeq DEF SelectOf
  <2> QED
    BY <2>5, FieldsAre
<1> QED
  BY <1>1, <1>2 DEF Optional

LEMMA CliArrives ==
  ASSUME ServiceOK, NEW f \in Optional(Texts), NEW in \in Optional(Ins),
         NEW list \in Optional(Texts), NEW key \in Optional(Texts), CliQuery(f, in, list, key)
  PROVE  RequestsArrive'
<1> DEFINE select == SelectOf(list)
           filter == CombineFilterWithIn(f, in)
           q0 == [NoQuery EXCEPT !.filter = filter, !.key = key, !.select = select]
           q == [q0 EXCEPT !.version = service.version]
           m == [Nothing EXCEPT !.filter = f, !.ins = in, !.key = key, !.select = select]
<1>1. service' = service /\ sent' = {[url |-> Build(q), meant |-> m]}
  BY DEF CliQuery, OneShot, Leaves, SelectOf
<1>2. select \in Seq(Texts) /\ (\A k \in 1..Len(select) : Without(select[k], ","))
  BY SelectIs
<1>3. filter \in Optional(Texts)
  BY FilterGiven
<1>4. filter = CombineFilterWithIn(f, in)
  OBVIOUS
<1> HIDE DEF select, filter
<1>5. /\ q.set = <<"Set">> /\ q.key = key /\ q.navigation = {} /\ q.select = select
      /\ q.filter = filter /\ q.search = {} /\ q.top = {} /\ q.skip = {} /\ q.skiptoken = {}
      /\ q.count = FALSE /\ q.version = service.version
  BY DEF NoQuery
<1>6. /\ m.key = key /\ m.navigation = {} /\ m.select = select /\ m.filter = f /\ m.ins = in
      /\ m.search = {} /\ m.top = {} /\ m.skip = {} /\ m.skiptoken = {} /\ m.count = FALSE
  BY DEF Nothing
<1> HIDE DEF q, m
<1>7. WellFormed(q)
  BY <1>2, <1>3, <1>5, EmptyOption DEF WellFormed
<1>8. Means(q, m)
  <2>1. {Num(n) : n \in m.top} = {} /\ {Num(n) : n \in m.skip} = {}
    BY <1>6
  <2>2. \A t \in q.search : Trimmed(t, " ") = t
    BY <1>5
  <2> QED
    BY <1>2, <1>4, <1>5, <1>6, <2>1, <2>2 DEF Means
<1> QED
  BY <1>1, <1>5, <1>7, <1>8, RequestLeaves

LEMMA PickArrives ==
  ASSUME ServiceOK, NEW f \in Optional(Texts), NEW term \in Optional(Texts), PickValues(f, term)
  PROVE  RequestsArrive'
<1> DEFINE typed == {Trimmed(t, " ") : t \in term} \ {<< >>}
           q0 == [NoQuery EXCEPT !.filter = f, !.search = typed]
           q == [q0 EXCEPT !.version = service.version]
           m == [Nothing EXCEPT !.filter = f, !.search = typed]
<1>1. service' = service /\ sent' = {[url |-> Build(q), meant |-> m]}
  BY DEF PickValues, OneShot, Leaves
<1>2. typed \in Optional(Texts)
  <2>1. CASE term = {}
    BY <2>1 DEF Optional
  <2>2. CASE \E t \in Texts : term = {t}
    <3>1. PICK t \in Texts : term = {t}
      BY <2>2
    <3>2. Trimmed(t, " ") \in Texts
      BY TrimmedType
    <3>3. typed = {Trimmed(t, " ")} \/ typed = {}
      BY <3>1
    <3> QED
      BY <3>2, <3>3 DEF Optional
  <2> QED
    BY <2>1, <2>2 DEF Optional
<1>3. \A t \in typed : Trimmed(t, " ") = t
  <2>1. \A t \in term : Trimmed(Trimmed(t, " "), " ") = Trimmed(t, " ")
    BY TrimIsDone DEF Optional
  <2> QED
    BY <2>1
<1> HIDE DEF typed
<1>5. /\ q.set = <<"Set">> /\ q.key = {} /\ q.navigation = {} /\ q.select = << >>
      /\ q.filter = f /\ q.search = typed /\ q.top = {} /\ q.skip = {} /\ q.skiptoken = {}
      /\ q.count = FALSE /\ q.version = service.version
  BY DEF NoQuery
<1>6. /\ m.key = {} /\ m.navigation = {} /\ m.select = << >> /\ m.filter = f /\ m.ins = {}
      /\ m.search = typed /\ m.top = {} /\ m.skip = {} /\ m.skiptoken = {} /\ m.count = FALSE
  BY DEF Nothing
<1> HIDE DEF q, m
<1>7. WellFormed(q)
  BY <1>2, <1>5, EmptyOption, EmptyList DEF WellFormed
<1>8. Means(q, m)
  <2>1. {Num(n) : n \in m.top} = {} /\ {Num(n) : n \in m.skip} = {}
    BY <1>6
  <2>2. m.search = q.search /\ \A t \in q.search : Trimmed(t, " ") = t
    BY <1>3, <1>5, <1>6
  <2>3. CombineFilterWithIn(f, {}) = f
    BY DEF CombineFilterWithIn
  <2>4. \A k \in 1..Len(q.select) : Without(q.select[k], ",")
    BY <1>5, EmptyList
  <2> QED
    BY <1>5, <1>6, <2>1, <2>2, <2>3, <2>4, EmptyOption DEF Means
<1> QED
  BY <1>1, <1>5, <1>7, <1>8, RequestLeaves

LEMMA NavigateArrives ==
  ASSUME ServiceOK, NEW key \in Texts, Navigate(key)
  PROVE  RequestsArrive'
<1> DEFINE nav == {<<"Nav">>}
           keys == {key}
           q0 == [NoQuery EXCEPT !.key = keys, !.navigation = nav]
           q == [q0 EXCEPT !.version = service.version]
           m == [Nothing EXCEPT !.key = keys, !.navigation = nav]
<1>1. service' = service /\ sent' = {[url |-> Build(q), meant |-> m]}
  BY DEF Navigate, OneShot, Leaves
<1>2. nav \in Optional(Texts) /\ keys \in Optional(Texts) /\ keys # {}
  <2>1. "Nav" \in Symbols
    BY QueryAssumption
  <2>2. <<"Nav">> \in Texts
    BY <2>1, OneSymbol DEF Texts
  <2> QED
    BY <2>2 DEF Optional
<1> HIDE DEF nav, keys
<1>5. /\ q.set = <<"Set">> /\ q.key = keys /\ q.navigation = nav /\ q.select = << >>
      /\ q.filter = {} /\ q.search = {} /\ q.top = {} /\ q.skip = {} /\ q.skiptoken = {}
      /\ q.count = FALSE /\ q.version = service.version
  BY DEF NoQuery
<1>6. /\ m.key = keys /\ m.navigation = nav /\ m.select = << >> /\ m.filter = {} /\ m.ins = {}
      /\ m.search = {} /\ m.top = {} /\ m.skip = {} /\ m.skiptoken = {} /\ m.count = FALSE
  BY DEF Nothing
<1> HIDE DEF q, m
<1>7. WellFormed(q)
  BY <1>2, <1>5, EmptyOption, EmptyList DEF WellFormed
<1>8. Means(q, m)
  <2>1. {Num(n) : n \in m.top} = {} /\ {Num(n) : n \in m.skip} = {}
    BY <1>6
  <2>2. \A t \in q.search : Trimmed(t, " ") = t
    BY <1>5
  <2>3. CombineFilterWithIn({}, {}) = {}
    BY DEF CombineFilterWithIn
  <2>4. \A k \in 1..Len(q.select) : Without(q.select[k], ",")
    BY <1>5, EmptyList
  <2> QED
    BY <1>2, <1>5, <1>6, <2>1, <2>2, <2>3, <2>4, EmptyOption DEF Means
<1> QED
  BY <1>1, <1>5, <1>7, <1>8, RequestLeaves

LEMMA ExecuteArrives ==
  ASSUME ServiceOK, NEW b \in Bars, NEW token \in TokensHere, NEW by, Execute(b, token, token, by)
  PROVE  RequestsArrive'
<1> DEFINE q == BarQuery(b, token)
           m == [Nothing EXCEPT !.filter = b.filter, !.top = b.top, !.skip = b.skip,
                   !.skiptoken = token, !.count = b.count]
<1>1. service' = service /\ sent' = {[url |-> Build(q), meant |-> m]}
  BY DEF Execute, Leaves, BarQuery
<1>2. /\ WellFormed(q)
      /\ q.top = {Num(n) : n \in b.top} /\ q.skip = {Num(n) : n \in b.skip}
      /\ q.skiptoken = token /\ q.filter = b.filter /\ q.count = b.count
      /\ q.key = {} /\ q.navigation = {} /\ q.select = << >> /\ q.search = {}
      /\ q.version = service.version
  BY BarQueryIs
<1>3. /\ m.key = {} /\ m.navigation = {} /\ m.select = << >> /\ m.filter = b.filter /\ m.ins = {}
      /\ m.search = {} /\ m.top = b.top /\ m.skip = b.skip /\ m.skiptoken = token
      /\ m.count = b.count
  BY DEF Nothing
<1> HIDE DEF q, m
<1>4. Means(q, m)
  <2>1. \A t \in q.search : Trimmed(t, " ") = t
    BY <1>2
  <2>2. CombineFilterWithIn(b.filter, {}) = b.filter
    BY DEF CombineFilterWithIn
  <2>3. \A k \in 1..Len(q.select) : Without(q.select[k], ",")
    BY <1>2, EmptyList
  <2>4. b.filter \in Optional(Texts)
    BY <1>2 DEF WellFormed
  <2> QED
    BY <1>2, <1>3, <2>1, <2>2, <2>3, <2>4, EmptyOption DEF Means
<1> QED
  BY <1>1, <1>2, <1>4, RequestLeaves

LEMMA TextsGiven ==
  /\ Optional(Filters) \subseteq Optional(Texts) /\ Optional(Lists) \subseteq Optional(Texts)
  /\ Optional(Terms) \subseteq Optional(Texts) /\ Keys \subseteq Texts
BY QueryAssumption DEF Optional, Texts

LEMMA NextPageArrives ==
  ASSUME PagerInv, NextPage
  PROVE  RequestsArrive'
<1>1. PICK p \in page :
        \/ /\ p.info.token # {}
           /\ Execute([bar EXCEPT !.skip = {}], p.info.token, {TokenAt(p.to)}, "next")
        \/ /\ p.info.token = {} /\ p.info.nextSkip # {}
           /\ Execute([bar EXCEPT !.skip = p.info.nextSkip], {}, {}, "next")
  BY DEF NextPage
<1>2. ServiceOK /\ bar \in Bars /\ RowsOf(p) /\ Offers(p)
  BY DEF PagerInv
<1>3. PICK skip, token :
        /\ skip \in Optional(Numbers) /\ token \in TokensHere
        /\ Execute([bar EXCEPT !.skip = skip], token, token, "next")
  <2>1. CASE p.info.token # {} /\ Execute([bar EXCEPT !.skip = {}], p.info.token, {TokenAt(p.to)}, "next")
    <3>1. p.info.token = {TokenAt(p.to)}
      BY <1>2, <2>1 DEF Offers
    <3>2. p.to \in 0..RowCount
      BY <1>2 DEF RowsOf
    <3>3. {TokenAt(p.to)} \in TokensHere
      BY <3>2 DEF TokensHere
    <3>4. Execute([bar EXCEPT !.skip = {}], {TokenAt(p.to)}, {TokenAt(p.to)}, "next")
      BY <2>1, <3>1
    <3> QED
      BY <3>3, <3>4, EmptyOption
  <2>2. CASE p.info.token = {} /\ p.info.nextSkip # {}
             /\ Execute([bar EXCEPT !.skip = p.info.nextSkip], {}, {}, "next")
    <3>1. p.info.nextSkip \in Optional(Numbers)
      BY <1>2 DEF Offers
    <3>2. {} \in TokensHere
      BY DEF TokensHere
    <3> QED
      BY <2>2, <3>1, <3>2
  <2> QED
    BY <1>1, <2>1, <2>2
<1> DEFINE b == [bar EXCEPT !.skip = skip]
<1>4. b \in Bars
  BY <1>2, <1>3, BarEdited
<1>5. Execute(b, token, token, "next")
  BY <1>3
<1> HIDE DEF b
<1> QED
  BY <1>2, <1>3, <1>4, <1>5, ExecuteArrives

LEMMA PrevPageArrives ==
  ASSUME PagerInv, PrevPage
  PROVE  RequestsArrive'
<1>1. PICK p \in page : p.info.prevSkip # {}
                        /\ Execute([bar EXCEPT !.skip = p.info.prevSkip \ {0}], {}, {}, "prev")
  BY DEF PrevPage
<1>2. ServiceOK /\ bar \in Bars /\ RowsOf(p) /\ Offers(p)
  BY DEF PagerInv
<1>3. PICK start \in 0..RowCount : p.info.prevSkip = {start}
  BY <1>1, <1>2 DEF Offers, Optional
<1> DEFINE skip == p.info.prevSkip \ {0}
           none == {}
           b == [bar EXCEPT !.skip = skip]
<1>4. (start = 0 /\ skip = {}) \/ (skip = {start} /\ start \in Numbers)
  BY <1>3, RowsBound DEF Numbers
<1>5. none \in TokensHere
  BY DEF TokensHere
<1>6. Execute(b, none, none, "prev")
  BY <1>1
<1> HIDE DEF none, skip
<1>7. skip \in Optional(Numbers)
  BY <1>4 DEF Optional
<1>8. b \in Bars
  BY <1>2, <1>7, BarEdited
<1> HIDE DEF b
<1> QED
  BY <1>2, <1>5, <1>6, <1>8, ExecuteArrives

LEMMA RequestsNext ==
  ASSUME PagerInv, RequestsArrive, [Next]_vars
  PROVE  RequestsArrive'
<1>0. ServiceOK /\ bar \in Bars
  BY DEF PagerInv
<1>1. ASSUME NEW b, Edit(b) PROVE RequestsArrive'
  BY <1>1, NothingLeaves DEF Edit
<1>2. CASE \E f \in Optional(Filters), in \in Optional(Ins), list \in Optional(Lists) : CliQuery(f, in, list, {})
  BY <1>0, <1>2, CliArrives, TextsGiven, EmptyOption
<1>3. CASE \E key \in Keys : CliQuery({}, {}, {}, {key}) \/ Navigate(key)
  <2>1. PICK key \in Keys : CliQuery({}, {}, {}, {key}) \/ Navigate(key)
    BY <1>3
  <2>2. key \in Texts /\ {key} \in Optional(Texts)
    BY TextsGiven DEF Optional
  <2> QED
    BY <1>0, <2>1, <2>2, CliArrives, NavigateArrives, EmptyOption
<1>4. CASE \E f \in Optional(Filters), t \in Optional(Terms) : PickValues(f, t)
  BY <1>0, <1>4, PickArrives, TextsGiven
<1>5. CASE \/ \E f \in Optional(BarFilters) : Edit([bar EXCEPT !.filter = f])
           \/ \E t \in Optional(Tops) : Edit([bar EXCEPT !.top = t])
           \/ \E k \in Optional(Skips) : Edit([bar EXCEPT !.skip = k])
           \/ Edit([bar EXCEPT !.count = ~bar.count])
  BY <1>1, <1>5
<1>6. CASE Run
  <2> DEFINE none == {}
  <2>1. Execute(bar, none, none, "run") /\ none \in TokensHere
    BY <1>6 DEF Run, TokensHere
  <2> HIDE DEF none
  <2> QED
    BY <1>0, <2>1, ExecuteArrives
<1>7. CASE Answered \/ QueryFails
  BY <1>7, NothingLeaves DEF Answered, QueryFails
<1>8. CASE UNCHANGED vars
  <2>1. service' = service /\ sent' = sent
    BY <1>8 DEF vars
  <2>2. \A s \in sent' : Arrives(s)'
    BY <2>1, ArrivesIs, ArrivesFrame
  <2> QED
    BY <2>2 DEF RequestsArrive, Arrives, KeyRead, NavigationRead, FilterRight
<1> QED
  BY <1>2, <1>3, <1>4, <1>5, <1>6, <1>7, <1>8, NextPageArrives, PrevPageArrives DEF Next

(* For every text a user types into a filter, a list, a key, --in or a        *)
(* search box, in V4 a search without a quote inside: what the service reads  *)
(* from the URL is what was meant, in the syntax of its own version           *)
(* (query.rs: "would otherwise produce wrong requests or split the query      *)
(* string").                                                                  *)
THEOREM RequestsArriveAlways == Spec => []RequestsArrive
<1>1. Init => RequestsArrive
  BY DEF Init, RequestsArrive
<1>2. PagerInv /\ RequestsArrive /\ [Next]_vars => RequestsArrive'
  BY RequestsNext
<1> QED
  BY <1>1, <1>2, PagerHolds, PTL DEF Spec
=============================================================================
