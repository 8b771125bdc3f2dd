------------------------ MODULE MetadataCommands_proofs ------------------------
(***************************************************************************)
(* What parse_metadata makes of a document, for every document.  Recursion *)
(* over the bases of a type and over the defaults of a schema is taken     *)
(* apart by induction: a set of naturals that has 0 and with each number   *)
(* the next one has them all.                                              *)
(***************************************************************************)
EXTENDS MetadataCommands, NaturalsInduction, FiniteSetTheorems, TLAPS

LEMMA SetInduction ==
  ASSUME NEW S \in SUBSET Nat, 0 \in S, \A n \in S : n + 1 \in S
  PROVE  S = Nat
<1> DEFINE R == OpToRel(<, Nat)
           T == Nat \ S
<1>1. \A x, y \in Nat : <<x, y>> \in R <=> x < y
  BY DEF OpToRel
<1>2. IsWellFoundedOn(R, Nat)
  BY NatLessThanWellFounded
<1> HIDE DEF R
<1>3. SUFFICES ASSUME T # {} PROVE FALSE
  OBVIOUS
<1>4. PICK x \in T : \A y \in T : ~(<<y, x>> \in R)
  BY <1>2, <1>3, WFMin
<1>5. x - 1 \in Nat /\ x - 1 < x /\ x # 0
  BY <1>4
<1>6. x - 1 \in S
  BY <1>1, <1>4, <1>5
<1>7. (x - 1) + 1 \in S
  BY <1>6
<1> QED
  BY <1>4, <1>5, <1>7

(* A set of positions has a last one. *)
LEMMA HasLast ==
  ASSUME NEW n \in Nat, NEW D \in SUBSET (1..n), D # {}
  PROVE  \E i \in D : \A j \in D : j <= i
<1> DEFINE Good(m) == \A E \in SUBSET (1..m) : E # {} => \E i \in E : \A j \in E : j <= i
           S == {m \in Nat : Good(m)}
<1>1. 0 \in S
  <2>1. 1..0 = {}
    OBVIOUS
  <2> QED
    BY <2>1
<1>2. ASSUME NEW m \in S PROVE m + 1 \in S
  <2>1. SUFFICES ASSUME NEW E \in SUBSET (1..(m + 1)), E # {}
                 PROVE  \E i \in E : \A j \in E : j <= i
    OBVIOUS
  <2>2. CASE m + 1 \in E
    BY <2>2
  <2>3. CASE m + 1 \notin E
    <3>1. E \in SUBSET (1..m)
      BY <2>3
    <3> QED
      BY <2>1, <3>1
  <2> QED
    BY <2>2, <2>3
<1> HIDE DEF S
<1>3. S = Nat
  <2>1. S \in SUBSET Nat
    BY DEF S
  <2> QED
    BY <1>1, <1>2, <2>1, SetInduction
<1> QED
  BY <1>3 DEF S

-----------------------------------------------------------------------------
(* The bases of a type. *)

LEMMA WalkExists ==
  ASSUME NEW t, NEW n \in Nat
  PROVE  \E f : f = [i \in 0..n |-> IF i = 0 THEN <<>> ELSE Lengthened(t, f[i - 1])]
<1> DEFINE Step(f, m) == f = [i \in 0..m |-> IF i = 0 THEN <<>> ELSE Lengthened(t, f[i - 1])]
           S == {m \in Nat : \E f : Step(f, m)}
<1>1. 0 \in S
  <2> DEFINE f == [i \in 0..0 |-> <<>>]
  <2>1. Step(f, 0)
    OBVIOUS
  <2> QED
    BY <2>1
<1>2. ASSUME NEW m \in S PROVE m + 1 \in S
  <2>1. PICK f : Step(f, m)
    BY <1>2
  <2> DEFINE g == [i \in 0..(m + 1) |-> IF i <= m THEN f[i] ELSE Lengthened(t, f[m])]
  <2>2. ASSUME NEW i \in 0..(m + 1)
        PROVE  g[i] = IF i = 0 THEN <<>> ELSE Lengthened(t, g[i - 1])
    <3>1. CASE i = 0
      BY <2>1, <3>1
    <3>2. CASE i # 0 /\ i <= m
      <4>1. g[i] = f[i] /\ g[i - 1] = f[i - 1]
        BY <3>2
      <4>2. f[i] = Lengthened(t, f[i - 1])
        BY <2>1, <3>2
      <4> QED
        BY <3>2, <4>1, <4>2
    <3>3. CASE i = m + 1
      <4>1. g[i] = Lengthened(t, f[m]) /\ g[i - 1] = f[m] /\ i # 0
        BY <3>3
      <4> QED
        BY <4>1
    <3> QED
      BY <3>1, <3>2, <3>3
  <2>3. Step(g, m + 1)
    BY <2>2
  <2>4. m + 1 \in Nat
    OBVIOUS
  <2> HIDE DEF g
  <2> QED
    BY <2>3, <2>4
<1> HIDE DEF S
<1>3. S = Nat
  <2>1. S \in SUBSET Nat
    BY DEF S
  <2> QED
    BY <1>1, <1>2, <2>1, SetInduction
<1> QED
  BY <1>3 DEF S

LEMMA TypesCounted == Cardinality(Types) \in Nat
BY ModelAssumption, FS_CardinalityType

LEMMA ChainWalked ==
  ASSUME NEW t
  PROVE  \E w : /\ Chain(t) = w[Cardinality(Types)]
                /\ w[0] = <<>>
                /\ \A i \in 1..Cardinality(Types) : w[i] = Lengthened(t, w[i - 1])
<1> DEFINE N == Cardinality(Types)
           Step(f) == f = [i \in 0..N |-> IF i = 0 THEN <<>> ELSE Lengthened(t, f[i - 1])]
           w == CHOOSE f : Step(f)
<1>1. N \in Nat
  BY TypesCounted
<1>2. \E f : Step(f)
  BY <1>1, WalkExists
<1>3. Step(w)
  BY <1>2
<1>4. Chain(t) = w[N]
  BY DEF Chain
<1> HIDE DEF w, N
<1>5. w[0] = <<>> /\ \A i \in 1..N : w[i] = Lengthened(t, w[i - 1])
  BY <1>1, <1>3
<1> QED
  BY <1>4, <1>5 DEF N

LEMMA Appended ==
  ASSUME NEW T, NEW s \in Seq(T), NEW e \in T
  PROVE  /\ Append(s, e) \in Seq(T) /\ Len(Append(s, e)) = Len(s) + 1 /\ Append(s, e) # <<>>
         /\ Append(s, e)[Len(s) + 1] = e /\ \A i \in 1..Len(s) : Append(s, e)[i] = s[i]
<1>1. /\ Append(s, e) \in Seq(T) /\ Len(Append(s, e)) = Len(s) + 1
      /\ Append(s, e)[Len(s) + 1] = e /\ \A i \in 1..Len(s) : Append(s, e)[i] = s[i]
  OBVIOUS
<1>2. Len(s) \in Nat /\ Len(<<>>) = 0
  OBVIOUS
<1>3. Append(s, e) # <<>>
  BY <1>1, <1>2
<1> QED
  BY <1>1, <1>3

(* A list that leads from a type to its bases, and one that leads no further. *)
Before(t, c, i) == IF i = 1 THEN t ELSE c[i - 1]
Linked(t, c) ==
  /\ c \in Seq(Types)
  /\ \A i \in 1..Len(c) : Before(t, c, i) \in DOMAIN Base /\ c[i] = Base[Before(t, c, i)]
FarEnd(t, c) == IF c = <<>> THEN t ELSE c[Len(c)]
Ends(t, c) == FarEnd(t, c) \in DOMAIN Base => Base[FarEnd(t, c)] \notin Types

(* How far a walk has come: each step goes down in depth. *)
Descends(t, c, depth) ==
  /\ \A i \in 1..Len(c) : depth[FarEnd(t, c)] <= depth[c[i]]
  /\ depth[FarEnd(t, c)] + Len(c) <= depth[t]

LEMMA Lengthens ==
  ASSUME NEW t \in Types, NEW c, Linked(t, c),
         NEW depth \in [Types -> 0..Cardinality(Types)],
         \A u \in DOMAIN Base : Base[u] \in Types => depth[Base[u]] < depth[u],
         Descends(t, c, depth)
  PROVE  LET d == Lengthened(t, c)
         IN  /\ Linked(t, d) /\ Descends(t, d, depth)
             /\ (Ends(t, c) /\ d = c) \/ (~Ends(t, c) /\ Len(d) = Len(c) + 1)
<1> DEFINE u == FarEnd(t, c)
           d == Append(c, Base[u])
<1>1. c \in Seq(Types) /\ Len(c) \in Nat /\ (c = <<>> <=> Len(c) = 0)
  BY DEF Linked
<1>2. u \in Types
  BY <1>1 DEF FarEnd
<1>3. CASE Ends(t, c)
  <2>1. Lengthened(t, c) = c
    BY <1>3 DEF Lengthened, Ends, FarEnd
  <2> QED
    BY <1>3, <2>1
<1>4. CASE ~Ends(t, c)
  <2>1. u \in DOMAIN Base /\ Base[u] \in Types /\ depth[Base[u]] < depth[u]
    BY <1>4 DEF Ends
  <2>2. /\ depth[u] \in Nat /\ depth[Base[u]] \in Nat /\ depth[t] \in Nat
        /\ \A i \in 1..Len(c) : depth[c[i]] \in Nat
    BY <1>1, <1>2, <2>1, TypesCounted
  <2>3. \A i \in 1..Len(c) : c[i] # Base[u]
    BY <2>1, <2>2 DEF Descends
  <2>4. Lengthened(t, c) = d
    BY <1>1, <2>1, <2>3 DEF Lengthened, FarEnd
  <2>5. /\ d \in Seq(Types) /\ Len(d) = Len(c) + 1 /\ d # <<>> /\ d[Len(c) + 1] = Base[u]
        /\ \A i \in 1..Len(c) : d[i] = c[i]
    BY <1>1, <2>1, Appended
  <2>6. FarEnd(t, d) = Base[u]
    BY <2>5 DEF FarEnd
  <2> HIDE DEF d
  <2>7. Linked(t, d)
    <3>1. SUFFICES ASSUME NEW i \in 1..Len(d)
                   PROVE  Before(t, d, i) \in DOMAIN Base /\ d[i] = Base[Before(t, d, i)]
      BY <2>5 DEF Linked
    <3>2. CASE i <= Len(c)
      <4>1. Before(t, d, i) = Before(t, c, i) /\ d[i] = c[i]
        <5>1. i \in 1..Len(c) /\ (i # 1 => i - 1 \in 1..Len(c))
          BY <1>1, <2>5, <3>2
        <5> QED
          BY <2>5, <5>1 DEF Before
      <4> QED
        BY <1>1, <3>2, <4>1 DEF Linked
    <3>3. CASE i = Len(c) + 1
      <4>1. Before(t, d, i) = u
        BY <1>1, <2>5, <3>3 DEF Before, FarEnd
      <4> QED
        BY <2>1, <2>5, <3>3, <4>1
    <3> QED
      BY <1>1, <2>5, <3>2, <3>3
  <2>8. Descends(t, d, depth)
    <3>1. \A i \in 1..Len(d) : depth[Base[u]] <= depth[d[i]]
      <4>1. SUFFICES ASSUME NEW i \in 1..Len(d) PROVE depth[Base[u]] <= depth[d[i]]
        OBVIOUS
      <4>2. CASE i = Len(c) + 1
        BY <2>2, <2>5, <4>2
      <4>3. CASE i <= Len(c)
        <5>1. depth[u] <= depth[c[i]] /\ d[i] = c[i]
          BY <2>5, <4>3 DEF Descends
        <5> QED
          BY <1>1, <2>1, <2>2, <4>3, <5>1
      <4> QED
        BY <1>1, <2>5, <4>2, <4>3
    <3>2. depth[Base[u]] + Len(d) <= depth[t]
      BY <1>1, <2>1, <2>2, <2>5 DEF Descends
    <3> QED
      BY <2>6, <3>1, <3>2 DEF Descends
  <2> QED
    BY <1>4, <2>4, <2>5, <2>7, <2>8
<1> QED
  BY <1>3, <1>4

(* The chain of a type leads to its last base in the document. *)
LEMMA ChainIs ==
  ASSUME Acyclic, NEW t \in Types
  PROVE  Linked(t, Chain(t)) /\ Ends(t, Chain(t))
<1> DEFINE N == Cardinality(Types)
<1>1. PICK depth \in [Types -> 0..Cardinality(Types)] :
             \A u \in DOMAIN Base : Base[u] \in Types => depth[Base[u]] < depth[u]
  BY DEF Acyclic
<1>2. PICK w : /\ Chain(t) = w[N] /\ w[0] = <<>>
               /\ \A i \in 1..N : w[i] = Lengthened(t, w[i - 1])
  BY ChainWalked
<1>3. N \in Nat
  BY TypesCounted
<1> DEFINE Good(n) == /\ Linked(t, w[n]) /\ Descends(t, w[n], depth)
                      /\ Ends(t, w[n]) \/ Len(w[n]) = n
           S == {n \in Nat : n <= N => Good(n)}
<1>4. 0 \in S
  <2>1. Linked(t, <<>>) /\ Len(<<>>) = 0
    BY DEF Linked
  <2>2. depth[t] \in Nat
    BY <1>1, <1>3
  <2>3. Descends(t, <<>>, depth)
    BY <2>1, <2>2 DEF Descends, FarEnd
  <2> QED
    BY <1>2, <2>1, <2>3
<1>5. ASSUME NEW n \in S PROVE n + 1 \in S
  <2>1. SUFFICES ASSUME n + 1 <= N PROVE Good(n + 1)
    OBVIOUS
  <2>2. Good(n) /\ n \in Nat
    BY <1>3, <2>1
  <2>3. w[n + 1] = Lengthened(t, w[n])
    BY <1>2, <1>3, <2>1, <2>2
  <2>4. /\ Linked(t, w[n + 1]) /\ Descends(t, w[n + 1], depth)
        /\ \/ Ends(t, w[n]) /\ w[n + 1] = w[n]
           \/ ~Ends(t, w[n]) /\ Len(w[n + 1]) = Len(w[n]) + 1
    BY <1>1, <2>2, <2>3, Lengthens
  <2> QED
    BY <2>2, <2>4
<1> HIDE DEF S
<1>6. N \in S
  <2>1. S \in SUBSET Nat
    BY DEF S
  <2> QED
    BY <1>3, <1>4, <1>5, <2>1, SetInduction
<1>7. Good(N)
  BY <1>3, <1>6 DEF S
<1>8. CASE Len(w[N]) = N
  <2>1. w[N] \in Seq(Types) /\ FarEnd(t, w[N]) \in Types
    BY <1>7 DEF Linked, FarEnd
  <2>2. depth[FarEnd(t, w[N])] = 0
    BY <1>1, <1>3, <1>7, <1>8, <2>1 DEF Descends
  <2>3. Ends(t, w[N])
    BY <1>1, <1>3, <2>1, <2>2 DEF Ends
  <2> QED
    BY <1>2, <1>7, <2>3
<1> QED
  BY <1>2, <1>7, <1>8

(* The bases of a base are the rest of the bases. *)
LEMMA ChainOfBase ==
  ASSUME Acyclic, NEW t \in Types, NEW k \in 1..Len(Chain(t))
  PROVE  LET c == Chain(t)
             e == Chain(c[k])
         IN  /\ c[k] \in Types /\ k \in Nat
             /\ Len(c) \in Nat /\ Len(e) \in Nat /\ Len(c) = k + Len(e)
             /\ \A i \in 1..Len(e) : e[i] = c[k + i]
<1> DEFINE c == Chain(t)
           b == c[k]
           e == Chain(b)
<1>1. Linked(t, c) /\ Ends(t, c) /\ c \in Seq(Types) /\ Len(c) \in Nat
  BY ChainIs DEF Linked
<1>2. b \in Types /\ k \in Nat /\ k >= 1 /\ k <= Len(c)
  BY <1>1
<1> HIDE DEF c
<1>3. Linked(b, e) /\ Ends(b, e) /\ e \in Seq(Types) /\ Len(e) \in Nat
  BY <1>2, ChainIs DEF Linked
<1> HIDE DEF e
<1> DEFINE S == {i \in Nat : i <= Len(e) => k + i <= Len(c) /\ (i # 0 => e[i] = c[k + i])}
<1>4. 0 \in S
  BY <1>2
<1>5. ASSUME NEW i \in S PROVE i + 1 \in S
  <2>1. SUFFICES ASSUME i + 1 <= Len(e)
                 PROVE  k + i + 1 <= Len(c) /\ e[i + 1] = c[k + i + 1]
    BY <1>2
  <2>2. i \in Nat /\ k + i <= Len(c) /\ (i # 0 => e[i] = c[k + i])
    BY <1>3, <2>1
  <2>3. Before(b, e, i + 1) = c[k + i]
    <3>1. CASE i = 0
      BY <1>2, <3>1 DEF Before
    <3>2. CASE i # 0
      BY <2>2, <3>2 DEF Before
    <3> QED
      BY <3>1, <3>2
  <2>4. i + 1 \in 1..Len(e) /\ e[i + 1] \in Types
    BY <1>3, <2>1, <2>2
  <2>5. c[k + i] \in DOMAIN Base /\ e[i + 1] = Base[c[k + i]]
    BY <1>3, <2>3, <2>4 DEF Linked
  <2>6. k + i # Len(c)
    <3>1. SUFFICES ASSUME k + i = Len(c) PROVE FALSE
      OBVIOUS
    <3>2. FarEnd(t, c) = c[k + i]
      BY <1>1, <1>2, <2>2, <3>1 DEF FarEnd
    <3> QED
      BY <1>1, <2>4, <2>5, <3>2 DEF Ends
  <2>7. k + i + 1 \in 1..Len(c)
    BY <1>1, <1>2, <2>2, <2>6
  <2>8. Before(t, c, k + i + 1) = c[k + i]
    BY <1>2, <2>2 DEF Before
  <2>9. c[k + i + 1] = Base[c[k + i]]
    BY <1>1, <2>7, <2>8 DEF Linked
  <2> QED
    BY <2>5, <2>7, <2>9
<1> HIDE DEF S
<1>6. S = Nat
  <2>1. S \in SUBSET Nat
    BY DEF S
  <2> QED
    BY <1>4, <1>5, <2>1, SetInduction
<1>7. k + Len(e) <= Len(c) /\ \A i \in 1..Len(e) : e[i] = c[k + i]
  <2>1. Len(e) \in S /\ \A i \in 1..Len(e) : i \in S
    BY <1>3, <1>6
  <2> QED
    BY <1>3, <2>1 DEF S
<1>8. k + Len(e) = Len(c)
  <2>1. SUFFICES ASSUME k + Len(e) < Len(c) PROVE FALSE
    BY <1>1, <1>2, <1>3, <1>7
  <2>2. FarEnd(b, e) = c[k + Len(e)]
    <3>1. CASE e = <<>>
      <4>1. Len(e) = 0
        BY <3>1
      <4> QED
        BY <1>2, <3>1, <4>1 DEF FarEnd
    <3>2. CASE e # <<>>
      <4>1. Len(e) \in 1..Len(e)
        BY <1>3, <3>2
      <4> QED
        BY <1>7, <3>2, <4>1 DEF FarEnd
    <3> QED
      BY <3>1, <3>2
  <2>3. k + Len(e) + 1 \in 1..Len(c) /\ Before(t, c, k + Len(e) + 1) = c[k + Len(e)]
    BY <1>1, <1>2, <1>3, <2>1 DEF Before
  <2>4. /\ c[k + Len(e)] \in DOMAIN Base
        /\ c[k + Len(e) + 1] = Base[c[k + Len(e)]] /\ c[k + Len(e) + 1] \in Types
    BY <1>1, <2>3 DEF Linked
  <2> QED
    BY <1>3, <2>2, <2>4 DEF Ends
<1> QED
  BY <1>1, <1>2, <1>3, <1>7, <1>8 DEF c, e

(* A type and a base of it agree on whose declaration of a property counts. *)
LEMMA OwnerIs ==
  ASSUME NEW m, NEW t, NEW p, NEW x \in DOMAIN Chain(t), p \in m.props[Chain(t)[x]],
         DOMAIN Chain(t) \subseteq Nat,
         \A j \in DOMAIN Chain(t) : p \in m.props[Chain(t)[j]] => j <= x
  PROVE  Owner(m, t, p) = Chain(t)[x]
<1> DEFINE D == {i \in DOMAIN Chain(t) : p \in m.props[Chain(t)[i]]}
<1>1. x \in D /\ \A j \in D : j <= x
  OBVIOUS
<1>2. \A y \in D : (\A j \in D : j <= y) => y = x
  <2>1. D \subseteq Nat
    OBVIOUS
  <2> QED
    BY <1>1, <2>1
<1>3. (CHOOSE i \in D : \A j \in D : j <= i) = x
  BY <1>1, <1>2
<1> QED
  BY <1>1, <1>3 DEF Owner

LEMMA OwnerAlike ==
  ASSUME Acyclic, NEW m, NEW t \in Types, NEW b \in Ancestors(t), NEW p, p \in m.props[b]
  PROVE  b \in Types /\ Owner(m, t, p) = Owner(m, b, p)
<1> DEFINE c == Chain(t)
           e == Chain(b)
           E == {i \in DOMAIN e : p \in m.props[e[i]]}
<1>1. PICK k \in DOMAIN c : b = c[k]
  BY DEF Ancestors
<1>2. /\ c \in Seq(Types) /\ DOMAIN c = 1..Len(c)
  BY ChainIs DEF Linked
<1>3. /\ b \in Types /\ k \in Nat /\ k >= 1 /\ Len(c) \in Nat /\ Len(e) \in Nat /\ Len(c) = k + Len(e)
      /\ \A i \in 1..Len(e) : e[i] = c[k + i]
  <2>1. k \in 1..Len(c)
    BY <1>2
  <2>2. /\ c[k] \in Types /\ k \in Nat
        /\ Len(c) \in Nat /\ Len(Chain(c[k])) \in Nat /\ Len(c) = k + Len(Chain(c[k]))
        /\ \A i \in 1..Len(Chain(c[k])) : Chain(c[k])[i] = c[k + i]
    BY <2>1, ChainOfBase
  <2> QED
    BY <1>1, <2>1, <2>2
<1>4. e \in Seq(Types) /\ DOMAIN e = 1..Len(e)
  BY <1>3, ChainIs DEF Linked
<1>5. DOMAIN c \subseteq Nat /\ DOMAIN e \subseteq Nat
  BY <1>2, <1>4
<1>6. CASE E = {}
  <2>1. Owner(m, b, p) = b
    BY <1>6 DEF Owner
  <2>2. ASSUME NEW j \in DOMAIN c, p \in m.props[c[j]] PROVE j <= k
    <3>1. SUFFICES ASSUME j > k PROVE FALSE
      BY <1>2, <1>3
    <3>2. j - k \in 1..Len(e) /\ k + (j - k) = j
      BY <1>2, <1>3, <3>1
    <3>3. e[j - k] = c[j]
      BY <1>3, <3>2
    <3> QED
      BY <1>4, <1>6, <2>2, <3>2, <3>3
  <2>3. Owner(m, t, p) = c[k]
    BY <1>1, <1>5, <2>2, OwnerIs
  <2> QED
    BY <1>1, <1>3, <2>1, <2>3
<1>7. CASE E # {}
  <2>1. PICK x \in E : \A j \in E : j <= x
    BY <1>3, <1>4, <1>7, HasLast
  <2>2. Owner(m, b, p) = e[x]
    BY <1>5, <2>1, OwnerIs
  <2>3. k + x \in DOMAIN c /\ e[x] = c[k + x] /\ x \in Nat
    BY <1>2, <1>3, <1>4, <2>1
  <2>4. ASSUME NEW j \in DOMAIN c, p \in m.props[c[j]] PROVE j <= k + x
    <3>1. SUFFICES ASSUME j > k PROVE j <= k + x
      BY <1>2, <1>3, <2>3
    <3>2. j - k \in 1..Len(e) /\ k + (j - k) = j
      BY <1>2, <1>3, <3>1
    <3>3. j - k \in E
      BY <1>3, <1>4, <2>4, <3>2
    <3> QED
      BY <1>2, <1>3, <2>1, <2>3, <3>3
  <2>5. p \in m.props[c[k + x]]
    BY <2>1, <2>3
  <2>6. Owner(m, t, p) = c[k + x]
    BY <1>5, <2>3, <2>4, <2>5, OwnerIs
  <2> QED
    BY <1>3, <2>2, <2>3, <2>6
<1> QED
  BY <1>6, <1>7

-----------------------------------------------------------------------------
(* What the passes leave alone. *)

Shaped(m) ==
  /\ DOMAIN m = {"types", "sets", "props", "navs", "keys", "vals"}
  /\ m.types = Types /\ m.sets = Sets /\ m.props = OwnProps /\ m.navs = OwnNavs
  /\ m.keys = OwnKeys

LEMMA ParsedShaped == ASSUME NEW vals PROVE Shaped(ParsedModel(vals))
BY DEF Shaped, ParsedModel

LEMMA ValsShaped ==
  ASSUME NEW m, Shaped(m), NEW vals
  PROVE  Shaped([m EXCEPT !.vals = vals]) /\ [m EXCEPT !.vals = vals].vals = vals
BY DEF Shaped

LEMMA OverlaidShaped ==
  ASSUME NEW m, Shaped(m), NEW f
  PROVE  Shaped(Overlaid(m, f))
BY ValsShaped DEF Overlaid

LEMMA WrittenShaped ==
  ASSUME NEW m, Shaped(m), NEW n, NEW t
  PROVE  Shaped(Written(m, n, t))
BY OverlaidShaped DEF Written, With

LEMMA ArrangedShaped ==
  ASSUME NEW m, Shaped(m), NEW t, NEW mark
  PROVE  Shaped(Arranged(m, t, mark))
BY OverlaidShaped DEF Arranged

LEMMA LabelledShaped ==
  ASSUME NEW m, Shaped(m)
  PROVE  Shaped(Labelled(m))
BY OverlaidShaped DEF Labelled

(* The defaults of a schema are applied one after the other. *)
DefaultsStep(f, m, ds, n) ==
  f = [i \in 0..n |-> IF i = 0 THEN m ELSE Arranged(f[i - 1], ds[i][1], ds[i][2])]

LEMMA DefaultsExist ==
  ASSUME NEW m, NEW d, NEW n \in Nat
  PROVE  \E f : DefaultsStep(f, m, d, n)
<1> DEFINE Step(f, k) == DefaultsStep(f, m, d, k)
           S == {k \in Nat : \E f : Step(f, k)}
<1>1. 0 \in S
  <2> DEFINE f == [i \in 0..0 |-> m]
  <2>1. Step(f, 0)
    BY DEF DefaultsStep
  <2> QED
    BY <2>1
<1>2. ASSUME NEW k \in S PROVE k + 1 \in S
  <2>1. PICK f : Step(f, k)
    BY <1>2
  <2>2. f = [i \in 0..k |-> IF i = 0 THEN m ELSE Arranged(f[i - 1], d[i][1], d[i][2])]
    BY <2>1 DEF DefaultsStep
  <2> DEFINE g == [i \in 0..(k + 1) |-> IF i <= k THEN f[i]
                                        ELSE Arranged(f[k], d[k + 1][1], d[k + 1][2])]
  <2>3. ASSUME NEW i \in 0..(k + 1)
        PROVE  g[i] = IF i = 0 THEN m ELSE Arranged(g[i - 1], d[i][1], d[i][2])
    <3>1. CASE i = 0
      BY <2>2, <3>1
    <3>2. CASE i # 0 /\ i <= k
      <4>1. g[i] = f[i] /\ g[i - 1] = f[i - 1]
        BY <3>2
      <4>2. f[i] = Arranged(f[i - 1], d[i][1], d[i][2])
        BY <2>2, <3>2
      <4> QED
        BY <3>2, <4>1, <4>2
    <3>3. CASE i = k + 1
      <4>1. g[i] = Arranged(f[k], d[k + 1][1], d[k + 1][2]) /\ g[i - 1] = f[k] /\ i # 0
        BY <3>3
      <4> QED
        BY <3>3, <4>1
    <3> QED
      BY <3>1, <3>2, <3>3
  <2>4. Step(g, k + 1)
    BY <2>3 DEF DefaultsStep
  <2>5. k + 1 \in Nat
    OBVIOUS
  <2> HIDE DEF g
  <2> QED
    BY <2>4, <2>5
<1> HIDE DEF S
<1>3. S = Nat
  <2>1. S \in SUBSET Nat
    BY DEF S
  <2> QED
    BY <1>1, <1>2, <2>1, SetInduction
<1> QED
  BY <1>3 DEF S

LEMMA DefaultsApplied ==
  ASSUME NEW m, NEW ds, Len(ds) \in Nat
  PROVE  \E f : /\ AfterDefaults(m, ds) = f[Len(ds)] /\ f[0] = m
                /\ \A i \in 1..Len(ds) :
                     f[i] = Arranged(f[i - 1], ds[i][1], ds[i][2])
<1> DEFINE w == CHOOSE f : DefaultsStep(f, m, ds, Len(ds))
<1>1. \E f : DefaultsStep(f, m, ds, Len(ds))
  BY DefaultsExist
<1>2. DefaultsStep(w, m, ds, Len(ds))
  BY <1>1
<1>3. AfterDefaults(m, ds) = w[Len(ds)]
  BY DEF AfterDefaults, DefaultsStep
<1> HIDE DEF w
<1>4. w[0] = m /\ \A i \in 1..Len(ds) : w[i] = Arranged(w[i - 1], ds[i][1], ds[i][2])
  BY <1>2 DEF DefaultsStep
<1> QED
  BY <1>3, <1>4

LEMMA DefaultsShaped ==
  ASSUME NEW m, Shaped(m), NEW ds, Len(ds) \in Nat
  PROVE  Shaped(AfterDefaults(m, ds))
<1>1. PICK f : /\ AfterDefaults(m, ds) = f[Len(ds)] /\ f[0] = m
               /\ \A i \in 1..Len(ds) :
                    f[i] = Arranged(f[i - 1], ds[i][1], ds[i][2])
  BY DefaultsApplied
<1> DEFINE S == {i \in Nat : i <= Len(ds) => Shaped(f[i])}
<1>2. 0 \in S
  BY <1>1
<1>3. ASSUME NEW i \in S PROVE i + 1 \in S
  <2>1. SUFFICES ASSUME i + 1 <= Len(ds) PROVE Shaped(f[i + 1])
    OBVIOUS
  <2>2. Shaped(f[i]) /\ i + 1 \in 1..Len(ds) /\ (i + 1) - 1 = i
    BY <2>1
  <2> QED
    BY <1>1, <2>2, ArrangedShaped
<1> HIDE DEF S
<1>4. S = Nat
  <2>1. S \in SUBSET Nat
    BY DEF S
  <2> QED
    BY <1>2, <1>3, <2>1, SetInduction
<1>5. Shaped(f[Len(ds)])
  BY <1>4 DEF S
<1> QED
  BY <1>1, <1>5

-----------------------------------------------------------------------------
(* Inheritance. *)

LEMMA HeirsAlike ==
  ASSUME NEW m, NEW t \in Types, NEW b \in Types, NEW p, NEW term,
         Owner(m, t, p) = Owner(m, b, p),
         p \in Inherited(m, "props", t), p \in Inherited(m, "props", b),
         Shaped(m)
  PROVE  Value(ApplyBaseTypes(m), <<t, p>>, term) = Value(ApplyBaseTypes(m), <<b, p>>, term)
<1> DEFINE slots == UNION {IF IsPropertySlot(s) THEN HeirSlots(m, s) ELSE {s} : s \in DOMAIN m.vals}
           vals == [s \in slots |-> m.vals[OwnSlot(m, s)]]
           x(u) == << <<u, p>>, term>>
           Source == \E s \in DOMAIN m.vals : /\ IsPropertySlot(s) /\ s[1][2] = p /\ s[2] = term
                                              /\ s[1][1] = Owner(m, t, p)
<1>1. ApplyBaseTypes(m).vals = vals
  BY DEF ApplyBaseTypes, ApplyBaseTypesBare, Shaped
<1>2. ASSUME NEW u \in Types PROVE IsPropertySlot(x(u)) /\ OwnSlot(m, x(u)) = x(Owner(m, u, p))
  BY <1>2 DEF IsPropertySlot, OwnSlot
<1>3. ASSUME NEW u \in Types, p \in Inherited(m, "props", u), Owner(m, u, p) = Owner(m, t, p)
      PROVE  x(u) \in slots <=> Source
  <2>1. ASSUME Source PROVE x(u) \in slots
    <3>1. PICK s \in DOMAIN m.vals : /\ IsPropertySlot(s) /\ s[1][2] = p /\ s[2] = term
                                     /\ s[1][1] = Owner(m, t, p)
      BY <2>1
    <3>2. x(u) \in HeirSlots(m, s)
      BY <1>3, <3>1 DEF HeirSlots
    <3> QED
      BY <3>1, <3>2
  <2>2. ASSUME x(u) \in slots PROVE Source
    <3>1. PICK s \in DOMAIN m.vals : x(u) \in (IF IsPropertySlot(s) THEN HeirSlots(m, s) ELSE {s})
      BY <2>2
    <3>2. IsPropertySlot(s) /\ x(u) \in HeirSlots(m, s)
      BY <1>2, <3>1
    <3>3. PICK v \in Types : /\ x(u) = << <<v, s[1][2]>>, s[2]>>
                             /\ Owner(m, v, s[1][2]) = s[1][1]
      BY <3>2 DEF HeirSlots
    <3>4. v = u /\ s[1][2] = p /\ s[2] = term
      BY <3>3
    <3> QED
      BY <1>3, <3>2, <3>3, <3>4
  <2> QED
    BY <2>1, <2>2
<1>4. x(t) \in slots <=> x(b) \in slots
  BY <1>3
<1>5. vals[x(t)] = vals[x(b)] \/ x(t) \notin slots
  BY <1>2, <1>4
<1>6. DOMAIN vals = slots
  OBVIOUS
<1> HIDE DEF vals, slots
<1> QED
  BY <1>1, <1>4, <1>5, <1>6 DEF Value

LEMMA FinishedAlike ==
  ASSUME Acyclic, NEW m, Shaped(m), NEW t \in Types, NEW b \in Ancestors(t), NEW p \in OwnProps[b]
  PROVE  /\ p \in ApplyBaseTypes(m).props[t]
         /\ \A term : Value(ApplyBaseTypes(m), <<t, p>>, term)
                        = Value(ApplyBaseTypes(m), <<b, p>>, term)
<1>1. m.props = OwnProps
  BY DEF Shaped
<1>2. b \in Types /\ Owner(m, t, p) = Owner(m, b, p)
  BY <1>1, OwnerAlike
<1>3. p \in Inherited(m, "props", t) /\ p \in Inherited(m, "props", b)
  BY <1>1 DEF Inherited
<1>4. p \in ApplyBaseTypes(m).props[t]
  BY <1>3 DEF ApplyBaseTypes, ApplyBaseTypesBare, Shaped
<1> QED
  BY <1>2, <1>3, <1>4, HeirsAlike

-----------------------------------------------------------------------------
(* What the slots hold after a step. *)

LEMMA OverValue ==
  ASSUME NEW m, Shaped(m), NEW f
  PROVE  /\ DOMAIN Overlaid(m, f).vals = DOMAIN f \cup DOMAIN m.vals
         /\ \A place, term : Value(Overlaid(m, f), place, term) =
              IF <<place, term>> \in DOMAIN f THEN f[<<place, term>>] ELSE Value(m, place, term)
<1>1. Overlaid(m, f).vals = Over(f, m.vals)
  BY DEF Shaped, Overlaid
<1>2. DOMAIN Over(f, m.vals) = DOMAIN f \cup DOMAIN m.vals
  BY DEF Over
<1> QED
  BY <1>1, <1>2 DEF Value, Over

(* A note writes its slots, and a Common.Text may write an arrangement. *)
Nests(n) == n.term = "Text" /\ n.mark # "none"

LEMMA WrittenValue ==
  ASSUME NEW m, Shaped(m), NEW n, NEW t
  PROVE  /\ \A place, term : Value(Written(m, n, t), place, term) =
              IF Nests(n) /\ place = n.at /\ term = "TextArrangement"
              THEN <<Entry("none", {}, n.mark)>>
              ELSE IF <<place, term>> \in Slots(n, t)
              THEN Merge(n.term, Value(m, place, term), Said(n))
              ELSE Value(m, place, term)
         /\ DOMAIN Written(m, n, t).vals
              \subseteq Slots(n, t) \cup DOMAIN m.vals \cup
                        (IF Nests(n) THEN {<<n.at, "TextArrangement">>} ELSE {})
<1> DEFINE f == [s \in Slots(n, t) |-> Merge(n.term, Value(m, s[1], s[2]), Said(n))]
           plain == Overlaid(m, f)
           g == [s \in {<<n.at, "TextArrangement">>} |-> <<Entry("none", {}, n.mark)>>]
           nested == Overlaid(plain, g)
<1>1. /\ DOMAIN plain.vals = Slots(n, t) \cup DOMAIN m.vals
      /\ \A place, term : Value(plain, place, term) =
           IF <<place, term>> \in Slots(n, t) THEN Merge(n.term, Value(m, place, term), Said(n))
           ELSE Value(m, place, term)
  <2>1. DOMAIN f = Slots(n, t)
    OBVIOUS
  <2>2. \A place, term : <<place, term>> \in Slots(n, t) =>
          f[<<place, term>>] = Merge(n.term, Value(m, place, term), Said(n))
    OBVIOUS
  <2> HIDE DEF f
  <2> QED
    BY <2>1, <2>2, OverValue
<1>2. Shaped(plain)
  BY OverlaidShaped
<1>3. Written(m, n, t) = IF Nests(n) THEN nested ELSE plain
  BY DEF Written, With, Nests
<1>4. /\ DOMAIN g = {<<n.at, "TextArrangement">>}
      /\ g[<<n.at, "TextArrangement">>] = <<Entry("none", {}, n.mark)>>
  OBVIOUS
<1> HIDE DEF plain, g
<1>5. /\ DOMAIN nested.vals = {<<n.at, "TextArrangement">>} \cup DOMAIN plain.vals
      /\ \A place, term : Value(nested, place, term) =
           IF <<place, term>> = <<n.at, "TextArrangement">> THEN <<Entry("none", {}, n.mark)>>
           ELSE Value(plain, place, term)
  <2>1. /\ DOMAIN Overlaid(plain, g).vals = DOMAIN g \cup DOMAIN plain.vals
        /\ \A place, term : Value(Overlaid(plain, g), place, term) =
             IF <<place, term>> \in DOMAIN g THEN g[<<place, term>>] ELSE Value(plain, place, term)
    BY <1>2, OverValue
  <2> QED
    BY <1>4, <2>1
<1> HIDE DEF nested
<1>6. CASE Nests(n)
  BY <1>1, <1>3, <1>5, <1>6
<1>7. CASE ~Nests(n)
  BY <1>1, <1>3, <1>7
<1> QED
  BY <1>6, <1>7

(* The texts a default reaches. *)
Bare(m, t) ==
  {<< <<t, p>>, "TextArrangement">> :
     p \in {q \in OwnProps[t] : Given(m, <<t, q>>, "Text") /\ ~Given(m, <<t, q>>, "TextArrangement")}}

LEMMA ArrangedValue ==
  ASSUME NEW m, Shaped(m), NEW t, NEW mark
  PROVE  /\ DOMAIN Arranged(m, t, mark).vals = Bare(m, t) \cup DOMAIN m.vals
         /\ \A place, term : Value(Arranged(m, t, mark), place, term) =
              IF <<place, term>> \in Bare(m, t) THEN <<Entry("none", {}, mark)>>
              ELSE Value(m, place, term)
<1> DEFINE f == [s \in Bare(m, t) |-> <<Entry("none", {}, mark)>>]
<1>1. Arranged(m, t, mark) = Overlaid(m, f)
  BY DEF Arranged, Bare
<1>2. DOMAIN f = Bare(m, t) /\ \A s \in Bare(m, t) : f[s] = <<Entry("none", {}, mark)>>
  OBVIOUS
<1> HIDE DEF f
<1>3. /\ DOMAIN Overlaid(m, f).vals = DOMAIN f \cup DOMAIN m.vals
      /\ \A place, term : Value(Overlaid(m, f), place, term) =
           IF <<place, term>> \in DOMAIN f THEN f[<<place, term>>] ELSE Value(m, place, term)
  BY OverValue
<1> QED
  BY <1>1, <1>2, <1>3

-----------------------------------------------------------------------------
(* Positions of notes. *)

LEMMA HasFirst ==
  ASSUME NEW D \in SUBSET Nat, D # {}
  PROVE  \E i \in D : \A j \in D : i <= j
<1> DEFINE R == OpToRel(<, Nat)
<1>1. \A x, y \in Nat : <<x, y>> \in R <=> x < y
  BY DEF OpToRel
<1>2. IsWellFoundedOn(R, Nat)
  BY NatLessThanWellFounded
<1> HIDE DEF R
<1>3. PICK x \in D : \A y \in D : ~(<<y, x>> \in R)
  BY <1>2, WFMin
<1>4. ASSUME NEW y \in D PROVE x <= y
  <2>1. x \in Nat /\ y \in Nat /\ ~(y < x)
    BY <1>1, <1>3
  <2> QED
    BY <2>1
<1> QED
  BY <1>4

LEMMA FirstIs ==
  ASSUME NEW I \in SUBSET Nat, I # {}
  PROVE  First(I) \in I /\ \A j \in I : First(I) <= j
<1>1. \E i \in I : \A j \in I : i <= j
  BY HasFirst
<1> QED
  BY <1>1 DEF First

LEMMA LastIs ==
  ASSUME NEW n \in Nat, NEW I \in SUBSET (1..n), I # {}
  PROVE  Last(I) \in I /\ \A j \in I : j <= Last(I)
<1>1. \E i \in I : \A j \in I : j <= i
  BY HasLast
<1> QED
  BY <1>1 DEF Last

LEMMA FirstGrown ==
  ASSUME NEW n \in Nat, NEW I \in SUBSET (1..n)
  PROVE  First(I \cup {n + 1}) = IF I = {} THEN n + 1 ELSE First(I)
<1> DEFINE J == I \cup {n + 1}
<1>1. J \in SUBSET Nat /\ I \in SUBSET Nat /\ J # {} /\ n + 1 \in J /\ I \subseteq J
  OBVIOUS
<1> HIDE DEF J
<1>2. First(J) \in J /\ \A j \in J : First(J) <= j
  BY <1>1, FirstIs
<1>3. CASE I = {}
  <2>1. \A j \in J : j = n + 1
    BY <1>3 DEF J
  <2> QED
    BY <1>2, <1>3, <2>1 DEF J
<1>4. CASE I # {}
  <2>1. First(I) \in I /\ \A j \in I : First(I) <= j
    BY <1>1, <1>4, FirstIs
  <2>2. First(J) <= First(I) /\ First(I) < n + 1 /\ First(J) \in Nat /\ First(I) \in Nat
    <3>1. First(J) <= First(I) /\ First(J) \in Nat /\ First(I) \in Nat
      BY <1>1, <1>2, <2>1
    <3>2. First(I) \in 1..n
      BY <2>1
    <3> QED
      BY <3>1, <3>2
  <2>3. First(J) # n + 1
    BY <2>2
  <2>4. First(J) \in I
    BY <1>2, <2>3 DEF J
  <2>5. First(I) <= First(J)
    BY <2>1, <2>4
  <2>6. First(J) = First(I)
    BY <2>2, <2>5
  <2> QED
    BY <1>4, <2>6 DEF J
<1> QED
  BY <1>3, <1>4

LEMMA LastGrown ==
  ASSUME NEW n \in Nat, NEW I \in SUBSET (1..n)
  PROVE  Last(I \cup {n + 1}) = n + 1
<1> DEFINE J == I \cup {n + 1}
<1>1. n + 1 \in Nat /\ J \in SUBSET (1..(n + 1)) /\ J # {} /\ n + 1 \in J
  OBVIOUS
<1> HIDE DEF J
<1>2. Last(J) \in J /\ \A j \in J : j <= Last(J)
  BY <1>1, LastIs
<1>3. Last(J) \in 1..(n + 1) /\ n + 1 <= Last(J)
  BY <1>1, <1>2
<1>4. Last(J) = n + 1
  BY <1>3
<1> QED
  BY <1>4 DEF J

-----------------------------------------------------------------------------
(* What a note is about. *)

LEMMA NoteShape ==
  ASSUME NEW n \in Notes
  PROVE  /\ n.term \in Terms
         /\ Len(n.at) = 1 => n.at = <<n.at[1]>>
         /\ Len(n.at) # 1 => n.at = <<n.at[1], n.at[2]>> /\ Len(n.at) = 2
         /\ n.term = "Restricts" => n.mark \in Restrictions
<1>1. /\ n.term \in Terms
      /\ IF Len(n.at) = 1 THEN n.at = <<n.at[1]>> ELSE n.at = <<n.at[1], n.at[2]>>
      /\ n.term = "Restricts" => n.mark \in Restrictions
  BY DocumentAssumption
<1>2. \A a, b : Len(<<a, b>>) = 2
  OBVIOUS
<1>3. Len(n.at) # 1 => Len(n.at) = 2
  <2>1. SUFFICES ASSUME Len(n.at) # 1 PROVE Len(n.at) = 2
    OBVIOUS
  <2>2. n.at = <<n.at[1], n.at[2]>>
    BY <1>1, <2>1
  <2>3. Len(<<n.at[1], n.at[2]>>) = 2
    BY <1>2
  <2> QED
    BY <2>2, <2>3
<1> QED
  BY <1>1, <1>3

LEMMA TermsApart ==
  /\ PropertyTerms \cap (TypeTerms \cup ViewTerms \cup SetTerms \cup {"Label"}) = {}
  /\ TypeTerms \cap (ViewTerms \cup SetTerms \cup {"Label"}) = {}
  /\ ViewTerms \cap (SetTerms \cup {"Label"}) = {}
  /\ "Label" \notin SetTerms
  /\ Restrictions \cap Terms = {}
BY DEF PropertyTerms, TypeTerms, ViewTerms, SetTerms, SetFlags, Restrictions, Terms

LEMMA TargetsMeant ==
  ASSUME Shaped(model), NEW n \in Notes, n.term # "Label"
  PROVE  Targets(n) = {t \in Types : MeantFor(n, t)}
<1>1. /\ model.types = Types /\ model.sets = Sets /\ model.props = OwnProps
  BY DEF Shaped
<1>2. CASE ~Usable(n)
  BY <1>2 DEF Targets, MeantFor
<1>3. CASE Usable(n) /\ Len(n.at) = 1
  <2>1. n.at = <<n.at[1]>>
    BY <1>3, NoteShape
  <2>2. n.term \in PropertyTerms => Addressed(n) = {}
    BY <1>3, TermsApart DEF Addressed
  <2>3. n.term \in TypeTerms \cup ViewTerms => Addressed(n) = {t \in Types : n.at = <<t>>}
    BY <1>1, <1>3, <2>1, TermsApart DEF Addressed, Known
  <2>4. n.term \in SetTerms => Addressed(n) = {}
    BY <1>3, TermsApart DEF Addressed
  <2>5. n.term \in PropertyTerms \cup TypeTerms \cup ViewTerms \cup SetTerms
    BY NoteShape DEF Terms
  <2>6. Targets(n) = Addressed(n)
    BY <1>3 DEF Targets
  <2> QED
    BY <1>3, <2>2, <2>3, <2>4, <2>5, <2>6, TermsApart DEF MeantFor
<1>4. CASE Usable(n) /\ Len(n.at) # 1
  <2> DEFINE ofSet == {t \in Types : n.at[1] = "set" /\ n.at[2] \in Sets /\ SetType[n.at[2]] = t}
  <2>1. Len(n.at) = 2
    BY <1>4, NoteShape
  <2>2. n.term \in PropertyTerms =>
          Addressed(n) = {t \in Types : n.at[1] = t /\ n.at[2] \in OwnProps[t]}
    BY <1>1, <2>1, TermsApart DEF Addressed, Known
  <2>3. n.term \in TypeTerms => Addressed(n) = {}
    BY <2>1, TermsApart DEF Addressed
  <2>4. (IF Len(n.at) = 2 /\ n.at[1] = "set" THEN EntityTypeForSet(model, n.at[2]) ELSE {}) = ofSet
    BY <1>1, <2>1 DEF EntityTypeForSet
  <2> HIDE DEF ofSet
  <2>5. n.term \in ViewTerms \cup SetTerms => Addressed(n) = {t \in ofSet : t \in Types}
    <3>1. CASE n.term \in ViewTerms
      BY <1>1, <2>1, <2>4, <3>1, TermsApart DEF Addressed, Known
    <3>2. CASE n.term \in SetTerms
      BY <1>1, <2>1, <2>4, <3>2, TermsApart DEF Addressed, Known
    <3> QED
      BY <3>1, <3>2
  <2>6. n.term \in PropertyTerms \cup TypeTerms \cup ViewTerms \cup SetTerms
    BY NoteShape DEF Terms
  <2>7. Targets(n) = Addressed(n)
    BY <1>4 DEF Targets
  <2> QED
    BY <1>4, <2>2, <2>3, <2>5, <2>6, <2>7, TermsApart DEF MeantFor, ofSet
<1> QED
  BY <1>2, <1>3, <1>4

(* A note is about one type. *)
LEMMA OneTarget ==
  ASSUME NEW n \in Notes, NEW t, NEW u, MeantFor(n, t), MeantFor(n, u)
  PROVE  t = u
<1>1. CASE Len(n.at) = 1
  BY <1>1 DEF MeantFor
<1>2. CASE Len(n.at) # 1
  BY <1>2, TermsApart DEF MeantFor
<1> QED
  BY <1>1, <1>2

(* The slots by the kind of the term. *)
LEMMA SlotsOf ==
  ASSUME NEW n \in Notes, NEW t
  PROVE  /\ n.term \in PropertyTerms \cup {"Readable"} => Slots(n, t) = {<<n.at, n.term>>}
         /\ n.term = "Restricts" =>
              Slots(n, t) = {<< <<t, p>>, n.mark>> : p \in n.paths \cap OwnProps[t]}
         /\ n.term = "SelectionPresentationVariant" => Slots(n, t) = {<< <<t>>, "SelectionVariant">>}
         /\ n.term \notin PropertyTerms \cup {"Readable", "Restricts", "SelectionPresentationVariant"}
              => Slots(n, t) = {<< <<t>>, n.term>>}
<1>1. "Restricts" \notin PropertyTerms /\ "SelectionPresentationVariant" \notin PropertyTerms
  BY DEF PropertyTerms
<1> QED
  BY <1>1 DEF Slots

-----------------------------------------------------------------------------
(* What is known of the document at every step. *)

Noted == [note : Notes, schema : Nat]
Marks == {<<n.at[1], n.mark>> : n \in Notes}
Places == {n.at : n \in Notes}

(* Notes are read schema by schema. *)
Ordered(ns) == \A i, j \in DOMAIN ns : i <= j => ns[i].schema <= ns[j].schema
UpTo(ns, k) == \A i \in DOMAIN ns : ns[i].schema <= k

DocInv ==
  /\ schemas \in Nat /\ draft \in Seq(Notes)
  /\ \E opening \in Openings : inline = opening.inline
  /\ notes \in Seq(Noted) /\ Ordered(notes)
  /\ defaults \in Seq(Marks) /\ DOMAIN labels \subseteq Places
  /\ phase = "start" => notes = <<>> /\ defaults = <<>> /\ labels = <<>>
  /\ phase = "notes" => Shaped(model) /\ at \in 1..schemas /\ UpTo(notes, at)

LEMMA DocInit == Init => DocInv
<1> SUFFICES ASSUME Init PROVE DocInv
  OBVIOUS
<1>1. schemas \in Nat /\ phase = "start" /\ notes = <<>> /\ defaults = <<>> /\ labels = <<>>
  BY DocumentAssumption DEF Init
<1>2. draft \in Seq(Notes) /\ \E opening \in Openings : inline = opening.inline
  BY DocumentAssumption DEF Init
<1>3. notes \in Seq(Noted) /\ Ordered(notes) /\ defaults \in Seq(Marks)
  BY <1>1 DEF Ordered
<1>4. DOMAIN labels = {}
  BY <1>1
<1> QED
  BY <1>1, <1>2, <1>3, <1>4 DEF DocInv

LEMMA NextNoteIs ==
  ASSUME draft \in Seq(Notes), notes \in Seq(Noted), NEW n \in NextNote
  PROVE  n \in Notes
<1>1. CASE Len(notes) < Len(draft)
  <2>1. Len(notes) + 1 \in 1..Len(draft)
    BY <1>1
  <2>2. draft[Len(notes) + 1] \in Notes
    BY <2>1
  <2> QED
    BY <1>1, <2>2 DEF NextNote
<1>2. CASE ~(Len(notes) < Len(draft))
  BY <1>2 DEF NextNote, Notes
<1> QED
  BY <1>1, <1>2

LEMMA NotesGrow ==
  ASSUME NEW ns \in Seq(Noted), Ordered(ns), NEW k \in Nat, UpTo(ns, k), NEW n \in Notes
  PROVE  LET more == Append(ns, [note |-> n, schema |-> k])
         IN  more \in Seq(Noted) /\ Ordered(more) /\ UpTo(more, k)
<1> DEFINE x == [note |-> n, schema |-> k]
           more == Append(ns, x)
<1>1. x \in Noted /\ x.schema = k
  BY DEF Noted
<1> HIDE DEF x
<1>2. /\ more \in Seq(Noted) /\ Len(more) = Len(ns) + 1 /\ Len(ns) \in Nat
      /\ more[Len(ns) + 1] = x /\ \A i \in 1..Len(ns) : more[i] = ns[i]
  BY <1>1, Appended
<1>3. DOMAIN more = 1..(Len(ns) + 1) /\ DOMAIN ns = 1..Len(ns)
  BY <1>2
<1>4. \A i \in 1..Len(ns) : ns[i].schema \in Nat /\ ns[i].schema <= k
  <2>1. \A i \in 1..Len(ns) : ns[i] \in Noted
    OBVIOUS
  <2> QED
    BY <1>3, <2>1 DEF UpTo, Noted
<1> HIDE DEF more
<1>5. UpTo(more, k)
  <2>1. SUFFICES ASSUME NEW i \in 1..(Len(ns) + 1) PROVE more[i].schema <= k
    BY <1>3 DEF UpTo
  <2>2. CASE i = Len(ns) + 1
    BY <1>1, <1>2, <2>2
  <2>3. CASE i # Len(ns) + 1
    <3>1. i \in 1..Len(ns)
      BY <1>2, <2>3
    <3> QED
      BY <1>2, <1>4, <3>1
  <2> QED
    BY <2>2, <2>3
<1>6. Ordered(more)
  <2>1. SUFFICES ASSUME NEW i \in 1..(Len(ns) + 1), NEW j \in 1..(Len(ns) + 1), i <= j
                 PROVE  more[i].schema <= more[j].schema
    BY <1>3 DEF Ordered
  <2>2. CASE j = Len(ns) + 1
    BY <1>1, <1>2, <1>3, <1>5, <2>2 DEF UpTo
  <2>3. CASE j # Len(ns) + 1
    <3>1. i \in 1..Len(ns) /\ j \in 1..Len(ns)
      BY <1>2, <2>1, <2>3
    <3>2. ns[i].schema <= ns[j].schema
      BY <1>3, <2>1, <3>1 DEF Ordered
    <3> QED
      BY <1>2, <3>1, <3>2
  <2> QED
    BY <2>2, <2>3
<1> QED
  BY <1>2, <1>5, <1>6 DEF more, x

(* What a note changes beside the notes. *)
LEMMA NoteTaken ==
  ASSUME Shaped(model), DOMAIN labels \subseteq Places, defaults \in Seq(Marks), NEW n \in Notes,
         CASE n.term = "Label" -> TakeLabel(n)
           [] n.term = "TextArrangement" -> TakeDefault(n)
           [] OTHER -> TakeTyped(n)
  PROVE  Shaped(model') /\ DOMAIN labels' \subseteq Places /\ defaults' \in Seq(Marks)
<1>1. CASE n.term = "Label"
  <2>1. TakeLabel(n)
    BY <1>1
  <2>2. model' = model /\ defaults' = defaults
    BY <2>1 DEF TakeLabel
  <2>3. DOMAIN Over([place \in {n.at} |-> n.mark], labels) = {n.at} \cup DOMAIN labels
    BY DEF Over
  <2>4. DOMAIN labels' \subseteq {n.at} \cup DOMAIN labels
    BY <2>1, <2>3 DEF TakeLabel
  <2> QED
    BY <2>2, <2>4 DEF Places, Shaped
<1>2. CASE n.term = "TextArrangement"
  <2>1. TakeDefault(n)
    BY <1>2
  <2>2. <<n.at[1], n.mark>> \in Marks
    BY DEF Marks
  <2>3. Append(defaults, <<n.at[1], n.mark>>) \in Seq(Marks)
    BY <2>2
  <2>4. defaults' \in Seq(Marks)
    BY <2>1, <2>3 DEF TakeDefault
  <2> QED
    BY <2>1, <2>4 DEF TakeDefault, Shaped
<1>3. CASE n.term # "Label" /\ n.term # "TextArrangement"
  <2>1. TakeTyped(n)
    BY <1>3
  <2>2. \A t : Shaped(Written(model, n, t))
    BY WrittenShaped
  <2>3. model' = model \/ \E t : model' = Written(model, n, t)
    BY <2>1 DEF TakeTyped
  <2>4. Shaped(model')
    BY <2>2, <2>3 DEF Shaped
  <2> QED
    BY <2>1, <2>4 DEF TakeTyped
<1> QED
  BY <1>1, <1>2, <1>3

LEMMA DocNext == DocInv /\ [Next]_vars => DocInv'
<1> SUFFICES ASSUME DocInv, [Next]_vars PROVE DocInv'
  OBVIOUS
<1> USE DEF DocInv
<1>1. CASE NoSchema
  BY <1>1 DEF NoSchema, doc, Ordered
<1>2. CASE ReadModel
  <2>1. Shaped(model') /\ at' = 1 /\ schemas' = schemas /\ schemas > 0 /\ notes' = <<>>
    BY <1>2, ParsedShaped DEF ReadModel, doc, Shaped
  <2>2. at' \in 1..schemas' /\ UpTo(notes', at')
    BY <2>1 DEF UpTo
  <2>3. phase' = "notes" /\ UNCHANGED <<doc, notes, defaults, labels>>
    BY <1>2 DEF ReadModel
  <2> QED
    BY <2>1, <2>2, <2>3 DEF doc, Ordered, Shaped, UpTo
<1>3. ASSUME NEW n \in NextNote, ReadNote(n) PROVE DocInv'
  <2>1. /\ n \in Notes /\ phase = "notes" /\ phase' = "notes" /\ at' = at /\ UNCHANGED doc
        /\ notes' = Append(notes, [note |-> n, schema |-> at])
        /\ CASE n.term = "Label" -> TakeLabel(n)
             [] n.term = "TextArrangement" -> TakeDefault(n)
             [] OTHER -> TakeTyped(n)
    BY <1>3, NextNoteIs DEF ReadNote
  <2>2. at \in Nat /\ at \in 1..schemas
    BY <2>1
  <2>3. notes' \in Seq(Noted) /\ Ordered(notes)' /\ UpTo(notes, at)'
    BY <2>1, <2>2, NotesGrow DEF Ordered, UpTo
  <2>4. Shaped(model)' /\ DOMAIN labels' \subseteq Places /\ defaults' \in Seq(Marks)
    BY <2>1, NoteTaken DEF Shaped
  <2> QED
    BY <2>1, <2>2, <2>3, <2>4 DEF doc
<1>4. CASE EndSchema
  <2>1. /\ phase = "notes" /\ defaults' = <<>> /\ UNCHANGED <<doc, notes, labels>>
        /\ \/ /\ at < schemas /\ at' = at + 1 /\ phase' = "notes"
              /\ model' = AfterDefaults(model, defaults)
           \/ phase' = "parsed"
    BY <1>4 DEF EndSchema
  <2>2. Shaped(AfterDefaults(model, defaults))
    <3>1. Len(defaults) \in Nat
      OBVIOUS
    <3> QED
      BY <2>1, <3>1, DefaultsShaped
  <2>3. phase' = "notes" => Shaped(model)' /\ at' \in 1..schemas' /\ UpTo(notes', at')
    <3>1. SUFFICES ASSUME phase' = "notes"
                   PROVE  Shaped(model)' /\ at' \in 1..schemas' /\ UpTo(notes', at')
      OBVIOUS
    <3>2. at < schemas /\ at' = at + 1 /\ model' = AfterDefaults(model, defaults)
          /\ schemas' = schemas /\ notes' = notes
      BY <2>1, <3>1 DEF doc
    <3>3. at' \in 1..schemas'
      BY <2>1, <3>2
    <3>4. \A i \in DOMAIN notes : notes[i].schema \in Nat /\ notes[i].schema <= at /\ at \in Nat
      <4>1. UpTo(notes, at) /\ at \in Nat
        BY <2>1
      <4>2. \A i \in DOMAIN notes : notes[i] \in Noted
        OBVIOUS
      <4> QED
        BY <4>1, <4>2 DEF UpTo, Noted
    <3>5. UpTo(notes', at')
      BY <3>2, <3>4 DEF UpTo
    <3> QED
      BY <2>2, <3>2, <3>3, <3>5 DEF Shaped
  <2> QED
    BY <2>1, <2>3 DEF doc, Ordered, Shaped, UpTo
<1>5. ASSUME NEW r \in LintRequests, Lint(r) PROVE DocInv'
  BY <1>5 DEF Lint, doc, Ordered
<1>6. CASE UNCHANGED vars
  BY <1>6 DEF vars, Ordered, Shaped, UpTo
<1> QED
  BY <1>1, <1>2, <1>3, <1>4, <1>5, <1>6 DEF Next

(* DocInv, and the parsed model is a model with its base types applied. *)
HeirInv == DocInv /\ (phase = "parsed" => \E m : Shaped(m) /\ model = ApplyBaseTypes(m))

LEMMA HeirNext == HeirInv /\ [Next]_vars => HeirInv'
<1> SUFFICES ASSUME HeirInv, [Next]_vars, phase' = "parsed"
             PROVE  \E m : Shaped(m) /\ model' = ApplyBaseTypes(m)
  BY DocNext DEF HeirInv
<1>1. CASE EndSchema
  <2>1. /\ phase = "notes" /\ model' = Finished(AfterDefaults(model, defaults))
    BY <1>1 DEF EndSchema
  <2>2. Len(defaults) \in Nat /\ Shaped(model)
    BY <2>1 DEF HeirInv, DocInv
  <2>3. Shaped(Labelled(AfterDefaults(model, defaults)))
    BY <2>2, DefaultsShaped, LabelledShaped
  <2> QED
    BY <2>1, <2>3 DEF Finished
<1>2. CASE UNCHANGED vars
  BY <1>2 DEF vars, HeirInv
<1>3. CASE NoSchema \/ ReadModel \/ (\E n \in NextNote : ReadNote(n)) \/ \E r \in LintRequests : Lint(r)
  BY <1>3 DEF NoSchema, ReadModel, ReadNote, Lint
<1> QED
  BY <1>1, <1>2, <1>3 DEF Next

(* A derived type has the properties of its bases with everything that the *)
(* document says about them, labels included, for every document whose     *)
(* types are not their own bases (metadata/mod.rs apply_base_types).       *)
THEOREM InheritsAlike ==
  ASSUME Acyclic
  PROVE  Spec => []InheritedAlike
<1>1. Init => HeirInv
  BY DocInit DEF Init, HeirInv
<1>2. HeirInv /\ [Next]_vars => HeirInv'
  BY HeirNext
<1>3. HeirInv => InheritedAlike
  <2>1. SUFFICES ASSUME HeirInv, phase = "parsed",
                        NEW t \in Types, NEW b \in Ancestors(t), NEW p \in OwnProps[b]
                 PROVE  /\ p \in model.props[t]
                        /\ \A term : Value(model, <<t, p>>, term) = Value(model, <<b, p>>, term)
    BY DEF InheritedAlike
  <2>2. PICK m : Shaped(m) /\ model = ApplyBaseTypes(m)
    BY <2>1 DEF HeirInv
  <2>3. /\ p \in ApplyBaseTypes(m).props[t]
        /\ \A term : Value(ApplyBaseTypes(m), <<t, p>>, term)
                       = Value(ApplyBaseTypes(m), <<b, p>>, term)
    BY <2>2, FinishedAlike
  <2> QED
    BY <2>2, <2>3
<1> QED
  BY <1>1, <1>2, <1>3, PTL DEF Spec

-----------------------------------------------------------------------------
(* What one more note changes of what the notes say. *)

LEMMA NoteAdded ==
  ASSUME NEW ns \in Seq(Noted), NEW x \in Noted
  PROVE  /\ Len(ns) \in Nat /\ DOMAIN ns = 1..Len(ns)
         /\ Append(ns, x) \in Seq(Noted) /\ DOMAIN Append(ns, x) = DOMAIN ns \cup {Len(ns) + 1}
         /\ Append(ns, x)[Len(ns) + 1] = x
         /\ \A i \in DOMAIN ns : Append(ns, x)[i] = ns[i] /\ ns[i] \in Noted
<1>1. /\ Append(ns, x) \in Seq(Noted) /\ Len(Append(ns, x)) = Len(ns) + 1
      /\ Append(ns, x)[Len(ns) + 1] = x /\ \A i \in 1..Len(ns) : Append(ns, x)[i] = ns[i]
  BY Appended
<1>2. Len(ns) \in Nat /\ DOMAIN ns = 1..Len(ns) /\ \A i \in DOMAIN ns : ns[i] \in Noted
  OBVIOUS
<1>3. DOMAIN Append(ns, x) = 1..(Len(ns) + 1)
  BY <1>1
<1>4. 1..(Len(ns) + 1) = 1..Len(ns) \cup {Len(ns) + 1}
  BY <1>2
<1> QED
  BY <1>1, <1>2, <1>3, <1>4

LEMMA AboutGrows ==
  ASSUME NEW ns \in Seq(Noted), NEW x \in Noted, NEW t, NEW term
  PROVE  /\ About(ns, t, term) \in SUBSET (1..Len(ns)) /\ Len(ns) \in Nat
         /\ About(Append(ns, x), t, term) =
              IF x.note.term = term /\ MeantFor(x.note, t) THEN About(ns, t, term) \cup {Len(ns) + 1}
              ELSE About(ns, t, term)
<1> DEFINE more == Append(ns, x)
<1>1. /\ Len(ns) \in Nat /\ DOMAIN ns = 1..Len(ns)
      /\ DOMAIN more = DOMAIN ns \cup {Len(ns) + 1} /\ more[Len(ns) + 1] = x
      /\ \A i \in DOMAIN ns : more[i] = ns[i]
  BY NoteAdded
<1> HIDE DEF more
<1>2. Len(ns) + 1 \notin DOMAIN ns
  BY <1>1
<1>3. About(more, t, term) = IF x.note.term = term /\ MeantFor(x.note, t)
                             THEN About(ns, t, term) \cup {Len(ns) + 1} ELSE About(ns, t, term)
  BY <1>1, <1>2 DEF About
<1> QED
  BY <1>1, <1>3 DEF About, more

(* The first and the last of some positions, before and after. *)
LEMMA EndsStay ==
  ASSUME NEW ns \in Seq(Noted), NEW x \in Noted, NEW I \in SUBSET (1..Len(ns)), I # {}
  PROVE  /\ First(I) \in I /\ Last(I) \in I
         /\ Append(ns, x)[First(I)] = ns[First(I)] /\ Append(ns, x)[Last(I)] = ns[Last(I)]
<1>1. Len(ns) \in Nat /\ DOMAIN ns = 1..Len(ns) /\ \A i \in DOMAIN ns : Append(ns, x)[i] = ns[i]
  BY NoteAdded
<1>2. I \in SUBSET Nat
  BY <1>1
<1>3. First(I) \in I /\ Last(I) \in I
  BY <1>1, <1>2, FirstIs, LastIs
<1> QED
  BY <1>1, <1>3

LEMMA EndsGrow ==
  ASSUME NEW ns \in Seq(Noted), NEW x \in Noted, NEW I \in SUBSET (1..Len(ns))
  PROVE  /\ Append(ns, x)[Last(I \cup {Len(ns) + 1})] = x
         /\ First(I \cup {Len(ns) + 1}) = IF I = {} THEN Len(ns) + 1 ELSE First(I)
         /\ I = {} => Append(ns, x)[First(I \cup {Len(ns) + 1})] = x
<1>1. Len(ns) \in Nat /\ Append(ns, x)[Len(ns) + 1] = x
  BY NoteAdded
<1>2. First(I \cup {Len(ns) + 1}) = IF I = {} THEN Len(ns) + 1 ELSE First(I)
  BY <1>1, FirstGrown
<1>3. Last(I \cup {Len(ns) + 1}) = Len(ns) + 1
  BY <1>1, LastGrown
<1> QED
  BY <1>1, <1>2, <1>3

LEMMA EffectiveGrows ==
  ASSUME NEW ns \in Seq(Noted), NEW x \in Noted, NEW t, NEW term
  PROVE  Effective(Append(ns, x), t, term) =
           IF x.note.term = term /\ MeantFor(x.note, t)
              /\ (x.note.q = "none" \/ About(ns, t, term) = {})
           THEN x.note.paths ELSE Effective(ns, t, term)
<1> DEFINE more == Append(ns, x)
           A == About(ns, t, term)
           U == Unqualified(ns, t, term)
           A2 == About(more, t, term)
           U2 == Unqualified(more, t, term)
           New == x.note.term = term /\ MeantFor(x.note, t)
           NewU == New /\ x.note.q = "none"
<1>1. /\ A \in SUBSET (1..Len(ns)) /\ Len(ns) \in Nat
      /\ A2 = IF New THEN A \cup {Len(ns) + 1} ELSE A
  BY AboutGrows
<1>2. /\ more[Len(ns) + 1] = x /\ \A i \in 1..Len(ns) : more[i] = ns[i]
  BY NoteAdded
<1>3. U \in SUBSET (1..Len(ns)) /\ U \subseteq A
  BY <1>1 DEF Unqualified
<1> HIDE DEF more, A, A2
<1>4. U2 = IF NewU THEN U \cup {Len(ns) + 1} ELSE U
  <2>1. U2 = {i \in A2 : more[i].note.q = "none"} /\ U = {i \in A : ns[i].note.q = "none"}
    BY DEF Unqualified, A, A2
  <2>2. Len(ns) + 1 \notin A
    BY <1>1
  <2> HIDE DEF U2, U
  <2> QED
    BY <1>1, <1>2, <2>1, <2>2
<1>5. A # {} => more[First(A)] = ns[First(A)]
  BY <1>1, EndsStay DEF more
<1>6. U # {} => more[Last(U)] = ns[Last(U)]
  BY <1>3, EndsStay DEF more
<1>7. /\ NewU => U2 # {} /\ more[Last(U2)] = x
      /\ New => /\ A2 # {} /\ First(A2) = IF A = {} THEN Len(ns) + 1 ELSE First(A)
                /\ A = {} => more[First(A2)] = x
  <2>1. /\ more[Last(U \cup {Len(ns) + 1})] = x
        /\ First(A \cup {Len(ns) + 1}) = IF A = {} THEN Len(ns) + 1 ELSE First(A)
        /\ A = {} => more[First(A \cup {Len(ns) + 1})] = x
    BY <1>1, <1>3, EndsGrow DEF more
  <2>2. NewU => U2 = U \cup {Len(ns) + 1}
    BY <1>4
  <2>3. New => A2 = A \cup {Len(ns) + 1}
    BY <1>1
  <2> HIDE DEF U, U2, New, NewU
  <2> QED
    BY <2>1, <2>2, <2>3
<1> HIDE DEF U, U2, New, NewU
<1>8. /\ Effective(more, t, term) = IF U2 # {} THEN more[Last(U2)].note.paths
                                    ELSE IF A2 # {} THEN more[First(A2)].note.paths ELSE {}
      /\ Effective(ns, t, term) = IF U # {} THEN ns[Last(U)].note.paths
                                  ELSE IF A # {} THEN ns[First(A)].note.paths ELSE {}
  BY DEF Effective, A, A2, U, U2
<1>9. CASE NewU
  BY <1>7, <1>8, <1>9 DEF NewU, New, more
<1>10. CASE ~NewU /\ New /\ A = {}
  <2>1. U2 = {} /\ A2 # {} /\ more[First(A2)] = x
    BY <1>1, <1>3, <1>4, <1>7, <1>10
  <2> QED
    BY <1>8, <1>10, <2>1 DEF New, A, more
<1>11. CASE ~NewU /\ (New => A # {})
  <2>1. U2 = U
    BY <1>4, <1>11
  <2>2. A2 # {} <=> A # {}
    BY <1>1, <1>11
  <2>3. A # {} => more[First(A2)] = ns[First(A)]
    BY <1>1, <1>5, <1>7, <1>11
  <2>4. Effective(more, t, term) = Effective(ns, t, term)
    BY <1>6, <1>8, <2>1, <2>2, <2>3
  <2> QED
    BY <1>11, <2>4 DEF NewU, New, A, more
<1> QED
  BY <1>9, <1>10, <1>11

(* Texts and arrangements. *)
LEMMA OnGrows ==
  ASSUME NEW ns \in Seq(Noted), NEW x \in Noted, NEW t, NEW p, NEW term
  PROVE  /\ On(ns, t, p, term) \in SUBSET (1..Len(ns))
         /\ On(Append(ns, x), t, p, term) =
              IF x.note.term = term /\ MeantFor(x.note, t) /\ x.note.at[2] = p
              THEN On(ns, t, p, term) \cup {Len(ns) + 1} ELSE On(ns, t, p, term)
<1> DEFINE A == About(ns, t, term)
           more == Append(ns, x)
           B == About(more, t, term)
           Meant == x.note.term = term /\ MeantFor(x.note, t)
           Here == x.note.at[2] = p
<1>1. /\ A \in SUBSET (1..Len(ns)) /\ Len(ns) \in Nat
      /\ B = IF Meant THEN A \cup {Len(ns) + 1} ELSE A
  BY AboutGrows
<1>2. more[Len(ns) + 1] = x /\ \A i \in 1..Len(ns) : more[i] = ns[i]
  BY NoteAdded
<1>3. On(ns, t, p, term) = {i \in A : ns[i].note.at[2] = p}
  BY DEF On
<1>4. On(more, t, p, term) = {i \in B : more[i].note.at[2] = p}
  BY DEF On
<1>5. Len(ns) + 1 \notin A
  BY <1>1
<1> HIDE DEF A, B, more, Meant
<1>6. On(more, t, p, term) = IF Meant /\ Here
                             THEN On(ns, t, p, term) \cup {Len(ns) + 1} ELSE On(ns, t, p, term)
  <2>0. \A i \in A : more[i].note.at[2] = p <=> ns[i].note.at[2] = p
    BY <1>1, <1>2
  <2>1. CASE Meant
    <3>1. B = A \cup {Len(ns) + 1} /\ (more[Len(ns) + 1].note.at[2] = p <=> Here)
      BY <1>1, <1>2, <2>1
    <3> HIDE DEF Here
    <3>2. {i \in B : more[i].note.at[2] = p}
            = {i \in A : ns[i].note.at[2] = p} \cup {i \in {Len(ns) + 1} : Here}
      BY <2>0, <3>1
    <3> QED
      BY <1>3, <1>4, <2>1, <3>2
  <2>2. CASE ~Meant
    BY <1>1, <1>3, <1>4, <2>0, <2>2
  <2> QED
    BY <2>1, <2>2
<1>7. On(ns, t, p, term) \in SUBSET (1..Len(ns))
  BY <1>1, <1>3
<1> QED
  BY <1>6, <1>7 DEF more, Meant

IsText(n, t, p) == n.term = "Text" /\ MeantFor(n, t) /\ n.at[2] = p

LEMMA TextsGrow ==
  ASSUME NEW ns \in Seq(Noted), NEW x \in Noted, NEW t, NEW p, NEW k
  PROVE  /\ Texts(ns, t, p, k) \in SUBSET (1..Len(ns))
         /\ Texts(Append(ns, x), t, p, k) =
              IF IsText(x.note, t, p) /\ x.note.paths # {} /\ x.schema <= k
              THEN Texts(ns, t, p, k) \cup {Len(ns) + 1} ELSE Texts(ns, t, p, k)
<1> DEFINE A == On(ns, t, p, "Text")
           more == Append(ns, x)
           B == On(more, t, p, "Text")
<1>1. /\ A \in SUBSET (1..Len(ns))
      /\ B = IF IsText(x.note, t, p) THEN A \cup {Len(ns) + 1} ELSE A
  BY OnGrows DEF IsText
<1>2. more[Len(ns) + 1] = x /\ Len(ns) \in Nat /\ \A i \in 1..Len(ns) : more[i] = ns[i]
  BY NoteAdded
<1>3. Texts(ns, t, p, k) = {i \in A : ns[i].note.paths # {} /\ ns[i].schema <= k}
  BY DEF Texts
<1>4. Texts(more, t, p, k) = {i \in B : more[i].note.paths # {} /\ more[i].schema <= k}
  BY DEF Texts
<1>5. Len(ns) + 1 \notin A
  BY <1>1, <1>2
<1> HIDE DEF A, B, more
<1>6. Texts(more, t, p, k) = IF IsText(x.note, t, p) /\ x.note.paths # {} /\ x.schema <= k
                             THEN Texts(ns, t, p, k) \cup {Len(ns) + 1} ELSE Texts(ns, t, p, k)
  BY <1>1, <1>2, <1>3, <1>4, <1>5
<1>7. Texts(ns, t, p, k) \in SUBSET (1..Len(ns))
  BY <1>1, <1>3
<1> QED
  BY <1>6, <1>7 DEF more

LEMMA TextGrows ==
  ASSUME NEW ns \in Seq(Noted), NEW x \in Noted, NEW attrs, NEW t, NEW p, NEW k
  PROVE  TextOf(Append(ns, x), attrs, t, p, k) =
           IF /\ IsText(x.note, t, p) /\ x.schema <= k
              /\ TextOf(ns, attrs, t, p, k) = {} /\ InlineOf(attrs, <<t, p>>, "Text") = <<>>
           THEN x.note.paths ELSE TextOf(ns, attrs, t, p, k)
<1> DEFINE more == Append(ns, x)
           I == Texts(ns, t, p, k)
           J == Texts(more, t, p, k)
           Given1 == InlineOf(attrs, <<t, p>>, "Text") # <<>>
           New == IsText(x.note, t, p) /\ x.schema <= k
<1>1. /\ I \in SUBSET (1..Len(ns))
      /\ J = IF New /\ x.note.paths # {} THEN I \cup {Len(ns) + 1} ELSE I
  BY TextsGrow
<1>2. I # {} => /\ First(I) \in I /\ more[First(I)] = ns[First(I)]
  BY <1>1, EndsStay
<1>3. I # {} => ns[First(I)].note.paths # {}
  BY <1>2 DEF Texts
<1>4. /\ First(I \cup {Len(ns) + 1}) = IF I = {} THEN Len(ns) + 1 ELSE First(I)
      /\ I = {} => more[First(I \cup {Len(ns) + 1})] = x
  <2>1. I \in SUBSET (1..Len(ns))
    BY <1>1
  <2> HIDE DEF I
  <2> QED
    BY <2>1, EndsGrow
<1>5. /\ TextOf(ns, attrs, t, p, k) = IF Given1 THEN InlineOf(attrs, <<t, p>>, "Text")[1].paths
                                      ELSE IF I # {} THEN ns[First(I)].note.paths ELSE {}
      /\ TextOf(more, attrs, t, p, k) = IF Given1 THEN InlineOf(attrs, <<t, p>>, "Text")[1].paths
                                        ELSE IF J # {} THEN more[First(J)].note.paths ELSE {}
  BY DEF TextOf
<1> HIDE DEF more, I, J, Given1, New
<1>6. CASE Given1
  BY <1>5, <1>6 DEF Given1, more
<1>7. CASE ~Given1 /\ I # {}
  <2>1. J # {} /\ First(J) = First(I)
    BY <1>1, <1>4, <1>7
  <2>2. TextOf(more, attrs, t, p, k) = TextOf(ns, attrs, t, p, k) /\ TextOf(ns, attrs, t, p, k) # {}
    BY <1>2, <1>3, <1>5, <1>7, <2>1
  <2> QED
    BY <2>2 DEF more
<1>8. CASE ~Given1 /\ I = {}
  <2>1. TextOf(ns, attrs, t, p, k) = {}
    BY <1>5, <1>8
  <2>2. TextOf(more, attrs, t, p, k) = IF New THEN x.note.paths ELSE {}
    <3>1. CASE New /\ x.note.paths # {}
      <4>1. J = I \cup {Len(ns) + 1}
        BY <1>1, <3>1
      <4> QED
        BY <1>4, <1>5, <1>8, <3>1, <4>1
    <3>2. CASE ~(New /\ x.note.paths # {})
      BY <1>1, <1>5, <1>8, <3>2
    <3> QED
      BY <3>1, <3>2
  <2> QED
    BY <1>8, <2>1, <2>2 DEF Given1, New, more
<1> QED
  BY <1>6, <1>7, <1>8

(* All texts that are there, and those of the schemas before. *)
LEMMA TextUpTo ==
  ASSUME NEW ns \in Seq(Noted), NEW k \in Nat, UpTo(ns, k), NEW attrs, NEW t, NEW p,
         NEW j \in Nat, k <= j
  PROVE  TextOf(ns, attrs, t, p, j) = TextOf(ns, attrs, t, p, k)
<1>1. \A i \in DOMAIN ns : ns[i].schema \in Nat /\ ns[i].schema <= k /\ ns[i].schema <= j
  <2>1. \A i \in DOMAIN ns : ns[i] \in Noted
    OBVIOUS
  <2> QED
    BY <2>1 DEF UpTo, Noted
<1>2. On(ns, t, p, "Text") \subseteq DOMAIN ns
  BY DEF On, About
<1>3. Texts(ns, t, p, j) = Texts(ns, t, p, k)
  BY <1>1, <1>2 DEF Texts
<1> QED
  BY <1>3 DEF TextOf

LEMMA ReachingGrows ==
  ASSUME NEW ns \in Seq(Noted), NEW x \in Noted, NEW attrs, NEW t, NEW p,
         NEW k \in Nat, x.schema > k
  PROVE  /\ Reaching(ns, attrs, t, p, k) \in SUBSET (1..Len(ns))
         /\ Reaching(Append(ns, x), attrs, t, p, k) = Reaching(ns, attrs, t, p, k)
<1> DEFINE more == Append(ns, x)
           A == About(ns, t, "TextArrangement")
           B == About(more, t, "TextArrangement")
<1>1. /\ A \in SUBSET (1..Len(ns)) /\ Len(ns) \in Nat
      /\ B = A \cup {Len(ns) + 1} \/ B = A
  BY AboutGrows
<1>2. /\ more[Len(ns) + 1] = x /\ \A i \in 1..Len(ns) : more[i] = ns[i] /\ ns[i] \in Noted
  BY NoteAdded
<1>3. \A i \in 1..Len(ns) : ns[i].schema \in Nat /\ x.schema \in Nat
  BY <1>2 DEF Noted
<1>4. ASSUME NEW i \in 1..Len(ns), ns[i].schema <= k
      PROVE  TextOf(more, attrs, t, p, ns[i].schema) = TextOf(ns, attrs, t, p, ns[i].schema)
  <2> DEFINE s == ns[i].schema
  <2>1. ~(x.schema <= s)
    BY <1>3, <1>4
  <2> HIDE DEF s
  <2>2. TextOf(Append(ns, x), attrs, t, p, s) =
          IF /\ IsText(x.note, t, p) /\ x.schema <= s
             /\ TextOf(ns, attrs, t, p, s) = {} /\ InlineOf(attrs, <<t, p>>, "Text") = <<>>
          THEN x.note.paths ELSE TextOf(ns, attrs, t, p, s)
    BY TextGrows
  <2> QED
    BY <2>1, <2>2 DEF s
<1>5. ~(x.schema <= k)
  <2>1. x.schema \in Nat
    BY DEF Noted
  <2> QED
    BY <2>1
<1>6. Reaching(ns, attrs, t, p, k) =
        {i \in A : ns[i].schema <= k /\ TextOf(ns, attrs, t, p, ns[i].schema) # {}}
  BY DEF Reaching
<1>7. Reaching(more, attrs, t, p, k) =
        {i \in B : more[i].schema <= k /\ TextOf(more, attrs, t, p, more[i].schema) # {}}
  BY DEF Reaching
<1> HIDE DEF A, B, more
<1>8. Reaching(more, attrs, t, p, k) = Reaching(ns, attrs, t, p, k)
  BY <1>1, <1>2, <1>4, <1>5, <1>6, <1>7
<1> QED
  BY <1>1, <1>6, <1>8 DEF more

-----------------------------------------------------------------------------
(* What one more note changes of what the slots hold. *)

LEMMA PlacesApart == \A a, b, c : <<a>> # <<b, c>>
<1>1. \A a, b, c : Len(<<a>>) = 1 /\ Len(<<b, c>>) = 2
  OBVIOUS
<1> QED
  BY <1>1

LEMMA MeantPlaces ==
  ASSUME NEW n \in Notes, NEW t, MeantFor(n, t)
  PROVE  /\ n.term \in PropertyTerms => n.at = <<t, n.at[2]>> /\ n.at[2] \in OwnProps[t]
         /\ n.term \in TypeTerms => n.at = <<t>>
         /\ n.term # "Label"
<1>1. CASE Len(n.at) = 1
  BY <1>1, TermsApart DEF MeantFor
<1>2. CASE Len(n.at) # 1
  <2>1. n.at = <<n.at[1], n.at[2]>>
    BY <1>2, NoteShape
  <2> QED
    BY <1>2, <2>1, TermsApart DEF MeantFor
<1> QED
  BY <1>1, <1>2

(* The slots of views and variants, and those of texts. *)
LEMMA ViewSlots ==
  ASSUME NEW n \in Notes, NEW u, MeantFor(n, u), NEW t
  PROVE  /\ \A term \in {"LineItem", "SelectionFields"} :
              << <<t>>, term>> \in Slots(n, u) <=> t = u /\ n.term = term
         /\ << <<t>>, "SelectionVariant">> \in Slots(n, u)
              <=> t = u /\ n.term \in {"SelectionVariant", "SelectionPresentationVariant"}
<1> DEFINE Views == {"LineItem", "SelectionFields", "SelectionVariant"}
<1>1. Views \subseteq ViewTerms /\ Views \cap (PropertyTerms \cup SetTerms \cup Restrictions) = {}
  BY DEF PropertyTerms, ViewTerms, SetTerms, SetFlags, Restrictions
<1>2. "Readable" \notin Views /\ "Restricts" \notin Views /\ "SelectionPresentationVariant" \notin Views
  OBVIOUS
<1> HIDE DEF Views
<1>3. CASE n.term \in PropertyTerms \cup {"Readable"}
  <2>1. Slots(n, u) = {<<n.at, n.term>>} /\ n.term \notin Views
    BY <1>1, <1>2, <1>3, SlotsOf
  <2>2. n.term # "SelectionPresentationVariant"
    BY <1>3 DEF PropertyTerms
  <2> QED
    BY <2>1, <2>2 DEF Views
<1>4. CASE n.term = "Restricts"
  <2>1. Slots(n, u) = {<< <<u, p>>, n.mark>> : p \in n.paths \cap OwnProps[u]}
    BY <1>4, SlotsOf
  <2>2. n.mark \notin Views
    BY <1>1, <1>4, NoteShape
  <2> QED
    BY <1>4, <2>1, <2>2 DEF Views
<1>5. CASE n.term = "SelectionPresentationVariant"
  BY <1>5, SlotsOf
<1>6. CASE n.term \notin PropertyTerms \cup {"Readable", "Restricts", "SelectionPresentationVariant"}
  <2>1. Slots(n, u) = {<< <<u>>, n.term>>}
    BY <1>6, SlotsOf
  <2> QED
    BY <1>6, <2>1
<1> QED
  BY <1>3, <1>4, <1>5, <1>6

LEMMA TextSlots ==
  ASSUME NEW n \in Notes, NEW u, MeantFor(n, u), NEW t, NEW p, n.term # "TextArrangement"
  PROVE  /\ << <<t, p>>, "Text">> \in Slots(n, u) <=> n.term = "Text" /\ n.at = <<t, p>>
         /\ << <<t, p>>, "TextArrangement">> \notin Slots(n, u)
<1>1. "Text" \in PropertyTerms /\ "TextArrangement" \notin PropertyTerms
  BY DEF PropertyTerms
<1>2. "Text" \notin Restrictions /\ "TextArrangement" \notin Restrictions
  BY DEF Restrictions
<1>3. CASE n.term \in PropertyTerms \cup {"Readable"}
  <2>1. Slots(n, u) = {<<n.at, n.term>>}
    BY <1>3, SlotsOf
  <2> QED
    BY <1>1, <1>3, <2>1
<1>4. CASE n.term = "Restricts"
  <2>1. Slots(n, u) = {<< <<u, q>>, n.mark>> : q \in n.paths \cap OwnProps[u]}
    BY <1>4, SlotsOf
  <2>2. n.mark \in Restrictions
    BY <1>4, NoteShape
  <2> QED
    BY <1>2, <1>4, <2>1, <2>2
<1>5. CASE n.term \notin PropertyTerms \cup {"Readable", "Restricts"}
  <2>1. \E term : Slots(n, u) = {<< <<u>>, term>>}
    BY <1>5, SlotsOf
  <2> QED
    BY <1>1, <1>5, <2>1, PlacesApart
<1> QED
  BY <1>3, <1>4, <1>5

(* What ReadNote does to the model. *)
Typed(n) == n.term \notin {"Label", "TextArrangement"}
Taken(m, m2, n) ==
  \/ m2 = m /\ (Typed(n) => \A t \in Types : ~MeantFor(n, t))
  \/ \E u \in Types : Typed(n) /\ MeantFor(n, u) /\ m2 = Written(m, n, u)

LEMMA ViewTaken ==
  ASSUME NEW m, Shaped(m), NEW m2, NEW n \in Notes, Taken(m, m2, n), NEW t \in Types,
         NEW term \in {"LineItem", "SelectionFields"}
  PROVE  Value(m2, <<t>>, term) =
           IF n.term = term /\ MeantFor(n, t) THEN KeepDefault(Value(m, <<t>>, term), Said(n))
           ELSE Value(m, <<t>>, term)
<1>1. CASE m2 = m /\ (Typed(n) => \A u \in Types : ~MeantFor(n, u))
  BY <1>1 DEF Typed
<1>2. ASSUME NEW u \in Types, Typed(n), MeantFor(n, u), m2 = Written(m, n, u)
      PROVE  Value(m2, <<t>>, term) =
               IF n.term = term /\ MeantFor(n, t) THEN KeepDefault(Value(m, <<t>>, term), Said(n))
               ELSE Value(m, <<t>>, term)
  <2>1. Value(Written(m, n, u), <<t>>, term) =
          IF Nests(n) /\ <<t>> = n.at /\ term = "TextArrangement" THEN <<Entry("none", {}, n.mark)>>
          ELSE IF << <<t>>, term>> \in Slots(n, u) THEN Merge(n.term, Value(m, <<t>>, term), Said(n))
          ELSE Value(m, <<t>>, term)
    BY WrittenValue
  <2>2. << <<t>>, term>> \in Slots(n, u) <=> t = u /\ n.term = term
    BY <1>2, ViewSlots
  <2>3. MeantFor(n, t) <=> t = u
    BY <1>2, OneTarget
  <2>4. n.term = term => Merge(n.term, Value(m, <<t>>, term), Said(n))
                           = KeepDefault(Value(m, <<t>>, term), Said(n))
    BY DEF Merge
  <2> QED
    BY <1>2, <2>1, <2>2, <2>3, <2>4
<1> QED
  BY <1>1, <1>2 DEF Taken

VariantTerms == {"SelectionVariant", "SelectionPresentationVariant"}

LEMMA VariantTaken ==
  ASSUME NEW m, Shaped(m), NEW m2, NEW n \in Notes, Taken(m, m2, n), NEW t \in Types
  PROVE  LET old == Value(m, <<t>>, "SelectionVariant")
         IN  Value(m2, <<t>>, "SelectionVariant") =
               IF n.term = "SelectionVariant" /\ MeantFor(n, t) THEN DefaultInFront(old, Said(n))
               ELSE IF n.term = "SelectionPresentationVariant" /\ MeantFor(n, t)
               THEN InlineVariant(old, Said(n)) ELSE old
<1> DEFINE old == Value(m, <<t>>, "SelectionVariant")
           new == Value(m2, <<t>>, "SelectionVariant")
           Goal == new = IF n.term = "SelectionVariant" /\ MeantFor(n, t)
                         THEN DefaultInFront(old, Said(n))
                         ELSE IF n.term = "SelectionPresentationVariant" /\ MeantFor(n, t)
                         THEN InlineVariant(old, Said(n)) ELSE old
<1>1. CASE m2 = m /\ (Typed(n) => \A u \in Types : ~MeantFor(n, u))
  BY <1>1 DEF Typed
<1>2. ASSUME NEW u \in Types, Typed(n), MeantFor(n, u), m2 = Written(m, n, u)
      PROVE  Goal
  <2>1. Value(Written(m, n, u), <<t>>, "SelectionVariant") =
          IF Nests(n) /\ <<t>> = n.at /\ "SelectionVariant" = "TextArrangement"
          THEN <<Entry("none", {}, n.mark)>>
          ELSE IF << <<t>>, "SelectionVariant">> \in Slots(n, u) THEN Merge(n.term, old, Said(n))
          ELSE old
    BY WrittenValue
  <2>2. << <<t>>, "SelectionVariant">> \in Slots(n, u) <=> t = u /\ n.term \in VariantTerms
    BY <1>2, ViewSlots DEF VariantTerms
  <2>3. MeantFor(n, t) <=> t = u
    BY <1>2, OneTarget
  <2> HIDE DEF old
  <2>4. /\ n.term = "SelectionVariant" => Merge(n.term, old, Said(n)) = DefaultInFront(old, Said(n))
        /\ n.term = "SelectionPresentationVariant"
             => Merge(n.term, old, Said(n)) = InlineVariant(old, Said(n))
    BY DEF Merge
  <2> QED
    BY <1>2, <2>1, <2>2, <2>3, <2>4 DEF VariantTerms
<1> QED
  BY <1>1, <1>2 DEF Taken

LEMMA MeantText ==
  ASSUME NEW n \in Notes, n.term = "Text", NEW u, MeantFor(n, u), NEW t, NEW p
  PROVE  n.at = <<t, p>> <=> IsText(n, t, p)
<1>1. "Text" \in PropertyTerms
  BY DEF PropertyTerms
<1>2. n.at = <<u, n.at[2]>> /\ (MeantFor(n, t) => n.at = <<t, n.at[2]>>)
  BY <1>1, MeantPlaces
<1>3. n.at = <<t, p>> => t = u /\ n.at[2] = p
  BY <1>2
<1> QED
  BY <1>2, <1>3 DEF IsText

LEMMA TextTaken ==
  ASSUME NEW m, Shaped(m), NEW m2, NEW n \in Notes, Taken(m, m2, n),
         NEW t \in Types, NEW p \in OwnProps[t]
  PROVE  Value(m2, <<t, p>>, "Text") =
           IF IsText(n, t, p) THEN FillOnce(Value(m, <<t, p>>, "Text"), Said(n))
           ELSE Value(m, <<t, p>>, "Text")
<1>1. CASE m2 = m /\ (Typed(n) => \A u \in Types : ~MeantFor(n, u))
  BY <1>1 DEF Typed, IsText
<1>2. ASSUME NEW u \in Types, Typed(n), MeantFor(n, u), m2 = Written(m, n, u)
      PROVE  Value(m2, <<t, p>>, "Text") =
               IF IsText(n, t, p) THEN FillOnce(Value(m, <<t, p>>, "Text"), Said(n))
               ELSE Value(m, <<t, p>>, "Text")
  <2>1. Value(Written(m, n, u), <<t, p>>, "Text") =
          IF Nests(n) /\ <<t, p>> = n.at /\ "Text" = "TextArrangement" THEN <<Entry("none", {}, n.mark)>>
          ELSE IF << <<t, p>>, "Text">> \in Slots(n, u)
          THEN Merge(n.term, Value(m, <<t, p>>, "Text"), Said(n)) ELSE Value(m, <<t, p>>, "Text")
    BY WrittenValue
  <2>2. /\ << <<t, p>>, "Text">> \in Slots(n, u) <=> n.term = "Text" /\ n.at = <<t, p>>
        /\ << <<t, p>>, "TextArrangement">> \notin Slots(n, u)
    BY <1>2, TextSlots DEF Typed
  <2>3. n.term = "Text" => (n.at = <<t, p>> <=> IsText(n, t, p))
    BY <1>2, MeantText
  <2>4. \A old : n.term = "Text" => Merge(n.term, old, Said(n)) = FillOnce(old, Said(n))
    BY DEF Merge
  <2>5. IsText(n, t, p) => n.term = "Text"
    BY DEF IsText
  <2> QED
    BY <1>2, <2>1, <2>2, <2>3, <2>4, <2>5
<1> QED
  BY <1>1, <1>2 DEF Taken

LEMMA ArrangementTaken ==
  ASSUME NEW m, Shaped(m), NEW m2, NEW n \in Notes, Taken(m, m2, n),
         NEW t \in Types, NEW p \in OwnProps[t]
  PROVE  Value(m2, <<t, p>>, "TextArrangement") =
           IF IsText(n, t, p) /\ n.mark # "none" THEN <<Entry("none", {}, n.mark)>>
           ELSE Value(m, <<t, p>>, "TextArrangement")
<1>1. CASE m2 = m /\ (Typed(n) => \A u \in Types : ~MeantFor(n, u))
  BY <1>1 DEF Typed, IsText
<1>2. ASSUME NEW u \in Types, Typed(n), MeantFor(n, u), m2 = Written(m, n, u)
      PROVE  Value(m2, <<t, p>>, "TextArrangement") =
               IF IsText(n, t, p) /\ n.mark # "none" THEN <<Entry("none", {}, n.mark)>>
               ELSE Value(m, <<t, p>>, "TextArrangement")
  <2>1. Value(Written(m, n, u), <<t, p>>, "TextArrangement") =
          IF Nests(n) /\ <<t, p>> = n.at /\ "TextArrangement" = "TextArrangement"
          THEN <<Entry("none", {}, n.mark)>>
          ELSE IF << <<t, p>>, "TextArrangement">> \in Slots(n, u)
          THEN Merge(n.term, Value(m, <<t, p>>, "TextArrangement"), Said(n))
          ELSE Value(m, <<t, p>>, "TextArrangement")
    BY WrittenValue
  <2>2. /\ << <<t, p>>, "Text">> \in Slots(n, u) <=> n.term = "Text" /\ n.at = <<t, p>>
        /\ << <<t, p>>, "TextArrangement">> \notin Slots(n, u)
    BY <1>2, TextSlots DEF Typed
  <2>3. n.term = "Text" => (n.at = <<t, p>> <=> IsText(n, t, p))
    BY <1>2, MeantText
  <2>4. IsText(n, t, p) => n.term = "Text"
    BY DEF IsText
  <2> QED
    BY <1>2, <2>1, <2>2, <2>3, <2>4 DEF Nests
<1> QED
  BY <1>1, <1>2 DEF Taken

-----------------------------------------------------------------------------
(* What the slots hold of the notes that have been read. *)

ViewHeld(m, ns, t, term) ==
  LET v == Value(m, <<t>>, term)
  IN  IF About(ns, t, term) = {} THEN v = <<>>
      ELSE v = <<v[1]>> /\ v[1].paths = Effective(ns, t, term)

TextHeld(m, ns, attrs, t, p, k) ==
  LET v == Value(m, <<t, p>>, "Text")
  IN  IF TextOf(ns, attrs, t, p, k) = {} THEN v = <<>>
      ELSE v = <<v[1]>> /\ v[1].paths = TextOf(ns, attrs, t, p, k)

ArrangementHeld(m, ns, attrs, t, p, k) ==
  Value(m, <<t, p>>, "TextArrangement") =
    IF Nested(ns, t, p) # {} THEN <<Entry("none", {}, ns[Last(Nested(ns, t, p))].note.mark)>>
    ELSE IF Reaching(ns, attrs, t, p, k) # {}
         THEN <<Entry("none", {}, ns[First(Reaching(ns, attrs, t, p, k))].note.mark)>> ELSE <<>>

LEMMA OneEntry == \A e : <<e>> # <<>> /\ <<e>>[1] = e /\ <<e>> = << <<e>>[1] >>
<1>1. \A e : Len(<<e>>) = 1 /\ Len(<<>>) = 0
  OBVIOUS
<1> QED
  BY <1>1

LEMMA SaidOf ==
  ASSUME NEW n \in Notes, n.term # "Restricts"
  PROVE  /\ Said(n).q = n.q /\ Said(n).mark = n.mark
         /\ n.term \notin VariantTerms => Said(n).paths = n.paths
BY DEF Said, Entry, Columns, VariantTerms

LEMMA ViewHolds ==
  ASSUME NEW m, Shaped(m), NEW m2, NEW ns \in Seq(Noted), NEW x \in Noted, x.note \in Notes,
         Taken(m, m2, x.note), NEW t \in Types, NEW term \in {"LineItem", "SelectionFields"},
         ViewHeld(m, ns, t, term)
  PROVE  ViewHeld(m2, Append(ns, x), t, term)
<1> DEFINE n == x.note
           v == Value(m, <<t>>, term)
           v2 == Value(m2, <<t>>, term)
           A == About(ns, t, term)
           A2 == About(Append(ns, x), t, term)
           Meant == n.term = term /\ MeantFor(n, t)
<1>1. v2 = IF Meant THEN KeepDefault(v, Said(n)) ELSE v
  BY ViewTaken
<1>2. A2 = IF Meant THEN A \cup {Len(ns) + 1} ELSE A
  BY AboutGrows
<1>3. Effective(Append(ns, x), t, term) =
        IF Meant /\ (n.q = "none" \/ A = {}) THEN n.paths ELSE Effective(ns, t, term)
  BY EffectiveGrows
<1>4. Meant => Said(n).q = n.q /\ Said(n).paths = n.paths
  BY SaidOf DEF VariantTerms
<1>5. IF A = {} THEN v = <<>> ELSE v = <<v[1]>> /\ v[1].paths = Effective(ns, t, term)
  BY DEF ViewHeld
<1>6. SUFFICES IF A2 = {} THEN v2 = <<>>
               ELSE v2 = <<v2[1]>> /\ v2[1].paths = Effective(Append(ns, x), t, term)
  BY DEF ViewHeld
<1> HIDE DEF v, v2, A, A2, Meant, n
<1>7. CASE ~Meant
  BY <1>1, <1>2, <1>3, <1>5, <1>7
<1>8. CASE Meant /\ (n.q = "none" \/ A = {})
  <2>1. v2 = <<Said(n)>>
    BY <1>1, <1>4, <1>5, <1>8, OneEntry DEF KeepDefault
  <2> QED
    BY <1>2, <1>3, <1>4, <1>8, <2>1, OneEntry
<1>9. CASE Meant /\ n.q # "none" /\ A # {}
  <2>1. v # <<>>
    BY <1>5, <1>9, OneEntry
  <2>2. v2 = v
    BY <1>1, <1>4, <1>9, <2>1 DEF KeepDefault
  <2> QED
    BY <1>2, <1>3, <1>5, <1>9, <2>2
<1> QED
  BY <1>7, <1>8, <1>9

(* Every sap:text names a property. *)
TextsInline(attrs) ==
  \A place : InlineOf(attrs, place, "Text") # <<>> => InlineOf(attrs, place, "Text")[1].paths # {}

LEMMA TextHolds ==
  ASSUME NEW m, Shaped(m), NEW m2, NEW ns \in Seq(Noted), NEW x \in Noted, x.note \in Notes,
         Taken(m, m2, x.note), NEW t \in Types, NEW p \in OwnProps[t], NEW attrs, NEW k \in Nat,
         x.schema <= k, TextHeld(m, ns, attrs, t, p, k),
         TextsInline(attrs)
  PROVE  TextHeld(m2, Append(ns, x), attrs, t, p, k)
<1> DEFINE n == x.note
           v == Value(m, <<t, p>>, "Text")
           v2 == Value(m2, <<t, p>>, "Text")
           T == TextOf(ns, attrs, t, p, k)
           T2 == TextOf(Append(ns, x), attrs, t, p, k)
           Meant == IsText(n, t, p)
<1>1. v2 = IF Meant THEN FillOnce(v, Said(n)) ELSE v
  BY TextTaken
<1>2. T2 = IF Meant /\ T = {} /\ InlineOf(attrs, <<t, p>>, "Text") = <<>> THEN n.paths ELSE T
  BY TextGrows
<1>3. T = {} => InlineOf(attrs, <<t, p>>, "Text") = <<>>
  BY DEF TextOf, TextsInline
<1>4. Meant => Said(n).paths = n.paths
  BY SaidOf DEF IsText, VariantTerms
<1>5. IF T = {} THEN v = <<>> ELSE v = <<v[1]>> /\ v[1].paths = T
  BY DEF TextHeld
<1>6. SUFFICES IF T2 = {} THEN v2 = <<>> ELSE v2 = <<v2[1]>> /\ v2[1].paths = T2
  BY DEF TextHeld
<1> HIDE DEF v, v2, T, T2, Meant, n
<1>7. CASE ~Meant
  BY <1>1, <1>2, <1>5, <1>7
<1>8. CASE Meant /\ T = {}
  <2>1. T2 = n.paths /\ v = <<>>
    BY <1>2, <1>3, <1>5, <1>8
  <2>2. v2 = IF n.paths = {} THEN <<>> ELSE <<Said(n)>>
    BY <1>1, <1>4, <1>8, <2>1 DEF FillOnce
  <2> QED
    BY <1>4, <1>8, <2>1, <2>2, OneEntry
<1>9. CASE Meant /\ T # {}
  <2>1. v # <<>>
    BY <1>5, <1>9, OneEntry
  <2>2. v2 = v /\ T2 = T
    BY <1>1, <1>2, <1>9, <2>1 DEF FillOnce
  <2> QED
    BY <1>5, <1>9, <2>2
<1> QED
  BY <1>7, <1>8, <1>9

LEMMA ArrangementHolds ==
  ASSUME NEW m, Shaped(m), NEW m2, NEW ns \in Seq(Noted), NEW x \in Noted, x.note \in Notes,
         Taken(m, m2, x.note), NEW t \in Types, NEW p \in OwnProps[t], NEW attrs, NEW k \in Nat,
         x.schema > k, ArrangementHeld(m, ns, attrs, t, p, k)
  PROVE  ArrangementHeld(m2, Append(ns, x), attrs, t, p, k)
<1> DEFINE n == x.note
           more == Append(ns, x)
           v == Value(m, <<t, p>>, "TextArrangement")
           v2 == Value(m2, <<t, p>>, "TextArrangement")
           N == Nested(ns, t, p)
           N2 == Nested(more, t, p)
           R == Reaching(ns, attrs, t, p, k)
           R2 == Reaching(more, attrs, t, p, k)
           Meant == IsText(n, t, p) /\ n.mark # "none"
<1>1. v2 = IF Meant THEN <<Entry("none", {}, n.mark)>> ELSE v
  BY ArrangementTaken
<1>2. R \in SUBSET (1..Len(ns)) /\ R2 = R
  BY ReachingGrows
<1>3. N \in SUBSET (1..Len(ns)) /\ N2 = IF Meant THEN N \cup {Len(ns) + 1} ELSE N
  <2> DEFINE O == On(ns, t, p, "Text")
             O2 == On(more, t, p, "Text")
  <2>1. /\ O \in SUBSET (1..Len(ns))
        /\ O2 = IF IsText(n, t, p) THEN O \cup {Len(ns) + 1} ELSE O
    BY OnGrows DEF IsText
  <2>2. /\ Len(ns) \in Nat /\ more[Len(ns) + 1] = x /\ \A i \in 1..Len(ns) : more[i] = ns[i]
    BY NoteAdded
  <2>3. Len(ns) + 1 \notin O
    BY <2>1, <2>2
  <2>4. N = {i \in O : ns[i].note.mark # "none"} /\ N2 = {i \in O2 : more[i].note.mark # "none"}
    BY DEF Nested
  <2> HIDE DEF O, O2, more, N, N2
  <2> QED
    BY <2>1, <2>2, <2>3, <2>4
<1>4. N # {} => more[Last(N)] = ns[Last(N)]
  <2> HIDE DEF N
  <2> QED
    BY <1>3, EndsStay
<1>5. R # {} => more[First(R)] = ns[First(R)]
  <2> HIDE DEF R
  <2> QED
    BY <1>2, EndsStay
<1>6. more[Last(N \cup {Len(ns) + 1})] = x
  <2> HIDE DEF N
  <2> QED
    BY <1>3, EndsGrow
<1>7. v = IF N # {} THEN <<Entry("none", {}, ns[Last(N)].note.mark)>>
          ELSE IF R # {} THEN <<Entry("none", {}, ns[First(R)].note.mark)>> ELSE <<>>
  BY DEF ArrangementHeld
<1>8. SUFFICES v2 = IF N2 # {} THEN <<Entry("none", {}, more[Last(N2)].note.mark)>>
                    ELSE IF R2 # {} THEN <<Entry("none", {}, more[First(R2)].note.mark)>> ELSE <<>>
  BY DEF ArrangementHeld
<1> HIDE DEF v, v2, N, N2, R, R2, Meant, more
<1>9. CASE Meant
  <2>1. N2 = N \cup {Len(ns) + 1}
    BY <1>3, <1>9
  <2> QED
    BY <1>1, <1>6, <1>9, <2>1
<1>10. CASE ~Meant
  BY <1>1, <1>2, <1>3, <1>4, <1>5, <1>7, <1>10
<1> QED
  BY <1>9, <1>10

-----------------------------------------------------------------------------
(* Values are lists of entries, whatever is merged into them. *)

IsEntry(e) == e = Entry(e.q, e.paths, e.mark)
IsList(v) == (\E T : v \in Seq(T)) /\ \A i \in DOMAIN v : IsEntry(v[i])
UniteTerms == {"SemanticKey", "ValueListReferences", "NonExpandable"}
PathsIn(v) == UNION {v[i].paths : i \in DOMAIN v}

LEMMA ListFacts ==
  ASSUME NEW v, IsList(v)
  PROVE  Len(v) \in Nat /\ DOMAIN v = 1..Len(v) /\ (v = <<>> <=> Len(v) = 0)
<1>1. PICK T : v \in Seq(T)
  BY DEF IsList
<1> QED
  BY <1>1

LEMMA EntryFacts ==
  ASSUME NEW q, NEW paths, NEW mark
  PROVE  /\ IsEntry(Entry(q, paths, mark)) /\ Entry(q, paths, mark).q = q
         /\ Entry(q, paths, mark).paths = paths /\ Entry(q, paths, mark).mark = mark
BY DEF IsEntry, Entry

LEMMA EntryUnited ==
  ASSUME NEW e, IsEntry(e), NEW more
  PROVE  [e EXCEPT !.paths = @ \cup more] = Entry(e.q, e.paths \cup more, e.mark)
<1> DEFINE u == [e EXCEPT !.paths = @ \cup more]
           w == Entry(e.q, e.paths \cup more, e.mark)
<1>1. DOMAIN e = {"q", "paths", "mark"}
  BY DEF IsEntry, Entry
<1>2. DOMAIN u = {"q", "paths", "mark"} /\ u.q = e.q /\ u.mark = e.mark /\ u.paths = e.paths \cup more
  BY <1>1
<1>3. DOMAIN w = {"q", "paths", "mark"} /\ w.q = e.q /\ w.mark = e.mark /\ w.paths = e.paths \cup more
  BY DEF Entry
<1>4. u = [f \in DOMAIN u |-> u[f]] /\ w = [f \in DOMAIN w |-> w[f]]
  BY DEF Entry
<1> HIDE DEF u, w
<1>5. u = w
  <2>1. \A f \in DOMAIN u : u[f] = w[f]
    BY <1>2, <1>3
  <2> QED
    BY <1>2, <1>3, <1>4, <2>1
<1> QED
  BY <1>5 DEF u, w

LEMMA SingleList ==
  ASSUME NEW e, IsEntry(e)
  PROVE  IsList(<<e>>) /\ Len(<<e>>) = 1 /\ PathsIn(<<e>>) = e.paths
<1>1. <<e>> \in Seq({e}) /\ DOMAIN <<e>> = {1} /\ <<e>>[1] = e
  OBVIOUS
<1>2. Len(<<e>>) = 1
  OBVIOUS
<1>3. PathsIn(<<e>>) = e.paths
  <2> DEFINE v == <<e>>
  <2>1. DOMAIN v = {1} /\ v[1] = e
    BY <1>1
  <2> HIDE DEF v
  <2>2. PathsIn(v) = e.paths
    BY <2>1 DEF PathsIn
  <2> QED
    BY <2>2 DEF v
<1>4. IsList(<<e>>)
  BY <1>1 DEF IsList
<1> QED
  BY <1>2, <1>3, <1>4

LEMMA NoEntries == IsList(<<>>) /\ Len(<<>>) = 0 /\ PathsIn(<<>>) = {}
<1>1. <<>> \in Seq({}) /\ DOMAIN <<>> = {}
  OBVIOUS
<1> QED
  BY <1>1 DEF IsList, PathsIn

(* One entry more. *)
Longer(w, v, e) ==
  /\ Len(w) = Len(v) + 1 /\ \E i \in DOMAIN w : w[i] = e
  /\ \A i \in DOMAIN v : \E j \in DOMAIN w : w[j] = v[i]
  /\ \A j \in DOMAIN w : w[j] = e \/ \E i \in DOMAIN v : w[j] = v[i]
Behind(w, v, e) == Longer(w, v, e) /\ (v # <<>> => w[1] = v[1])
InFront(w, v, e) == Longer(w, v, e) /\ w[1] = e

LEMMA AppendList ==
  ASSUME NEW v, IsList(v), NEW e, IsEntry(e)
  PROVE  IsList(Append(v, e)) /\ Append(v, e) # <<>> /\ Behind(Append(v, e), v, e)
<1> DEFINE w == Append(v, e)
<1>1. PICK T : v \in Seq(T)
  BY DEF IsList
<1>2. v \in Seq(T \cup {e})
  BY <1>1
<1>3. /\ w \in Seq(T \cup {e}) /\ Len(w) = Len(v) + 1 /\ w # <<>>
      /\ w[Len(v) + 1] = e /\ \A i \in 1..Len(v) : w[i] = v[i]
  BY <1>2, Appended
<1>4. Len(v) \in Nat /\ DOMAIN v = 1..Len(v) /\ DOMAIN w = 1..(Len(v) + 1) /\ (v = <<>> <=> Len(v) = 0)
  BY <1>1, <1>3
<1> HIDE DEF w
<1>5. ASSUME NEW j \in DOMAIN w PROVE w[j] = e \/ \E i \in DOMAIN v : w[j] = v[i]
  <2>1. j = Len(v) + 1 \/ j \in 1..Len(v)
    BY <1>4
  <2> QED
    BY <1>3, <1>4, <2>1
<1>6. IsList(w)
  BY <1>3, <1>5 DEF IsList
<1>7. (\E i \in DOMAIN w : w[i] = e) /\ \A i \in DOMAIN v : \E j \in DOMAIN w : w[j] = v[i]
  BY <1>3, <1>4
<1>8. v # <<>> => w[1] = v[1]
  BY <1>3, <1>4
<1> QED
  BY <1>3, <1>5, <1>6, <1>7, <1>8 DEF w, Behind, Longer

LEMMA FrontList ==
  ASSUME NEW v, IsList(v), NEW e, IsEntry(e)
  PROVE  IsList(<<e>> \o v) /\ <<e>> \o v # <<>> /\ InFront(<<e>> \o v, v, e)
<1> DEFINE w == <<e>> \o v
<1>1. PICK T : v \in Seq(T)
  BY DEF IsList
<1>2. v \in Seq(T \cup {e}) /\ <<e>> \in Seq(T \cup {e}) /\ Len(<<e>>) = 1 /\ <<e>>[1] = e
  BY <1>1
<1>3. Len(v) \in Nat /\ DOMAIN v = 1..Len(v)
  BY <1>1
<1>4. /\ w \in Seq(T \cup {e}) /\ Len(w) = Len(v) + 1
      /\ w[1] = e /\ \A i \in 1..Len(v) : w[i + 1] = v[i]
  BY <1>2, <1>3
<1>5. DOMAIN w = 1..(Len(v) + 1) /\ w # <<>>
  BY <1>3, <1>4
<1> HIDE DEF w
<1>6. ASSUME NEW j \in DOMAIN w PROVE w[j] = e \/ \E i \in DOMAIN v : w[j] = v[i]
  <2>1. CASE j = 1
    BY <1>4, <2>1
  <2>2. CASE j # 1
    <3>1. j - 1 \in 1..Len(v) /\ (j - 1) + 1 = j
      BY <1>3, <1>5, <2>2
    <3> QED
      BY <1>3, <1>4, <3>1
  <2> QED
    BY <2>1, <2>2
<1>7. IsList(w)
  BY <1>4, <1>6 DEF IsList
<1>8. ASSUME NEW i \in DOMAIN v PROVE \E j \in DOMAIN w : w[j] = v[i]
  <2>1. i + 1 \in DOMAIN w /\ w[i + 1] = v[i]
    BY <1>3, <1>4, <1>5
  <2> QED
    BY <2>1
<1>9. \E i \in DOMAIN w : w[i] = e
  <2>1. 1 \in DOMAIN w
    BY <1>3, <1>5
  <2> QED
    BY <1>4, <2>1
<1> QED
  BY <1>4, <1>5, <1>6, <1>7, <1>8, <1>9 DEF w, InFront, Longer

FillTerms == {"Text", "Unit", "SemanticObject", "RequestAtLeast", "SortOrder"}

LEMMA MergeIs ==
  ASSUME NEW term, NEW old, NEW e
  PROVE  Merge(term, old, e) =
           IF term \in FillTerms THEN FillOnce(old, e)
           ELSE IF term \in {"LineItem", "SelectionFields"} THEN KeepDefault(old, e)
           ELSE IF term = "ValueList" THEN OnePerQualifier(old, e)
           ELSE IF term = "SelectionVariant" THEN DefaultInFront(old, e)
           ELSE IF term = "SelectionPresentationVariant" THEN InlineVariant(old, e)
           ELSE IF term \in UniteTerms THEN Unite(old, e) ELSE Replace(term, old, e)
BY DEF Merge, FillTerms, UniteTerms

LEMMA MergeList ==
  ASSUME NEW term, NEW old, IsList(old), NEW e, IsEntry(e)
  PROVE  /\ IsList(Merge(term, old, e))
         /\ ~Empties(term, e) =>
              /\ old # <<>> => Merge(term, old, e) # <<>>
              /\ e.paths # {} \/ term \notin FillTerms \cup UniteTerms => Merge(term, old, e) # <<>>
<1> DEFINE Fine(w) == /\ IsList(w) /\ (old # <<>> => w # <<>>)
                      /\ e.paths # {} \/ term \notin FillTerms \cup UniteTerms => w # <<>>
<1>1. IsList(<<e>>) /\ <<e>> # <<>>
  BY SingleList, OneEntry
<1>2. /\ IsList(Append(old, e)) /\ Append(old, e) # <<>>
      /\ IsList(<<e>> \o old) /\ <<e>> \o old # <<>>
  BY AppendList, FrontList
<1>3. Len(old) \in Nat /\ DOMAIN old = 1..Len(old) /\ (old = <<>> <=> Len(old) = 0)
  BY ListFacts
<1>4. CASE term \in FillTerms
  <2>1. Merge(term, old, e) = FillOnce(old, e)
    BY <1>4, MergeIs
  <2>2. Fine(FillOnce(old, e))
    BY <1>1, <1>4 DEF FillOnce
  <2> QED
    BY <2>1, <2>2
<1>5. CASE term \in {"LineItem", "SelectionFields"}
  <2>1. Merge(term, old, e) = KeepDefault(old, e)
    BY <1>5, MergeIs DEF FillTerms
  <2>2. Fine(KeepDefault(old, e))
    BY <1>1 DEF KeepDefault
  <2> QED
    BY <2>1, <2>2
<1>6. CASE term = "ValueList"
  <2>1. Merge(term, old, e) = OnePerQualifier(old, e)
    BY <1>6, MergeIs DEF FillTerms
  <2>2. Fine(OnePerQualifier(old, e))
    BY <1>2, <1>3 DEF OnePerQualifier
  <2> QED
    BY <2>1, <2>2
<1>7. CASE term \in VariantTerms
  <2>1. Merge(term, old, e) = DefaultInFront(old, e) \/ Merge(term, old, e) = InlineVariant(old, e)
    BY <1>7, MergeIs DEF FillTerms, VariantTerms
  <2>2. Fine(DefaultInFront(old, e))
    BY <1>2 DEF DefaultInFront
  <2>3. Fine(InlineVariant(old, e))
    BY <1>3, <2>2 DEF InlineVariant
  <2> QED
    BY <2>1, <2>2, <2>3
<1>8. CASE term \in UniteTerms
  <2>1. Merge(term, old, e) = Unite(old, e)
    BY <1>8, MergeIs DEF FillTerms, UniteTerms
  <2> DEFINE u == [old[1] EXCEPT !.paths = @ \cup e.paths]
  <2>2. old # <<>> => IsEntry(u)
    <3>1. SUFFICES ASSUME old # <<>> PROVE IsEntry(u)
      OBVIOUS
    <3>2. IsEntry(old[1])
      BY <1>3, <3>1 DEF IsList
    <3>3. u = Entry(old[1].q, old[1].paths \cup e.paths, old[1].mark)
      BY <3>2, EntryUnited
    <3> QED
      BY <3>3, EntryFacts
  <2>3. old # <<>> => IsList(<<u>>) /\ <<u>> # <<>>
    <3> HIDE DEF u
    <3> QED
      BY <2>2, SingleList, OneEntry
  <2>4. Unite(old, e) = IF e.paths = {} THEN old ELSE IF old = <<>> THEN <<e>> ELSE <<u>>
    BY DEF Unite
  <2> HIDE DEF u
  <2>5. Fine(Unite(old, e))
    BY <1>1, <1>8, <2>3, <2>4
  <2> QED
    BY <2>1, <2>5
<1>9. CASE term \notin FillTerms \cup {"LineItem", "SelectionFields", "ValueList"}
                      \cup VariantTerms \cup UniteTerms
  <2>1. Merge(term, old, e) = IF Empties(term, e) THEN <<>> ELSE <<e>>
    BY <1>9, MergeIs DEF Replace, VariantTerms
  <2> QED
    BY <1>1, <2>1, NoEntries
<1> QED
  BY <1>4, <1>5, <1>6, <1>7, <1>8, <1>9

LEMMA MergeUnites ==
  ASSUME NEW term \in UniteTerms, NEW old, IsList(old), Len(old) <= 1, NEW e, IsEntry(e)
  PROVE  /\ Len(Merge(term, old, e)) <= 1 /\ PathsIn(old) \subseteq PathsIn(Merge(term, old, e))
         /\ e.paths \subseteq PathsIn(Merge(term, old, e))
<1> DEFINE u == [old[1] EXCEPT !.paths = @ \cup e.paths]
<1>1. Merge(term, old, e) = IF e.paths = {} THEN old ELSE IF old = <<>> THEN <<e>> ELSE <<u>>
  BY MergeIs DEF FillTerms, UniteTerms, Unite
<1>2. Len(<<e>>) = 1 /\ PathsIn(<<e>>) = e.paths
  BY SingleList
<1>3. CASE e.paths = {} \/ old = <<>>
  BY <1>1, <1>2, <1>3, NoEntries
<1>4. CASE e.paths # {} /\ old # <<>>
  <2>1. Len(old) \in Nat /\ DOMAIN old = 1..Len(old) /\ Len(old) # 0
    BY <1>4, ListFacts
  <2>2. DOMAIN old = {1} /\ IsEntry(old[1])
    <3>1. Len(old) = 1
      BY <2>1
    <3> QED
      BY <2>1, <3>1 DEF IsList
  <2>3. u = Entry(old[1].q, old[1].paths \cup e.paths, old[1].mark)
    BY <2>2, EntryUnited
  <2>4. IsEntry(u) /\ u.paths = old[1].paths \cup e.paths
    BY <2>3, EntryFacts
  <2> HIDE DEF u
  <2>5. Len(<<u>>) = 1 /\ PathsIn(<<u>>) = u.paths
    BY <2>4, SingleList
  <2>6. PathsIn(old) = old[1].paths
    BY <2>2 DEF PathsIn
  <2> QED
    BY <1>1, <1>4, <2>4, <2>5, <2>6
<1> QED
  BY <1>3, <1>4

-----------------------------------------------------------------------------
(* Nothing that was written is lost. *)

Listed(m) ==
  \A place, term : /\ IsList(Value(m, place, term))
                   /\ term \in UniteTerms => Len(Value(m, place, term)) <= 1

LEMMA NamedIs ==
  ASSUME NEW m, NEW place, NEW term
  PROVE  Named(m, place, term) = PathsIn(Value(m, place, term))
BY DEF Named, PathsIn

LEMMA SaidEntry == ASSUME NEW n PROVE IsEntry(Said(n))
<1>1. CASE n.term = "Restricts"
  BY <1>1, EntryFacts DEF Said
<1>2. CASE n.term # "Restricts"
  BY <1>2, EntryFacts DEF Said
<1> QED
  BY <1>1, <1>2

LEMMA SaidEmpties == ASSUME NEW n \in Notes PROVE Empties(n.term, Said(n)) <=> Empties(n.term, n)
<1>1. n.term \in SetFlags \cup {"ISOCurrency"} => n.term \notin VariantTerms \cup {"Restricts"}
  BY DEF SetFlags, VariantTerms
<1>2. n.term \in SetFlags \cup {"ISOCurrency"} => Said(n).mark = n.mark /\ Said(n).paths = n.paths
  BY <1>1, SaidOf
<1> QED
  BY <1>2 DEF Empties

LEMMA SlotTerm ==
  ASSUME NEW n \in Notes, NEW t, NEW s \in Slots(n, t)
  PROVE  s = <<s[1], s[2]>> /\ (s[2] \in UniteTerms \/ n.term \in UniteTerms => s[2] = n.term)
<1>1. CASE n.term \in PropertyTerms \cup {"Readable"}
  <2>1. s = <<n.at, n.term>>
    BY <1>1, SlotsOf
  <2> QED
    BY <2>1
<1>2. CASE n.term = "Restricts"
  <2>1. Slots(n, t) = {<< <<t, p>>, n.mark>> : p \in n.paths \cap OwnProps[t]}
    BY <1>2, SlotsOf
  <2>2. PICK p : s = << <<t, p>>, n.mark>>
    BY <2>1
  <2>3. n.mark \notin UniteTerms
    BY <1>2, NoteShape DEF Restrictions, UniteTerms
  <2> QED
    BY <1>2, <2>2, <2>3 DEF UniteTerms
<1>3. CASE n.term = "SelectionPresentationVariant"
  <2>1. s = << <<t>>, "SelectionVariant">>
    BY <1>3, SlotsOf
  <2> QED
    BY <1>3, <2>1 DEF UniteTerms
<1>4. CASE n.term \notin PropertyTerms \cup {"Readable", "Restricts", "SelectionPresentationVariant"}
  <2>1. s = << <<t>>, n.term>>
    BY <1>4, SlotsOf
  <2> QED
    BY <2>1
<1> QED
  BY <1>1, <1>2, <1>3, <1>4

(* One slot after a note. *)
LEMMA WrittenSlot ==
  ASSUME NEW m, Shaped(m), Listed(m), NEW n \in Notes, NEW t, NEW place, NEW term
  PROVE  LET old == Value(m, place, term)
             new == Value(Written(m, n, t), place, term)
         IN  /\ IsList(new)
             /\ ~(<<place, term>> \in Slots(n, t) /\ Empties(n.term, n)) => (old # <<>> => new # <<>>)
             /\ term \in UniteTerms => Len(new) <= 1 /\ PathsIn(old) \subseteq PathsIn(new)
             /\ <<place, term>> \in Slots(n, t) /\ ~Nests(n) => new = Merge(n.term, old, Said(n))
<1> DEFINE old == Value(m, place, term)
           new == Value(Written(m, n, t), place, term)
           nested == <<Entry("none", {}, n.mark)>>
<1>1. new = IF Nests(n) /\ place = n.at /\ term = "TextArrangement" THEN nested
            ELSE IF <<place, term>> \in Slots(n, t) THEN Merge(n.term, old, Said(n)) ELSE old
  BY WrittenValue
<1>2. IsList(old) /\ (term \in UniteTerms => Len(old) <= 1)
  BY DEF Listed
<1>3. IsList(nested) /\ nested # <<>>
  BY EntryFacts, SingleList, OneEntry
<1>4. "TextArrangement" \notin UniteTerms
  BY DEF UniteTerms
<1>5. IsEntry(Said(n))
  BY SaidEntry
<1>6. <<place, term>> \in Slots(n, t) /\ term \in UniteTerms => term = n.term
  <2>1. SUFFICES ASSUME <<place, term>> \in Slots(n, t), term \in UniteTerms PROVE term = n.term
    OBVIOUS
  <2> DEFINE s == <<place, term>>
  <2>2. s[2] = term
    OBVIOUS
  <2>3. s \in Slots(n, t)
    BY <2>1
  <2> HIDE DEF s
  <2>4. s[2] \in UniteTerms \/ n.term \in UniteTerms => s[2] = n.term
    BY <2>3, SlotTerm
  <2> QED
    BY <2>1, <2>2, <2>4
<1> HIDE DEF old, new, nested
<1>7. /\ IsList(Merge(n.term, old, Said(n)))
      /\ ~Empties(n.term, n) => (old # <<>> => Merge(n.term, old, Said(n)) # <<>>)
  BY <1>2, <1>5, MergeList, SaidEmpties
<1>8. <<place, term>> \in Slots(n, t) /\ term \in UniteTerms =>
        /\ Len(Merge(n.term, old, Said(n))) <= 1
        /\ PathsIn(old) \subseteq PathsIn(Merge(n.term, old, Said(n)))
  BY <1>2, <1>5, <1>6, MergeUnites
<1>9. /\ IsList(new)
      /\ ~(<<place, term>> \in Slots(n, t) /\ Empties(n.term, n)) => (old # <<>> => new # <<>>)
  BY <1>1, <1>2, <1>3, <1>7
<1>10. term \in UniteTerms => Len(new) <= 1 /\ PathsIn(old) \subseteq PathsIn(new)
  BY <1>1, <1>2, <1>4, <1>8
<1>11. <<place, term>> \in Slots(n, t) /\ ~Nests(n) => new = Merge(n.term, old, Said(n))
  BY <1>1
<1> QED
  BY <1>9, <1>10, <1>11 DEF old, new

(* A note that takes the value out of a slot. *)
Empty(n, place, term) ==
  Empties(n.term, n) /\ \E u \in Types : MeantFor(n, u) /\ <<place, term>> \in Slots(n, u)

LEMMA TakenListed ==
  ASSUME NEW m, Shaped(m), Listed(m), NEW m2, NEW n \in Notes, Taken(m, m2, n)
  PROVE  /\ Listed(m2)
         /\ \A place, term : /\ Given(m, place, term) => Given(m2, place, term) \/ Empty(n, place, term)
                             /\ term \in UniteTerms =>
                                  Named(m, place, term) \subseteq Named(m2, place, term)
<1>1. ASSUME NEW place, NEW term
      PROVE  /\ IsList(Value(m2, place, term))
             /\ term \in UniteTerms => Len(Value(m2, place, term)) <= 1
             /\ Value(m, place, term) # <<>> =>
                  Value(m2, place, term) # <<>> \/ Empty(n, place, term)
             /\ term \in UniteTerms =>
                  PathsIn(Value(m, place, term)) \subseteq PathsIn(Value(m2, place, term))
  <2>1. CASE m2 = m
    BY <2>1 DEF Listed
  <2>2. ASSUME NEW u \in Types, MeantFor(n, u), m2 = Written(m, n, u)
        PROVE  /\ IsList(Value(m2, place, term))
               /\ term \in UniteTerms => Len(Value(m2, place, term)) <= 1
               /\ Value(m, place, term) # <<>> =>
                    Value(m2, place, term) # <<>> \/ Empty(n, place, term)
               /\ term \in UniteTerms =>
                    PathsIn(Value(m, place, term)) \subseteq PathsIn(Value(m2, place, term))
    BY <2>2, WrittenSlot DEF Empty
  <2> QED
    BY <2>1, <2>2 DEF Taken
<1> QED
  BY <1>1, NamedIs DEF Listed, Given

NoteLost(m, ns, i, t) ==
  LET n == ns[i].note
  IN  MeantFor(n, t) /\ n.term \notin {"Text", "TextArrangement"} =>
        \A s \in Slots(n, t) :
          /\ n.term \in UniteTerms => n.paths \subseteq Named(m, s[1], s[2])
          /\ n.paths # {} \/ n.term \notin {"SemanticKey", "Unit", "SemanticObject",
                                            "ValueListReferences", "NonExpandable"}
               => Given(m, s[1], s[2]) \/ Cleared(ns, i, s)

LEMMA LostIs ==
  ASSUME NEW m, NEW ns, NEW t
  PROVE  NothingLost(m, ns, t) <=> \A i \in DOMAIN ns : NoteLost(m, ns, i, t)
BY DEF NothingLost, NoteLost, UniteTerms

LEMMA NewNoteKept ==
  ASSUME NEW m, Shaped(m), Listed(m), NEW m2, NEW n \in Notes, Taken(m, m2, n), NEW t \in Types
  PROVE  MeantFor(n, t) /\ n.term \notin {"Text", "TextArrangement"} => \A s \in Slots(n, t) :
           /\ n.term \in UniteTerms => n.paths \subseteq Named(m2, s[1], s[2])
           /\ n.paths # {} \/ n.term \notin {"SemanticKey", "Unit", "SemanticObject",
                                             "ValueListReferences", "NonExpandable"}
                => Given(m2, s[1], s[2]) \/ Empties(n.term, n)
<1>1. SUFFICES ASSUME MeantFor(n, t), n.term \notin {"Text", "TextArrangement"}, NEW s \in Slots(n, t)
               PROVE  /\ n.term \in UniteTerms => n.paths \subseteq Named(m2, s[1], s[2])
                      /\ n.paths # {} \/ n.term \notin {"SemanticKey", "Unit", "SemanticObject",
                                                        "ValueListReferences", "NonExpandable"}
                           => Given(m2, s[1], s[2]) \/ Empties(n.term, n)
  OBVIOUS
<1> DEFINE old == Value(m, s[1], s[2])
           new == Value(m2, s[1], s[2])
<1>2. m2 = Written(m, n, t)
  <2>1. Typed(n)
    BY <1>1, MeantPlaces DEF Typed
  <2>2. PICK u \in Types : MeantFor(n, u) /\ m2 = Written(m, n, u)
    BY <1>1, <2>1 DEF Taken
  <2> QED
    BY <1>1, <2>2, OneTarget
<1>3. s = <<s[1], s[2]>> /\ (n.term \in UniteTerms => s[2] = n.term)
  BY SlotTerm
<1>4. ~Nests(n) /\ <<s[1], s[2]>> \in Slots(n, t)
  BY <1>1, <1>3 DEF Nests
<1>5. new = Merge(n.term, old, Said(n))
  BY <1>2, <1>4, WrittenSlot
<1>6. IsList(old) /\ (n.term \in UniteTerms => Len(old) <= 1) /\ IsEntry(Said(n))
  BY <1>3, SaidEntry DEF Listed
<1>7. n.term \in UniteTerms \cup FillTerms => Said(n).paths = n.paths
  BY SaidOf DEF UniteTerms, FillTerms, VariantTerms
<1> HIDE DEF old, new
<1>8. n.term \in UniteTerms => n.paths \subseteq Named(m2, s[1], s[2])
  <2>1. n.term \in UniteTerms => Said(n).paths \subseteq PathsIn(Merge(n.term, old, Said(n)))
    BY <1>6, MergeUnites
  <2> QED
    BY <1>5, <1>7, <2>1, NamedIs DEF new
<1>9. ASSUME n.paths # {} \/ n.term \notin {"SemanticKey", "Unit", "SemanticObject",
                                            "ValueListReferences", "NonExpandable"},
             ~Empties(n.term, n)
      PROVE  new # <<>>
  <2>1. n.term \in {"RequestAtLeast", "SortOrder"} => n.paths # {}
    BY <1>1 DEF MeantFor, Usable, HasPaths
  <2>2. n.paths # {} \/ n.term \notin FillTerms \cup UniteTerms
    BY <1>1, <1>9, <2>1 DEF FillTerms, UniteTerms
  <2>3. Said(n).paths # {} \/ n.term \notin FillTerms \cup UniteTerms
    BY <1>7, <2>2
  <2>4. Merge(n.term, old, Said(n)) # <<>>
    BY <1>6, <1>9, <2>3, MergeList, SaidEmpties
  <2> QED
    BY <1>5, <2>4
<1> QED
  BY <1>8, <1>9 DEF Given, new

LEMMA LostHolds ==
  ASSUME NEW m, Shaped(m), Listed(m), NEW m2, NEW ns \in Seq(Noted), NEW x \in Noted,
         x.note \in Notes, Taken(m, m2, x.note), NEW t \in Types, NothingLost(m, ns, t)
  PROVE  NothingLost(m2, Append(ns, x), t)
<1> DEFINE more == Append(ns, x)
<1>1. /\ DOMAIN more = DOMAIN ns \cup {Len(ns) + 1} /\ more[Len(ns) + 1] = x
      /\ \A i \in DOMAIN ns : more[i] = ns[i] /\ ns[i] \in Noted
  BY NoteAdded
<1> HIDE DEF more
<1>2. \A i \in DOMAIN ns : ns[i].note \in Notes /\ i <= Len(ns) + 1
  BY <1>1 DEF Noted
<1>3. ASSUME NEW i \in DOMAIN ns, NEW n \in Notes, n = ns[i].note PROVE NoteLost(m2, more, i, t)
  <2>1. \A place, term :
          /\ Given(m, place, term) => Given(m2, place, term) \/ Empty(x.note, place, term)
          /\ term \in UniteTerms => Named(m, place, term) \subseteq Named(m2, place, term)
    BY TakenListed
  <2>2. more[i].note = n /\ NoteLost(m, ns, i, t)
    BY <1>1, <1>3, LostIs
  <2>3. SUFFICES ASSUME MeantFor(n, t), n.term \notin {"Text", "TextArrangement"}, NEW s \in Slots(n, t)
                 PROVE  /\ n.term \in UniteTerms => n.paths \subseteq Named(m2, s[1], s[2])
                        /\ n.paths # {} \/ n.term \notin {"SemanticKey", "Unit", "SemanticObject",
                                                          "ValueListReferences", "NonExpandable"}
                             => Given(m2, s[1], s[2]) \/ Cleared(more, i, s)
    BY <2>2 DEF NoteLost
  <2>4. s = <<s[1], s[2]>> /\ (n.term \in UniteTerms => s[2] \in UniteTerms)
    BY SlotTerm
  <2>5. Cleared(ns, i, s) => Cleared(more, i, s)
    BY <1>1 DEF Cleared
  <2>6. Empty(x.note, s[1], s[2]) => Cleared(more, i, s)
    BY <1>1, <1>2, <2>4 DEF Cleared, Empty
  <2>7. /\ n.term \in UniteTerms => n.paths \subseteq Named(m, s[1], s[2])
        /\ n.paths # {} \/ n.term \notin {"SemanticKey", "Unit", "SemanticObject",
                                          "ValueListReferences", "NonExpandable"}
             => Given(m, s[1], s[2]) \/ Cleared(ns, i, s)
    BY <1>3, <2>2, <2>3 DEF NoteLost
  <2>8. n.term \in UniteTerms => n.paths \subseteq Named(m2, s[1], s[2])
    BY <2>1, <2>4, <2>7
  <2> QED
    BY <2>1, <2>5, <2>6, <2>7, <2>8
<1>4. ASSUME NEW i, i = Len(ns) + 1 PROVE NoteLost(m2, more, i, t)
  <2>1. more[i].note = x.note /\ i \in DOMAIN more /\ i <= i
    BY <1>1, <1>4
  <2>2. \A s : MeantFor(x.note, t) /\ Empties(x.note.term, x.note) /\ s \in Slots(x.note, t)
          => Cleared(more, i, s)
    BY <2>1 DEF Cleared
  <2> QED
    BY <2>1, <2>2, NewNoteKept DEF NoteLost
<1>5. \A i \in DOMAIN more : NoteLost(m2, more, i, t)
  BY <1>1, <1>2, <1>3, <1>4
<1>6. NothingLost(m2, more, t)
  BY <1>5, LostIs
<1> QED
  BY <1>6 DEF more

-----------------------------------------------------------------------------
(* Variants. *)

SaidAt(ns, I) == {Said(ns[i].note) : i \in I}
VariantsKept(v, written, inlined, most) ==
  /\ written \subseteq {v[i] : i \in DOMAIN v}
  /\ \A e \in inlined : \E i \in DOMAIN v : v[i].q = e.q
  /\ Len(v) <= most
  /\ (\E i \in DOMAIN v : v[i].q = "none") => v[1].q = "none"

LEMMA VariantsMeant ==
  ASSUME NEW m, NEW ns, NEW t
  PROVE  VariantsAsMeant(m, ns, t) <=>
           VariantsKept(Value(m, <<t>>, "SelectionVariant"),
                        SaidAt(ns, About(ns, t, "SelectionVariant")),
                        SaidAt(ns, About(ns, t, "SelectionPresentationVariant")),
                        Cardinality(About(ns, t, "SelectionVariant"))
                          + Cardinality(About(ns, t, "SelectionPresentationVariant")))
BY DEF VariantsAsMeant, VariantsKept, SaidAt

LEMMA FrontKept ==
  ASSUME NEW v, IsList(v), NEW e, IsEntry(e), NEW written, NEW inlined, NEW most \in Nat,
         VariantsKept(v, written, inlined, most)
  PROVE  /\ VariantsKept(DefaultInFront(v, e), written \cup {e}, inlined, most + 1)
         /\ VariantsKept(DefaultInFront(v, e), written, inlined \cup {e}, most + 1)
<1> DEFINE w == DefaultInFront(v, e)
<1>1. Len(v) \in Nat /\ DOMAIN v = 1..Len(v) /\ (v = <<>> <=> Len(v) = 0)
  BY ListFacts
<1>2. /\ Len(w) = Len(v) + 1 /\ \E i \in DOMAIN w : w[i] = e
      /\ \A i \in DOMAIN v : \E j \in DOMAIN w : w[j] = v[i]
      /\ \A j \in DOMAIN w : w[j] = e \/ \E i \in DOMAIN v : w[j] = v[i]
      /\ e.q = "none" => w[1] = e
      /\ e.q # "none" /\ v # <<>> => w[1] = v[1]
  <2>1. CASE e.q = "none"
    <3>1. w = <<e>> \o v
      BY <2>1 DEF DefaultInFront
    <3>2. InFront(w, v, e)
      BY <3>1, FrontList
    <3> QED
      BY <2>1, <3>2 DEF InFront, Longer
  <2>2. CASE e.q # "none"
    <3>1. w = Append(v, e)
      BY <2>2 DEF DefaultInFront
    <3>2. Behind(w, v, e)
      BY <3>1, AppendList
    <3> QED
      BY <2>2, <3>2 DEF Behind, Longer
  <2> QED
    BY <2>1, <2>2
<1> HIDE DEF w
<1>3. written \subseteq {w[i] : i \in DOMAIN w} /\ e \in {w[i] : i \in DOMAIN w}
  BY <1>2 DEF VariantsKept
<1>4. \A f \in inlined \cup {e} : \E i \in DOMAIN w : w[i].q = f.q
  <2>1. \A f \in inlined : \E i \in DOMAIN v : v[i].q = f.q
    BY DEF VariantsKept
  <2> QED
    BY <1>2, <2>1
<1>5. Len(w) <= most + 1
  BY <1>1, <1>2 DEF VariantsKept
<1>6. (\E i \in DOMAIN w : w[i].q = "none") => w[1].q = "none"
  <2>1. SUFFICES ASSUME NEW j \in DOMAIN w, w[j].q = "none", e.q # "none" PROVE w[1].q = "none"
    BY <1>2
  <2>2. PICK i \in DOMAIN v : w[j] = v[i]
    BY <1>2, <2>1
  <2>3. v[1].q = "none"
    BY <2>1, <2>2 DEF VariantsKept
  <2>4. v # <<>>
    BY <1>1, <2>2
  <2> QED
    BY <1>2, <2>1, <2>3, <2>4
<1> QED
  BY <1>3, <1>4, <1>5, <1>6 DEF VariantsKept, w

LEMMA InlineKept ==
  ASSUME NEW v, IsList(v), NEW e, IsEntry(e), NEW written, NEW inlined, NEW most \in Nat,
         VariantsKept(v, written, inlined, most)
  PROVE  VariantsKept(InlineVariant(v, e), written, inlined \cup {e}, most + 1)
<1>1. CASE e.q # "none" /\ \E i \in DOMAIN v : v[i].q = e.q
  <2>1. InlineVariant(v, e) = v
    BY <1>1 DEF InlineVariant
  <2>2. Len(v) \in Nat
    BY ListFacts
  <2>3. Len(v) <= most + 1
    BY <2>2 DEF VariantsKept
  <2> QED
    BY <1>1, <2>1, <2>3 DEF VariantsKept
<1>2. CASE ~(e.q # "none" /\ \E i \in DOMAIN v : v[i].q = e.q)
  <2>1. InlineVariant(v, e) = DefaultInFront(v, e)
    BY <1>2 DEF InlineVariant
  <2> QED
    BY <2>1, FrontKept
<1> QED
  BY <1>1, <1>2

(* What is said at some positions, with one more note. *)
LEMMA SaidGrows ==
  ASSUME NEW ns \in Seq(Noted), NEW x \in Noted, NEW t, NEW term
  PROVE  LET A == About(ns, t, term)
             B == About(Append(ns, x), t, term)
             meant == x.note.term = term /\ MeantFor(x.note, t)
         IN  /\ SaidAt(Append(ns, x), B) =
                  SaidAt(ns, A) \cup IF meant THEN {Said(x.note)} ELSE {}
             /\ Cardinality(A) \in Nat
             /\ Cardinality(B) = Cardinality(A) + IF meant THEN 1 ELSE 0
<1> DEFINE A == About(ns, t, term)
           more == Append(ns, x)
           B == About(more, t, term)
           Meant == x.note.term = term /\ MeantFor(x.note, t)
<1>1. /\ A \in SUBSET (1..Len(ns)) /\ Len(ns) \in Nat
      /\ B = IF Meant THEN A \cup {Len(ns) + 1} ELSE A
  BY AboutGrows
<1>2. more[Len(ns) + 1] = x /\ \A i \in 1..Len(ns) : more[i] = ns[i]
  BY NoteAdded
<1>3. Len(ns) + 1 \notin A
  BY <1>1
<1> HIDE DEF A, B, more, Meant
<1>4. SaidAt(more, B) = SaidAt(ns, A) \cup IF Meant THEN {Said(x.note)} ELSE {}
  <2>1. CASE Meant
    BY <1>1, <1>2, <2>1 DEF SaidAt
  <2>2. CASE ~Meant
    BY <1>1, <1>2, <2>2 DEF SaidAt
  <2> QED
    BY <2>1, <2>2
<1>5. IsFiniteSet(A) /\ Cardinality(A) \in Nat
  <2>1. IsFiniteSet(1..Len(ns))
    BY <1>1, FS_Interval
  <2>2. IsFiniteSet(A)
    BY <1>1, <2>1, FS_Subset
  <2> QED
    BY <2>2, FS_CardinalityType
<1>6. Cardinality(A \cup {Len(ns) + 1}) = Cardinality(A) + 1
  BY <1>3, <1>5, FS_AddElement
<1>7. Cardinality(B) = Cardinality(A) + IF Meant THEN 1 ELSE 0
  BY <1>1, <1>5, <1>6
<1> QED
  BY <1>4, <1>5, <1>7 DEF A, B, more, Meant

LEMMA VariantHolds ==
  ASSUME NEW m, Shaped(m), Listed(m), NEW m2, NEW ns \in Seq(Noted), NEW x \in Noted,
         x.note \in Notes, Taken(m, m2, x.note), NEW t \in Types, VariantsAsMeant(m, ns, t)
  PROVE  VariantsAsMeant(m2, Append(ns, x), t)
<1> DEFINE n == x.note
           more == Append(ns, x)
           v == Value(m, <<t>>, "SelectionVariant")
           v2 == Value(m2, <<t>>, "SelectionVariant")
           W == About(ns, t, "SelectionVariant")
           I == About(ns, t, "SelectionPresentationVariant")
           W2 == About(more, t, "SelectionVariant")
           I2 == About(more, t, "SelectionPresentationVariant")
           sW == SaidAt(ns, W)
           sI == SaidAt(ns, I)
           size == Cardinality(W) + Cardinality(I)
<1>1. v2 = IF n.term = "SelectionVariant" /\ MeantFor(n, t) THEN DefaultInFront(v, Said(n))
           ELSE IF n.term = "SelectionPresentationVariant" /\ MeantFor(n, t)
           THEN InlineVariant(v, Said(n)) ELSE v
  BY VariantTaken
<1>2. /\ SaidAt(more, W2) =
           sW \cup IF n.term = "SelectionVariant" /\ MeantFor(n, t) THEN {Said(n)} ELSE {}
      /\ Cardinality(W) \in Nat
      /\ Cardinality(W2) =
           Cardinality(W) + IF n.term = "SelectionVariant" /\ MeantFor(n, t) THEN 1 ELSE 0
  BY SaidGrows
<1>3. /\ SaidAt(more, I2) =
           sI \cup IF n.term = "SelectionPresentationVariant" /\ MeantFor(n, t) THEN {Said(n)} ELSE {}
      /\ Cardinality(I) \in Nat
      /\ Cardinality(I2) = Cardinality(I)
           + IF n.term = "SelectionPresentationVariant" /\ MeantFor(n, t) THEN 1 ELSE 0
  BY SaidGrows
<1>4. IsList(v) /\ IsEntry(Said(n))
  BY SaidEntry DEF Listed
<1>5. VariantsKept(v, sW, sI, size)
  BY VariantsMeant
<1>6. SUFFICES VariantsKept(v2, SaidAt(more, W2), SaidAt(more, I2), Cardinality(W2) + Cardinality(I2))
  BY VariantsMeant
<1> HIDE DEF n, more, v, v2, W, I, W2, I2, sW, sI
<1>7. size \in Nat
  BY <1>2, <1>3
<1>8. CASE n.term = "SelectionVariant" /\ MeantFor(n, t)
  <2>1. VariantsKept(DefaultInFront(v, Said(n)), sW \cup {Said(n)}, sI, size + 1)
    <3> HIDE DEF size
    <3> QED
      BY <1>4, <1>5, <1>7, FrontKept
  <2>2. Cardinality(W2) + Cardinality(I2) = size + 1
    BY <1>2, <1>3, <1>8
  <2> QED
    BY <1>1, <1>2, <1>3, <1>8, <2>1, <2>2
<1>9. CASE n.term = "SelectionPresentationVariant" /\ MeantFor(n, t)
  <2>1. VariantsKept(InlineVariant(v, Said(n)), sW, sI \cup {Said(n)}, size + 1)
    <3> HIDE DEF size
    <3> QED
      BY <1>4, <1>5, <1>7, InlineKept
  <2>2. Cardinality(W2) + Cardinality(I2) = size + 1
    BY <1>2, <1>3, <1>9
  <2> QED
    BY <1>1, <1>2, <1>3, <1>9, <2>1, <2>2
<1>10. CASE n.term \notin VariantTerms \/ ~MeantFor(n, t)
  <2>1. v2 = v /\ SaidAt(more, W2) = sW /\ SaidAt(more, I2) = sI
    BY <1>1, <1>2, <1>3, <1>10 DEF VariantTerms
  <2>2. Cardinality(W2) + Cardinality(I2) = size
    BY <1>2, <1>3, <1>10 DEF VariantTerms
  <2> QED
    BY <1>5, <2>1, <2>2
<1> QED
  BY <1>8, <1>9, <1>10 DEF VariantTerms

-----------------------------------------------------------------------------
(* The defaults at the end of a schema. *)

Placed(m) == \A s \in DOMAIN m.vals : IsPropertySlot(s) => s = << <<s[1][1], s[1][2]>>, s[2]>>

DefaultsOf(ds, t, k) == {i \in 1..k : ds[i][1] = t}
Arrangement(mark) == <<Entry("none", {}, mark)>>

(* The arrangement of a property after the first k defaults. *)
DefaultFor(m, ds, t, p, k) ==
  IF \/ Value(m, <<t, p>>, "TextArrangement") # <<>>
     \/ Value(m, <<t, p>>, "Text") = <<>> \/ DefaultsOf(ds, t, k) = {}
  THEN Value(m, <<t, p>>, "TextArrangement")
  ELSE Arrangement(ds[First(DefaultsOf(ds, t, k))][2])

(* A default fills an arrangement that was not there. *)
Filled(m, g) ==
  \A place, term :
    \/ Value(g, place, term) = Value(m, place, term)
    \/ /\ term = "TextArrangement" /\ Value(m, place, term) = <<>>
       /\ \E mark : Value(g, place, term) = Arrangement(mark)

Applied(m, g, ds, k) ==
  /\ Shaped(g) /\ Filled(m, g) /\ (Placed(m) => Placed(g))
  /\ \A t \in Types : \A p \in OwnProps[t] :
       Value(g, <<t, p>>, "TextArrangement") = DefaultFor(m, ds, t, p, k)

LEMMA ArrangedApplied ==
  ASSUME NEW m, NEW g, NEW ds, NEW k \in Nat, Applied(m, g, ds, k)
  PROVE  Applied(m, Arranged(g, ds[k + 1][1], ds[k + 1][2]), ds, k + 1)
<1> DEFINE a == ds[k + 1][1]
           mark == ds[k + 1][2]
           h == Arranged(g, a, mark)
<1>1. /\ DOMAIN h.vals = Bare(g, a) \cup DOMAIN g.vals
      /\ \A place, term : Value(h, place, term) =
           IF <<place, term>> \in Bare(g, a) THEN Arrangement(mark) ELSE Value(g, place, term)
  BY ArrangedValue DEF Applied, Arrangement
<1>2. Shaped(h)
  BY ArrangedShaped DEF Applied
<1> HIDE DEF h, a, mark
<1>3. ASSUME Placed(m) PROVE Placed(h)
  <2>1. Placed(g)
    BY <1>3 DEF Applied
  <2>2. SUFFICES ASSUME NEW s \in Bare(g, a) PROVE s = << <<s[1][1], s[1][2]>>, s[2]>>
    BY <1>1, <2>1 DEF Placed
  <2>3. PICK p : s = << <<a, p>>, "TextArrangement">>
    BY DEF Bare
  <2> QED
    BY <2>3
<1>4. \A place, term : <<place, term>> \in Bare(g, a) =>
        term = "TextArrangement" /\ Value(g, place, term) = <<>>
  <2>1. SUFFICES ASSUME NEW place, NEW term, <<place, term>> \in Bare(g, a)
                 PROVE  term = "TextArrangement" /\ Value(g, place, term) = <<>>
    OBVIOUS
  <2>2. PICK p : /\ <<place, term>> = << <<a, p>>, "TextArrangement">>
                 /\ ~Given(g, <<a, p>>, "TextArrangement")
    BY <2>1 DEF Bare
  <2> QED
    BY <2>2 DEF Given
<1>5. Filled(m, h)
  <2>1. SUFFICES ASSUME NEW place, NEW term
                 PROVE  \/ Value(h, place, term) = Value(m, place, term)
                        \/ /\ term = "TextArrangement" /\ Value(m, place, term) = <<>>
                           /\ \E c : Value(h, place, term) = Arrangement(c)
    BY DEF Filled
  <2>2. \/ Value(g, place, term) = Value(m, place, term)
        \/ /\ term = "TextArrangement" /\ Value(m, place, term) = <<>>
           /\ \E c : Value(g, place, term) = Arrangement(c)
    BY DEF Applied, Filled
  <2>3. CASE <<place, term>> \in Bare(g, a)
    <3>1. \A c : Arrangement(c) # <<>>
      BY OneEntry DEF Arrangement
    <3> QED
      BY <1>1, <1>4, <2>2, <2>3, <3>1
  <2>4. CASE <<place, term>> \notin Bare(g, a)
    BY <1>1, <2>2, <2>4
  <2> QED
    BY <2>3, <2>4
<1>6. ASSUME NEW t \in Types, NEW p \in OwnProps[t]
      PROVE  Value(h, <<t, p>>, "TextArrangement") = DefaultFor(m, ds, t, p, k + 1)
  <2> DEFINE v == Value(m, <<t, p>>, "TextArrangement")
             w == Value(g, <<t, p>>, "TextArrangement")
             D == DefaultsOf(ds, t, k)
             E == DefaultsOf(ds, t, k + 1)
             hasText == Value(m, <<t, p>>, "Text") # <<>>
             s == << <<t, p>>, "TextArrangement">>
  <2>1. D \in SUBSET (1..k) /\ E = IF a = t THEN D \cup {k + 1} ELSE D
    BY DEF DefaultsOf, a
  <2>2. w = IF v # <<>> \/ ~hasText \/ D = {} THEN v ELSE Arrangement(ds[First(D)][2])
    BY DEF Applied, DefaultFor
  <2>3. Value(g, <<t, p>>, "Text") = Value(m, <<t, p>>, "Text")
    BY DEF Applied, Filled
  <2>4. s \in Bare(g, a) <=> a = t /\ hasText /\ w = <<>>
    <3>1. s \in Bare(g, a) => a = t
      BY DEF Bare
    <3>2. s \in Bare(g, t) <=> Given(g, <<t, p>>, "Text") /\ ~Given(g, <<t, p>>, "TextArrangement")
      BY <1>6 DEF Bare
    <3> QED
      BY <2>3, <3>1, <3>2 DEF Given
  <2>5. Value(h, <<t, p>>, "TextArrangement") = IF s \in Bare(g, a) THEN Arrangement(mark) ELSE w
    BY <1>1
  <2>6. DefaultFor(m, ds, t, p, k + 1) = IF v # <<>> \/ ~hasText \/ E = {} THEN v
                                         ELSE Arrangement(ds[First(E)][2])
    BY DEF DefaultFor
  <2> HIDE DEF v, w, D, E, hasText, s
  <2>7. a = t => First(E) = IF D = {} THEN k + 1 ELSE First(D)
    BY <2>1, FirstGrown
  <2>8. a = t /\ D = {} => Arrangement(ds[First(E)][2]) = Arrangement(mark)
    BY <2>7 DEF mark
  <2>9. \A c : Arrangement(c) # <<>>
    BY OneEntry DEF Arrangement
  <2>10. a = t => E # {}
    BY <2>1
  <2>11. CASE a # t
    BY <2>1, <2>2, <2>4, <2>5, <2>6, <2>11
  <2>12. CASE a = t /\ D = {}
    BY <2>2, <2>4, <2>5, <2>6, <2>8, <2>10, <2>12
  <2>13. CASE a = t /\ D # {}
    BY <2>2, <2>4, <2>5, <2>6, <2>7, <2>9, <2>10, <2>13
  <2> QED
    BY <2>5, <2>11, <2>12, <2>13
<1> QED
  BY <1>2, <1>3, <1>5, <1>6 DEF Applied, h, a, mark

LEMMA DefaultsValue ==
  ASSUME NEW m, Shaped(m), NEW ds, Len(ds) \in Nat
  PROVE  Applied(m, AfterDefaults(m, ds), ds, Len(ds))
<1>1. PICK f : /\ AfterDefaults(m, ds) = f[Len(ds)] /\ f[0] = m
               /\ \A i \in 1..Len(ds) :
                    f[i] = Arranged(f[i - 1], ds[i][1], ds[i][2])
  BY DefaultsApplied
<1> DEFINE S == {i \in Nat : i <= Len(ds) => Applied(m, f[i], ds, i)}
<1>2. 0 \in S
  <2>1. Applied(m, m, ds, 0)
    <3>1. \A t : DefaultsOf(ds, t, 0) = {}
      BY DEF DefaultsOf
    <3> QED
      BY <3>1 DEF Applied, Filled, DefaultFor
  <2> QED
    BY <1>1, <2>1
<1>3. ASSUME NEW i \in S PROVE i + 1 \in S
  <2>1. SUFFICES ASSUME i + 1 <= Len(ds) PROVE Applied(m, f[i + 1], ds, i + 1)
    OBVIOUS
  <2>2. Applied(m, f[i], ds, i) /\ i \in Nat /\ i + 1 \in 1..Len(ds) /\ (i + 1) - 1 = i
    BY <2>1
  <2>3. f[i + 1] = Arranged(f[i], ds[i + 1][1], ds[i + 1][2])
    BY <1>1, <2>2
  <2> QED
    BY <2>2, <2>3, ArrangedApplied
<1> HIDE DEF S
<1>4. S = Nat
  <2>1. S \in SUBSET Nat
    BY DEF S
  <2> QED
    BY <1>2, <1>3, <2>1, SetInduction
<1>5. Applied(m, f[Len(ds)], ds, Len(ds))
  BY <1>4 DEF S
<1> QED
  BY <1>1, <1>5

(* The defaults that wait are those of the notes of this schema. *)
Now(ns, t, k) == {i \in About(ns, t, "TextArrangement") : ns[i].schema = k}
DefaultsHeld(ds, ns, t, k) ==
  /\ DefaultsOf(ds, t, Len(ds)) = {} <=> Now(ns, t, k) = {}
  /\ DefaultsOf(ds, t, Len(ds)) # {} =>
       ds[First(DefaultsOf(ds, t, Len(ds)))][2] = ns[First(Now(ns, t, k))].note.mark

LEMMA NowGrows ==
  ASSUME NEW ns \in Seq(Noted), NEW x \in Noted, NEW t, NEW k, x.schema = k
  PROVE  /\ Now(ns, t, k) \in SUBSET (1..Len(ns)) /\ Len(ns) \in Nat
         /\ Now(Append(ns, x), t, k) =
              IF x.note.term = "TextArrangement" /\ MeantFor(x.note, t)
              THEN Now(ns, t, k) \cup {Len(ns) + 1} ELSE Now(ns, t, k)
<1> DEFINE A == About(ns, t, "TextArrangement")
           more == Append(ns, x)
           B == About(more, t, "TextArrangement")
           Meant == x.note.term = "TextArrangement" /\ MeantFor(x.note, t)
<1>1. /\ A \in SUBSET (1..Len(ns)) /\ Len(ns) \in Nat
      /\ B = IF Meant THEN A \cup {Len(ns) + 1} ELSE A
  BY AboutGrows
<1>2. more[Len(ns) + 1] = x /\ \A i \in 1..Len(ns) : more[i] = ns[i]
  BY NoteAdded
<1>3. Len(ns) + 1 \notin A
  BY <1>1
<1>4. Now(ns, t, k) = {i \in A : ns[i].schema = k} /\ Now(more, t, k) = {i \in B : more[i].schema = k}
  BY DEF Now
<1> HIDE DEF A, B, more, Meant
<1>5. Now(more, t, k) = IF Meant THEN Now(ns, t, k) \cup {Len(ns) + 1} ELSE Now(ns, t, k)
  BY <1>1, <1>2, <1>3, <1>4
<1> QED
  BY <1>1, <1>4, <1>5 DEF more, Meant

LEMMA DefaultsOfGrow ==
  ASSUME NEW ds \in Seq(Marks), NEW d \in Marks, NEW t
  PROVE  /\ DefaultsOf(ds, t, Len(ds)) \in SUBSET (1..Len(ds)) /\ Len(ds) \in Nat
         /\ DefaultsOf(Append(ds, d), t, Len(Append(ds, d))) =
              IF d[1] = t THEN DefaultsOf(ds, t, Len(ds)) \cup {Len(ds) + 1}
              ELSE DefaultsOf(ds, t, Len(ds))
         /\ Append(ds, d)[Len(ds) + 1] = d /\ \A i \in 1..Len(ds) : Append(ds, d)[i] = ds[i]
<1> DEFINE more == Append(ds, d)
           D == DefaultsOf(ds, t, Len(ds))
<1>1. /\ Len(ds) \in Nat /\ Len(more) = Len(ds) + 1
      /\ more[Len(ds) + 1] = d /\ \A i \in 1..Len(ds) : more[i] = ds[i]
  BY Appended
<1>2. 1..Len(more) = 1..Len(ds) \cup {Len(ds) + 1} /\ Len(ds) + 1 \notin 1..Len(ds)
  BY <1>1
<1>3. D = {i \in 1..Len(ds) : ds[i][1] = t}
      /\ DefaultsOf(more, t, Len(more)) = {i \in 1..Len(more) : more[i][1] = t}
  BY DEF DefaultsOf
<1> HIDE DEF more, D
<1>4. DefaultsOf(more, t, Len(more)) = IF d[1] = t THEN D \cup {Len(ds) + 1} ELSE D
  BY <1>1, <1>2, <1>3
<1> QED
  BY <1>1, <1>3, <1>4 DEF more, D

LEMMA DefaultsStay ==
  ASSUME NEW ds \in Seq(Marks), NEW ns \in Seq(Noted), NEW x \in Noted, x.note \in Notes,
         NEW ds2,
         ds2 = IF x.note.term = "TextArrangement" /\ \E u \in Types : MeantFor(x.note, u)
               THEN Append(ds, <<x.note.at[1], x.note.mark>>) ELSE ds,
         NEW t \in Types, NEW k, x.schema = k, DefaultsHeld(ds, ns, t, k)
  PROVE  DefaultsHeld(ds2, Append(ns, x), t, k)
<1> DEFINE n == x.note
           d == <<n.at[1], n.mark>>
           more == Append(ns, x)
           D == DefaultsOf(ds, t, Len(ds))
           D2 == DefaultsOf(ds2, t, Len(ds2))
           N == Now(ns, t, k)
           N2 == Now(more, t, k)
           Meant == n.term = "TextArrangement" /\ MeantFor(n, t)
           longer == Append(ds, d)
<1>1. /\ N \in SUBSET (1..Len(ns)) /\ Len(ns) \in Nat
      /\ N2 = IF Meant THEN N \cup {Len(ns) + 1} ELSE N
  BY NowGrows
<1>2. more[Len(ns) + 1] = x /\ \A i \in 1..Len(ns) : more[i] = ns[i]
  BY NoteAdded
<1>3. d \in Marks /\ d[1] = n.at[1] /\ d[2] = n.mark
  BY DEF Marks
<1>4. /\ D \in SUBSET (1..Len(ds)) /\ Len(ds) \in Nat
      /\ DefaultsOf(longer, t, Len(longer)) = IF d[1] = t THEN D \cup {Len(ds) + 1} ELSE D
      /\ longer[Len(ds) + 1] = d /\ \A i \in 1..Len(ds) : longer[i] = ds[i]
  <2> HIDE DEF d
  <2> QED
    BY <1>3, DefaultsOfGrow
<1>5. (D = {} <=> N = {}) /\ (D # {} => ds[First(D)][2] = ns[First(N)].note.mark)
  BY DEF DefaultsHeld
<1>6. SUFFICES (D2 = {} <=> N2 = {}) /\ (D2 # {} => ds2[First(D2)][2] = more[First(N2)].note.mark)
  BY DEF DefaultsHeld
<1>7. \A u : n.term = "TextArrangement" /\ MeantFor(n, u) => d[1] = u
  <2>1. "TextArrangement" \in TypeTerms
    BY DEF TypeTerms
  <2> QED
    BY <1>3, <2>1, MeantPlaces
<1>8. /\ D # {} => First(D) \in 1..Len(ds)
      /\ N # {} => First(N) \in 1..Len(ns)
  <2>1. D \in SUBSET Nat /\ N \in SUBSET Nat
    BY <1>1, <1>4
  <2> HIDE DEF D, N
  <2>2. (D # {} => First(D) \in D) /\ (N # {} => First(N) \in N)
    BY <2>1, FirstIs
  <2> QED
    BY <1>1, <1>4, <2>2
<1>9. /\ First(D \cup {Len(ds) + 1}) = IF D = {} THEN Len(ds) + 1 ELSE First(D)
      /\ First(N \cup {Len(ns) + 1}) = IF N = {} THEN Len(ns) + 1 ELSE First(N)
  BY <1>1, <1>4, FirstGrown
<1>11. Meant => ds2 = longer /\ D2 = DefaultsOf(longer, t, Len(longer)) /\ d[1] = t
  BY <1>7
<1>12. \/ ds2 = ds /\ D2 = D
       \/ /\ ds2 = longer /\ D2 = DefaultsOf(longer, t, Len(longer))
          /\ d[1] = t => Meant
  <2>1. SUFFICES ASSUME n.term = "TextArrangement", NEW u \in Types, MeantFor(n, u), d[1] = t
                 PROVE  Meant
    OBVIOUS
  <2> QED
    BY <1>7, <2>1
<1> HIDE DEF n, d, more, D, D2, N, N2, Meant, longer
<1>13. CASE Meant
  <2>1. ds2 = longer /\ D2 = D \cup {Len(ds) + 1} /\ N2 = N \cup {Len(ns) + 1}
    BY <1>1, <1>4, <1>11, <1>13
  <2>2. D2 # {} /\ N2 # {}
    BY <2>1
  <2>3. CASE D = {}
    <3>1. N = {} /\ First(D2) = Len(ds) + 1 /\ First(N2) = Len(ns) + 1
      BY <1>5, <1>9, <2>1, <2>3
    <3>2. ds2[First(D2)] = d /\ more[First(N2)] = x
      BY <1>2, <1>4, <2>1, <3>1
    <3> QED
      BY <1>3, <2>2, <3>2 DEF n
  <2>4. CASE D # {}
    <3>1. N # {} /\ First(D2) = First(D) /\ First(N2) = First(N)
      BY <1>5, <1>9, <2>1, <2>4
    <3>2. ds2[First(D2)] = ds[First(D)] /\ more[First(N2)] = ns[First(N)]
      BY <1>2, <1>4, <1>8, <2>1, <2>4, <3>1
    <3> QED
      BY <1>5, <2>2, <2>4, <3>2
  <2> QED
    BY <2>3, <2>4
<1>14. CASE ~Meant
  <2>1. N2 = N /\ D2 = D
    BY <1>1, <1>4, <1>12, <1>14
  <2>2. D # {} => ds2[First(D)] = ds[First(D)] /\ more[First(N)] = ns[First(N)]
    BY <1>2, <1>4, <1>5, <1>8, <1>12
  <2> QED
    BY <1>5, <2>1, <2>2
<1> QED
  BY <1>13, <1>14

(* At the end of a schema its defaults reach the texts there are. *)
LEMMA ReachingNow ==
  ASSUME NEW ns \in Seq(Noted), Ordered(ns), NEW attrs, NEW t, NEW p, NEW k \in Nat, UpTo(ns, k)
  PROVE  LET R == Reaching(ns, attrs, t, p, k - 1)
             Q == Reaching(ns, attrs, t, p, k)
             N == Now(ns, t, k)
         IN  /\ Q = R \cup IF TextOf(ns, attrs, t, p, k) = {} THEN {} ELSE N
             /\ Q # {} => First(Q) = IF R # {} THEN First(R) ELSE First(N)
<1> DEFINE A == About(ns, t, "TextArrangement")
           R == Reaching(ns, attrs, t, p, k - 1)
           Q == Reaching(ns, attrs, t, p, k)
           N == Now(ns, t, k)
           T(j) == TextOf(ns, attrs, t, p, j)
<1>1. DOMAIN ns = 1..Len(ns) /\ Len(ns) \in Nat /\ \A i \in DOMAIN ns : ns[i] \in Noted
  OBVIOUS
<1>2. A \subseteq DOMAIN ns /\ DOMAIN ns \subseteq Nat
  BY <1>1 DEF About
<1>3. \A i \in DOMAIN ns : ns[i].schema \in Nat /\ ns[i].schema <= k
  BY <1>1 DEF Noted, UpTo
<1>4. /\ R = {i \in A : ns[i].schema <= k - 1 /\ T(ns[i].schema) # {}}
      /\ Q = {i \in A : ns[i].schema <= k /\ T(ns[i].schema) # {}}
      /\ N = {i \in A : ns[i].schema = k}
  BY DEF Reaching, Now
<1>5. \A i, j \in DOMAIN ns : i <= j => ns[i].schema <= ns[j].schema
  BY DEF Ordered
<1> HIDE DEF A, R, Q, N, T
<1>6. \A i \in A : (ns[i].schema <= k - 1 \/ ns[i].schema = k)
                   /\ ~(ns[i].schema <= k - 1 /\ ns[i].schema = k)
  BY <1>2, <1>3
<1>7. Q = R \cup IF T(k) = {} THEN {} ELSE N
  BY <1>3, <1>4, <1>6, <1>2
<1>8. \A i \in R, j \in N : i < j
  <2>0. R \subseteq Nat /\ N \subseteq Nat
    BY <1>2, <1>4
  <2>1. SUFFICES ASSUME NEW i \in R, NEW j \in N, j <= i PROVE FALSE
    BY <2>0
  <2>2. i \in DOMAIN ns /\ j \in DOMAIN ns /\ ns[i].schema <= k - 1 /\ ns[j].schema = k
    BY <1>2, <1>4
  <2>3. ns[j].schema <= ns[i].schema
    BY <1>5, <2>1, <2>2
  <2> QED
    BY <1>3, <2>2, <2>3
<1>9. ASSUME Q # {} PROVE First(Q) = IF R # {} THEN First(R) ELSE First(N)
  <2>1. R \in SUBSET Nat /\ Q \in SUBSET Nat /\ N \in SUBSET Nat
    BY <1>2, <1>4
  <2>2. CASE R = {}
    <3>1. Q = N
      BY <1>7, <1>9, <2>2
    <3> QED
      BY <2>2, <3>1
  <2>3. CASE R # {}
    <3>1. First(R) \in R /\ \A j \in R : First(R) <= j
      BY <2>1, <2>3, FirstIs
    <3>2. First(Q) \in Q /\ \A j \in Q : First(Q) <= j
      BY <1>9, <2>1, FirstIs
    <3>3. First(R) \in Q /\ First(R) \in Nat /\ First(Q) \in Nat
      BY <1>7, <2>1, <3>1, <3>2
    <3>4. First(Q) <= First(R)
      BY <3>2, <3>3
    <3>5. First(Q) \in R
      <4>1. CASE First(Q) \in N
        BY <1>8, <3>1, <3>3, <3>4, <4>1
      <4> QED
        BY <1>7, <3>2, <4>1
    <3>6. First(R) <= First(Q)
      BY <3>1, <3>5
    <3> QED
      BY <2>3, <3>3, <3>4, <3>6
  <2> QED
    BY <2>2, <2>3
<1> QED
  BY <1>7, <1>9 DEF R, Q, N, T

LEMMA ArrangementDefaulted ==
  ASSUME NEW ns \in Seq(Noted), Ordered(ns), NEW attrs, NEW t \in Types, NEW p \in OwnProps[t],
         NEW k \in Nat, UpTo(ns, k), NEW m, NEW ds, NEW g, Applied(m, g, ds, Len(ds)),
         ArrangementHeld(m, ns, attrs, t, p, k - 1), TextHeld(m, ns, attrs, t, p, k),
         DefaultsHeld(ds, ns, t, k)
  PROVE  ArrangementHeld(g, ns, attrs, t, p, k)
<1> DEFINE v == Value(m, <<t, p>>, "TextArrangement")
           w == Value(g, <<t, p>>, "TextArrangement")
           hasText == Value(m, <<t, p>>, "Text") # <<>>
           D == DefaultsOf(ds, t, Len(ds))
           M == Nested(ns, t, p)
           R == Reaching(ns, attrs, t, p, k - 1)
           Q == Reaching(ns, attrs, t, p, k)
           N == Now(ns, t, k)
           T == TextOf(ns, attrs, t, p, k)
<1>1. w = IF v # <<>> \/ ~hasText \/ D = {} THEN v ELSE Arrangement(ds[First(D)][2])
  BY DEF Applied, DefaultFor
<1>2. v = IF M # {} THEN Arrangement(ns[Last(M)].note.mark)
          ELSE IF R # {} THEN Arrangement(ns[First(R)].note.mark) ELSE <<>>
  BY DEF ArrangementHeld, Arrangement
<1>3. hasText <=> T # {}
  <2> DEFINE x == Value(m, <<t, p>>, "Text")
  <2>1. IF T = {} THEN x = <<>> ELSE x = <<x[1]>> /\ x[1].paths = T
    BY DEF TextHeld
  <2> HIDE DEF x, T
  <2>2. hasText <=> x # <<>>
    BY DEF x
  <2> QED
    BY <2>1, <2>2, OneEntry
<1>4. (D = {} <=> N = {}) /\ (D # {} => ds[First(D)][2] = ns[First(N)].note.mark)
  BY DEF DefaultsHeld
<1>5. Q = R \cup (IF T = {} THEN {} ELSE N) /\ (Q # {} => First(Q) = IF R # {} THEN First(R) ELSE First(N))
  BY ReachingNow
<1>6. \A c : Arrangement(c) # <<>>
  BY OneEntry DEF Arrangement
<1>7. SUFFICES w = IF M # {} THEN Arrangement(ns[Last(M)].note.mark)
                   ELSE IF Q # {} THEN Arrangement(ns[First(Q)].note.mark) ELSE <<>>
  BY DEF ArrangementHeld, Arrangement
<1> HIDE DEF v, w, hasText, D, M, R, Q, N, T
<1>8. CASE M # {}
  BY <1>1, <1>2, <1>6, <1>8
<1>9. CASE M = {} /\ R # {}
  BY <1>1, <1>2, <1>5, <1>6, <1>9
<1>10. CASE M = {} /\ R = {}
  BY <1>1, <1>2, <1>3, <1>4, <1>5, <1>10
<1> QED
  BY <1>8, <1>9, <1>10

-----------------------------------------------------------------------------
(* What labels and base types leave alone. *)

LEMMA OwnOwner ==
  ASSUME NoneRedeclared, NEW m, Shaped(m), NEW t \in Types, NEW p \in OwnProps[t]
  PROVE  Owner(m, t, p) = t
<1> DEFINE D == {i \in DOMAIN Chain(t) : p \in m.props[Chain(t)[i]]}
<1>1. D = {}
  BY DEF Shaped, NoneRedeclared, Ancestors
<1> QED
  BY <1>1 DEF Owner

LEMMA PropertySlots ==
  ASSUME NEW t \in Types, NEW p, NEW term
  PROVE  IsPropertySlot(<< <<t, p>>, term>>)
<1>1. Len(<<t, p>>) = 2
  OBVIOUS
<1> QED
  BY <1>1 DEF IsPropertySlot

(* The slots that finishing the model leaves as they are. *)
Settled(place, term) ==
  (\E t \in Types : \E p \in OwnProps[t] : place = <<t, p>> /\ term # "Label")
  \/ ~IsPropertySlot(<<place, term>>)

LEMMA InheritedValue ==
  ASSUME NoneRedeclared, NEW m, Shaped(m), Placed(m), NEW place, NEW term, Settled(place, term)
  PROVE  Value(ApplyBaseTypes(m), place, term) = Value(m, place, term)
<1> DEFINE slots == UNION {IF IsPropertySlot(s) THEN HeirSlots(m, s) ELSE {s} : s \in DOMAIN m.vals}
           vals == [s \in slots |-> m.vals[OwnSlot(m, s)]]
           x == <<place, term>>
<1>1. ApplyBaseTypes(m).vals = vals
  BY DEF ApplyBaseTypes, ApplyBaseTypesBare, Shaped
<1>2. OwnSlot(m, x) = x /\ (x \in slots <=> x \in DOMAIN m.vals)
  <2>1. CASE ~IsPropertySlot(x)
    <3>1. OwnSlot(m, x) = x
      BY <2>1 DEF OwnSlot
    <3>2. ASSUME NEW s \in DOMAIN m.vals, IsPropertySlot(s), x \in HeirSlots(m, s) PROVE FALSE
      <4>1. PICK u \in Types : x = << <<u, s[1][2]>>, s[2]>>
        BY <3>2 DEF HeirSlots
      <4> HIDE DEF x
      <4> QED
        BY <2>1, <4>1, PropertySlots
    <3> HIDE DEF x
    <3>3. x \in slots <=> x \in DOMAIN m.vals
      BY <2>1, <3>2
    <3> QED
      BY <3>1, <3>3
  <2>2. CASE IsPropertySlot(x)
    <3>0. PICK t \in Types : \E p \in OwnProps[t] : place = <<t, p>>
      BY <2>2 DEF Settled
    <3>1. PICK p \in OwnProps[t] : place = <<t, p>>
      BY <3>0
    <3>2. Owner(m, t, p) = t
      BY <3>1, OwnOwner
    <3>3. OwnSlot(m, x) = x
      BY <2>2, <3>1, <3>2 DEF OwnSlot
    <3>4. ASSUME x \in slots PROVE x \in DOMAIN m.vals
      <4>1. PICK s \in DOMAIN m.vals : x \in (IF IsPropertySlot(s) THEN HeirSlots(m, s) ELSE {s})
        BY <3>4
      <4>2. CASE IsPropertySlot(s)
        <5>1. PICK u \in Types : /\ x = << <<u, s[1][2]>>, s[2]>>
                                 /\ Owner(m, u, s[1][2]) = s[1][1]
          BY <4>1, <4>2 DEF HeirSlots
        <5>2. u = t /\ s[1][2] = p /\ s[2] = term
          BY <3>1, <5>1
        <5>3. s = << <<s[1][1], s[1][2]>>, s[2]>>
          BY <4>2 DEF Placed
        <5>4. s = << <<t, p>>, term>>
          BY <3>2, <5>1, <5>2, <5>3
        <5> QED
          BY <3>1, <5>4
      <4>3. CASE ~IsPropertySlot(s)
        BY <4>1, <4>3
      <4> QED
        BY <4>2, <4>3
    <3>5. ASSUME x \in DOMAIN m.vals PROVE x \in slots
      <4>1. p \in Inherited(m, "props", t)
        BY <3>1 DEF Inherited, Shaped
      <4>2. x[1][2] = p /\ x[1][1] = t /\ x[2] = term /\ x = << <<t, p>>, term>>
        BY <3>1
      <4> HIDE DEF x
      <4>3. x \in HeirSlots(m, x)
        BY <3>2, <4>1, <4>2 DEF HeirSlots
      <4> QED
        BY <2>2, <3>5, <4>3
    <3> QED
      BY <3>3, <3>4, <3>5
  <2> QED
    BY <2>1, <2>2
<1>3. DOMAIN vals = slots /\ (x \in slots => vals[x] = m.vals[x])
  BY <1>2
<1> HIDE DEF vals, slots
<1> QED
  BY <1>1, <1>2, <1>3 DEF Value

LEMMA LabelledValue ==
  ASSUME NEW m, Shaped(m), Placed(m), DOMAIN labels \subseteq Places
  PROVE  /\ Placed(Labelled(m))
         /\ \A place, term : term # "Label" \/ ~IsPropertySlot(<<place, term>>) =>
              Value(Labelled(m), place, term) = Value(m, place, term)
<1> DEFINE free == {<<p, "Label">> : p \in {q \in DOMAIN labels :
                      Len(q) = 2 /\ q[1] \in m.types /\ q[2] \in m.props[q[1]] /\ ~Given(m, q, "Label")}}
           f == [s \in free |-> <<Entry("none", {}, labels[s[1]])>>]
<1>1. Labelled(m) = Overlaid(m, f) /\ DOMAIN f = free
  BY DEF Labelled
<1>2. ASSUME NEW s \in free
      PROVE  s = << <<s[1][1], s[1][2]>>, s[2]>> /\ s[2] = "Label" /\ IsPropertySlot(s)
  <2>1. PICK q \in DOMAIN labels : s = <<q, "Label">> /\ Len(q) = 2 /\ q[1] \in m.types
    OBVIOUS
  <2>2. PICK n \in Notes : q = n.at
    BY <2>1 DEF Places
  <2>3. q = <<q[1], q[2]>>
    BY <2>1, <2>2, NoteShape
  <2> QED
    BY <2>1, <2>3 DEF IsPropertySlot, Shaped
<1> HIDE DEF f, free
<1>3. /\ DOMAIN Overlaid(m, f).vals = DOMAIN f \cup DOMAIN m.vals
      /\ \A place, term : Value(Overlaid(m, f), place, term) =
           IF <<place, term>> \in DOMAIN f THEN f[<<place, term>>] ELSE Value(m, place, term)
  BY OverValue
<1>4. Placed(Labelled(m))
  BY <1>1, <1>2, <1>3 DEF Placed
<1>5. \A place, term : <<place, term>> \in free => term = "Label" /\ IsPropertySlot(<<place, term>>)
  <2>1. SUFFICES ASSUME NEW place, NEW term, <<place, term>> \in free
                 PROVE  term = "Label" /\ IsPropertySlot(<<place, term>>)
    OBVIOUS
  <2> DEFINE s == <<place, term>>
  <2>2. s \in free /\ s[2] = term
    BY <2>1
  <2> HIDE DEF s
  <2>3. s[2] = "Label" /\ IsPropertySlot(s)
    BY <1>2, <2>2
  <2> QED
    BY <2>2, <2>3 DEF s
<1> QED
  BY <1>1, <1>3, <1>4, <1>5

LEMMA FinishedValue ==
  ASSUME NoneRedeclared, NEW m, Shaped(m), Placed(m), DOMAIN labels \subseteq Places
  PROVE  \A place, term : Settled(place, term) =>
           Value(Finished(m), place, term) = Value(m, place, term)
<1>1. SUFFICES ASSUME NEW place, NEW term, Settled(place, term)
               PROVE  Value(ApplyBaseTypes(Labelled(m)), place, term) = Value(m, place, term)
  BY DEF Finished
<1>2. Shaped(Labelled(m)) /\ Placed(Labelled(m))
  BY LabelledShaped, LabelledValue
<1>3. term # "Label" \/ ~IsPropertySlot(<<place, term>>)
  BY <1>1 DEF Settled
<1>4. Value(Labelled(m), place, term) = Value(m, place, term)
  BY <1>3, LabelledValue
<1>5. Value(ApplyBaseTypes(Labelled(m)), place, term) = Value(Labelled(m), place, term)
  BY <1>1, <1>2, InheritedValue
<1> QED
  BY <1>4, <1>5

-----------------------------------------------------------------------------
(* All of it, note by note and schema by schema. *)

(* What a type has of its notes: texts up to schema k, defaults up to j. *)
Held(m, ns, attrs, t, k, j) ==
  /\ \A term \in {"LineItem", "SelectionFields"} : ViewHeld(m, ns, t, term)
  /\ VariantsAsMeant(m, ns, t)
  /\ \A p \in OwnProps[t] : TextHeld(m, ns, attrs, t, p, k) /\ ArrangementHeld(m, ns, attrs, t, p, j)
  /\ NothingLost(m, ns, t)

LEMMA PathsInOne == \A e : PathsIn(<<e>>) = e.paths
<1>1. SUFFICES ASSUME NEW e PROVE PathsIn(<<e>>) = e.paths
  OBVIOUS
<1> DEFINE v == <<e>>
<1>2. DOMAIN v = {1} /\ v[1] = e
  OBVIOUS
<1> HIDE DEF v
<1>3. PathsIn(v) = e.paths
  BY <1>2 DEF PathsIn
<1> QED
  BY <1>3 DEF v

LEMMA HeldMeans ==
  ASSUME NEW m, NEW ns, NEW attrs, NEW t, NEW k, Held(m, ns, attrs, t, k, k)
  PROVE  /\ ViewsAsMeant(m, ns, t) /\ VariantsAsMeant(m, ns, t)
         /\ TextsAsMeant(m, ns, attrs, t, k) /\ NothingLost(m, ns, t)
<1>1. ViewsAsMeant(m, ns, t)
  <2>1. SUFFICES ASSUME NEW term \in {"LineItem", "SelectionFields"}
                 PROVE  Named(m, <<t>>, term) = Effective(ns, t, term)
    BY DEF ViewsAsMeant
  <2> DEFINE v == Value(m, <<t>>, term)
             A == About(ns, t, term)
  <2>2. IF A = {} THEN v = <<>> ELSE v = <<v[1]>> /\ v[1].paths = Effective(ns, t, term)
    BY DEF Held, ViewHeld
  <2>3. A = {} => Effective(ns, t, term) = {}
    BY DEF Effective, Unqualified
  <2>4. Named(m, <<t>>, term) = PathsIn(v)
    BY NamedIs
  <2> HIDE DEF v, A
  <2> QED
    BY <2>2, <2>3, <2>4, PathsInOne, NoEntries
<1>2. TextsAsMeant(m, ns, attrs, t, k)
  <2>1. SUFFICES ASSUME NEW p \in OwnProps[t]
                 PROVE  /\ Named(m, <<t, p>>, "Text") = TextOf(ns, attrs, t, p, k)
                        /\ LET v == Value(m, <<t, p>>, "TextArrangement")
                           IN  ArrangementOf(ns, attrs, t, p, k) = IF v = <<>> THEN "none" ELSE v[1].mark
    BY DEF TextsAsMeant
  <2> DEFINE x == Value(m, <<t, p>>, "Text")
             v == Value(m, <<t, p>>, "TextArrangement")
             T == TextOf(ns, attrs, t, p, k)
             M == Nested(ns, t, p)
             Q == Reaching(ns, attrs, t, p, k)
  <2>2. IF T = {} THEN x = <<>> ELSE x = <<x[1]>> /\ x[1].paths = T
    BY DEF Held, TextHeld
  <2>3. Named(m, <<t, p>>, "Text") = PathsIn(x)
    BY NamedIs
  <2>4. v = IF M # {} THEN Arrangement(ns[Last(M)].note.mark)
            ELSE IF Q # {} THEN Arrangement(ns[First(Q)].note.mark) ELSE <<>>
    BY DEF Held, ArrangementHeld, Arrangement
  <2>5. ArrangementOf(ns, attrs, t, p, k) = IF M # {} THEN ns[Last(M)].note.mark
                                            ELSE IF Q # {} THEN ns[First(Q)].note.mark ELSE "none"
    BY DEF ArrangementOf
  <2>6. \A c : Arrangement(c) # <<>> /\ Arrangement(c)[1].mark = c
    BY OneEntry, EntryFacts DEF Arrangement
  <2> HIDE DEF x, v, T, M, Q
  <2>7. PathsIn(x) = T
    BY <2>2, PathsInOne, NoEntries
  <2>8. ArrangementOf(ns, attrs, t, p, k) = IF v = <<>> THEN "none" ELSE v[1].mark
    BY <2>4, <2>5, <2>6
  <2> QED
    BY <2>3, <2>7, <2>8 DEF v, T
<1> QED
  BY <1>1, <1>2 DEF Held

LEMMA HeldNote ==
  ASSUME NEW m, Shaped(m), Listed(m), NEW m2, NEW ns \in Seq(Noted), NEW x \in Noted,
         x.note \in Notes, Taken(m, m2, x.note), NEW t \in Types, NEW attrs, TextsInline(attrs),
         x.schema \in Nat, x.schema - 1 \in Nat, Held(m, ns, attrs, t, x.schema, x.schema - 1)
  PROVE  Held(m2, Append(ns, x), attrs, t, x.schema, x.schema - 1)
<1> DEFINE k == x.schema
<1>1. \A term \in {"LineItem", "SelectionFields"} : ViewHeld(m2, Append(ns, x), t, term)
  BY ViewHolds DEF Held
<1>2. VariantsAsMeant(m2, Append(ns, x), t)
  BY VariantHolds DEF Held
<1>3. NothingLost(m2, Append(ns, x), t)
  BY LostHolds DEF Held
<1>4. ASSUME NEW p \in OwnProps[t]
      PROVE  /\ TextHeld(m2, Append(ns, x), attrs, t, p, k)
             /\ ArrangementHeld(m2, Append(ns, x), attrs, t, p, k - 1)
  <2>1. TextHeld(m, ns, attrs, t, p, k) /\ ArrangementHeld(m, ns, attrs, t, p, k - 1)
    BY DEF Held
  <2>2. k \in Nat /\ k <= k /\ k > k - 1
    OBVIOUS
  <2>3. TextHeld(m2, Append(ns, x), attrs, t, p, k)
    BY <2>1, <2>2, TextHolds
  <2> DEFINE j == k - 1
  <2>4. j \in Nat /\ x.schema > j /\ ArrangementHeld(m, ns, attrs, t, p, j)
    BY <2>1, <2>2
  <2> HIDE DEF j
  <2>5. ArrangementHeld(m2, Append(ns, x), attrs, t, p, j)
    BY <2>4, ArrangementHolds
  <2> QED
    BY <2>3, <2>5 DEF j
<1> QED
  BY <1>1, <1>2, <1>3, <1>4 DEF Held

(* Where nothing but arrangements is filled, the rest holds as before. *)
LEMMA LostStays ==
  ASSUME NEW m, NEW g, NEW ns, NEW t,
         \A i \in DOMAIN ns : MeantFor(ns[i].note, t) => \A s \in Slots(ns[i].note, t) :
           /\ Given(m, s[1], s[2]) => Given(g, s[1], s[2])
           /\ Named(m, s[1], s[2]) \subseteq Named(g, s[1], s[2]),
         NothingLost(m, ns, t)
  PROVE  NothingLost(g, ns, t)
<1>1. SUFFICES ASSUME NEW i \in DOMAIN ns PROVE NoteLost(g, ns, i, t)
  BY LostIs
<1>2. NoteLost(m, ns, i, t)
  BY LostIs
<1> QED
  BY <1>2 DEF NoteLost

LEMMA HeldDefaulted ==
  ASSUME NEW m, NEW ds, NEW g, Applied(m, g, ds, Len(ds)), NEW ns \in Seq(Noted), Ordered(ns),
         NEW k \in Nat, UpTo(ns, k), NEW attrs, NEW t \in Types,
         Held(m, ns, attrs, t, k, k - 1), DefaultsHeld(ds, ns, t, k)
  PROVE  Held(g, ns, attrs, t, k, k)
<1>1. \A place, term : term # "TextArrangement" => Value(g, place, term) = Value(m, place, term)
  BY DEF Applied, Filled
<1>2. \A term \in {"LineItem", "SelectionFields"} : ViewHeld(g, ns, t, term)
  BY <1>1 DEF Held, ViewHeld
<1>3. VariantsAsMeant(g, ns, t)
  <2>1. Value(g, <<t>>, "SelectionVariant") = Value(m, <<t>>, "SelectionVariant")
    BY <1>1
  <2> QED
    BY <2>1, VariantsMeant DEF Held
<1>4. NothingLost(g, ns, t)
  <2>1. \A place, term : /\ Given(m, place, term) => Given(g, place, term)
                         /\ Named(m, place, term) \subseteq Named(g, place, term)
    BY NamedIs, NoEntries DEF Applied, Filled, Given
  <2> QED
    BY <2>1, LostStays DEF Held
<1>5. ASSUME NEW p \in OwnProps[t]
      PROVE  TextHeld(g, ns, attrs, t, p, k) /\ ArrangementHeld(g, ns, attrs, t, p, k)
  <2>1. TextHeld(m, ns, attrs, t, p, k) /\ ArrangementHeld(m, ns, attrs, t, p, k - 1)
    BY DEF Held
  <2>2. TextHeld(g, ns, attrs, t, p, k)
    BY <1>1, <2>1 DEF TextHeld
  <2>3. ArrangementHeld(g, ns, attrs, t, p, k)
    BY <2>1, ArrangementDefaulted
  <2> QED
    BY <2>2, <2>3
<1> QED
  BY <1>2, <1>3, <1>4, <1>5 DEF Held

(* In the next schema there are no texts yet. *)
LEMMA HeldNext ==
  ASSUME NEW m, NEW ns \in Seq(Noted), NEW k \in Nat, UpTo(ns, k), NEW attrs, NEW t \in Types,
         Held(m, ns, attrs, t, k, k)
  PROVE  Held(m, ns, attrs, t, k + 1, k) /\ DefaultsHeld(<<>>, ns, t, k + 1)
<1>1. ASSUME NEW p \in OwnProps[t] PROVE TextHeld(m, ns, attrs, t, p, k + 1)
  <2>1. k + 1 \in Nat /\ k <= k + 1
    OBVIOUS
  <2>2. TextOf(ns, attrs, t, p, k + 1) = TextOf(ns, attrs, t, p, k)
    BY <2>1, TextUpTo
  <2>3. TextHeld(m, ns, attrs, t, p, k)
    BY DEF Held
  <2> QED
    BY <2>2, <2>3 DEF TextHeld
<1>2. DefaultsOf(<<>>, t, Len(<<>>)) = {}
  BY DEF DefaultsOf
<1>3. Now(ns, t, k + 1) = {}
  <2>1. \A i \in DOMAIN ns : ns[i] \in Noted
    OBVIOUS
  <2>2. \A i \in DOMAIN ns : ns[i].schema \in Nat /\ ns[i].schema <= k
    BY <2>1 DEF UpTo, Noted
  <2>3. \A i \in DOMAIN ns : ns[i].schema # k + 1
    BY <2>2
  <2> QED
    BY <2>3 DEF Now, About
<1>4. DefaultsHeld(<<>>, ns, t, k + 1)
  BY <1>2, <1>3 DEF DefaultsHeld
<1> QED
  BY <1>1, <1>4 DEF Held

(* The slots of a note settle before the model is finished. *)
LEMMA SlotSettles ==
  ASSUME NEW n \in Notes, NEW t \in Types, MeantFor(n, t), NEW s \in Slots(n, t)
  PROVE  Settled(s[1], s[2])
<1>1. "Label" \notin PropertyTerms \cup Restrictions
  BY DEF PropertyTerms, Restrictions
<1>2. CASE n.term \in PropertyTerms
  <2>1. s = <<n.at, n.term>> /\ n.at = <<t, n.at[2]>> /\ n.at[2] \in OwnProps[t]
    BY <1>2, SlotsOf, MeantPlaces
  <2>2. s[1] = <<t, n.at[2]>> /\ s[2] = n.term
    BY <2>1
  <2> QED
    BY <1>1, <1>2, <2>1, <2>2 DEF Settled
<1>3. CASE n.term = "Readable"
  <2>1. s = <<n.at, n.term>>
    BY <1>3, SlotsOf
  <2>2. n.term \in SetTerms /\ n.term \notin PropertyTerms \cup TypeTerms \cup ViewTerms
    BY <1>3 DEF SetTerms, PropertyTerms, TypeTerms, ViewTerms
  <2>3. n.at[1] = "set"
    BY <2>2 DEF MeantFor
  <2>4. s[1][1] \notin Types
    BY <2>1, <2>3, DocumentAssumption
  <2>5. <<s[1], s[2]>> = s
    BY <2>1
  <2> QED
    BY <2>4, <2>5 DEF Settled, IsPropertySlot
<1>4. CASE n.term = "Restricts"
  <2>1. PICK p \in OwnProps[t] : s = << <<t, p>>, n.mark>>
    BY <1>4, SlotsOf
  <2>2. n.mark \in Restrictions
    BY <1>4, NoteShape
  <2>3. s[1] = <<t, p>> /\ s[2] = n.mark
    BY <2>1
  <2> QED
    BY <1>1, <2>2, <2>3 DEF Settled
<1>5. CASE n.term \notin PropertyTerms \cup {"Readable", "Restricts"}
  <2>1. PICK term : s = << <<t>>, term>>
    BY <1>5, SlotsOf
  <2>2. Len(s[1]) = 1 /\ <<s[1], s[2]>> = s
    BY <2>1
  <2> QED
    BY <2>2 DEF Settled, IsPropertySlot
<1> QED
  BY <1>2, <1>3, <1>4, <1>5

LEMMA HeldFinished ==
  ASSUME NoneRedeclared, NEW m, Shaped(m), Placed(m), DOMAIN labels \subseteq Places,
         NEW ns \in Seq(Noted), NEW k, NEW attrs, NEW t \in Types, Held(m, ns, attrs, t, k, k)
  PROVE  Held(Finished(m), ns, attrs, t, k, k)
<1> DEFINE g == Finished(m)
<1>1. \A place, term : Settled(place, term) => Value(g, place, term) = Value(m, place, term)
  BY FinishedValue
<1> HIDE DEF g
<1>2. \A term : Settled(<<t>>, term)
  <2>1. SUFFICES ASSUME NEW term PROVE ~IsPropertySlot(<< <<t>>, term>>)
    BY DEF Settled
  <2>2. Len(<<t>>) = 1
    OBVIOUS
  <2> QED
    BY <2>2 DEF IsPropertySlot
<1>3. \A term : Value(g, <<t>>, term) = Value(m, <<t>>, term)
  BY <1>1, <1>2
<1>4. ASSUME NEW p \in OwnProps[t], NEW term, term # "Label"
      PROVE  Value(g, <<t, p>>, term) = Value(m, <<t, p>>, term)
  <2>1. Settled(<<t, p>>, term)
    BY <1>4 DEF Settled
  <2> QED
    BY <1>1, <2>1
<1>5. \A term \in {"LineItem", "SelectionFields"} : ViewHeld(g, ns, t, term)
  BY <1>3 DEF Held, ViewHeld
<1>6. VariantsAsMeant(g, ns, t)
  BY <1>3, VariantsMeant DEF Held
<1>7. NothingLost(g, ns, t)
  <2>1. \A i \in DOMAIN ns : ns[i] \in Noted
    OBVIOUS
  <2>2. \A i \in DOMAIN ns : MeantFor(ns[i].note, t) => \A s \in Slots(ns[i].note, t) :
          Value(g, s[1], s[2]) = Value(m, s[1], s[2])
    BY <1>1, <2>1, SlotSettles DEF Noted
  <2>3. \A i \in DOMAIN ns : MeantFor(ns[i].note, t) => \A s \in Slots(ns[i].note, t) :
          /\ Given(m, s[1], s[2]) => Given(g, s[1], s[2])
          /\ Named(m, s[1], s[2]) \subseteq Named(g, s[1], s[2])
    BY <2>2, NamedIs DEF Given
  <2> QED
    BY <2>3, LostStays DEF Held
<1>8. ASSUME NEW p \in OwnProps[t]
      PROVE  TextHeld(g, ns, attrs, t, p, k) /\ ArrangementHeld(g, ns, attrs, t, p, k)
  <2>1. TextHeld(m, ns, attrs, t, p, k) /\ ArrangementHeld(m, ns, attrs, t, p, k)
    BY DEF Held
  <2>2. /\ Value(g, <<t, p>>, "Text") = Value(m, <<t, p>>, "Text")
        /\ Value(g, <<t, p>>, "TextArrangement") = Value(m, <<t, p>>, "TextArrangement")
    BY <1>4
  <2> QED
    BY <2>1, <2>2 DEF TextHeld, ArrangementHeld
<1> QED
  BY <1>5, <1>6, <1>7, <1>8 DEF Held, g

(* The model of the first pass. *)
InlineFine(attrs) ==
  /\ DOMAIN attrs \subseteq InlineSlots
  /\ \A s \in DOMAIN attrs :
       LET e == attrs[s][1]
       IN  attrs[s] = <<Entry(e.q, e.paths, e.mark)>> /\ (s[2] = "Text" => e.paths # {})

LEMMA InlineSlotFacts ==
  ASSUME NEW s \in InlineSlots
  PROVE  \/ /\ \E t \in Types : \E p \in OwnProps[t] : s[1] = <<t, p>>
            /\ s = <<s[1], s[2]>> /\ s[2] \in PropertyTerms \cup Restrictions \cup {"Label"}
         \/ \E t \in Types : s[1] = <<t>> /\ s = <<s[1], s[2]>> /\ s[2] \in SetFlags
<1>1. CASE s \in PropertyPlaces \X (PropertyTerms \cup Restrictions \cup {"Label"})
  BY <1>1 DEF PropertyPlaces
<1>2. CASE s \in {<<t>> : t \in Types} \X SetFlags
  BY <1>2
<1> QED
  BY <1>1, <1>2 DEF InlineSlots

LEMMA ParsedValue ==
  ASSUME NEW attrs, InlineFine(attrs)
  PROVE  LET m == ParsedModel(attrs)
         IN  /\ \A place, term : Value(m, place, term) = InlineOf(attrs, place, term)
             /\ Listed(m) /\ Placed(m) /\ TextsInline(attrs)
             /\ \A t \in Types :
                  /\ \A term \in ViewTerms : Value(m, <<t>>, term) = <<>>
                  /\ \A p : Value(m, <<t, p>>, "TextArrangement") = <<>>
<1> DEFINE m == ParsedModel(attrs)
<1>1. \A place, term : Value(m, place, term) = InlineOf(attrs, place, term)
  BY DEF Value, InlineOf, ParsedModel
<1>2. m.vals = attrs
  BY DEF ParsedModel
<1> HIDE DEF m
<1>3. ASSUME NEW s \in DOMAIN attrs
      PROVE  IsList(attrs[s]) /\ Len(attrs[s]) = 1 /\ (s[2] = "Text" => attrs[s][1].paths # {})
  <2> DEFINE e == attrs[s][1]
             f == Entry(e.q, e.paths, e.mark)
  <2>1. attrs[s] = <<f>> /\ (s[2] = "Text" => e.paths # {})
    BY DEF InlineFine
  <2>2. IsEntry(f)
    BY EntryFacts
  <2> HIDE DEF f
  <2>3. IsList(<<f>>) /\ Len(<<f>>) = 1
    BY <2>2, SingleList
  <2> QED
    BY <2>1, <2>3
<1>4. Listed(m)
  <2>1. SUFFICES ASSUME NEW place, NEW term
                 PROVE  /\ IsList(InlineOf(attrs, place, term))
                        /\ term \in UniteTerms => Len(InlineOf(attrs, place, term)) <= 1
    BY <1>1 DEF Listed
  <2>2. CASE <<place, term>> \in DOMAIN attrs
    BY <1>3, <2>2 DEF InlineOf
  <2>3. CASE <<place, term>> \notin DOMAIN attrs
    BY <2>3, NoEntries DEF InlineOf
  <2> QED
    BY <2>2, <2>3
<1>5. Placed(m)
  <2>1. SUFFICES ASSUME NEW s \in DOMAIN attrs, IsPropertySlot(s)
                 PROVE  s = << <<s[1][1], s[1][2]>>, s[2]>>
    BY <1>2 DEF Placed
  <2>2. s \in InlineSlots
    BY DEF InlineFine
  <2>3. CASE \E t \in Types : s[1] = <<t>>
    <3>1. Len(s[1]) = 1
      BY <2>3
    <3> QED
      BY <2>1, <3>1 DEF IsPropertySlot
  <2>4. CASE (\E t \in Types : \E p \in OwnProps[t] : s[1] = <<t, p>>) /\ s = <<s[1], s[2]>>
    BY <2>4
  <2> QED
    BY <2>2, <2>3, <2>4, InlineSlotFacts
<1>6. TextsInline(attrs)
  <2>1. SUFFICES ASSUME NEW place, InlineOf(attrs, place, "Text") # <<>>
                 PROVE  InlineOf(attrs, place, "Text")[1].paths # {}
    BY DEF TextsInline
  <2> DEFINE s == <<place, "Text">>
  <2>2. s \in DOMAIN attrs /\ InlineOf(attrs, place, "Text") = attrs[s] /\ s[2] = "Text"
    BY <2>1 DEF InlineOf
  <2> HIDE DEF s
  <2> QED
    BY <1>3, <2>2
<1>7. ASSUME NEW t \in Types, NEW term \in ViewTerms PROVE Value(m, <<t>>, term) = <<>>
  <2> DEFINE s == << <<t>>, term>>
  <2>1. s[1] = <<t>> /\ s[2] = term /\ term \notin SetFlags
    BY DEF ViewTerms, SetFlags
  <2> HIDE DEF s
  <2>2. s \notin InlineSlots
    BY <2>1, InlineSlotFacts, PlacesApart
  <2>3. << <<t>>, term>> \notin DOMAIN attrs
    BY <2>2 DEF InlineFine, s
  <2> QED
    BY <1>1, <2>3 DEF InlineOf
<1>8. ASSUME NEW t \in Types, NEW p PROVE Value(m, <<t, p>>, "TextArrangement") = <<>>
  <2> DEFINE s == << <<t, p>>, "TextArrangement">>
  <2>1. s[2] \notin PropertyTerms \cup Restrictions \cup {"Label"} \cup SetFlags
    BY DEF PropertyTerms, Restrictions, SetFlags
  <2> HIDE DEF s
  <2>2. s \notin InlineSlots
    BY <2>1, InlineSlotFacts
  <2>3. << <<t, p>>, "TextArrangement">> \notin DOMAIN attrs
    BY <2>2 DEF InlineFine, s
  <2> QED
    BY <1>1, <2>3 DEF InlineOf
<1> QED
  BY <1>1, <1>4, <1>5, <1>6, <1>7, <1>8 DEF m

LEMMA ParsedHeld ==
  ASSUME NEW attrs, InlineFine(attrs), NEW t \in Types
  PROVE  /\ Held(ParsedModel(attrs), <<>>, attrs, t, 1, 0)
         /\ DefaultsHeld(<<>>, <<>>, t, 1)
<1> DEFINE m == ParsedModel(attrs)
<1>1. /\ \A place, term : Value(m, place, term) = InlineOf(attrs, place, term)
      /\ Listed(m) /\ TextsInline(attrs)
      /\ \A term \in ViewTerms : Value(m, <<t>>, term) = <<>>
      /\ \A p : Value(m, <<t, p>>, "TextArrangement") = <<>>
  BY ParsedValue
<1> HIDE DEF m
<1>2. \A term : About(<<>>, t, term) = {}
  BY DEF About
<1>3. \A term \in {"LineItem", "SelectionFields"} : ViewHeld(m, <<>>, t, term)
  BY <1>1, <1>2 DEF ViewHeld, ViewTerms
<1>4. VariantsAsMeant(m, <<>>, t)
  <2>1. Value(m, <<t>>, "SelectionVariant") = <<>>
    BY <1>1 DEF ViewTerms
  <2>2. SaidAt(<<>>, {}) = {} /\ Cardinality({}) + Cardinality({}) = 0
    BY FS_EmptySet DEF SaidAt
  <2>3. VariantsKept(<<>>, {}, {}, 0)
    BY DEF VariantsKept
  <2> QED
    BY <1>2, <2>1, <2>2, <2>3, VariantsMeant
<1>5. ASSUME NEW p \in OwnProps[t]
      PROVE  TextHeld(m, <<>>, attrs, t, p, 1) /\ ArrangementHeld(m, <<>>, attrs, t, p, 0)
  <2>1. \A term : On(<<>>, t, p, term) = {}
    BY <1>2 DEF On
  <2>2. Nested(<<>>, t, p) = {} /\ Reaching(<<>>, attrs, t, p, 0) = {} /\ Texts(<<>>, t, p, 1) = {}
    BY <1>2, <2>1 DEF Nested, Reaching, Texts
  <2>3. ArrangementHeld(m, <<>>, attrs, t, p, 0)
    BY <1>1, <2>2 DEF ArrangementHeld
  <2> DEFINE v == InlineOf(attrs, <<t, p>>, "Text")
             T == TextOf(<<>>, attrs, t, p, 1)
  <2>4. T = IF v # <<>> THEN v[1].paths ELSE {}
    BY <2>2 DEF TextOf
  <2>5. v # <<>> => v[1].paths # {}
    BY <1>1 DEF TextsInline
  <2>6. v # <<>> => v = <<v[1]>>
    <3> DEFINE s == << <<t, p>>, "Text">>
    <3>1. v = IF s \in DOMAIN attrs THEN attrs[s] ELSE <<>>
      BY DEF InlineOf
    <3> HIDE DEF s, v
    <3>2. s \in DOMAIN attrs => attrs[s] = <<attrs[s][1]>>
      BY OneEntry DEF InlineFine
    <3> QED
      BY <3>1, <3>2
  <2>7. Value(m, <<t, p>>, "Text") = v
    BY <1>1
  <2> HIDE DEF v, T
  <2>8. IF T = {} THEN Value(m, <<t, p>>, "Text") = <<>>
        ELSE Value(m, <<t, p>>, "Text") = <<Value(m, <<t, p>>, "Text")[1]>>
             /\ Value(m, <<t, p>>, "Text")[1].paths = T
    BY <2>4, <2>5, <2>6, <2>7
  <2>9. TextHeld(m, <<>>, attrs, t, p, 1)
    BY <2>8 DEF TextHeld, T
  <2> QED
    BY <2>3, <2>9
<1>6. NothingLost(m, <<>>, t)
  BY DEF NothingLost
<1>7. DefaultsHeld(<<>>, <<>>, t, 1)
  <2>1. DefaultsOf(<<>>, t, Len(<<>>)) = {} /\ Now(<<>>, t, 1) = {}
    BY <1>2 DEF DefaultsOf, Now
  <2> QED
    BY <2>1 DEF DefaultsHeld
<1> QED
  BY <1>3, <1>4, <1>5, <1>6, <1>7 DEF Held, m

-----------------------------------------------------------------------------
(* The form of the model. *)

LEMMA TakenPlaced ==
  ASSUME NEW m, Shaped(m), Placed(m), NEW m2, NEW n \in Notes, Taken(m, m2, n)
  PROVE  Placed(m2)
<1>1. CASE m2 = m
  BY <1>1
<1>2. ASSUME NEW u \in Types, MeantFor(n, u), m2 = Written(m, n, u) PROVE Placed(m2)
  <2>1. DOMAIN m2.vals \subseteq Slots(n, u) \cup DOMAIN m.vals \cup
                        (IF Nests(n) THEN {<<n.at, "TextArrangement">>} ELSE {})
    BY <1>2, WrittenValue
  <2>2. ASSUME NEW s \in Slots(n, u), IsPropertySlot(s) PROVE s = << <<s[1][1], s[1][2]>>, s[2]>>
    <3>1. CASE n.term \in PropertyTerms
      <4>1. s = <<n.at, n.term>> /\ n.at = <<u, n.at[2]>>
        BY <1>2, <3>1, SlotsOf, MeantPlaces
      <4> QED
        BY <4>1
    <3>2. CASE n.term = "Readable"
      <4>1. s = <<n.at, n.term>>
        BY <3>2, SlotsOf
      <4>2. Len(n.at) = 2
        BY <2>2, <4>1 DEF IsPropertySlot
      <4>3. n.at = <<n.at[1], n.at[2]>>
        BY <4>2, NoteShape
      <4> QED
        BY <4>1, <4>3
    <3>3. CASE n.term = "Restricts"
      <4>1. PICK p : s = << <<u, p>>, n.mark>>
        BY <3>3, SlotsOf
      <4> QED
        BY <4>1
    <3>4. CASE n.term \notin PropertyTerms \cup {"Readable", "Restricts"}
      <4>1. PICK term : s = << <<u>>, term>>
        BY <3>4, SlotsOf
      <4>2. Len(s[1]) = 1
        BY <4>1
      <4> QED
        BY <2>2, <4>2 DEF IsPropertySlot
    <3> QED
      BY <3>1, <3>2, <3>3, <3>4
  <2>3. ASSUME Nests(n), NEW s, s = <<n.at, "TextArrangement">>
        PROVE  s = << <<s[1][1], s[1][2]>>, s[2]>>
    <3>1. n.term \in PropertyTerms
      BY <2>3 DEF Nests, PropertyTerms
    <3>2. n.at = <<u, n.at[2]>>
      BY <1>2, <3>1, MeantPlaces
    <3> QED
      BY <2>3, <3>2
  <2> QED
    BY <2>1, <2>2, <2>3 DEF Placed
<1> QED
  BY <1>1, <1>2 DEF Taken

LEMMA FilledListed ==
  ASSUME NEW m, Listed(m), NEW g, Filled(m, g)
  PROVE  Listed(g)
<1>1. SUFFICES ASSUME NEW place, NEW term
               PROVE  /\ IsList(Value(g, place, term))
                      /\ term \in UniteTerms => Len(Value(g, place, term)) <= 1
  BY DEF Listed
<1>2. CASE Value(g, place, term) = Value(m, place, term)
  BY <1>2 DEF Listed
<1>3. ASSUME NEW mark, Value(g, place, term) = Arrangement(mark) PROVE IsList(Value(g, place, term))
  BY <1>3, EntryFacts, SingleList DEF Arrangement
<1>4. "TextArrangement" \notin UniteTerms
  BY DEF UniteTerms
<1> QED
  BY <1>2, <1>3, <1>4 DEF Filled

-----------------------------------------------------------------------------
(* While a document is read the model is what its notes have said so far;  *)
(* when it is parsed, what they all say.                                   *)
Reading(m, ns, attrs, ds, k) ==
  /\ Listed(m) /\ Placed(m) /\ TextsInline(attrs)
  /\ \A t \in Types : Held(m, ns, attrs, t, k, k - 1) /\ DefaultsHeld(ds, ns, t, k)

ReadInv ==
  /\ DocInv
  /\ phase = "notes" => Reading(model, notes, inline, defaults, at)
  /\ phase = "parsed" => \A t \in Types : Held(model, notes, inline, t, schemas, schemas)

LEMMA NoteRead ==
  ASSUME Shaped(model), NEW n \in Notes,
         CASE n.term = "Label" -> TakeLabel(n)
           [] n.term = "TextArrangement" -> TakeDefault(n)
           [] OTHER -> TakeTyped(n)
  PROVE  /\ Taken(model, model', n)
         /\ defaults' = IF n.term = "TextArrangement" /\ \E u \in Types : MeantFor(n, u)
                        THEN Append(defaults, <<n.at[1], n.mark>>) ELSE defaults
<1>1. n.term # "Label" => Targets(n) = {t \in Types : MeantFor(n, t)}
  BY TargetsMeant
<1>2. CASE n.term = "Label"
  BY <1>2 DEF TakeLabel, Taken, Typed
<1>3. CASE n.term = "TextArrangement"
  <2>1. TakeDefault(n)
    BY <1>3
  <2> QED
    BY <1>1, <1>3, <2>1 DEF TakeDefault, Taken, Typed
<1>4. CASE n.term # "Label" /\ n.term # "TextArrangement"
  <2>1. TakeTyped(n)
    BY <1>4
  <2> QED
    BY <1>1, <1>4, <2>1 DEF TakeTyped, Taken, Typed
<1> QED
  BY <1>2, <1>3, <1>4

LEMMA ReadNext ==
  ASSUME NoneRedeclared
  PROVE  ReadInv /\ [Next]_vars => ReadInv'
<1> SUFFICES ASSUME ReadInv, [Next]_vars
             PROVE  /\ phase' = "notes" => Reading(model', notes', inline', defaults', at')
                    /\ phase' = "parsed" => \A t \in Types :
                         Held(model', notes', inline', t, schemas', schemas')
  BY DocNext DEF ReadInv
<1>1. DocInv
  BY DEF ReadInv
<1>2. CASE ReadModel
  <2>1. /\ phase' = "notes" /\ model' = ParsedModel(inline) /\ at' = 1
        /\ notes' = <<>> /\ defaults' = <<>> /\ inline' = inline
    BY <1>1, <1>2 DEF ReadModel, DocInv, doc
  <2>2. InlineFine(inline)
    BY <1>1, DocumentAssumption DEF DocInv, InlineFine
  <2>3. Listed(ParsedModel(inline)) /\ Placed(ParsedModel(inline)) /\ TextsInline(inline)
    BY <2>2, ParsedValue
  <2>4. \A t \in Types : /\ Held(ParsedModel(inline), <<>>, inline, t, 1, 0)
                         /\ DefaultsHeld(<<>>, <<>>, t, 1)
    BY <2>2, ParsedHeld
  <2>5. 1 - 1 = 0
    OBVIOUS
  <2> QED
    BY <2>1, <2>3, <2>4, <2>5 DEF Reading
<1>3. ASSUME NEW n \in NextNote, ReadNote(n)
      PROVE  phase' = "notes" /\ Reading(model', notes', inline', defaults', at')
  <2> DEFINE x == [note |-> n, schema |-> at]
  <2>1. /\ n \in Notes /\ phase = "notes" /\ phase' = "notes" /\ at' = at /\ inline' = inline
        /\ notes' = Append(notes, x)
        /\ CASE n.term = "Label" -> TakeLabel(n)
             [] n.term = "TextArrangement" -> TakeDefault(n)
             [] OTHER -> TakeTyped(n)
    BY <1>1, <1>3, NextNoteIs DEF ReadNote, DocInv, doc
  <2>2. /\ Shaped(model) /\ at \in Nat /\ at - 1 \in Nat /\ notes \in Seq(Noted)
        /\ defaults \in Seq(Marks)
    BY <1>1, <2>1 DEF DocInv
  <2>3. Listed(model) /\ Placed(model) /\ TextsInline(inline)
        /\ \A t \in Types : /\ Held(model, notes, inline, t, at, at - 1)
                            /\ DefaultsHeld(defaults, notes, t, at)
    BY <2>1 DEF ReadInv, Reading
  <2>4. Taken(model, model', n)
        /\ defaults' = IF n.term = "TextArrangement" /\ \E u \in Types : MeantFor(n, u)
                       THEN Append(defaults, <<n.at[1], n.mark>>) ELSE defaults
    BY <2>1, <2>2, NoteRead
  <2>5. x \in Noted /\ x.note = n /\ x.schema = at
    BY <2>1, <2>2 DEF Noted
  <2> HIDE DEF x
  <2>6. Listed(model') /\ Placed(model')
    BY <2>1, <2>2, <2>3, <2>4, TakenListed, TakenPlaced
  <2>7. ASSUME NEW t \in Types
        PROVE  Held(model', notes', inline', t, at, at - 1)
    <3>1. x.note \in Notes /\ Taken(model, model', x.note) /\ x.schema \in Nat /\ x.schema - 1 \in Nat
          /\ Held(model, notes, inline, t, x.schema, x.schema - 1)
      BY <2>1, <2>2, <2>3, <2>4, <2>5
    <3>2. Held(model', Append(notes, x), inline, t, x.schema, x.schema - 1)
      BY <2>2, <2>3, <2>5, <3>1, HeldNote
    <3> QED
      BY <2>1, <2>5, <3>2
  <2>8. ASSUME NEW t \in Types
        PROVE  DefaultsHeld(defaults', notes', t, at)
    <3>1. /\ x.note \in Notes /\ x.schema = at /\ DefaultsHeld(defaults, notes, t, at)
          /\ defaults' = IF x.note.term = "TextArrangement" /\ \E u \in Types : MeantFor(x.note, u)
                         THEN Append(defaults, <<x.note.at[1], x.note.mark>>) ELSE defaults
      BY <2>1, <2>3, <2>4, <2>5
    <3>2. DefaultsHeld(defaults', Append(notes, x), t, at)
      BY <2>2, <2>5, <3>1, DefaultsStay
    <3> QED
      BY <2>1, <3>2
  <2> QED
    BY <2>1, <2>3, <2>6, <2>7, <2>8 DEF Reading
<1>4. CASE EndSchema
  <2> DEFINE g == AfterDefaults(model, defaults)
  <2>1. /\ phase = "notes" /\ defaults' = <<>> /\ notes' = notes /\ inline' = inline
        /\ schemas' = schemas
        /\ IF at < schemas THEN model' = g /\ at' = at + 1 /\ phase' = phase
           ELSE model' = Finished(g) /\ phase' = "parsed"
    BY <1>4 DEF EndSchema, doc
  <2>2. /\ Shaped(model) /\ at \in Nat /\ at \in 1..schemas /\ schemas \in Nat /\ UpTo(notes, at)
        /\ notes \in Seq(Noted) /\ Ordered(notes) /\ Len(defaults) \in Nat
        /\ DOMAIN labels \subseteq Places
    BY <1>1, <2>1 DEF DocInv
  <2>3. Listed(model) /\ Placed(model) /\ TextsInline(inline)
        /\ \A t \in Types : /\ Held(model, notes, inline, t, at, at - 1)
                            /\ DefaultsHeld(defaults, notes, t, at)
    BY <2>1 DEF ReadInv, Reading
  <2>4. Applied(model, g, defaults, Len(defaults))
    BY <2>2, DefaultsValue
  <2> HIDE DEF g
  <2>5. Shaped(g) /\ Placed(g) /\ Listed(g)
    BY <2>3, <2>4, FilledListed DEF Applied
  <2>6. \A t \in Types : Held(g, notes, inline, t, at, at)
    BY <2>2, <2>3, <2>4, HeldDefaulted
  <2>7. CASE at < schemas
    <3>1. \A t \in Types : Held(g, notes, inline, t, at + 1, at) /\ DefaultsHeld(<<>>, notes, t, at + 1)
      BY <2>2, <2>6, HeldNext
    <3>2. (at + 1) - 1 = at
      BY <2>2
    <3>3. model' = g /\ at' = at + 1 /\ phase' = "notes"
      BY <2>1, <2>7
    <3>4. Reading(g, notes, inline, <<>>, at + 1)
      BY <2>3, <2>5, <3>1, <3>2 DEF Reading
    <3> QED
      BY <2>1, <3>3, <3>4
  <2>8. CASE ~(at < schemas)
    <3>1. at = schemas
      BY <2>2, <2>8
    <3>2. \A t \in Types : Held(Finished(g), notes, inline, t, at, at)
      BY <2>2, <2>5, <2>6, HeldFinished
    <3> QED
      BY <2>1, <2>8, <3>1, <3>2
  <2> QED
    BY <2>7, <2>8
<1>5. CASE UNCHANGED vars
  BY <1>5 DEF vars, ReadInv
<1>6. CASE NoSchema \/ \E r \in LintRequests : Lint(r)
  BY <1>6 DEF NoSchema, Lint
<1> QED
  BY <1>2, <1>3, <1>4, <1>5, <1>6 DEF Next

(* What annotations.rs makes of the notes of a document, whichever schema   *)
(* they stand in and in whatever order: the unqualified variant of a view  *)
(* wins, no selection variant is lost, sap:text stays, a nested            *)
(* arrangement goes before the default of its type, which reaches only the *)
(* texts there are by the end of its schema, and nothing is lost but a     *)
(* currency or a flag that is annotated again without a value              *)
(* (metadata/mod.rs pass 2, metadata/annotations.rs).                      *)
THEOREM ParsesAsMeant ==
  ASSUME NoneRedeclared
  PROVE  Spec => []ParsedAsMeant
<1>1. Init => ReadInv
  BY DocInit DEF Init, ReadInv
<1>2. ReadInv /\ [Next]_vars => ReadInv'
  BY ReadNext
<1>3. ReadInv => ParsedAsMeant
  <2>1. SUFFICES ASSUME ReadInv, phase = "parsed", NEW t \in Types
                 PROVE  /\ ViewsAsMeant(model, notes, t) /\ VariantsAsMeant(model, notes, t)
                        /\ TextsAsMeant(model, notes, inline, t, schemas)
                        /\ NothingLost(model, notes, t)
    BY DEF ParsedAsMeant
  <2>2. Held(model, notes, inline, t, schemas, schemas)
    BY <2>1 DEF ReadInv
  <2> QED
    BY <2>2, HeldMeans
<1> QED
  BY <1>1, <1>2, <1>3, PTL DEF Spec

-----------------------------------------------------------------------------
(* What the linter vouches for: sort orders, hidden and restricted          *)
(* properties as the notes have them.                                       *)

SortHeld(m, ns, t) ==
  LET v == Value(m, <<t>>, "SortOrder")
      said == About(ns, t, "SortOrder")
  IN  IF said = {} THEN v = <<>> ELSE v = <<v[1]>> /\ v[1].paths = ns[First(said)].note.paths

HiddenHeld(m, ns, t, p) ==
  LET v == Value(m, <<t, p>>, "Hidden")
      said == On(ns, t, p, "Hidden")
  IN  said # {} => v = <<v[1]>> /\ v[1].mark = ns[Last(said)].note.mark

Takes(n, t, p, attribute) ==
  n.term = "Restricts" /\ MeantFor(n, t) /\ n.mark = attribute /\ p \in n.paths
LossHeld(m, ns, attrs, t, p, attribute) ==
  (\/ \E i \in DOMAIN ns : Takes(ns[i].note, t, p, attribute)
   \/ \E i \in DOMAIN InlineOf(attrs, <<t, p>>, attribute) :
        InlineOf(attrs, <<t, p>>, attribute)[i].mark = "false")
  => Says(m, <<t, p>>, attribute, "false")

Vouched(m, ns, attrs, t) ==
  /\ SortHeld(m, ns, t)
  /\ \A p \in OwnProps[t] : /\ HiddenHeld(m, ns, t, p)
                            /\ \A a \in {"filterable", "sortable"} : LossHeld(m, ns, attrs, t, p, a)

(* Any slot but that of an arrangement, after a note. *)
Writes(n, place, term) ==
  Typed(n) /\ \E u \in Types : MeantFor(n, u) /\ <<place, term>> \in Slots(n, u)

LEMMA SlotTaken ==
  ASSUME NEW m, Shaped(m), NEW m2, NEW n \in Notes, Taken(m, m2, n),
         NEW place, NEW term, term # "TextArrangement"
  PROVE  Value(m2, place, term) =
           IF Writes(n, place, term) THEN Merge(n.term, Value(m, place, term), Said(n))
           ELSE Value(m, place, term)
<1>1. CASE m2 = m /\ (Typed(n) => \A u \in Types : ~MeantFor(n, u))
  BY <1>1 DEF Writes
<1>2. ASSUME NEW u \in Types, Typed(n), MeantFor(n, u), m2 = Written(m, n, u)
      PROVE  Value(m2, place, term) =
               IF Writes(n, place, term) THEN Merge(n.term, Value(m, place, term), Said(n))
               ELSE Value(m, place, term)
  <2>1. Value(Written(m, n, u), place, term) =
          IF Nests(n) /\ place = n.at /\ term = "TextArrangement" THEN <<Entry("none", {}, n.mark)>>
          ELSE IF <<place, term>> \in Slots(n, u) THEN Merge(n.term, Value(m, place, term), Said(n))
          ELSE Value(m, place, term)
    BY WrittenValue
  <2>2. Writes(n, place, term) <=> <<place, term>> \in Slots(n, u)
    BY <1>2, OneTarget DEF Writes
  <2> QED
    BY <1>2, <2>1, <2>2
<1> QED
  BY <1>1, <1>2 DEF Taken

LEMMA SortWrites ==
  ASSUME NEW n \in Notes, NEW t \in Types
  PROVE  Writes(n, <<t>>, "SortOrder") <=> n.term = "SortOrder" /\ MeantFor(n, t)
<1>1. "SortOrder" \notin PropertyTerms \cup Restrictions
  BY DEF PropertyTerms, Restrictions
<1>2. ASSUME NEW u \in Types, MeantFor(n, u)
      PROVE  << <<t>>, "SortOrder">> \in Slots(n, u) <=> t = u /\ n.term = "SortOrder"
  <2>1. CASE n.term \in PropertyTerms \cup {"Readable"}
    <3>1. Slots(n, u) = {<<n.at, n.term>>}
      BY <2>1, SlotsOf
    <3> QED
      BY <1>1, <2>1, <3>1
  <2>2. CASE n.term = "Restricts"
    <3>1. Slots(n, u) = {<< <<u, p>>, n.mark>> : p \in n.paths \cap OwnProps[u]}
      BY <2>2, SlotsOf
    <3>2. n.mark \in Restrictions
      BY <2>2, NoteShape
    <3> QED
      BY <1>1, <2>2, <3>1, <3>2
  <2>3. CASE n.term = "SelectionPresentationVariant"
    <3>1. Slots(n, u) = {<< <<u>>, "SelectionVariant">>}
      BY <2>3, SlotsOf
    <3> QED
      BY <2>3, <3>1
  <2>4. CASE n.term \notin PropertyTerms \cup {"Readable", "Restricts", "SelectionPresentationVariant"}
    <3>1. Slots(n, u) = {<< <<u>>, n.term>>}
      BY <2>4, SlotsOf
    <3> QED
      BY <2>4, <3>1
  <2> QED
    BY <2>1, <2>2, <2>3, <2>4
<1>3. n.term = "SortOrder" => Typed(n)
  BY DEF Typed
<1> QED
  BY <1>2, <1>3 DEF Writes

LEMMA HiddenWrites ==
  ASSUME NEW n \in Notes, NEW t \in Types, NEW p \in OwnProps[t]
  PROVE  Writes(n, <<t, p>>, "Hidden") <=> n.term = "Hidden" /\ MeantFor(n, t) /\ n.at[2] = p
<1>1. "Hidden" \in PropertyTerms /\ "Hidden" \notin Restrictions
  BY DEF PropertyTerms, Restrictions
<1>2. ASSUME NEW u \in Types, MeantFor(n, u)
      PROVE  << <<t, p>>, "Hidden">> \in Slots(n, u) <=> n.term = "Hidden" /\ n.at = <<t, p>>
  <2>1. CASE n.term \in PropertyTerms \cup {"Readable"}
    <3>1. Slots(n, u) = {<<n.at, n.term>>}
      BY <2>1, SlotsOf
    <3> QED
      BY <1>1, <2>1, <3>1
  <2>2. CASE n.term = "Restricts"
    <3>1. Slots(n, u) = {<< <<u, q>>, n.mark>> : q \in n.paths \cap OwnProps[u]}
      BY <2>2, SlotsOf
    <3>2. n.mark \in Restrictions
      BY <2>2, NoteShape
    <3> QED
      BY <1>1, <2>2, <3>1, <3>2
  <2>3. CASE n.term \notin PropertyTerms \cup {"Readable", "Restricts"}
    <3>1. \E term : Slots(n, u) = {<< <<u>>, term>>}
      BY <2>3, SlotsOf
    <3> QED
      BY <1>1, <2>3, <3>1, PlacesApart
  <2> QED
    BY <2>1, <2>2, <2>3
<1>3. n.term = "Hidden" => Typed(n)
  BY DEF Typed
<1>4. \A u : n.term = "Hidden" /\ MeantFor(n, u) => n.at = <<u, n.at[2]>>
  BY <1>1, MeantPlaces
<1>5. n.at = <<t, p>> => \A u : n.at = <<u, n.at[2]>> => u = t /\ n.at[2] = p
  OBVIOUS
<1> QED
  BY <1>2, <1>3, <1>4, <1>5 DEF Writes

LEMMA LossWrites ==
  ASSUME NEW n \in Notes, NEW t \in Types, NEW p \in OwnProps[t], NEW a \in Restrictions
  PROVE  Writes(n, <<t, p>>, a) <=> Takes(n, t, p, a)
<1>1. a \notin PropertyTerms \cup {"Readable"}
  BY DEF PropertyTerms, Restrictions
<1>2. ASSUME NEW u \in Types, MeantFor(n, u)
      PROVE  << <<t, p>>, a>> \in Slots(n, u) <=>
               n.term = "Restricts" /\ u = t /\ n.mark = a /\ p \in n.paths
  <2>1. CASE n.term \in PropertyTerms \cup {"Readable"}
    <3>1. Slots(n, u) = {<<n.at, n.term>>}
      BY <2>1, SlotsOf
    <3>2. n.term # "Restricts"
      BY <2>1 DEF PropertyTerms
    <3> QED
      BY <1>1, <2>1, <3>1, <3>2
  <2>2. CASE n.term = "Restricts"
    <3>1. Slots(n, u) = {<< <<u, q>>, n.mark>> : q \in n.paths \cap OwnProps[u]}
      BY <2>2, SlotsOf
    <3> QED
      BY <2>2, <3>1
  <2>3. CASE n.term \notin PropertyTerms \cup {"Readable", "Restricts"}
    <3>1. \E term : Slots(n, u) = {<< <<u>>, term>>}
      BY <2>3, SlotsOf
    <3> QED
      BY <2>3, <3>1, PlacesApart
  <2> QED
    BY <2>1, <2>2, <2>3
<1>3. n.term = "Restricts" => Typed(n)
  BY DEF Typed
<1> QED
  BY <1>2, <1>3 DEF Writes, Takes

LEMMA SortHolds ==
  ASSUME NEW m, Shaped(m), NEW m2, NEW ns \in Seq(Noted), NEW x \in Noted, x.note \in Notes,
         Taken(m, m2, x.note), NEW t \in Types, SortHeld(m, ns, t)
  PROVE  SortHeld(m2, Append(ns, x), t)
<1> DEFINE n == x.note
           v == Value(m, <<t>>, "SortOrder")
           v2 == Value(m2, <<t>>, "SortOrder")
           A == About(ns, t, "SortOrder")
           A2 == About(Append(ns, x), t, "SortOrder")
           Meant == n.term = "SortOrder" /\ MeantFor(n, t)
<1>1. v2 = IF Meant THEN FillOnce(v, Said(n)) ELSE v
  <2>1. v2 = IF Writes(n, <<t>>, "SortOrder") THEN Merge(n.term, v, Said(n)) ELSE v
    BY SlotTaken
  <2>2. Writes(n, <<t>>, "SortOrder") <=> Meant
    BY SortWrites
  <2>3. n.term = "SortOrder" => Merge(n.term, v, Said(n)) = FillOnce(v, Said(n))
    BY MergeIs DEF FillTerms
  <2> QED
    BY <2>1, <2>2, <2>3
<1>2. A \in SUBSET (1..Len(ns)) /\ A2 = IF Meant THEN A \cup {Len(ns) + 1} ELSE A
  BY AboutGrows
<1>3. Meant => Said(n).paths = n.paths /\ n.paths # {}
  BY SaidOf DEF VariantTerms, MeantFor, Usable, HasPaths
<1>4. IF A = {} THEN v = <<>> ELSE v = <<v[1]>> /\ v[1].paths = ns[First(A)].note.paths
  BY DEF SortHeld
<1>5. SUFFICES IF A2 = {} THEN v2 = <<>>
               ELSE v2 = <<v2[1]>> /\ v2[1].paths = Append(ns, x)[First(A2)].note.paths
  BY DEF SortHeld
<1>6. A # {} => Append(ns, x)[First(A)] = ns[First(A)]
  BY <1>2, EndsStay
<1> HIDE DEF v, v2, A, A2, Meant
<1>7. Meant => /\ First(A2) = IF A = {} THEN Len(ns) + 1 ELSE First(A)
               /\ A = {} => Append(ns, x)[First(A2)] = x
  BY <1>2, EndsGrow
<1>8. CASE ~Meant
  BY <1>1, <1>2, <1>4, <1>6, <1>8
<1>9. CASE Meant /\ A = {}
  <2>1. v2 = <<Said(n)>>
    BY <1>1, <1>3, <1>4, <1>9 DEF FillOnce
  <2> QED
    BY <1>2, <1>3, <1>7, <1>9, <2>1, OneEntry
<1>10. CASE Meant /\ A # {}
  <2>1. v # <<>>
    BY <1>4, <1>10, OneEntry
  <2>2. v2 = v
    BY <1>1, <1>10, <2>1 DEF FillOnce
  <2> QED
    BY <1>2, <1>4, <1>6, <1>7, <1>10, <2>2
<1> QED
  BY <1>8, <1>9, <1>10

LEMMA HiddenHolds ==
  ASSUME NEW m, Shaped(m), NEW m2, NEW ns \in Seq(Noted), NEW x \in Noted, x.note \in Notes,
         Taken(m, m2, x.note), NEW t \in Types, NEW p \in OwnProps[t], HiddenHeld(m, ns, t, p)
  PROVE  HiddenHeld(m2, Append(ns, x), t, p)
<1> DEFINE n == x.note
           v == Value(m, <<t, p>>, "Hidden")
           v2 == Value(m2, <<t, p>>, "Hidden")
           A == On(ns, t, p, "Hidden")
           A2 == On(Append(ns, x), t, p, "Hidden")
           Meant == n.term = "Hidden" /\ MeantFor(n, t) /\ n.at[2] = p
<1>1. v2 = IF Meant THEN <<Said(n)>> ELSE v
  <2>1. v2 = IF Writes(n, <<t, p>>, "Hidden") THEN Merge(n.term, v, Said(n)) ELSE v
    BY SlotTaken
  <2>2. Writes(n, <<t, p>>, "Hidden") <=> Meant
    BY HiddenWrites
  <2>3. n.term = "Hidden" => Merge(n.term, v, Said(n)) = <<Said(n)>>
    BY MergeIs DEF FillTerms, UniteTerms, Replace, Empties, SetFlags
  <2> QED
    BY <2>1, <2>2, <2>3
<1>2. A \in SUBSET (1..Len(ns)) /\ A2 = IF Meant THEN A \cup {Len(ns) + 1} ELSE A
  BY OnGrows
<1>3. Meant => Said(n).mark = n.mark
  BY SaidOf
<1>4. A # {} => v = <<v[1]>> /\ v[1].mark = ns[Last(A)].note.mark
  BY DEF HiddenHeld
<1>5. SUFFICES A2 # {} => v2 = <<v2[1]>> /\ v2[1].mark = Append(ns, x)[Last(A2)].note.mark
  BY DEF HiddenHeld
<1>6. A # {} => Append(ns, x)[Last(A)] = ns[Last(A)]
  BY <1>2, EndsStay
<1> HIDE DEF v, v2, A, A2, Meant
<1>7. Meant => Append(ns, x)[Last(A2)] = x
  BY <1>2, EndsGrow
<1>8. CASE ~Meant
  BY <1>1, <1>2, <1>4, <1>6, <1>8
<1>9. CASE Meant
  BY <1>1, <1>3, <1>7, <1>9, OneEntry
<1> QED
  BY <1>8, <1>9

LEMMA SaysOne == \A e : \E i \in DOMAIN <<e>> : <<e>>[i] = e
<1>1. \A e : 1 \in DOMAIN <<e>> /\ <<e>>[1] = e
  OBVIOUS
<1> QED
  BY <1>1

LEMMA LossHolds ==
  ASSUME NEW m, Shaped(m), NEW m2, NEW ns \in Seq(Noted), NEW x \in Noted, x.note \in Notes,
         Taken(m, m2, x.note), NEW t \in Types, NEW p \in OwnProps[t],
         NEW a \in {"filterable", "sortable"}, NEW attrs, LossHeld(m, ns, attrs, t, p, a)
  PROVE  LossHeld(m2, Append(ns, x), attrs, t, p, a)
<1> DEFINE n == x.note
           v == Value(m, <<t, p>>, a)
           v2 == Value(m2, <<t, p>>, a)
           Here == Takes(n, t, p, a)
<1>0. a \in Restrictions /\ a # "required" /\ a # "TextArrangement"
  BY DEF Restrictions
<1>1. v2 = IF Here THEN <<Said(n)>> ELSE v
  <2>1. v2 = IF Writes(n, <<t, p>>, a) THEN Merge(n.term, v, Said(n)) ELSE v
    BY <1>0, SlotTaken
  <2>2. Writes(n, <<t, p>>, a) <=> Here
    BY <1>0, LossWrites
  <2>3. n.term = "Restricts" => Merge(n.term, v, Said(n)) = <<Said(n)>>
    BY MergeIs DEF FillTerms, UniteTerms, Replace, Empties, SetFlags
  <2>4. Here => n.term = "Restricts"
    BY DEF Takes
  <2> QED
    BY <2>1, <2>2, <2>3, <2>4
<1>2. Here => Said(n).mark = "false"
  BY <1>0, EntryFacts DEF Takes, Said
<1>3. Here => Says(m2, <<t, p>>, a, "false")
  BY <1>1, <1>2, SaysOne DEF Says
<1>4. ~Here => (Says(m, <<t, p>>, a, "false") => Says(m2, <<t, p>>, a, "false"))
  BY <1>1 DEF Says
<1>5. ASSUME NEW i \in DOMAIN Append(ns, x), Takes(Append(ns, x)[i].note, t, p, a)
      PROVE  Here \/ \E j \in DOMAIN ns : Takes(ns[j].note, t, p, a)
  BY <1>5, NoteAdded
<1> QED
  BY <1>3, <1>4, <1>5 DEF LossHeld

LEMMA VouchedNote ==
  ASSUME NEW m, Shaped(m), NEW m2, NEW ns \in Seq(Noted), NEW x \in Noted, x.note \in Notes,
         Taken(m, m2, x.note), NEW t \in Types, NEW attrs, Vouched(m, ns, attrs, t)
  PROVE  Vouched(m2, Append(ns, x), attrs, t)
BY SortHolds, HiddenHolds, LossHolds DEF Vouched

(* What changes none of these slots. *)
LEMMA VouchedStays ==
  ASSUME NEW m, NEW g, NEW ns, NEW attrs, NEW t \in Types,
         Value(g, <<t>>, "SortOrder") = Value(m, <<t>>, "SortOrder"),
         \A p \in OwnProps[t] : \A term \in {"Hidden", "filterable", "sortable"} :
            Value(g, <<t, p>>, term) = Value(m, <<t, p>>, term),
         Vouched(m, ns, attrs, t)
  PROVE  Vouched(g, ns, attrs, t)
<1>1. SortHeld(g, ns, t)
  BY DEF Vouched, SortHeld
<1>2. ASSUME NEW p \in OwnProps[t] PROVE HiddenHeld(g, ns, t, p)
  BY DEF Vouched, HiddenHeld
<1>3. ASSUME NEW p \in OwnProps[t], NEW a \in {"filterable", "sortable"}
      PROVE  LossHeld(g, ns, attrs, t, p, a)
  <2>1. Says(g, <<t, p>>, a, "false") <=> Says(m, <<t, p>>, a, "false")
    BY DEF Says
  <2>2. LossHeld(m, ns, attrs, t, p, a)
    BY DEF Vouched
  <2> QED
    BY <2>1, <2>2 DEF LossHeld
<1> QED
  BY <1>1, <1>2, <1>3 DEF Vouched

LEMMA VouchedFinished ==
  ASSUME NoneRedeclared, NEW m, Shaped(m), Placed(m), DOMAIN labels \subseteq Places,
         NEW ns, NEW attrs, NEW t \in Types, Vouched(m, ns, attrs, t)
  PROVE  Vouched(Finished(m), ns, attrs, t)
<1>1. \A place, term : Settled(place, term) => Value(Finished(m), place, term) = Value(m, place, term)
  BY FinishedValue
<1>2. Settled(<<t>>, "SortOrder")
  <2> DEFINE s == << <<t>>, "SortOrder">>
  <2>1. Len(s[1]) = 1
    OBVIOUS
  <2> HIDE DEF s
  <2>2. ~IsPropertySlot(s)
    BY <2>1 DEF IsPropertySlot
  <2> QED
    BY <2>2 DEF Settled, s
<1>3. \A p \in OwnProps[t] : \A term \in {"Hidden", "filterable", "sortable"} : Settled(<<t, p>>, term)
  BY DEF Settled
<1>4. Value(Finished(m), <<t>>, "SortOrder") = Value(m, <<t>>, "SortOrder")
  BY <1>1, <1>2
<1>5. \A p \in OwnProps[t] : \A term \in {"Hidden", "filterable", "sortable"} :
        Value(Finished(m), <<t, p>>, term) = Value(m, <<t, p>>, term)
  BY <1>1, <1>3
<1> QED
  BY <1>4, <1>5, VouchedStays

LEMMA VouchedDefaulted ==
  ASSUME NEW m, NEW g, Filled(m, g), NEW ns, NEW attrs, NEW t \in Types, Vouched(m, ns, attrs, t)
  PROVE  Vouched(g, ns, attrs, t)
<1>1. \A place, term : term # "TextArrangement" => Value(g, place, term) = Value(m, place, term)
  BY DEF Filled
<1>2. Value(g, <<t>>, "SortOrder") = Value(m, <<t>>, "SortOrder")
  BY <1>1
<1>3. \A p \in OwnProps[t] : \A term \in {"Hidden", "filterable", "sortable"} :
        Value(g, <<t, p>>, term) = Value(m, <<t, p>>, term)
  BY <1>1
<1> QED
  BY <1>2, <1>3, VouchedStays

LEMMA VouchedParsed ==
  ASSUME NEW attrs, InlineFine(attrs), NEW t \in Types
  PROVE  Vouched(ParsedModel(attrs), <<>>, attrs, t)
<1> DEFINE m == ParsedModel(attrs)
<1>1. /\ \A place, term : Value(m, place, term) = InlineOf(attrs, place, term)
      /\ \A term \in ViewTerms : Value(m, <<t>>, term) = <<>>
  BY ParsedValue
<1> HIDE DEF m
<1>2. \A term : About(<<>>, t, term) = {}
  BY DEF About
<1>3. SortHeld(m, <<>>, t)
  BY <1>1, <1>2 DEF SortHeld, ViewTerms
<1>4. \A p : HiddenHeld(m, <<>>, t, p)
  BY <1>2 DEF HiddenHeld, On
<1>5. ASSUME NEW p, NEW a PROVE LossHeld(m, <<>>, attrs, t, p, a)
  <2>1. Value(m, <<t, p>>, a) = InlineOf(attrs, <<t, p>>, a)
    BY <1>1
  <2>2. DOMAIN <<>> = {}
    OBVIOUS
  <2> QED
    BY <2>1, <2>2 DEF LossHeld, Says
<1> QED
  BY <1>3, <1>4, <1>5 DEF Vouched, m

-----------------------------------------------------------------------------
(* What the linter sees of a parsed model. *)

LEMMA AncestorTypes ==
  ASSUME Acyclic, NEW t \in Types
  PROVE  {t} \cup Ancestors(t) \subseteq Types
<1>1. Chain(t) \in Seq(Types)
  BY ChainIs DEF Linked
<1> QED
  BY <1>1 DEF Ancestors

LEMMA ParsedParts ==
  ASSUME NEW m, Shaped(m)
  PROVE  /\ ApplyBaseTypes(m).types = Types /\ ApplyBaseTypes(m).sets = Sets
         /\ \A t \in Types : /\ ApplyBaseTypes(m).props[t] = Inherited(m, "props", t)
                             /\ ApplyBaseTypes(m).navs[t] = Inherited(m, "navs", t)
BY DEF ApplyBaseTypes, ApplyBaseTypesBare, Shaped

(* A path that resolves names something the type has. *)
LEMMA PathReaches ==
  ASSUME NEW m, Shaped(m), NEW t \in Types, NEW path, Resolves(ApplyBaseTypes(m), t, path)
  PROVE  Reachable(t, path)
<1> DEFINE g == ApplyBaseTypes(m)
<1>1. \A p : p \in g.props[t] => Declarers(t, p) # {}
  <2>1. g.props[t] = OwnProps[t] \cup UNION {OwnProps[a] : a \in Ancestors(t)}
    BY ParsedParts DEF Inherited, Shaped
  <2> HIDE DEF g
  <2> QED
    BY <2>1 DEF Declarers
<1>2. g.navs[t] \subseteq AllNavs(t)
  <2>1. g.navs[t] = OwnNavs[t] \cup UNION {OwnNavs[a] : a \in Ancestors(t)}
    BY ParsedParts DEF Inherited, Shaped
  <2> HIDE DEF g
  <2> QED
    BY <2>1 DEF AllNavs
<1> HIDE DEF g
<1>3. Resolves(g, t, path)
  BY DEF g
<1> QED
  BY <1>1, <1>2, <1>3 DEF Resolves, Reachable

(* What is said of a property where it is declared is said of it wherever  *)
(* it is inherited.                                                        *)
LEMMA DeclaredAlike ==
  ASSUME Acyclic, NEW m, Shaped(m), NEW t \in Types, NEW p, NEW b \in Declarers(t, p)
  PROVE  /\ b \in Types /\ p \in OwnProps[b] /\ p \in ApplyBaseTypes(m).props[t]
         /\ \A term : Value(ApplyBaseTypes(m), <<t, p>>, term)
                        = Value(ApplyBaseTypes(m), <<b, p>>, term)
<1>1. b \in {t} \cup Ancestors(t) /\ p \in OwnProps[b]
  BY DEF Declarers
<1>2. b \in Types
  BY <1>1, AncestorTypes
<1>3. CASE b = t
  <2>1. p \in ApplyBaseTypes(m).props[t]
    BY <1>1, <1>3, ParsedParts DEF Inherited, Shaped
  <2> QED
    BY <1>1, <1>3, <2>1
<1>4. CASE b \in Ancestors(t)
  BY <1>1, <1>2, <1>4, FinishedAlike
<1> QED
  BY <1>1, <1>3, <1>4

LEMMA NoWarning ==
  ASSUME NEW found, NEW code, NEW condition,
         Finding(code, "warn", condition) \subseteq found, AtLeast(found, "warn") = {}
  PROVE  ~condition
<1>1. SUFFICES ASSUME condition PROVE FALSE
  OBVIOUS
<1> DEFINE f == [code |-> code, severity |-> "warn"]
<1>2. f \in found
  BY <1>1 DEF Finding
<1>3. f.severity = "warn" /\ SeverityAtLeast("warn", "warn")
  BY DEF SeverityAtLeast, Rank
<1> HIDE DEF f
<1> QED
  BY <1>2, <1>3 DEF AtLeast

(* The rules that find nothing. *)
Silent(m, t) ==
  /\ \A term \in {"LineItem", "SelectionFields", "SortOrder"} :
       \A path \in Named(m, <<t>>, term) : Resolves(m, t, path)
  /\ \A p \in Named(m, <<t>>, "SelectionFields") \cap m.props[t] :
       ~NonFilterable(m, t, p) /\ ~IsHidden(m, t, p)
  /\ \A p \in Named(m, <<t>>, "SortOrder") \cap m.props[t] : ~NonSortable(m, t, p)

LEMMA RulesSilent ==
  ASSUME NEW m, NEW t, NEW profile, AtLeast(Evaluate(m, t, profile), "warn") = {}
  PROVE  Silent(m, t)
<1> DEFINE found == Evaluate(m, t, profile)
           chips == Named(m, <<t>>, "SelectionFields") \cap m.props[t]
           sorted == Named(m, <<t>>, "SortOrder") \cap m.props[t]
<1>1. Consistency(m, t) \subseteq found /\ Integrity(m, t) \subseteq found
  BY DEF Evaluate
<1>2. /\ Finding("selection_non_filterable", "warn", \E p \in chips : NonFilterable(m, t, p))
           \subseteq Consistency(m, t)
      /\ Finding("sort_non_sortable", "warn", \E p \in sorted : NonSortable(m, t, p))
           \subseteq Consistency(m, t)
      /\ Finding("selection_hidden", "warn", \E p \in chips : IsHidden(m, t, p))
           \subseteq Consistency(m, t)
  BY DEF Consistency
<1>3. /\ Finding("selection_field_target_missing", "warn", Dangling(m, t, <<t>>, "SelectionFields"))
           \subseteq Integrity(m, t)
      /\ Finding("line_item_target_missing", "warn", Dangling(m, t, <<t>>, "LineItem"))
           \subseteq Integrity(m, t)
      /\ Finding("sort_order_target_missing", "warn", Dangling(m, t, <<t>>, "SortOrder"))
           \subseteq Integrity(m, t)
  BY DEF Integrity
<1>4. AtLeast(found, "warn") = {}
  OBVIOUS
<1> HIDE DEF found, chips, sorted
<1>5. \A code, condition : Finding(code, "warn", condition) \subseteq found => ~condition
  BY <1>4, NoWarning
<1>6. /\ ~\E p \in chips : NonFilterable(m, t, p)
      /\ ~\E p \in chips : IsHidden(m, t, p)
      /\ ~\E p \in sorted : NonSortable(m, t, p)
  BY <1>1, <1>2, <1>5
<1>7. \A term \in {"LineItem", "SelectionFields", "SortOrder"} : ~Dangling(m, t, <<t>>, term)
  BY <1>1, <1>3, <1>5
<1> QED
  BY <1>6, <1>7 DEF Silent, Dangling, chips, sorted

(* A model with its base types applied, in which the notes have what they  *)
(* say of views, sort orders, hidden and restricted properties.            *)
Linted(g, ns, attrs) ==
  /\ \E m : Shaped(m) /\ g = ApplyBaseTypes(m)
  /\ \A t \in Types : ViewsAsMeant(g, ns, t) /\ Vouched(g, ns, attrs, t)

Judged ==
  request.gate = "warn" /\ ~verdict.failed =>
    /\ LintedTypes(request.entity) \subseteq Types
    /\ \A t \in LintedTypes(request.entity) : Silent(model, t)

(* ReadInv; the notes have what the linter looks at; and after `lint` the  *)
(* verdict is that of the rules.                                           *)
LintInv ==
  /\ ReadInv /\ HeirInv
  /\ phase = "notes" => \A t \in Types : Vouched(model, notes, inline, t)
  /\ phase \in {"parsed", "linted"} => Linted(model, notes, inline)
  /\ phase = "linted" => Judged

LEMMA SortNamed ==
  ASSUME NEW t \in Types, SortHeld(model, notes, t)
  PROVE  Named(model, <<t>>, "SortOrder") = SortPaths(t)
<1> DEFINE v == Value(model, <<t>>, "SortOrder")
           A == About(notes, t, "SortOrder")
<1>1. IF A = {} THEN v = <<>> ELSE v = <<v[1]>> /\ v[1].paths = notes[First(A)].note.paths
  BY DEF SortHeld
<1>2. SortPaths(t) = IF A = {} THEN {} ELSE notes[First(A)].note.paths
  BY DEF SortPaths
<1>3. Named(model, <<t>>, "SortOrder") = PathsIn(v)
  BY NamedIs
<1> HIDE DEF v, A
<1> QED
  BY <1>1, <1>2, <1>3, PathsInOne, NoEntries

(* A rule that looks at a property sees what was said of it. *)
LEMMA LossSeen ==
  ASSUME Acyclic, Linted(model, notes, inline), NEW t \in Types, NEW p,
         NEW a \in {"filterable", "sortable"}, Lost(t, p, a)
  PROVE  p \in model.props[t] /\ Says(model, <<t, p>>, a, "false")
<1>1. PICK b \in Declarers(t, p) :
        \/ \E i \in DOMAIN InlineOf(inline, <<b, p>>, a) : InlineOf(inline, <<b, p>>, a)[i].mark = "false"
        \/ \E i \in About(notes, b, "Restricts") :
             notes[i].note.mark = a /\ p \in notes[i].note.paths
  BY DEF Lost
<1>2. PICK m : Shaped(m) /\ model = ApplyBaseTypes(m)
  BY DEF Linted
<1>3. /\ b \in Types /\ p \in OwnProps[b] /\ p \in model.props[t]
      /\ \A term : Value(model, <<t, p>>, term) = Value(model, <<b, p>>, term)
  BY <1>2, DeclaredAlike
<1>4. LossHeld(model, notes, inline, b, p, a)
  BY <1>3 DEF Linted, Vouched
<1>5. ASSUME NEW i \in About(notes, b, "Restricts"), notes[i].note.mark = a, p \in notes[i].note.paths
      PROVE  i \in DOMAIN notes /\ Takes(notes[i].note, b, p, a)
  BY <1>5 DEF About, Takes
<1>6. Says(model, <<b, p>>, a, "false")
  BY <1>1, <1>4, <1>5 DEF LossHeld
<1> QED
  BY <1>3, <1>6 DEF Says

LEMMA HiddenSeen ==
  ASSUME Acyclic, Linted(model, notes, inline), NEW t \in Types, NEW p, MadeHidden(t, p)
  PROVE  p \in model.props[t] /\ IsHidden(model, t, p)
<1>1. PICK b \in Declarers(t, p) : /\ On(notes, b, p, "Hidden") # {}
                                   /\ notes[Last(On(notes, b, p, "Hidden"))].note.mark # "false"
  BY DEF MadeHidden
<1>2. PICK m : Shaped(m) /\ model = ApplyBaseTypes(m)
  BY DEF Linted
<1>3. /\ b \in Types /\ p \in OwnProps[b] /\ p \in model.props[t]
      /\ \A term : Value(model, <<t, p>>, term) = Value(model, <<b, p>>, term)
  BY <1>2, DeclaredAlike
<1> DEFINE v == Value(model, <<b, p>>, "Hidden")
<1>4. v = <<v[1]>> /\ v[1].mark # "false"
  <2>1. HiddenHeld(model, notes, b, p)
    BY <1>3 DEF Linted, Vouched
  <2> QED
    BY <1>1, <2>1 DEF HiddenHeld
<1>5. Value(model, <<t, p>>, "Hidden") = v
  BY <1>3
<1> HIDE DEF v
<1>6. v # <<>> /\ \A i \in DOMAIN v : v[i].mark # "false"
  <2>1. DOMAIN <<v[1]>> = {1}
    OBVIOUS
  <2> QED
    BY <1>4, <2>1, OneEntry
<1> QED
  BY <1>3, <1>5, <1>6 DEF IsHidden, Given, Says

(* Where the rules are silent the views are usable. *)
LEMMA SilentUsable ==
  ASSUME Acyclic, Linted(model, notes, inline), NEW t \in Types, Silent(model, t)
  PROVE  /\ \A path \in Effective(notes, t, "LineItem") \cup Effective(notes, t, "SelectionFields")
                     \cup SortPaths(t) : Reachable(t, path)
         /\ \A p \in Effective(notes, t, "SelectionFields") :
              ~Lost(t, p, "filterable") /\ ~MadeHidden(t, p)
         /\ \A p \in SortPaths(t) : ~Lost(t, p, "sortable")
<1>1. /\ Named(model, <<t>>, "LineItem") = Effective(notes, t, "LineItem")
      /\ Named(model, <<t>>, "SelectionFields") = Effective(notes, t, "SelectionFields")
      /\ Named(model, <<t>>, "SortOrder") = SortPaths(t)
  BY SortNamed DEF Linted, ViewsAsMeant, Vouched
<1>2. PICK m : Shaped(m) /\ model = ApplyBaseTypes(m)
  BY DEF Linted
<1>3. \A path : Resolves(model, t, path) => Reachable(t, path)
  BY <1>2, PathReaches
<1>4. \A path \in Effective(notes, t, "LineItem") \cup Effective(notes, t, "SelectionFields")
               \cup SortPaths(t) : Reachable(t, path)
  BY <1>1, <1>3 DEF Silent
<1>5. ASSUME NEW p \in Effective(notes, t, "SelectionFields")
      PROVE  ~Lost(t, p, "filterable") /\ ~MadeHidden(t, p)
  <2>1. p \in model.props[t] => ~NonFilterable(model, t, p) /\ ~IsHidden(model, t, p)
    BY <1>1 DEF Silent
  <2> QED
    BY <2>1, LossSeen, HiddenSeen DEF NonFilterable
<1>6. ASSUME NEW p \in SortPaths(t) PROVE ~Lost(t, p, "sortable")
  <2>1. p \in model.props[t] => ~NonSortable(model, t, p)
    BY <1>1 DEF Silent
  <2> QED
    BY <2>1, LossSeen DEF NonSortable
<1> QED
  BY <1>4, <1>5, <1>6

(* A gate that is not tripped leaves no rule with a warning. *)
LEMMA GateJudges ==
  ASSUME \E m : Shaped(m) /\ model = ApplyBaseTypes(m), NEW r, r.gate = "warn",
         Scope(r.entity) # {}, ~Tripped(r)
  PROVE  /\ LintedTypes(r.entity) \subseteq Types
         /\ \A t \in LintedTypes(r.entity) : Silent(model, t)
<1>1. model.types = Types /\ model.sets = Sets
  BY ParsedParts
<1>2. Scope(r.entity) = LintedTypes(r.entity) /\ LintedTypes(r.entity) \subseteq Types
  BY <1>1 DEF Scope, LintedTypes, FindEntityType, EntityTypeForSet
<1>3. ASSUME NEW t \in Scope(r.entity) PROVE Silent(model, t)
  <2>1. AtLeast(FindingsOf(t, r), "warn") = {}
    BY DEF Tripped
  <2> QED
    BY <2>1, RulesSilent DEF FindingsOf
<1> QED
  BY <1>2, <1>3

LEMMA LintNext ==
  ASSUME NoneRedeclared
  PROVE  LintInv /\ [Next]_vars => LintInv'
<1> SUFFICES ASSUME LintInv, [Next]_vars
             PROVE  /\ phase' = "notes" => \A t \in Types : Vouched(model', notes', inline', t)
                    /\ phase' \in {"parsed", "linted"} => Linted(model', notes', inline')
                    /\ phase' = "linted" => Judged'
  BY ReadNext, HeirNext DEF LintInv
<1>1. ReadInv /\ DocInv /\ HeirInv /\ ReadInv' /\ HeirInv'
  BY ReadNext, HeirNext DEF LintInv, ReadInv
<1>2. CASE ReadModel
  <2>1. phase' = "notes" /\ model' = ParsedModel(inline) /\ notes' = <<>> /\ inline' = inline
    BY <1>1, <1>2 DEF ReadModel, DocInv, doc
  <2>2. InlineFine(inline)
    BY <1>1, DocumentAssumption DEF DocInv, InlineFine
  <2>3. \A t \in Types : Vouched(ParsedModel(inline), <<>>, inline, t)
    BY <2>2, VouchedParsed
  <2> QED
    BY <2>1, <2>3
<1>3. ASSUME NEW n \in NextNote, ReadNote(n)
      PROVE  phase' = "notes" /\ \A t \in Types : Vouched(model', notes', inline', t)
  <2> DEFINE x == [note |-> n, schema |-> at]
  <2>1. /\ n \in Notes /\ phase = "notes" /\ phase' = "notes" /\ inline' = inline
        /\ notes' = Append(notes, x)
        /\ CASE n.term = "Label" -> TakeLabel(n)
             [] n.term = "TextArrangement" -> TakeDefault(n)
             [] OTHER -> TakeTyped(n)
    BY <1>1, <1>3, NextNoteIs DEF ReadNote, DocInv, doc
  <2>2. Shaped(model) /\ at \in Nat /\ notes \in Seq(Noted)
    BY <1>1, <2>1 DEF DocInv
  <2>3. Taken(model, model', n)
    BY <2>1, <2>2, NoteRead
  <2>4. x \in Noted /\ x.note = n
    BY <2>1, <2>2 DEF Noted
  <2> HIDE DEF x
  <2>5. ASSUME NEW t \in Types PROVE Vouched(model', Append(notes, x), inline, t)
    <3>1. Vouched(model, notes, inline, t)
      BY <2>1 DEF LintInv
    <3>2. x.note \in Notes /\ Taken(model, model', x.note)
      BY <2>1, <2>3, <2>4
    <3> QED
      BY <2>2, <2>4, <3>1, <3>2, VouchedNote
  <2> QED
    BY <2>1, <2>5
<1>4. CASE EndSchema
  <2> DEFINE g == AfterDefaults(model, defaults)
  <2>1. /\ phase = "notes" /\ notes' = notes /\ inline' = inline /\ schemas' = schemas
        /\ \/ model' = g /\ phase' = "notes"
           \/ model' = Finished(g) /\ phase' = "parsed"
    BY <1>4 DEF EndSchema, doc
  <2>2. Shaped(model) /\ Len(defaults) \in Nat /\ DOMAIN labels \subseteq Places /\ Placed(model)
    BY <1>1, <2>1 DEF DocInv, ReadInv, Reading
  <2>3. Applied(model, g, defaults, Len(defaults))
    BY <2>2, DefaultsValue
  <2> HIDE DEF g
  <2>4. Shaped(g) /\ Placed(g) /\ Filled(model, g)
    BY <2>2, <2>3 DEF Applied
  <2>5. \A t \in Types : Vouched(g, notes, inline, t)
    BY <2>1, <2>4, VouchedDefaulted DEF LintInv
  <2>6. CASE model' = g /\ phase' = "notes"
    BY <2>1, <2>5, <2>6
  <2>7. CASE model' = Finished(g) /\ phase' = "parsed"
    <3>1. \A t \in Types : Vouched(model', notes', inline', t)
      BY <2>1, <2>2, <2>4, <2>5, <2>7, VouchedFinished
    <3>2. \A t \in Types : ViewsAsMeant(model', notes', t)
      <4>1. \A t \in Types : Held(model', notes', inline', t, schemas', schemas')
        BY <1>1, <2>7 DEF ReadInv
      <4> QED
        BY <4>1, HeldMeans
    <3>3. \E m : Shaped(m) /\ model' = ApplyBaseTypes(m)
      BY <1>1, <2>7 DEF HeirInv
    <3> QED
      BY <2>7, <3>1, <3>2, <3>3 DEF Linted
  <2> QED
    BY <2>1, <2>6, <2>7
<1>5. ASSUME NEW r \in LintRequests, Lint(r)
      PROVE  phase' = "linted" /\ Linted(model', notes', inline') /\ Judged'
  <2>1. /\ phase = "parsed" /\ phase' = "linted" /\ request' = r
        /\ verdict'.failed = (Scope(r.entity) = {} \/ Tripped(r))
        /\ model' = model /\ notes' = notes /\ inline' = inline
    BY <1>5 DEF Lint, doc
  <2>2. Linted(model, notes, inline)
    BY <2>1 DEF LintInv
  <2>3. \E m : Shaped(m) /\ model = ApplyBaseTypes(m)
    BY <2>2 DEF Linted
  <2>4. r.gate = "warn" /\ Scope(r.entity) # {} /\ ~Tripped(r) =>
          /\ LintedTypes(r.entity) \subseteq Types
          /\ \A t \in LintedTypes(r.entity) : Silent(model, t)
    BY <2>3, GateJudges
  <2>5. Judged'
    BY <2>1, <2>4 DEF Judged
  <2> QED
    BY <2>1, <2>2, <2>5
<1>6. CASE NoSchema
  BY <1>6 DEF NoSchema
<1>7. CASE UNCHANGED vars
  <2>1. /\ phase' = phase /\ model' = model /\ notes' = notes /\ inline' = inline
        /\ request' = request /\ verdict' = verdict
    BY <1>7 DEF vars, doc
  <2> QED
    BY <2>1 DEF LintInv, Judged
<1> QED
  BY <1>2, <1>3, <1>4, <1>5, <1>6, <1>7 DEF Next

(* `lint --fail-on warn` that exits 0 vouches for the views of every type  *)
(* it looked at, whatever is shown and whatever profile is forced: every   *)
(* path is a property the type has or inherits, or begins at one or at a   *)
(* navigation property, or has an @ in it; a chip that is a property is    *)
(* neither hidden nor restricted, a sort clause not restricted, where the  *)
(* property is declared (lint/rules.rs, cmd_lint), for every valid         *)
(* document.                                                               *)
THEOREM CleanLintVouches ==
  ASSUME Acyclic, NoneRedeclared
  PROVE  Spec => []CleanMeansUsable
<1>1. Init => LintInv
  BY DocInit DEF Init, LintInv, ReadInv, HeirInv
<1>2. LintInv /\ [Next]_vars => LintInv'
  BY LintNext
<1>3. LintInv => CleanMeansUsable
  <2>1. SUFFICES ASSUME LintInv, phase = "linted", request.gate = "warn", ~verdict.failed,
                        NEW t \in LintedTypes(request.entity)
                 PROVE  /\ \A path \in Effective(notes, t, "LineItem")
                                         \cup Effective(notes, t, "SelectionFields")
                                         \cup SortPaths(t) : Reachable(t, path)
                        /\ \A p \in Effective(notes, t, "SelectionFields") :
                             ~Lost(t, p, "filterable") /\ ~MadeHidden(t, p)
                        /\ \A p \in SortPaths(t) : ~Lost(t, p, "sortable")
    BY DEF CleanMeansUsable
  <2>2. Linted(model, notes, inline) /\ Judged
    BY <2>1 DEF LintInv
  <2>3. t \in Types /\ Silent(model, t)
    BY <2>1, <2>2 DEF Judged
  <2> QED
    BY <2>2, <2>3, SilentUsable
<1> QED
  BY <1>1, <1>2, <1>3, PTL DEF Spec
=============================================================================
