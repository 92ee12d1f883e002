---------------------------- MODULE FormsProofs -----------------------------
(***************************************************************************)
(* What is proved about the calls of Forms.                                *)
(*                                                                         *)
(* A form with the fields that were signed is taken up, and no other when  *)
(* no value has an "&".  Both sides write the fields down in an order of   *)
(* their own making, so the proof is about what a sort of the names can    *)
(* return: some sequence that holds each of them once, and only one when   *)
(* no two names are equal in the order; and about the text of a sequence   *)
(* of fields that are one piece each, from which they can be read back.    *)
(*                                                                         *)
(* An amount or a quota is exact or refused for integers of every width    *)
(* and decimals of every exponent, which takes what little is needed of    *)
(* powers and of quotients.                                                *)
(***************************************************************************)
EXTENDS Forms, FiniteSetTheorems, TLAPS

-----------------------------------------------------------------------------
(* Sequences of names *)

\* A sequence that holds each of finitely many names once holds all of them.
LEMMA SeqsCover ==
  ASSUME NEW S, IsFiniteSet(S), NEW s \in SetToSeqs(S)
  PROVE  /\ Cardinality(S) \in Nat
         /\ DOMAIN s = 1..Cardinality(S)
         /\ \A i \in DOMAIN s : s[i] \in S
         /\ \A i, j \in DOMAIN s : s[i] = s[j] => i = j
         /\ \A f \in S : \E i \in DOMAIN s : s[i] = f
<1> DEFINE n == Cardinality(S)
<1>1. n \in Nat
  BY FS_CardinalityType
<1>2. s \in [1..n -> S] /\ \A i, j \in 1..n : i # j => s[i] # s[j]
  BY DEF SetToSeqs
<1>3. s \in Injection(1..n, S)
  BY <1>2 DEF Injection, IsInjective
<1>4. Cardinality(1..n) = n
  <2> HIDE DEF n
  <2> QED BY <1>1, FS_Interval
<1>5. s \in Surjection(1..n, S)
  BY <1>3, <1>4, FS_Injection
<1> QED BY <1>1, <1>2, <1>5 DEF Surjection

\* Fields with their values.
Valued(S, form) == {<<f, form[f]>> : f \in S}

\* Fields with the same values are the same fields.
LEMMA SameCover ==
  ASSUME NEW S, NEW T, NEW a, NEW b,
         Valued(S, a) = Valued(T, b)
  PROVE  S = T /\ \A f \in S : a[f] = b[f]
<1> USE DEF Valued
<1>1. ASSUME NEW f \in S
      PROVE  f \in T /\ a[f] = b[f]
  <2>1. <<f, a[f]>> \in {<<g, b[g]>> : g \in T}
    OBVIOUS
  <2>2. PICK g \in T : <<f, a[f]>> = <<g, b[g]>>
    BY <2>1
  <2> QED BY <2>2
<1>2. ASSUME NEW f \in T
      PROVE  f \in S
  <2>1. <<f, b[f]>> \in {<<g, a[g]>> : g \in S}
    OBVIOUS
  <2>2. PICK g \in S : <<f, b[f]>> = <<g, a[g]>>
    BY <2>1
  <2> QED BY <2>2
<1> QED BY <1>1, <1>2

\* A set of numbers that is not empty has a least.
LEMMA LeastNumber ==
  ASSUME NEW T \in SUBSET Nat, T # {}
  PROVE  \E m \in T : \A k \in T : m <= k
<1>1. \E m \in T : \A k \in T : ~ (<<k, m>> \in OpToRel(<, Nat))
  BY NatLessThanWellFounded, WFMin
<1>2. PICK m \in T : \A k \in T : ~ (<<k, m>> \in OpToRel(<, Nat))
  BY <1>1
<1>3. \A k \in T : ~ (k < m)
  BY <1>2 DEF OpToRel
<1> QED BY <1>3

\* Functions with the same values are equal.
LEMMA SameFunction ==
  \A D, R : \A f, g \in [D -> R] : (\A x \in D : f[x] = g[x]) => f = g
OBVIOUS

\* Names no two of which are equal in an order can be sorted in one way only.
LEMMA OnlyOrder ==
  ASSUME NEW S, IsFiniteSet(S), NEW order, \A f \in S : order[f] \in Nat,
         \A f, g \in S : order[f] = order[g] => f = g,
         NEW s \in Sorts(S, order), NEW t \in Sorts(S, order)
  PROVE  s = t
<1>1. /\ s \in SetToSeqs(S) /\ t \in SetToSeqs(S)
      /\ \A i, j \in DOMAIN s : i < j => order[s[i]] <= order[s[j]]
      /\ \A i, j \in DOMAIN t : i < j => order[t[i]] <= order[t[j]]
  BY DEF Sorts
<1> DEFINE n == Cardinality(S)
<1>2. /\ n \in Nat
      /\ DOMAIN s = 1..n /\ DOMAIN t = 1..n
      /\ \A i \in 1..n : s[i] \in S /\ t[i] \in S
      /\ \A i, j \in 1..n : s[i] = s[j] => i = j
      /\ \A i, j \in 1..n : t[i] = t[j] => i = j
      /\ \A f \in S : (\E i \in 1..n : s[i] = f) /\ (\E i \in 1..n : t[i] = f)
  BY <1>1, SeqsCover
<1>3. s \in [1..n -> S] /\ t \in [1..n -> S]
  BY <1>1 DEF SetToSeqs
<1> HIDE DEF n
<1> DEFINE Differ == {i \in 1..n : s[i] # t[i]}
<1>4. ASSUME Differ # {}
      PROVE  FALSE
  <2>1. Differ \in SUBSET Nat
    BY <1>2
  <2> HIDE DEF Differ
  <2>2. PICK m \in Differ : \A k \in Differ : m <= k
    BY <1>4, <2>1, LeastNumber
  <2> USE DEF Differ
  <2>3. m \in 1..n /\ s[m] # t[m] /\ \A k \in 1..n : k < m => s[k] = t[k]
    BY <2>2, <1>2
  <2>4. PICK i \in 1..n : t[i] = s[m]
    BY <1>2, <2>3
  <2>5. PICK j \in 1..n : s[j] = t[m]
    BY <1>2, <2>3
  <2>6. m < i
    <3>1. i # m
      BY <2>3, <2>4
    <3>2. ~ (i < m)
      <4> SUFFICES ASSUME i < m
                   PROVE  FALSE
        OBVIOUS
      <4>1. s[i] = s[m]
        BY <2>3, <2>4
      <4> QED BY <1>2, <2>3, <3>1, <4>1
    <3>3. m \in Int /\ i \in Int
      BY <1>2, <2>3
    <3> QED BY <3>1, <3>2, <3>3
  <2>7. m < j
    <3>1. j # m
      BY <2>3, <2>5
    <3>2. ~ (j < m)
      <4> SUFFICES ASSUME j < m
                   PROVE  FALSE
        OBVIOUS
      <4>1. t[j] = t[m]
        BY <2>3, <2>5
      <4> QED BY <1>2, <2>3, <3>1, <4>1
    <3>3. m \in Int /\ j \in Int
      BY <1>2, <2>3
    <3> QED BY <3>1, <3>2, <3>3
  <2>8. order[t[m]] <= order[s[m]]
    BY <1>1, <1>2, <2>3, <2>4, <2>6
  <2>9. order[s[m]] <= order[t[m]]
    BY <1>1, <1>2, <2>3, <2>5, <2>7
  <2>10. s[m] \in S /\ t[m] \in S
    BY <1>2, <2>3
  <2>11. order[s[m]] \in Nat /\ order[t[m]] \in Nat
    BY <2>10
  <2>12. order[s[m]] = order[t[m]]
    <3>1. \A p, q \in Nat : p <= q /\ q <= p => p = q
      OBVIOUS
    <3> QED BY <2>8, <2>9, <2>11, <3>1, Zenon
  <2> QED BY <2>3, <2>10, <2>12
<1>5. \A i \in 1..n : s[i] = t[i]
  <2> HIDE DEF Differ
  <2>1. Differ = {}
    BY <1>4
  <2> USE DEF Differ
  <2>2. \A i \in 1..n : s[i] # t[i] => i \in Differ
    OBVIOUS
  <2> QED BY <2>1, <2>2, Zenon
<1>6. \A f, g \in [1..n -> S] : (\A x \in 1..n : f[x] = g[x]) => f = g
  BY SameFunction, Zenon
<1>7. (\A x \in 1..n : s[x] = t[x]) => s = t
  BY <1>3, <1>6, Zenon
<1> QED BY <1>5, <1>7, Zenon

\* Finitely many names no two of which are equal in an order can be sorted: a
\* name goes where as many are before it, itself among them.
LEMMA AnOrder ==
  ASSUME NEW S, IsFiniteSet(S), NEW order, \A f \in S : order[f] \in Nat,
         \A f, g \in S : order[f] = order[g] => f = g
  PROVE  \E s \in SetToSeqs(S) : \A i, j \in DOMAIN s : i < j => order[s[i]] < order[s[j]]
<1> DEFINE n == Cardinality(S)
           UpTo(f) == {g \in S : order[g] <= order[f]}
           pos == [f \in S |-> Cardinality(UpTo(f))]
<1>1. n \in Nat
  BY FS_CardinalityType
<1>2. \A f \in S : IsFiniteSet(UpTo(f)) /\ Cardinality(UpTo(f)) \in 1..n
  <2> SUFFICES ASSUME NEW f \in S
               PROVE  IsFiniteSet(UpTo(f)) /\ Cardinality(UpTo(f)) \in 1..n
    OBVIOUS
  <2>1. UpTo(f) \in SUBSET S /\ f \in UpTo(f)
    OBVIOUS
  <2> HIDE DEF UpTo
  <2>2. IsFiniteSet(UpTo(f)) /\ Cardinality(UpTo(f)) <= n
    BY <2>1, FS_Subset
  <2>3. Cardinality(UpTo(f)) \in Nat
    BY <2>2, FS_CardinalityType
  <2>4. Cardinality(UpTo(f)) # 0
    BY <2>1, <2>2, FS_EmptySet
  <2> HIDE DEF n
  <2> QED BY <1>1, <2>2, <2>3, <2>4
<1>3. \A f, g \in S : order[f] < order[g] => Cardinality(UpTo(f)) < Cardinality(UpTo(g))
  <2> SUFFICES ASSUME NEW f \in S, NEW g \in S, order[f] < order[g]
               PROVE  Cardinality(UpTo(f)) < Cardinality(UpTo(g))
    OBVIOUS
  <2>1. UpTo(f) \in SUBSET UpTo(g)
    OBVIOUS
  <2>2. g \in UpTo(g) /\ g \notin UpTo(f)
    OBVIOUS
  <2>3. /\ IsFiniteSet(UpTo(g))
        /\ Cardinality(UpTo(f)) \in Nat /\ Cardinality(UpTo(g)) \in Nat
    BY <1>1, <1>2
  <2> HIDE DEF UpTo
  <2>4. /\ Cardinality(UpTo(f)) <= Cardinality(UpTo(g))
        /\ Cardinality(UpTo(f)) # Cardinality(UpTo(g))
    BY <2>1, <2>2, <2>3, FS_Subset
  <2> QED BY <2>3, <2>4
<1> HIDE DEF n, UpTo
<1>4. pos \in [S -> 1..n] /\ \A f \in S : pos[f] = Cardinality(UpTo(f))
  BY <1>2
<1>5. \A f, g \in S : order[f] < order[g] => pos[f] < pos[g]
  BY <1>3, <1>4
<1> HIDE DEF pos
<1>6. \A f, g \in S : pos[f] = pos[g] => f = g
  <2> SUFFICES ASSUME NEW f \in S, NEW g \in S, pos[f] = pos[g]
               PROVE  order[f] = order[g]
    OBVIOUS
  <2>1. pos[f] \in Int /\ pos[g] \in Int
    BY <1>1, <1>4
  <2>2. ~ (order[f] < order[g]) /\ ~ (order[g] < order[f])
    BY <1>5, <2>1
  <2> QED BY <2>2
<1>7. pos \in Injection(S, 1..n)
  BY <1>4, <1>6 DEF Injection, IsInjective
<1>8. IsFiniteSet(1..n) /\ Cardinality(1..n) = n
  BY <1>1, FS_Interval
<1>9. pos \in Surjection(S, 1..n)
  BY <1>7, <1>8, FS_Injection DEF n
<1>10. \A i \in 1..n : \E f \in S : pos[f] = i
  BY <1>9 DEF Surjection
<1> DEFINE s == [i \in 1..n |-> CHOOSE f \in S : pos[f] = i]
<1>11. \A i \in 1..n : s[i] \in S /\ pos[s[i]] = i
  BY <1>10
<1>12. s \in [1..n -> S]
  BY <1>11
<1> HIDE DEF s
<1>13. s \in SetToSeqs(S)
  BY <1>11, <1>12 DEF SetToSeqs, n
<1>14. \A i, j \in DOMAIN s : i < j => order[s[i]] < order[s[j]]
  <2> SUFFICES ASSUME NEW i \in 1..n, NEW j \in 1..n, i < j
               PROVE  order[s[i]] < order[s[j]]
    BY <1>12
  <2>1. i # j /\ ~ (j < i)
    BY <1>1
  <2>2. s[i] \in S /\ s[j] \in S /\ pos[s[i]] = i /\ pos[s[j]] = j
    BY <1>11
  <2>3. ~ (order[s[j]] < order[s[i]])
    BY <1>5, <2>1, <2>2
  <2>4. order[s[j]] # order[s[i]]
    BY <2>1, <2>2
  <2> QED BY <2>2, <2>3, <2>4
<1> QED BY <1>13, <1>14

-----------------------------------------------------------------------------
(* The text of a form *)

\* A field without an "&" is one piece.
LEMMA OnePiece ==
  ASSUME NEW x
  PROVE  <<x>> \o <<>> = <<x>>
OBVIOUS

\* The first i elements of a sequence, and one more.
FirstOf(p, i) == [j \in 1..i |-> p[j]]

LEMMA FirstGrows ==
  ASSUME NEW R, NEW n \in Nat, NEW p \in [1..n -> R], NEW i \in 1..n
  PROVE  /\ FirstOf(p, 1) = <<p[1]>>
         /\ i > 1 => FirstOf(p, i - 1) \o <<p[i]>> = FirstOf(p, i)
<1>1. n >= 1 /\ p[1] \in R /\ p[i] \in R
  OBVIOUS
<1>2. FirstOf(p, 1) = <<p[1]>>
  BY <1>1 DEF FirstOf
<1>3. ASSUME i > 1
      PROVE  FirstOf(p, i - 1) \o <<p[i]>> = FirstOf(p, i)
  <2> DEFINE a == FirstOf(p, i - 1)
             b == a \o <<p[i]>>
  <2>1. i - 1 \in Nat /\ \A j \in 1..(i - 1) : p[j] \in R
    BY <1>3
  <2>2. a \in Seq(R) /\ Len(a) = i - 1 /\ \A j \in 1..(i - 1) : a[j] = p[j]
    BY <2>1 DEF FirstOf
  <2> HIDE DEF a
  <2>3. b \in Seq(R) /\ Len(b) = i /\ \A j \in 1..i : b[j] = p[j]
    BY <1>1, <1>3, <2>1, <2>2
  <2>4. b = [j \in 1..i |-> b[j]]
    BY <2>3
  <2> QED BY <2>3, <2>4 DEF FirstOf, a
<1> QED BY <1>2, <1>3

\* A text of fields that are one piece each has these pieces.
LEMMA FlatSingles ==
  ASSUME NEW R, NEW n \in Nat, NEW p \in [1..n -> R],
         NEW seqs, seqs = [i \in 1..n |-> <<p[i]>>]
  PROVE  FlattenSeq(seqs) = p
<1> DEFINE Step(h) == [i \in 1..n |-> IF i = 1 THEN seqs[i] ELSE h[i - 1] \o seqs[i]]
           flat == CHOOSE h : h = Step(h)
           first == [i \in 1..n |-> FirstOf(p, i)]
<1>1. seqs \in Seq(Seq(R)) /\ Len(seqs) = n
  OBVIOUS
<1>2. FlattenSeq(seqs) = IF n = 0 THEN seqs ELSE flat[n]
  BY <1>1 DEF FlattenSeq
<1>3. first = Step(first)
  <2>1. ASSUME NEW i \in 1..n
        PROVE  first[i] = IF i = 1 THEN seqs[i] ELSE first[i - 1] \o seqs[i]
    <3>1. CASE i = 1
      BY <3>1, FirstGrows
    <3>2. CASE i # 1
      <4>1. i > 1 /\ i - 1 \in 1..n
        BY <3>2
      <4>2. first[i - 1] = FirstOf(p, i - 1) /\ seqs[i] = <<p[i]>>
        BY <4>1
      <4> QED BY <3>2, <4>1, <4>2, FirstGrows
    <3> QED BY <3>1, <3>2
  <2> QED BY <2>1
<1>4. flat = Step(flat)
  <2>1. \E h : h = Step(h)
    BY <1>3
  <2> HIDE DEF Step
  <2> QED BY <2>1
<1> HIDE DEF flat, first
<1>5. \A i \in 1..n : /\ flat[i] = IF i = 1 THEN seqs[i] ELSE flat[i - 1] \o seqs[i]
                      /\ first[i] = IF i = 1 THEN seqs[i] ELSE first[i - 1] \o seqs[i]
  BY <1>3, <1>4
<1> DEFINE Differ == {i \in 1..n : flat[i] # first[i]}
<1>6. ASSUME Differ # {}
      PROVE  FALSE
  <2>1. Differ \in SUBSET Nat
    OBVIOUS
  <2> HIDE DEF Differ
  <2>2. PICK m \in Differ : \A k \in Differ : m <= k
    BY <1>6, <2>1, LeastNumber
  <2>3. m \in 1..n /\ flat[m] # first[m] /\ \A k \in 1..n : k < m => flat[k] = first[k]
    BY <2>2 DEF Differ
  <2>4. m = 1 \/ (m - 1 \in 1..n /\ m - 1 < m)
    BY <2>3
  <2> QED BY <1>5, <2>3, <2>4
<1>7. n # 0 => flat[n] = FirstOf(p, n)
  BY <1>6 DEF first
<1>8. FirstOf(p, n) = p
  BY DEF FirstOf
<1> QED BY <1>2, <1>7, <1>8

\* Fields with what comes before the first "&" of their values.
Named(S, form) == {[name |-> f, text |-> form[f].text] : f \in S}

\* Each of the fields can be read off a text when no value has an "&".
LEMMA WrittenCovers ==
  ASSUME NEW S, IsFiniteSet(S), NEW s \in SetToSeqs(S), NEW form, \A f \in S : Plain(form[f])
  PROVE  Range(Written(form, s)) = Named(S, form)
<1> DEFINE n == Cardinality(S)
           p == [i \in 1..n |-> [name |-> s[i], text |-> form[s[i]].text]]
           seqs == [i \in DOMAIN s |-> Pieces(form, s[i])]
<1>1. /\ n \in Nat /\ DOMAIN s = 1..n
      /\ \A i \in 1..n : s[i] \in S
      /\ \A f \in S : \E i \in 1..n : s[i] = f
  BY SeqsCover
<1> HIDE DEF n
<1>2. p \in [1..n -> Named(S, form)]
  BY <1>1 DEF Named
<1>3. \A i \in 1..n : Pieces(form, s[i]) = <<p[i]>>
  BY <1>1, OnePiece DEF Pieces, Plain
<1>4. seqs = [i \in 1..n |-> <<p[i]>>]
  BY <1>1, <1>3
<1>5. Range(p) = Named(S, form)
  BY <1>1 DEF Range, Named
<1> HIDE DEF seqs, p
<1>6. FlattenSeq(seqs) = p
  BY <1>1, <1>2, <1>4, FlatSingles
<1> QED BY <1>5, <1>6 DEF Written, seqs

LEMMA SameNamed ==
  ASSUME NEW S, NEW T, NEW a, NEW b, Named(S, a) = Named(T, b)
  PROVE  S = T /\ \A f \in S : a[f].text = b[f].text
<1> USE DEF Named
<1>1. ASSUME NEW f \in S
      PROVE  f \in T /\ a[f].text = b[f].text
  <2>1. [name |-> f, text |-> a[f].text] \in {[name |-> g, text |-> b[g].text] : g \in T}
    OBVIOUS
  <2>2. PICK g \in T : [name |-> f, text |-> a[f].text] = [name |-> g, text |-> b[g].text]
    BY <2>1
  <2> QED BY <2>2
<1>2. ASSUME NEW f \in T
      PROVE  f \in S
  <2>1. [name |-> f, text |-> b[f].text] \in {[name |-> g, text |-> a[g].text] : g \in S}
    OBVIOUS
  <2>2. PICK g \in S : [name |-> f, text |-> b[f].text] = [name |-> g, text |-> a[g].text]
    BY <2>1
  <2> QED BY <2>2
<1> QED BY <1>1, <1>2

\* The same fields in the same order are the same text.
LEMMA SameWritten ==
  ASSUME NEW S, IsFiniteSet(S), NEW s \in SetToSeqs(S), NEW a, NEW b,
         \A f \in S : a[f] = b[f]
  PROVE  Written(a, s) = Written(b, s)
<1>1. \A i \in DOMAIN s : s[i] \in S
  BY SeqsCover
<1>2. \A i \in DOMAIN s : Pieces(a, s[i]) = Pieces(b, s[i])
  BY <1>1 DEF Pieces
<1>3. [i \in DOMAIN s |-> Pieces(a, s[i])] = [i \in DOMAIN s |-> Pieces(b, s[i])]
  BY <1>2
<1> QED BY <1>3 DEF Written

\* And with no "&" in a value, the same text is the same fields.
LEMMA SameFields ==
  ASSUME NEW S, IsFiniteSet(S), NEW s \in SetToSeqs(S), NEW a,
         NEW T, IsFiniteSet(T), NEW t \in SetToSeqs(T), NEW b,
         \A f \in S : Plain(a[f]) /\ a[f] \in Values \union {Empty},
         \A f \in T : Plain(b[f]) /\ b[f] \in Values \union {Empty},
         Written(a, s) = Written(b, t)
  PROVE  Valued(S, a) = Valued(T, b)
<1>1. Named(S, a) = Named(T, b)
  BY WrittenCovers
<1>2. S = T /\ \A f \in S : a[f].text = b[f].text
  BY <1>1, SameNamed
<1>3. \A v \in Values \union {Empty} : v = [text |-> v.text, more |-> v.more]
  <2>1. Empty = [text |-> Empty.text, more |-> Empty.more]
    BY DEF Empty, Text
  <2> QED BY <2>1, InputAssumption
<1>4. \A f \in S : a[f] = b[f]
  BY <1>2, <1>3 DEF Plain
<1> QED BY <1>2, <1>4 DEF Valued

-----------------------------------------------------------------------------
(* Powers.  Power(b) is a recursive function, so what it is has to be shown: *)
(* the powers up to the k-th exist for every k, and agree with one another.  *)

\* The first powers of a number, up to the k-th.
FirstPowers(p, b, k) == /\ p \in [0..k -> Nat]
                 /\ p[0] = 1
                 /\ \A n \in 1..k : p[n] = b * p[n - 1]

LEMMA PowersAgree ==
  ASSUME NEW b \in Nat, NEW k \in Nat, NEW l \in Nat, k <= l,
         NEW p, FirstPowers(p, b, k), NEW q, FirstPowers(q, b, l)
  PROVE  \A n \in 0..k : p[n] = q[n]
<1> DEFINE Bad == {n \in 0..k : p[n] # q[n]}
<1> SUFFICES ASSUME Bad # {}
             PROVE  FALSE
  OBVIOUS
<1>1. Bad \in SUBSET Nat
  OBVIOUS
<1> HIDE DEF Bad
<1>2. PICK m \in Bad : \A n \in Bad : m <= n
  BY <1>1, LeastNumber
<1> USE DEF Bad
<1>3. m \in 0..k /\ p[m] # q[m] /\ \A n \in 0..k : n < m => p[n] = q[n]
  BY <1>2
<1>4. m # 0
  BY <1>3 DEF FirstPowers
<1>5. m \in 1..k /\ m \in 1..l /\ m - 1 \in 0..k /\ m - 1 < m
  BY <1>3, <1>4
<1>6. p[m - 1] = q[m - 1]
  BY <1>3, <1>5
<1>7. p[m] = b * p[m - 1] /\ q[m] = b * q[m - 1]
  BY <1>5 DEF FirstPowers
<1> QED BY <1>3, <1>6, <1>7

LEMMA PowersExist ==
  ASSUME NEW b \in Nat, NEW k \in Nat
  PROVE  \E p : FirstPowers(p, b, k)
<1> DEFINE Bad == {n \in Nat : ~ \E p : FirstPowers(p, b, n)}
<1> SUFFICES ASSUME Bad # {}
             PROVE  FALSE
  OBVIOUS
<1>1. Bad \in SUBSET Nat
  OBVIOUS
<1> HIDE DEF Bad
<1>2. PICK m \in Bad : \A n \in Bad : m <= n
  BY <1>1, LeastNumber
<1> USE DEF Bad
<1>3. m \in Nat /\ (~ \E p : FirstPowers(p, b, m)) /\ \A n \in Nat : n < m => \E p : FirstPowers(p, b, n)
  BY <1>2
<1>4. FirstPowers([n \in 0..0 |-> 1], b, 0)
  BY DEF FirstPowers
<1>5. m # 0
  BY <1>3, <1>4
<1>6. m - 1 \in Nat /\ m - 1 < m
  BY <1>3, <1>5
<1>7. PICK p : FirstPowers(p, b, m - 1)
  BY <1>3, <1>6
<1> DEFINE q == [n \in 0..m |-> IF n = m THEN b * p[m - 1] ELSE p[n]]
<1>8. p \in [0..(m - 1) -> Nat] /\ p[0] = 1 /\ \A n \in 1..(m - 1) : p[n] = b * p[n - 1]
  BY <1>7 DEF FirstPowers
<1>9. p[m - 1] \in Nat
  BY <1>6, <1>8
<1>10. b * p[m - 1] \in Nat
  BY <1>9
<1>11. q \in [0..m -> Nat]
  <2>1. \A n \in 0..m : n = m \/ n \in 0..(m - 1)
    BY <1>3
  <2> QED BY <1>8, <1>10, <2>1
<1>12. q[0] = 1
  BY <1>3, <1>5, <1>8
<1>13. \A n \in 1..m : q[n] = b * q[n - 1]
  <2> SUFFICES ASSUME NEW n \in 1..m
               PROVE  q[n] = b * q[n - 1]
    OBVIOUS
  <2>1. n \in 0..m /\ n - 1 \in 0..m /\ n - 1 # m
    BY <1>3
  <2>2. q[n - 1] = p[n - 1]
    BY <2>1
  <2>3. CASE n = m
    BY <2>1, <2>2, <2>3
  <2>4. CASE n # m
    <3>1. n \in 1..(m - 1)
      BY <1>3, <2>4
    <3>2. q[n] = p[n]
      BY <2>1, <2>4
    <3> QED BY <1>8, <2>2, <3>1, <3>2
  <2> QED BY <2>3, <2>4
<1>14. FirstPowers(q, b, m)
  <2> HIDE DEF q
  <2> QED BY <1>11, <1>12, <1>13 DEF FirstPowers
<1> QED BY <1>3, <1>14

LEMMA PowerDef ==
  ASSUME NEW b \in Nat
  PROVE  /\ Power(b) \in [Nat -> Nat]
         /\ Power(b)[0] = 1
         /\ \A n \in Nat : Power(b)[n + 1] = b * Power(b)[n]
<1> DEFINE few(k) == CHOOSE p : FirstPowers(p, b, k)
           all == [n \in Nat |-> few(n)[n]]
<1>1. \A k \in Nat : FirstPowers(few(k), b, k)
  BY PowersExist
<1> HIDE DEF few
<1>2. all \in [Nat -> Nat]
  <2>1. \A k \in Nat : few(k)[k] \in Nat
    BY <1>1 DEF FirstPowers
  <2> QED BY <2>1
<1>3. all[0] = 1
  BY <1>1 DEF FirstPowers
<1>4. ASSUME NEW n \in Nat, n # 0
      PROVE  all[n] = b * all[n - 1]
  <2>1. n - 1 \in Nat /\ n - 1 <= n /\ n \in 1..n /\ n - 1 \in 0..(n - 1)
    BY <1>4
  <2>2. few(n)[n] = b * few(n)[n - 1]
    BY <1>1, <2>1 DEF FirstPowers
  <2>3. FirstPowers(few(n - 1), b, n - 1) /\ FirstPowers(few(n), b, n)
    BY <1>1, <2>1
  <2>4. few(n - 1)[n - 1] = few(n)[n - 1]
    BY <2>1, <2>3, PowersAgree
  <2> QED BY <2>1, <2>2, <2>4
<1> HIDE DEF all
<1>5. all = [n \in Nat |-> IF n = 0 THEN 1 ELSE b * all[n - 1]]
  BY <1>2, <1>3, <1>4
<1>6. Power(b) = [n \in Nat |-> IF n = 0 THEN 1 ELSE b * Power(b)[n - 1]]
  BY <1>5 DEF Power
<1>7. Power(b)[0] = 1
  BY <1>6
<1>8. \A n \in Nat : Power(b)[n + 1] = b * Power(b)[n]
  BY <1>6
<1>9. \A n \in Nat : Power(b)[n] \in Nat
  <2> DEFINE Bad == {n \in Nat : Power(b)[n] \notin Nat}
  <2> SUFFICES ASSUME Bad # {}
               PROVE  FALSE
    OBVIOUS
  <2>1. Bad \in SUBSET Nat
    OBVIOUS
  <2> HIDE DEF Bad
  <2>2. PICK m \in Bad : \A n \in Bad : m <= n
    BY <2>1, LeastNumber
  <2> USE DEF Bad
  <2>3. m \in Nat /\ Power(b)[m] \notin Nat /\ \A n \in Nat : n < m => Power(b)[n] \in Nat
    BY <2>2
  <2>4. m - 1 \in Nat /\ m - 1 < m
    BY <1>7, <2>3
  <2>5. Power(b)[m - 1] \in Nat /\ Power(b)[m] = b * Power(b)[m - 1]
    BY <1>8, <2>3, <2>4
  <2> QED BY <2>3, <2>5
<1> QED BY <1>6, <1>7, <1>8, <1>9

LEMMA PowerPositive ==
  ASSUME NEW b \in Nat \ {0}, NEW k \in Nat
  PROVE  Power(b)[k] \in Nat \ {0}
<1>1. /\ Power(b) \in [Nat -> Nat] /\ Power(b)[0] = 1
      /\ \A n \in Nat : Power(b)[n + 1] = b * Power(b)[n]
  BY PowerDef
<1> DEFINE Bad == {n \in Nat : Power(b)[n] = 0}
<1>2. ASSUME Bad # {}
      PROVE  FALSE
  <2>1. Bad \in SUBSET Nat
    OBVIOUS
  <2> HIDE DEF Bad
  <2>2. PICK m \in Bad : \A n \in Bad : m <= n
    BY <1>2, <2>1, LeastNumber
  <2> USE DEF Bad
  <2>3. m \in Nat /\ Power(b)[m] = 0 /\ \A n \in Nat : n < m => Power(b)[n] # 0
    BY <2>2
  <2>4. m - 1 \in Nat /\ m - 1 < m
    BY <1>1, <2>3
  <2>5. Power(b)[m - 1] \in Nat \ {0} /\ Power(b)[m] = b * Power(b)[m - 1]
    BY <1>1, <2>3, <2>4
  <2> QED BY <2>3, <2>5
<1>3. k \notin Bad
  BY <1>2
<1> QED BY <1>1, <1>3

LEMMA TenPowers ==
  /\ Ten[0] = 1
  /\ \A n \in Nat : Ten[n] \in Nat \ {0} /\ Ten[n + 1] = 10 * Ten[n]
<1>1. 10 \in Nat \ {0}
  OBVIOUS
<1> QED BY <1>1, PowerDef, PowerPositive DEF Ten

LEMMA TwoPowers ==
  /\ Two[0] = 1
  /\ \A n \in Nat : Two[n] \in Nat \ {0} /\ Two[n + 1] = 2 * Two[n]
<1>1. 2 \in Nat \ {0}
  OBVIOUS
<1> QED BY <1>1, PowerDef, PowerPositive DEF Two

LEMMA TwoGrows ==
  ASSUME NEW k \in Nat, NEW l \in Nat, k <= l
  PROVE  Two[k] <= Two[l]
<1> DEFINE Bad == {n \in Nat : n >= k /\ ~ (Two[k] <= Two[n])}
<1>1. ASSUME Bad # {}
      PROVE  FALSE
  <2>1. Bad \in SUBSET Nat
    OBVIOUS
  <2> HIDE DEF Bad
  <2>2. PICK m \in Bad : \A n \in Bad : m <= n
    BY <1>1, <2>1, LeastNumber
  <2> USE DEF Bad
  <2>3. /\ m \in Nat /\ m >= k /\ ~ (Two[k] <= Two[m])
        /\ \A n \in Nat : n >= k /\ n < m => Two[k] <= Two[n]
    BY <2>2
  <2>4. Two[k] \in Nat
    BY TwoPowers
  <2>5. m # k
    BY <2>3, <2>4
  <2>6. m - 1 \in Nat /\ m - 1 < m /\ m - 1 >= k
    BY <2>3, <2>5
  <2>7. Two[k] <= Two[m - 1]
    BY <2>3, <2>6
  <2>8. Two[m - 1] \in Nat /\ Two[m] = 2 * Two[m - 1]
    BY <2>3, <2>6, TwoPowers
  <2> QED BY <2>3, <2>4, <2>7, <2>8
<1>2. l \notin Bad
  BY <1>1
<1> QED BY <1>2

-----------------------------------------------------------------------------
(* The inductive invariant: a form comes with the signature of the side that *)
(* signed it, or none, and a call that returned says what the functions of   *)
(* Signing say of its arguments.                                             *)

EpayRight ==
  call.op = "epay" =>
    /\ call.form \in Signed /\ call.values \in Received
    /\ \E key \in Keys : call.sign \in {PartnerSign(call.form, key), NoSign}
    /\ outcome.done =>
         outcome.ok = EpayVerify(mapForm(call.values), call.sign, "ours")

JeepayRight ==
  call.op = "jeepay" =>
    /\ call.form \in Signed /\ call.values \in Received
    /\ \E key \in Keys : call.sign \in GatewaySigns(call.form, key) \union {NoSign}
    /\ outcome.done =>
         outcome.ok \in JeepayVerifies(mapForm(call.values), call.sign, "ours")

SignedInv == EpayRight /\ JeepayRight

LEMMA SignedInit == FormsInit => SignedInv
<1> SUFFICES ASSUME FormsInit
             PROVE  SignedInv
  OBVIOUS
<1>1. ~ outcome.done
  BY DEF FormsInit, NotReturned
<1>2. CASE \E yuan \in Yuan : call = [op |-> "YuanToFen", yuan |-> yuan]
  BY <1>2 DEF SignedInv, EpayRight, JeepayRight
<1>3. CASE \E d \in Dollars, u \in PerUnits, t \in DisplayTypes :
             call = [op |-> "creditedQuota", dollars |-> d, billing |-> [perUnit |-> u, display |-> t]]
  BY <1>3 DEF SignedInv, EpayRight, JeepayRight
<1>4. CASE \E form \in Signed, values \in Received, key \in Keys :
             \E sign \in {PartnerSign(form, key), NoSign} :
               call = [op |-> "epay", form |-> form, values |-> values, sign |-> sign]
  <2>1. PICK form \in Signed, values \in Received, key \in Keys :
               \E sign \in {PartnerSign(form, key), NoSign} :
                 call = [op |-> "epay", form |-> form, values |-> values, sign |-> sign]
    BY <1>4
  <2>2. /\ call.op = "epay" /\ call.form = form /\ call.values = values
        /\ call.sign \in {PartnerSign(form, key), NoSign}
    BY <2>1
  <2> QED BY <1>1, <2>2 DEF SignedInv, EpayRight, JeepayRight
<1>5. CASE \E form \in Signed, values \in Received, key \in Keys :
             \E sign \in GatewaySigns(form, key) \union {NoSign} :
               call = [op |-> "jeepay", form |-> form, values |-> values, sign |-> sign]
  <2>1. PICK form \in Signed, values \in Received, key \in Keys :
               \E sign \in GatewaySigns(form, key) \union {NoSign} :
                 call = [op |-> "jeepay", form |-> form, values |-> values, sign |-> sign]
    BY <1>5
  <2>2. /\ call.op = "jeepay" /\ call.form = form /\ call.values = values
        /\ call.sign \in GatewaySigns(form, key) \union {NoSign}
    BY <2>1
  <2> QED BY <1>1, <2>2 DEF SignedInv, EpayRight, JeepayRight
<1>6. CASE \E signed, sent \in Numbers :
             call = [op |-> "answer", signed |-> signed, sent |-> sent]
  BY <1>1, <1>6 DEF SignedInv, EpayRight, JeepayRight
<1> QED BY <1>2, <1>3, <1>4, <1>5, <1>6 DEF FormsInit

LEMMA SignedStep == SignedInv /\ [FormsNext]_formsVars => SignedInv'
<1> SUFFICES ASSUME SignedInv, [FormsNext]_formsVars
             PROVE  SignedInv'
  OBVIOUS
<1> USE DEF Calls, Returns
<1>1. CASE CallYuanToFen
  BY <1>1 DEF CallYuanToFen, SignedInv, EpayRight, JeepayRight
<1>2. CASE CallCreditedQuota
  BY <1>2 DEF CallCreditedQuota, SignedInv, EpayRight, JeepayRight
<1>3. CASE CallEpayVerify
  <2>1. /\ call' = call /\ call.op = "epay"
        /\ outcome'.ok = EpayVerify(mapForm(call.values), call.sign, "ours")
    BY <1>3 DEF CallEpayVerify, Value, Refused, EpayVerify
  <2> QED BY <2>1 DEF SignedInv, EpayRight, JeepayRight
<1>4. CASE VerifiedNotify
  <2>1. call' = call /\ call.op = "jeepay"
    BY <1>4 DEF VerifiedNotify
  <2>2. PICK verified \in JeepayVerifies(mapForm(call.values), call.sign, "ours") :
               Returns(IF verified THEN Value(0) ELSE Refused)
    BY <1>4 DEF VerifiedNotify
  <2>3. verified \in BOOLEAN
    BY DEF JeepayVerifies
  <2>4. outcome'.ok = verified
    BY <2>2, <2>3 DEF Value, Refused
  <2> QED BY <2>1, <2>4 DEF SignedInv, EpayRight, JeepayRight
<1>5. CASE unwrapSigned
  BY <1>5 DEF unwrapSigned, SignedInv, EpayRight, JeepayRight
<1>6. CASE UNCHANGED formsVars
  BY <1>6 DEF formsVars, SignedInv, EpayRight, JeepayRight
<1> QED BY <1>1, <1>2, <1>3, <1>4, <1>5, <1>6 DEF FormsNext

LEMMA FormsSignedInvariant == FormsSpec => []SignedInv
<1>1. FormsInit => SignedInv
  BY SignedInit
<1>2. SignedInv /\ [FormsNext]_formsVars => SignedInv'
  BY SignedStep
<1> QED BY <1>1, <1>2, PTL DEF FormsSpec

-----------------------------------------------------------------------------
(* The properties of the signatures *)

LEMMA FieldsFinite ==
  ASSUME NEW S \in SUBSET Fields
  PROVE  IsFiniteSet(S)
BY NamesAssumption, FS_Subset

\* The names of epay are sorted in one way.
LEMMA RankSorts ==
  ASSUME NEW S \in SUBSET Fields
  PROVE  /\ (CHOOSE s \in Sorts(S, Rank) : TRUE) \in SetToSeqs(S)
         /\ InOrder(S) = (CHOOSE s \in Sorts(S, Rank) : TRUE)
<1>1. /\ IsFiniteSet(S)
      /\ \A f \in S : Rank[f] \in Nat
      /\ \A f, g \in S : Rank[f] = Rank[g] => f = g
  BY NamesAssumption, FieldsFinite
<1>2. \E s \in SetToSeqs(S) : \A i, j \in DOMAIN s : i < j => Rank[s[i]] < Rank[s[j]]
  BY <1>1, AnOrder
<1>3. /\ InOrder(S) \in SetToSeqs(S)
      /\ \A i, j \in DOMAIN InOrder(S) : i < j => Rank[InOrder(S)[i]] < Rank[InOrder(S)[j]]
  BY <1>2 DEF InOrder
<1>4. InOrder(S) \in Sorts(S, Rank)
  <2> SUFFICES ASSUME NEW i \in DOMAIN InOrder(S), NEW j \in DOMAIN InOrder(S), i < j
               PROVE  Rank[InOrder(S)[i]] <= Rank[InOrder(S)[j]]
    BY <1>3 DEF Sorts
  <2>1. InOrder(S)[i] \in S /\ InOrder(S)[j] \in S
    BY <1>1, <1>3, SeqsCover
  <2>2. Rank[InOrder(S)[i]] \in Nat /\ Rank[InOrder(S)[j]] \in Nat
    BY <1>1, <2>1
  <2> QED BY <1>3, <2>2
<1>5. (CHOOSE s \in Sorts(S, Rank) : TRUE) \in Sorts(S, Rank)
  BY <1>4
<1>6. InOrder(S) = (CHOOSE s \in Sorts(S, Rank) : TRUE)
  BY <1>1, <1>4, <1>5, OnlyOrder
<1> QED BY <1>3, <1>6

\* What a form came with is a value for every field.
LEMMA GotValues ==
  ASSUME NEW values \in Received, NEW f \in Fields
  PROVE  mapForm(values)[f] \in Values \union {Empty}
<1>1. values[f] \in Seq(Values \union {Empty})
  BY InputAssumption
<1>2. values[f] # <<>> => Head(values[f]) \in Values \union {Empty}
  BY <1>1
<1> QED BY <1>2 DEF mapForm

LEMMA FormValues ==
  ASSUME NEW form \in Signed, NEW f \in Fields
  PROVE  form[f] \in Values \union {Empty}
BY InputAssumption

LEMMA EpayExact ==
  ASSUME SignedInv
  PROVE  EpayVerifiesTheSigned
<1> DEFINE U == {"sign_type"}
           got == mapForm(call.values)
           S == Present(got) \ U
           T == {f \in Fields \ U : call.form[f] # Empty}
           s == CHOOSE q \in Sorts(S, Rank) : TRUE
           t == InOrder(T)
<1> SUFFICES ASSUME outcome.done, call.op = "epay"
             PROVE  /\ AsSigned(U) => outcome.ok
                    /\ outcome.ok /\ NoneDivided => AsSigned(U)
  BY DEF EpayVerifiesTheSigned, Returned
<1>1. PICK key \in Keys : call.sign \in {PartnerSign(call.form, key), NoSign}
  BY DEF SignedInv, EpayRight
<1>2. outcome.ok <=> call.sign # NoSign /\ call.sign = EpaySign(got, "ours")
  BY DEF SignedInv, EpayRight, EpayVerify
<1>3. EpaySign(got, "ours") = [key |-> "ours", text |-> Written(got, s)]
  BY DEF EpaySign, filter
<1>4. PartnerSign(call.form, key) = [key |-> key, text |-> Written(call.form, t)]
  BY DEF PartnerSign
<1>5. NoSign.key = "" /\ "" # "ours"
  BY DEF NoSign
<1>6. /\ S \in SUBSET Fields /\ T \in SUBSET Fields
      /\ T = Present(call.form) \ U
  BY DEF Present
<1>7. AsSigned(U) <=> call.sign.key = "ours" /\ Valued(S, got) = Valued(T, call.form)
  BY <1>6 DEF AsSigned, Covered, Valued
<1>8. \A f \in Fields : /\ got[f] \in Values \union {Empty}
                        /\ call.form[f] \in Values \union {Empty}
                        /\ NoneDivided => Plain(got[f]) /\ Plain(call.form[f])
  BY GotValues, FormValues DEF SignedInv, EpayRight, NoneDivided
<1> HIDE DEF got, S, T, U
<1>9. s \in SetToSeqs(S) /\ t \in SetToSeqs(T) /\ IsFiniteSet(S) /\ IsFiniteSet(T)
  BY <1>6, RankSorts, FieldsFinite
<1>10. S = T => s = t
  BY <1>6, RankSorts
<1> HIDE DEF s, t
<1>11. ASSUME outcome.ok, NoneDivided
       PROVE  AsSigned(U)
  <2>1. call.sign = EpaySign(got, "ours") /\ call.sign = PartnerSign(call.form, key)
    BY <1>1, <1>2, <1>11
  <2>2. call.sign.key = "ours" /\ Written(got, s) = Written(call.form, t)
    BY <1>3, <1>4, <2>1
  <2>3. /\ \A f \in S : Plain(got[f]) /\ got[f] \in Values \union {Empty}
        /\ \A f \in T : Plain(call.form[f]) /\ call.form[f] \in Values \union {Empty}
    BY <1>6, <1>8, <1>11
  <2>4. Valued(S, got) = Valued(T, call.form)
    BY <1>9, <2>2, <2>3, SameFields
  <2> QED BY <1>7, <2>2, <2>4
<1>12. ASSUME AsSigned(U)
       PROVE  outcome.ok
  <2>1. call.sign # NoSign
    BY <1>5, <1>7, <1>12
  <2>2. call.sign = [key |-> "ours", text |-> Written(call.form, t)]
    BY <1>1, <1>4, <1>7, <1>12, <2>1
  <2>3. S = T /\ \A f \in S : got[f] = call.form[f]
    BY <1>7, <1>12, SameCover
  <2>4. Written(got, s) = Written(call.form, t)
    BY <1>9, <1>10, <2>3, SameWritten
  <2> QED BY <1>2, <1>3, <2>1, <2>2, <2>4
<1> QED BY <1>11, <1>12

\* For any names and values: a submission with the fields NewAPI signed with the
\* common key is taken up, in whatever order they came, and no other is when no
\* value has an "&" (epay Verify and Sign).
THEOREM FormsEpay == FormsSpec => []EpayVerifiesTheSigned
<1>1. SignedInv => EpayVerifiesTheSigned
  BY EpayExact
<1> QED BY <1>1, FormsSignedInvariant, PTL

LEMMA JeepayExact ==
  ASSUME SignedInv
  PROVE  JeepayVerifiesTheSigned
<1> DEFINE got == mapForm(call.values)
           S == Present(got)
           T == Present(call.form)
<1> SUFFICES ASSUME outcome.done, call.op = "jeepay"
             PROVE  /\ AsSigned({}) /\ ~ Twins(call.form) => outcome.ok
                    /\ outcome.ok /\ NoneDivided => AsSigned({})
  BY DEF JeepayVerifiesTheSigned, Returned
<1>1. PICK key \in Keys : call.sign \in GatewaySigns(call.form, key) \union {NoSign}
  BY DEF SignedInv, JeepayRight
<1>2. PICK s \in Sorts(S, Fold) :
             outcome.ok = (call.sign # NoSign
                           /\ call.sign = [key |-> "ours", text |-> Written(got, s)])
  BY DEF SignedInv, JeepayRight, JeepayVerifies, JeepaySigns
<1>3. GatewaySigns(call.form, key)
        = {[key |-> key, text |-> Written(call.form, t)] : t \in Sorts(T, Fold)}
  BY DEF GatewaySigns, Present
<1>4. NoSign.key = "" /\ "" # "ours"
  BY DEF NoSign
<1>5. S \in SUBSET Fields /\ T \in SUBSET Fields
  BY DEF Present
<1>6. AsSigned({}) <=> call.sign.key = "ours" /\ Valued(S, got) = Valued(T, call.form)
  BY DEF AsSigned, Covered, Valued
<1>7. \A f \in Fields : /\ got[f] \in Values \union {Empty}
                        /\ call.form[f] \in Values \union {Empty}
                        /\ NoneDivided => Plain(got[f]) /\ Plain(call.form[f])
  BY GotValues, FormValues DEF SignedInv, JeepayRight, NoneDivided
<1>8. ~ Twins(call.form) => \A f, g \in T : Fold[f] = Fold[g] => f = g
  BY DEF Twins
<1> HIDE DEF got, S, T
<1>9. IsFiniteSet(S) /\ IsFiniteSet(T)
  BY <1>5, FieldsFinite
<1>10. s \in SetToSeqs(S)
  BY DEF Sorts
<1>11. ASSUME outcome.ok, NoneDivided
       PROVE  AsSigned({})
  <2>1. call.sign # NoSign /\ call.sign = [key |-> "ours", text |-> Written(got, s)]
    BY <1>2, <1>11
  <2>2. PICK t \in Sorts(T, Fold) :
               call.sign = [key |-> key, text |-> Written(call.form, t)]
    BY <1>1, <1>3, <2>1
  <2>3. call.sign.key = "ours" /\ Written(got, s) = Written(call.form, t)
    BY <2>1, <2>2
  <2>4. t \in SetToSeqs(T)
    BY DEF Sorts
  <2>5. /\ \A f \in S : Plain(got[f]) /\ got[f] \in Values \union {Empty}
        /\ \A f \in T : Plain(call.form[f]) /\ call.form[f] \in Values \union {Empty}
    BY <1>5, <1>7, <1>11
  <2>6. Valued(S, got) = Valued(T, call.form)
    BY <1>9, <1>10, <2>3, <2>4, <2>5, SameFields
  <2> QED BY <1>6, <2>3, <2>6
<1>12. ASSUME AsSigned({}), ~ Twins(call.form)
       PROVE  outcome.ok
  <2>1. call.sign # NoSign
    BY <1>4, <1>6, <1>12
  <2>2. PICK t \in Sorts(T, Fold) :
               call.sign = [key |-> key, text |-> Written(call.form, t)]
    BY <1>1, <1>3, <2>1
  <2>3. S = T /\ \A f \in S : got[f] = call.form[f]
    BY <1>6, <1>12, SameCover
  <2>4. \A f, g \in S : Fold[f] = Fold[g] => f = g
    BY <1>8, <1>12, <2>3
  <2>5. \A f \in S : Fold[f] \in Nat
    BY <1>5, NamesAssumption
  <2>6. s = t
    BY <1>9, <2>2, <2>3, <2>4, <2>5, OnlyOrder
  <2>7. Written(got, s) = Written(call.form, t)
    BY <1>9, <1>10, <2>3, <2>6, SameWritten
  <2>8. key = "ours"
    BY <1>6, <1>12, <2>2
  <2> QED BY <1>2, <2>1, <2>2, <2>7, <2>8
<1> QED BY <1>11, <1>12

\* For any names and values: a notification with the fields the gateway signed
\* with the common key is taken up if no two names differ in case only, and no
\* other is when no value has an "&" (jeepay Verify and Sign).
THEOREM FormsJeepay == FormsSpec => []JeepayVerifiesTheSigned
<1>1. SignedInv => JeepayVerifiesTheSigned
  BY JeepayExact
<1> QED BY <1>1, FormsSignedInvariant, PTL

-----------------------------------------------------------------------------
(* Numbers *)

LEMMA DivUnique ==
  ASSUME NEW a \in Int, NEW m \in Nat \ {0}, NEW n \in Int, n * m <= a, a < n * m + m
  PROVE  a \div m = n
OBVIOUS

LEMMA DivRange ==
  ASSUME NEW a \in Int, NEW m \in Nat \ {0}
  PROVE  a \div m \in Int /\ (a \div m) * m <= a /\ a < (a \div m) * m + m
OBVIOUS

LEMMA ModSmall ==
  ASSUME NEW a \in Int, NEW m \in Int, 0 <= a, a < m
  PROVE  a % m = a
OBVIOUS

LEMMA ModRange ==
  ASSUME NEW a \in Int, NEW m \in Nat \ {0}
  PROVE  a % m \in 0..m - 1
OBVIOUS

LEMMA LessTimes ==
  ASSUME NEW a \in Int, NEW b \in Int, NEW m \in Nat \ {0}, a < b
  PROVE  a * m + m <= b * m
OBVIOUS

\* An integer of IntBits bits: half of its values are negative.
LEMMA IntWidth ==
  /\ Two[IntBits - 1] \in Nat \ {0}
  /\ Two[IntBits] = 2 * Two[IntBits - 1]
<1>1. IntBits - 1 \in Nat /\ (IntBits - 1) + 1 = IntBits
  BY WidthAssumption
<1> QED BY <1>1, TwoPowers

LEMMA WrapFits ==
  ASSUME NEW n \in Int
  PROVE  Wrap(n) \in Int /\ Fits(Wrap(n)) /\ (Fits(n) => Wrap(n) = n)
<1> DEFINE h == Two[IntBits - 1]
<1>1. h \in Nat \ {0} /\ Two[IntBits] = 2 * h
  BY IntWidth
<1>2. Wrap(n) = ((n + h) % (2 * h)) - h
  BY <1>1 DEF Wrap
<1>3. \A k : Fits(k) <=> k \in -h..h - 1
  BY DEF Fits
<1> HIDE DEF h
<1>4. (n + h) % (2 * h) \in 0..2 * h - 1
  <2>1. n + h \in Int /\ 2 * h \in Nat \ {0}
    BY <1>1
  <2> QED BY <2>1, ModRange
<1>5. ASSUME n \in -h..h - 1
      PROVE  (n + h) % (2 * h) = n + h
  BY <1>1, <1>5, ModSmall
<1>6. Wrap(n) \in Int /\ Wrap(n) \in -h..h - 1
  BY <1>1, <1>2, <1>4
<1>7. n \in -h..h - 1 => Wrap(n) = n
  BY <1>1, <1>2, <1>5
<1> QED BY <1>3, <1>6, <1>7

\* Rescale to a smaller exponent, and to zero from below.
LEMMA RescaleUp ==
  ASSUME NEW c \in Int, NEW e \in Int, NEW x \in Int, x <= e
  PROVE  Rescale([coef |-> c, exp |-> e], x) = c * Ten[e - x]
BY DEF Rescale

LEMMA RescaleDown ==
  ASSUME NEW c \in Int, NEW e \in Int, NEW x \in Int, e < x
  PROVE  Rescale([coef |-> c, exp |-> e], x) = Quotient(c, x - e)
BY DEF Rescale

\* A quotient is cut off towards zero.
LEMMA QuotientRange ==
  ASSUME NEW a \in Int, NEW k \in Nat
  PROVE  /\ Quotient(a, k) \in Int
         /\ a >= 0 => Quotient(a, k) >= 0 /\ Quotient(a, k) = a \div Ten[k]
         /\ a < 0 => Quotient(a, k) <= 0 /\ Quotient(a, k) = -((-a) \div Ten[k])
<1> DEFINE m == Ten[k]
<1>1. m \in Nat \ {0}
  BY TenPowers
<1>2. /\ a >= 0 => Sign(a) = 1 /\ Abs(a) = a
      /\ a < 0 => Sign(a) = -1 /\ Abs(a) = -a
  BY DEF Sign, Abs
<1>3. Quotient(a, k) = Sign(a) * (Abs(a) \div m)
  BY DEF Quotient
<1> HIDE DEF m
<1>4. ASSUME NEW b \in Nat
      PROVE  b \div m \in Int /\ b \div m >= 0
  BY <1>1
<1>5. CASE a >= 0
  <2>1. Quotient(a, k) = 1 * (a \div m)
    BY <1>2, <1>3, <1>5
  <2>2. a \div m \in Int /\ a \div m >= 0
    BY <1>4, <1>5
  <2> QED BY <1>5, <2>1, <2>2 DEF m
<1>6. CASE a < 0
  <2>1. Quotient(a, k) = (-1) * ((-a) \div m)
    BY <1>2, <1>3, <1>6
  <2>2. (-a) \div m \in Int /\ (-a) \div m >= 0
    BY <1>4, <1>6
  <2> QED BY <1>6, <2>1, <2>2 DEF m
<1> QED BY <1>5, <1>6

-----------------------------------------------------------------------------
(* YuanToFen *)

\* A number n of fen is a number of yuan.
LEMMA FenIs ==
  ASSUME NEW n \in Int, NEW c \in Int, NEW e \in Int
  PROVE  /\ e >= -2 => (SameValue([coef |-> n, exp |-> -2], [coef |-> c, exp |-> e])
                          <=> n = c * Ten[e + 2])
         /\ e < -2 => (SameValue([coef |-> n, exp |-> -2], [coef |-> c, exp |-> e])
                         <=> n * Ten[-2 - e] = c)
<1> DEFINE same == SameValue([coef |-> n, exp |-> -2], [coef |-> c, exp |-> e])
<1>1. Ten[0] = 1
  BY TenPowers
<1>2. ASSUME e >= -2
      PROVE  same <=> n = c * Ten[e + 2]
  <2>1. same <=> Rescale([coef |-> n, exp |-> -2], -2) = Rescale([coef |-> c, exp |-> e], -2)
    BY <1>2 DEF SameValue
  <2>2. Rescale([coef |-> n, exp |-> -2], -2) = n
    <3>1. Rescale([coef |-> n, exp |-> -2], -2) = n * Ten[(-2) - (-2)]
      BY RescaleUp
    <3>2. (-2) - (-2) = 0
      OBVIOUS
    <3> QED BY <1>1, <3>1, <3>2
  <2>3. Rescale([coef |-> c, exp |-> e], -2) = c * Ten[e + 2]
    <3>1. Rescale([coef |-> c, exp |-> e], -2) = c * Ten[e - (-2)]
      BY <1>2, RescaleUp
    <3>2. e - (-2) = e + 2
      OBVIOUS
    <3> QED BY <3>1, <3>2
  <2> QED BY <2>1, <2>2, <2>3
<1>3. ASSUME e < -2
      PROVE  same <=> n * Ten[-2 - e] = c
  <2>1. same <=> Rescale([coef |-> n, exp |-> -2], e) = Rescale([coef |-> c, exp |-> e], e)
    BY <1>3 DEF SameValue
  <2>2. Rescale([coef |-> n, exp |-> -2], e) = n * Ten[-2 - e]
    BY <1>3, RescaleUp
  <2>3. Rescale([coef |-> c, exp |-> e], e) = c
    <3>1. Rescale([coef |-> c, exp |-> e], e) = c * Ten[e - e]
      BY RescaleUp
    <3>2. e - e = 0
      OBVIOUS
    <3> QED BY <1>1, <3>1, <3>2
  <2> QED BY <2>1, <2>2, <2>3
<1> QED BY <1>2, <1>3

\* A decimal is whole if it is not negative in its exponent, or a multiple of
\* what its last digit counts.
LEMMA WholeIs ==
  ASSUME NEW c \in Int, NEW e \in Int
  PROVE  LET d == [coef |-> c, exp |-> e]
         IN /\ Rescale(d, 0) \in Int
            /\ e >= 0 => Rescale(d, 0) = c * Ten[e] /\ SameValue(d, Truncate(d))
            /\ e < 0 => /\ Rescale(d, 0) = Quotient(c, -e)
                        /\ SameValue(d, Truncate(d)) <=> c = Quotient(c, -e) * Ten[-e]
<1> DEFINE d == [coef |-> c, exp |-> e]
           q == Rescale(d, 0)
           same == SameValue(d, Truncate(d))
<1>1. Ten[0] = 1 /\ \A n \in Nat : Ten[n] \in Nat \ {0}
  BY TenPowers
<1>2. ASSUME e >= 0
      PROVE  q \in Int /\ q = c * Ten[e] /\ same
  <2>1. q = c * Ten[e]
    <3>1. q = c * Ten[e - 0]
      BY <1>2, RescaleUp
    <3>2. e - 0 = e
      OBVIOUS
    <3> QED BY <3>1, <3>2
  <2>2. q \in Int
    BY <1>1, <1>2, <2>1
  <2>3. Truncate(d) = [coef |-> q, exp |-> 0]
    BY DEF Truncate
  <2> HIDE DEF q
  <2>4. same <=> Rescale(d, 0) = Rescale([coef |-> q, exp |-> 0], 0)
    <3>1. ~ (e < 0)
      BY <1>2
    <3> QED BY <2>3, <3>1 DEF SameValue
  <2>5. Rescale([coef |-> q, exp |-> 0], 0) = q * Ten[0 - 0]
    BY <2>2, RescaleUp
  <2>6. Rescale([coef |-> q, exp |-> 0], 0) = q
    <3>1. 0 - 0 = 0
      OBVIOUS
    <3> QED BY <1>1, <2>2, <2>5, <3>1
  <2>7. Rescale(d, 0) = q
    BY DEF q
  <2> QED BY <2>1, <2>2, <2>4, <2>6, <2>7
<1>3. ASSUME e < 0
      PROVE  q \in Int /\ q = Quotient(c, -e) /\ (same <=> c = q * Ten[-e])
  <2>1. q = Quotient(c, -e)
    <3>1. q = Quotient(c, 0 - e)
      BY <1>3, RescaleDown
    <3>2. 0 - e = -e
      OBVIOUS
    <3> QED BY <3>1, <3>2
  <2>2. q \in Int
    <3>1. -e \in Nat
      BY <1>3
    <3> HIDE DEF q
    <3> QED BY <2>1, <3>1, QuotientRange
  <2>3. Truncate(d) = [coef |-> q, exp |-> 0]
    BY DEF Truncate
  <2> HIDE DEF q
  <2>4. same <=> Rescale(d, e) = Rescale([coef |-> q, exp |-> 0], e)
    BY <1>3, <2>3 DEF SameValue
  <2>5. Rescale(d, e) = c
    <3>1. Rescale(d, e) = c * Ten[e - e]
      BY RescaleUp
    <3>2. e - e = 0
      OBVIOUS
    <3> QED BY <1>1, <3>1, <3>2
  <2>6. Rescale([coef |-> q, exp |-> 0], e) = q * Ten[-e]
    <3>1. Rescale([coef |-> q, exp |-> 0], e) = q * Ten[0 - e]
      BY <1>3, <2>2, RescaleUp
    <3>2. 0 - e = -e
      OBVIOUS
    <3> QED BY <3>1, <3>2
  <2> QED BY <2>1, <2>2, <2>4, <2>5, <2>6
<1> QED BY <1>2, <1>3

\* The number of fen, and when there is one.
LEMMA FenExact ==
  ASSUME NEW c \in Int, NEW e \in Int,
         Fits(Rescale([coef |-> c * 100, exp |-> e], 0))
  PROVE  LET yuan == [coef |-> c, exp |-> e]
             fen == YuanToFen(yuan)
             IsFen(n) == SameValue([coef |-> n, exp |-> -2], yuan)
         IN /\ fen.ok => fen.value \in Int /\ fen.value > 0 /\ IsFen(fen.value)
            /\ ~ fen.ok => \A n \in Nat \ {0} : ~ IsFen(n)
<1> DEFINE yuan == [coef |-> c, exp |-> e]
           d == [coef |-> c * 100, exp |-> e]
           q == Rescale(d, 0)
           fen == YuanToFen(yuan)
           whole == SameValue(d, Truncate(d))
           IsFen(n) == SameValue([coef |-> n, exp |-> -2], yuan)
<1>1. Times(yuan, 100) = d
  BY DEF Times
<1>2. c * 100 \in Int
  OBVIOUS
<1>3. /\ q \in Int
      /\ e >= 0 => q = c * 100 * Ten[e] /\ whole
      /\ e < 0 => q = Quotient(c * 100, -e) /\ (whole <=> c * 100 = q * Ten[-e])
  BY <1>2, WholeIs
<1>4. IntPart(d) = q
  BY <1>3, WrapFits DEF IntPart
<1>5. /\ fen.ok <=> ~ (c <= 0) /\ whole
      /\ fen.ok => fen.value = q
  BY <1>1, <1>4 DEF YuanToFen, Refused, Value
<1>6. \A n \in Int : /\ e >= -2 => (IsFen(n) <=> n = c * Ten[e + 2])
                     /\ e < -2 => (IsFen(n) <=> n * Ten[-2 - e] = c)
  BY FenIs
<1> SUFFICES /\ fen.ok => fen.value \in Int /\ fen.value > 0 /\ IsFen(fen.value)
             /\ ~ fen.ok => \A n \in Nat \ {0} : ~ IsFen(n)
  OBVIOUS
<1> HIDE DEF q, d, fen, whole, IsFen
<1>7. CASE e >= 0
  <2>1. PICK t \in Nat \ {0} : t = Ten[e] /\ Ten[e + 2] = 100 * t
    <3>1. e \in Nat /\ e + 1 \in Nat /\ (e + 1) + 1 = e + 2
      BY <1>7
    <3>2. Ten[e] \in Nat \ {0} /\ Ten[e + 1] = 10 * Ten[e] /\ Ten[e + 2] = 10 * Ten[e + 1]
      BY <3>1, TenPowers
    <3> QED BY <3>2
  <2>2. q = c * 100 * t /\ whole
    BY <1>3, <1>7, <2>1
  <2>3. \A n \in Int : IsFen(n) <=> n = c * (100 * t)
    BY <1>6, <1>7, <2>1
  <2>4. c * 100 * t = c * (100 * t)
    OBVIOUS
  <2>5. c > 0 => c * (100 * t) > 0
    OBVIOUS
  <2>6. c <= 0 => c * (100 * t) <= 0
    OBVIOUS
  <2> QED BY <1>3, <1>5, <2>2, <2>3, <2>4, <2>5, <2>6
<1>8. CASE e + 1 = 0
  <2>1. Ten[-e] = 10 /\ Ten[e + 2] = 10
    <3>1. -e = 0 + 1 /\ e + 2 = 0 + 1 /\ 0 \in Nat
      BY <1>8
    <3>2. Ten[0 + 1] = 10
      <4>1. Ten[0 + 1] = 10 * 1
        BY <3>1, TenPowers, Zenon
      <4> QED BY <4>1
    <3> QED BY <3>1, <3>2, Zenon
  <2>2. \A n \in Int : IsFen(n) <=> n = c * 10
    BY <1>6, <1>8, <2>1
  <2>3. whole <=> c * 100 = q * 10
    BY <1>3, <1>8, <2>1
  <2>4. q = Quotient(c * 100, 1)
    BY <1>3, <1>8
  <2>5. c > 0 => q = (c * 100) \div 10
    <3>1. -e = 1
      BY <1>8
    <3>2. c > 0 => c * 100 >= 0
      OBVIOUS
    <3>3. Ten[1] = 10
      BY <2>1, <3>1
    <3>4. 1 \in Nat
      OBVIOUS
    <3>5. c * 100 >= 0 => Quotient(c * 100, 1) = (c * 100) \div Ten[1]
      BY <1>2, <3>4, QuotientRange
    <3> QED BY <2>4, <3>2, <3>3, <3>5
  <2>6. c > 0 => q = c * 10
    BY <2>5
  <2> QED BY <1>3, <1>5, <2>2, <2>3, <2>6
<1>9. CASE e < -1
  <2>1. PICK t \in Nat \ {0} : t = Ten[-2 - e] /\ Ten[-e] = 100 * t
    <3>1. -2 - e \in Nat /\ (-2 - e) + 1 \in Nat /\ ((-2 - e) + 1) + 1 = -e
      BY <1>9
    <3>2. /\ Ten[-2 - e] \in Nat \ {0} /\ Ten[(-2 - e) + 1] = 10 * Ten[-2 - e]
          /\ Ten[-e] = 10 * Ten[(-2 - e) + 1]
      BY <3>1, TenPowers
    <3> QED BY <3>2
  <2>2. \A n \in Int : IsFen(n) <=> n * t = c
    <3>1. CASE e = -2
      <4>1. t = 1
        BY <2>1, <3>1, TenPowers
      <4>2. \A n \in Int : IsFen(n) <=> n = c * Ten[e + 2]
        BY <1>6, <3>1
      <4>3. Ten[e + 2] = 1
        BY <3>1, TenPowers
      <4> QED BY <4>1, <4>2, <4>3
    <3>2. CASE e < -2
      BY <1>6, <2>1, <3>2
    <3> QED BY <1>9, <3>1, <3>2
  <2>3. whole <=> c * 100 = q * (100 * t)
    BY <1>3, <1>9, <2>1
  <2>4. c > 0 => q = (c * 100) \div (100 * t)
    <3>1. -e \in Nat /\ q = Quotient(c * 100, -e)
      BY <1>3, <1>9
    <3>2. c > 0 => c * 100 >= 0
      OBVIOUS
    <3> QED BY <1>2, <2>1, <3>1, <3>2, QuotientRange
  <2>5. whole <=> c = q * t
    BY <1>3, <2>3
  <2>6. c > 0 /\ whole => q > 0
    BY <1>3, <2>5
  <2>7. ASSUME NEW n \in Nat \ {0}, n * t = c
        PROVE  c > 0 /\ whole
    <3>1. c > 0
      BY <2>7
    <3>2. c * 100 = n * (100 * t)
      BY <2>7
    <3>3. 100 * t \in Nat \ {0}
      OBVIOUS
    <3>4. (c * 100) \div (100 * t) = n
      BY <1>2, <3>2, <3>3, DivUnique
    <3> QED BY <2>4, <2>5, <2>7, <3>1, <3>4
  <2> QED BY <1>3, <1>5, <2>2, <2>5, <2>6, <2>7
<1>10. e >= 0 \/ e + 1 = 0 \/ e < -1
  OBVIOUS
<1> QED BY <1>7, <1>8, <1>9, <1>10

-----------------------------------------------------------------------------
(* creditedQuota *)

LEMMA AbsIs ==
  ASSUME NEW x \in Int
  PROVE  Abs(x) = IF x < 0 THEN -x ELSE x
BY DEF Abs, Sign

\* The multiple of 10t nearest to c, the larger of two: of the quotient by t,
\* half a unit up.
LEMMA NearestMultiple ==
  ASSUME NEW c \in Nat, NEW t \in Nat \ {0}
  PROVE  LET r == (c \div t + 5) \div 10
         IN /\ r \in Nat
            /\ r * (10 * t) <= c + 5 * t
            /\ c + 5 * t < r * (10 * t) + 10 * t
<1> DEFINE a == c \div t
           r == (a + 5) \div 10
<1>1. a \in Nat /\ a * t <= c /\ c < a * t + t
  OBVIOUS
<1> HIDE DEF a
<1>2. r \in Nat /\ r * 10 <= a + 5 /\ a + 5 < r * 10 + 10
  BY <1>1
<1> HIDE DEF r
<1>3. (r * 10) * t <= (a + 5) * t
  BY <1>1, <1>2
<1>4. (a + 6) * t <= (r * 10 + 10) * t
  <2>1. a + 6 <= r * 10 + 10
    BY <1>1, <1>2
  <2> QED BY <1>1, <1>2, <2>1
<1>5. /\ (r * 10) * t = r * (10 * t) /\ (a + 5) * t = a * t + 5 * t
      /\ (a + 6) * t = a * t + 6 * t /\ (r * 10 + 10) * t = r * (10 * t) + 10 * t
  BY <1>1, <1>2
<1>6. r * (10 * t) \in Int /\ a * t \in Int
  BY <1>1, <1>2
<1>7. r * (10 * t) <= c + 5 * t
  BY <1>1, <1>3, <1>5, <1>6
<1>8. c + 5 * t < r * (10 * t) + 10 * t
  BY <1>1, <1>4, <1>5, <1>6
<1> QED BY <1>2, <1>7, <1>8 DEF a, r

\* It is the only one that is nearer than its neighbours.
LEMMA NearestUnique ==
  ASSUME NEW c \in Nat, NEW t \in Nat \ {0}, NEW q \in Int, NEW r \in Int,
         r * (10 * t) <= c + 5 * t, c + 5 * t < r * (10 * t) + 10 * t
  PROVE  (q * (10 * t) <= c + 5 * t /\ c + 5 * t < q * (10 * t) + 10 * t) <=> q = r
<1>1. c + 5 * t \in Int /\ 10 * t \in Nat \ {0}
  OBVIOUS
<1>2. (c + 5 * t) \div (10 * t) = r
  BY <1>1, DivUnique
<1>3. ASSUME q * (10 * t) <= c + 5 * t, c + 5 * t < q * (10 * t) + 10 * t
      PROVE  q = r
  <2>1. (c + 5 * t) \div (10 * t) = q
    BY <1>1, <1>3, DivUnique
  <2> QED BY <1>2, <2>1
<1> QED BY <1>3

\* Nearer to c than the multiples of m next to it, or as near as the smaller.
NearestOf(q, m, c) ==
  LET Error(p) == Abs(p * m - c)
  IN \A p \in {q - 1, q + 1} : Error(q) < Error(p) \/ (Error(q) = Error(p) /\ p < q)

LEMMA NearestRange ==
  ASSUME NEW q \in Int, NEW t \in Nat \ {0}, NEW c \in Int
  PROVE  NearestOf(q, 10 * t, c)
           <=> q * (10 * t) <= c + 5 * t /\ c + 5 * t < q * (10 * t) + 10 * t
<1> DEFINE x == q * (10 * t) - c
<1>1. /\ (q - 1) * (10 * t) - c = x - 10 * t
      /\ (q + 1) * (10 * t) - c = x + 10 * t
      /\ x \in Int
  OBVIOUS
<1>2. /\ Abs(q * (10 * t) - c) = (IF x < 0 THEN -x ELSE x)
      /\ Abs((q - 1) * (10 * t) - c) = (IF x - 10 * t < 0 THEN -(x - 10 * t) ELSE x - 10 * t)
      /\ Abs((q + 1) * (10 * t) - c) = (IF x + 10 * t < 0 THEN -(x + 10 * t) ELSE x + 10 * t)
  <2>1. x - 10 * t \in Int /\ x + 10 * t \in Int
    BY <1>1
  <2>2. Abs(q * (10 * t) - c) = Abs(x)
    OBVIOUS
  <2> HIDE DEF x
  <2> QED BY <1>1, <2>1, <2>2, AbsIs
<1>3. NearestOf(q, 10 * t, c) <=>
        /\ \/ Abs(q * (10 * t) - c) < Abs((q - 1) * (10 * t) - c)
           \/ Abs(q * (10 * t) - c) = Abs((q - 1) * (10 * t) - c)
        /\ Abs(q * (10 * t) - c) < Abs((q + 1) * (10 * t) - c)
  <2>1. q - 1 < q /\ ~ (q + 1 < q)
    OBVIOUS
  <2> QED BY <2>1 DEF NearestOf
<1>4. /\ q * (10 * t) <= c + 5 * t <=> x <= 5 * t
      /\ c + 5 * t < q * (10 * t) + 10 * t <=> -(5 * t) < x
  OBVIOUS
<1> HIDE DEF x
<1> QED BY <1>1, <1>2, <1>3, <1>4

\* What Round makes of a positive decimal is the integer nearest to it.
LEMMA RoundIs ==
  ASSUME NEW c \in Nat \ {0}, NEW e \in Int
  PROVE  LET d == [coef |-> c, exp |-> e]
             scale == IF e < 0 THEN -e ELSE 0
             r == Rescale(RoundDecimal(d), 0)
         IN /\ r \in Nat
            /\ r \in {Rescale(d, 0), Rescale(d, 0) + 1}
            /\ \A q \in Int : NearestOf(q, Ten[scale], Rescale(d, -scale)) <=> q = r
<1> DEFINE d == [coef |-> c, exp |-> e]
           r == Rescale(RoundDecimal(d), 0)
<1>1. Ten[0] = 1 /\ \A n \in Nat : Ten[n] \in Nat \ {0} /\ Ten[n + 1] = 10 * Ten[n]
  BY TenPowers
<1>2. ASSUME NEW n \in Int
      PROVE  Rescale([coef |-> n, exp |-> 0], 0) = n
  <2>1. Rescale([coef |-> n, exp |-> 0], 0) = n * Ten[0 - 0]
    BY RescaleUp
  <2>2. 0 - 0 = 0
    OBVIOUS
  <2> QED BY <1>1, <2>1, <2>2
<1>3. ASSUME NEW n \in Nat
      PROVE  Quotient(n, 1) = n \div 10
  <2>1. 1 \in Nat /\ n \in Int /\ n >= 0 /\ 1 = 0 + 1 /\ 0 \in Nat
    OBVIOUS
  <2>2. Ten[1] = 10
    <3>1. Ten[1] = 10 * 1
      BY <1>1, <2>1, Zenon
    <3> QED BY <3>1
  <2> QED BY <2>1, <2>2, QuotientRange
<1>4. Sign(c) = 1
  BY DEF Sign
<1>5. c \in Int
  OBVIOUS
<1>6. CASE e >= 0
  <2> DEFINE w == c * Ten[e]
  <2>1. w \in Nat /\ Rescale(d, 0) = w
    <3>1. Rescale(d, 0) = c * Ten[e - 0]
      BY <1>6, RescaleUp
    <3>2. e - 0 = e /\ e \in Nat
      BY <1>6
    <3> QED BY <1>1, <3>1, <3>2
  <2>2. r = w
    <3>1. CASE e = 0
      BY <2>1, <3>1 DEF RoundDecimal
    <3>2. CASE e # 0
      <4>1. Rescale(d, -1) = 10 * w
        <5>1. -1 <= e /\ e - (-1) = e + 1 /\ e \in Nat
          BY <1>6
        <5>2. Rescale(d, -1) = c * Ten[e + 1]
          <6>1. Rescale(d, -1) = c * Ten[e - (-1)]
            BY <5>1, RescaleUp
          <6> QED BY <5>1, <6>1
        <5>3. Ten[e + 1] = 10 * Ten[e] /\ Ten[e] \in Nat
          BY <1>1, <5>1
        <5>4. \A p \in Nat : c * (10 * p) = 10 * (c * p)
          OBVIOUS
        <5> QED BY <5>2, <5>3, <5>4
      <4>2. RoundDecimal(d) = [coef |-> Quotient(10 * w + 5, 1), exp |-> 0]
        <5>1. RoundDecimal(d) = [coef |-> Quotient(Rescale(d, -1) + 5 * Sign(c), 1), exp |-> 0]
          BY <3>2 DEF RoundDecimal
        <5>2. 5 * Sign(c) = 5
          BY <1>4
        <5> QED BY <4>1, <5>1, <5>2
      <4> HIDE DEF w
      <4>3. Quotient(10 * w + 5, 1) = w
        <5>1. 10 * w + 5 \in Nat /\ (10 * w + 5) \div 10 = w
          BY <2>1
        <5> QED BY <1>3, <5>1
      <4> QED BY <1>2, <2>1, <4>2, <4>3
    <3> QED BY <3>1, <3>2
  <2> HIDE DEF w, d, r
  <2>3. (IF e < 0 THEN -e ELSE 0) = 0 /\ -0 = 0
    <3>1. (IF e < 0 THEN -e ELSE 0) = 0
      BY <1>6
    <3>2. \A x \in Int : x + x = 0 => -x = x
      OBVIOUS
    <3>3. 0 \in Int /\ 0 + 0 = 0
      OBVIOUS
    <3> QED BY <3>1, <3>2, <3>3, Zenon
  <2>4. \A q \in Int : NearestOf(q, 1, w) <=> q = w
    <3> SUFFICES ASSUME NEW q \in Int
                 PROVE  NearestOf(q, 1, w) <=> q = w
      OBVIOUS
    <3>1. /\ q * 1 - w = q - w /\ (q - 1) * 1 - w = q - w - 1 /\ (q + 1) * 1 - w = q - w + 1
          /\ q - w \in Int /\ q - w - 1 \in Int /\ q - w + 1 \in Int
      BY <2>1
    <3>2. NearestOf(q, 1, w) <=>
            /\ Abs(q - w) < Abs(q - w - 1) \/ Abs(q - w) = Abs(q - w - 1)
            /\ Abs(q - w) < Abs(q - w + 1)
      <4>1. q - 1 < q /\ ~ (q + 1 < q)
        OBVIOUS
      <4> QED BY <3>1, <4>1 DEF NearestOf
    <3> QED BY <2>1, <3>1, <3>2, AbsIs
  <2> QED BY <1>1, <2>1, <2>2, <2>3, <2>4 DEF d, r
<1>7. CASE e < 0
  <2>1. PICK t \in Nat \ {0} : t = Ten[-1 - e] /\ Ten[-e] = 10 * t
    <3>1. -1 - e \in Nat /\ (-1 - e) + 1 = -e
      BY <1>7
    <3> QED BY <1>1, <3>1
  <2> DEFINE a == c \div t
             w == (a + 5) \div 10
  <2>2. a \in Nat
    OBVIOUS
  <2>3. /\ w \in Nat
        /\ w * (10 * t) <= c + 5 * t /\ c + 5 * t < w * (10 * t) + 10 * t
    BY NearestMultiple
  <2>4. Rescale(d, -1) = a
    <3>1. CASE e + 1 = 0
      <4>1. e - (-1) = 0 /\ -1 <= e /\ -1 - e = 0
        BY <3>1
      <4>2. Rescale(d, -1) = c * Ten[0]
        <5>1. Rescale(d, -1) = c * Ten[e - (-1)]
          BY <1>5, <4>1, RescaleUp
        <5> QED BY <4>1, <5>1
      <4>3. t = 1
        BY <1>1, <2>1, <4>1
      <4> QED BY <1>1, <4>2, <4>3
    <3>2. CASE e + 1 # 0
      <4>1. e < -1 /\ -1 - e \in Nat /\ c >= 0
        BY <1>7, <3>2
      <4>2. Rescale(d, -1) = Quotient(c, -1 - e)
        BY <1>5, <4>1, RescaleDown
      <4>3. Quotient(c, -1 - e) = c \div Ten[-1 - e]
        BY <1>5, <4>1, QuotientRange
      <4> QED BY <2>1, <4>2, <4>3
    <3> QED BY <3>1, <3>2
  <2>5. RoundDecimal(d) = [coef |-> Quotient(a + 5, 1), exp |-> 0]
    <3>1. RoundDecimal(d) = [coef |-> Quotient(Rescale(d, -1) + 5 * Sign(c), 1), exp |-> 0]
      BY <1>7 DEF RoundDecimal
    <3>2. 5 * Sign(c) = 5
      BY <1>4
    <3> QED BY <2>4, <3>1, <3>2
  <2>6. r = w
    <3> HIDE DEF a
    <3>1. a + 5 \in Nat
      BY <2>2
    <3>2. Quotient(a + 5, 1) = w
      BY <1>3, <3>1
    <3> HIDE DEF w
    <3> QED BY <1>2, <2>3, <2>5, <3>2
  <2>7. Rescale(d, 0) \in Int /\ Rescale(d, 0) = c \div (10 * t)
    <3>1. e < 0 /\ 0 - e = -e /\ -e \in Nat /\ c >= 0
      BY <1>7
    <3>2. Rescale(d, 0) = Quotient(c, -e)
      <4>1. Rescale(d, 0) = Quotient(c, 0 - e)
        BY <1>5, <3>1, RescaleDown
      <4> QED BY <3>1, <4>1
    <3> QED BY <1>5, <2>1, <3>1, <3>2, QuotientRange
  <2>8. Rescale(d, -(-e)) = c
    <3>1. -(-e) = e /\ e - e = 0
      OBVIOUS
    <3>2. Rescale(d, e) = c * Ten[e - e]
      BY <1>5, RescaleUp
    <3> QED BY <1>1, <3>1, <3>2
  <2> HIDE DEF a, w, d, r
  <2>9. w \in {c \div (10 * t), c \div (10 * t) + 1}
    <3> DEFINE k == c \div (10 * t)
    <3>1. k \in Int /\ k * (10 * t) <= c /\ c < k * (10 * t) + 10 * t
      <4>1. 10 * t \in Nat \ {0}
        OBVIOUS
      <4> QED BY <1>5, <4>1, DivRange
    <3> HIDE DEF k
    <3>2. k * (10 * t) \in Int /\ w * (10 * t) \in Int /\ 10 * t \in Nat \ {0}
      BY <2>3, <3>1
    <3>3. ~ (w < k)
      <4> SUFFICES ASSUME w < k
                   PROVE  FALSE
        OBVIOUS
      <4>1. w * (10 * t) + 10 * t <= k * (10 * t)
        BY <2>3, <3>1, <3>2, LessTimes
      <4> QED BY <2>3, <3>1, <3>2, <4>1
    <3>4. ~ (k + 1 < w)
      <4> SUFFICES ASSUME k + 1 < w
                   PROVE  FALSE
        OBVIOUS
      <4>1. (k + 1) * (10 * t) + 10 * t <= w * (10 * t)
        BY <2>3, <3>1, <3>2, LessTimes
      <4>2. (k + 1) * (10 * t) = k * (10 * t) + 10 * t
        BY <3>1
      <4> QED BY <2>3, <3>1, <3>2, <4>1, <4>2
    <3>5. w = k \/ w = k + 1
      BY <2>3, <3>1, <3>3, <3>4
    <3> QED BY <3>5 DEF k
  <2>10. \A q \in Int : NearestOf(q, 10 * t, c) <=> q = w
    BY <2>3, <1>5, NearestRange, NearestUnique
  <2>11. (IF e < 0 THEN -e ELSE 0) = -e
    BY <1>7
  <2> QED BY <2>1, <2>3, <2>6, <2>7, <2>8, <2>9, <2>10, <2>11 DEF d, r
<1>8. e >= 0 \/ e < 0
  OBVIOUS
<1> QED BY <1>6, <1>7, <1>8

\* The quota of so many dollars, and when there is one in range.
LEMMA QuotaExact ==
  ASSUME NEW dollars \in Nat \ {0}, NEW perUnit \in Decimal, perUnit.coef > 0,
         NEW display,
         Fits(Rescale(Times(perUnit, dollars), 0) + 1)
  PROVE  LET worth == IF display = "TOKENS" THEN [coef |-> dollars, exp |-> 0]
                      ELSE Times(perUnit, dollars)
             scale == IF worth.exp < 0 THEN -worth.exp ELSE 0
             quota == creditedQuota(dollars, [perUnit |-> perUnit, display |-> display])
         IN quota.ok <=> /\ display # "other"
                         /\ \E q \in 1..MaxWalletQuota :
                              /\ NearestOf(q, Ten[scale], Rescale(worth, -scale))
                              /\ quota.ok => quota.value = q
<1> DEFINE worth == IF display = "TOKENS" THEN [coef |-> dollars, exp |-> 0]
                    ELSE Times(perUnit, dollars)
           scale == IF worth.exp < 0 THEN -worth.exp ELSE 0
           quota == creditedQuota(dollars, [perUnit |-> perUnit, display |-> display])
           r == Rescale(RoundDecimal(worth), 0)
<1>1. /\ perUnit.coef \in Int /\ perUnit.exp \in Int
      /\ Times(perUnit, dollars) = [coef |-> perUnit.coef * dollars, exp |-> perUnit.exp]
  BY DEF Decimal, Times
<1>2. perUnit.coef * dollars \in Nat \ {0}
  BY <1>1
<1>3. PICK c \in Nat \ {0}, e \in Int : worth = [coef |-> c, exp |-> e]
  <2>1. CASE display = "TOKENS"
    <3>1. 0 \in Int
      OBVIOUS
    <3> QED BY <2>1, <3>1
  <2>2. CASE display # "TOKENS"
    BY <1>1, <1>2, <2>2
  <2> QED BY <2>1, <2>2
<1>4. worth.coef = c /\ worth.exp = e
  BY <1>3
<1>5. /\ r \in Nat
      /\ r \in {Rescale(worth, 0), Rescale(worth, 0) + 1}
      /\ \A q \in Int : NearestOf(q, Ten[scale], Rescale(worth, -scale)) <=> q = r
  <2> HIDE DEF worth
  <2> QED BY <1>3, <1>4, RoundIs
<1>6. CASE display = "other"
  BY <1>6 DEF creditedQuota, Refused
<1>7. CASE display # "other"
  <2>1. quota = IF r <= 0 \/ r > MaxWalletQuota THEN Refused ELSE Value(r)
    <3>1. CASE display = "TOKENS"
      <4>1. r = dollars
        <5>1. RoundDecimal(worth) = [coef |-> dollars, exp |-> 0]
          BY <3>1 DEF RoundDecimal
        <5>2. Rescale([coef |-> dollars, exp |-> 0], 0) = dollars * Ten[0 - 0]
          BY RescaleUp
        <5>3. Ten[0 - 0] = 1
          <6>1. 0 - 0 = 0
            OBVIOUS
          <6> QED BY <6>1, TenPowers
        <5> QED BY <5>1, <5>2, <5>3
      <4> HIDE DEF r
      <4> QED BY <1>7, <3>1, <4>1 DEF creditedQuota
    <3>2. CASE display # "TOKENS"
      <4>1. IntPart(RoundDecimal(Times(perUnit, dollars))) = r
        <5>1. worth = Times(perUnit, dollars)
          BY <3>2
        <5>2. Fits(Rescale(worth, 0) + 1)
          BY <5>1
        <5>3. Fits(r)
          <6> DEFINE k == Rescale(worth, 0)
                     h == Two[IntBits - 1]
          <6>1. h \in Nat \ {0}
            BY IntWidth
          <6>2. k + 1 \in -h..h - 1
            BY <5>2 DEF Fits
          <6>3. r \in Nat /\ r \in {k, k + 1}
            BY <1>5
          <6> HIDE DEF k, h, r
          <6>4. r \in -h..h - 1
            <7>1. CASE r = k + 1
              BY <6>2, <7>1
            <7>2. CASE r = k
              BY <6>1, <6>2, <6>3, <7>2
            <7> QED BY <6>3, <7>1, <7>2
          <6> QED BY <6>4 DEF Fits, h
        <5>4. IntPart(RoundDecimal(Times(perUnit, dollars))) = Wrap(r)
          BY <5>1 DEF IntPart
        <5> HIDE DEF r
        <5> QED BY <1>5, <5>3, <5>4, WrapFits
      <4> HIDE DEF r
      <4> QED BY <1>7, <3>2, <4>1 DEF creditedQuota
    <3> QED BY <3>1, <3>2
  <2>2. /\ quota.ok <=> ~ (r <= 0 \/ r > MaxWalletQuota)
        /\ quota.ok => quota.value = r
    <3> HIDE DEF quota, r
    <3> QED BY <2>1 DEF Refused, Value
  <2>3. MaxWalletQuota \in Nat
    <3>1. Two[IntBits - 1] \in Nat
      BY IntWidth
    <3> QED BY <3>1, WidthAssumption
  <2> DEFINE Near(q) == NearestOf(q, Ten[scale], Rescale(worth, -scale))
  <2>4. \A q \in Int : Near(q) <=> q = r
    BY <1>5
  <2> SUFFICES quota.ok <=> \E q \in 1..MaxWalletQuota : Near(q) /\ (quota.ok => quota.value = q)
    BY <1>7
  <2> HIDE DEF quota, r, Near
  <2>5. ~ (r <= 0 \/ r > MaxWalletQuota) <=> r \in 1..MaxWalletQuota
    BY <1>5, <2>3
  <2>6. \A q \in 1..MaxWalletQuota : q \in Int
    OBVIOUS
  <2> QED BY <2>2, <2>4, <2>5, <2>6, Zenon
<1> QED BY <1>6, <1>7

-----------------------------------------------------------------------------
(* The inductive invariant of the calls on numbers *)

FenRight ==
  call.op = "YuanToFen" =>
    /\ call.yuan \in Yuan
    /\ outcome.done => /\ outcome.ok = YuanToFen(call.yuan).ok
                       /\ outcome.value = YuanToFen(call.yuan).value

QuotaRight ==
  call.op = "creditedQuota" =>
    /\ call.dollars \in Dollars
    /\ \E u \in PerUnits, t \in DisplayTypes : call.billing = [perUnit |-> u, display |-> t]
    /\ outcome.done => /\ outcome.ok = creditedQuota(call.dollars, call.billing).ok
                       /\ outcome.value = creditedQuota(call.dollars, call.billing).value

AnswerRight ==
  call.op = "answer" =>
    /\ call.signed \in Numbers /\ call.sent \in Numbers
    /\ outcome.done =>
         /\ outcome.ok <=> str(call.sent) = Digits(call.signed)
         /\ outcome.ok => outcome.value = Float(call.sent)

NumberInv == FormsTypeOK /\ FenRight /\ QuotaRight /\ AnswerRight

\* A result a function may return.
Result(x) == /\ x.ok \in BOOLEAN /\ x.value \in Int
             /\ Fits(x.value)
             /\ ~ x.ok => x.value = 0

LEMMA SmallFits ==
  ASSUME NEW n \in Nat, n < Two[IntBits - 1]
  PROVE  n \in Int /\ Fits(n)
<1> DEFINE h == Two[IntBits - 1]
<1>1. h \in Nat \ {0}
  BY IntWidth
<1>2. n < h
  OBVIOUS
<1> HIDE DEF h
<1>3. n \in -h..h - 1
  BY <1>1, <1>2
<1> QED BY <1>3 DEF Fits, h

LEMMA RefusedResult == Result(Refused) /\ Result(Value(0))
<1>1. 0 \in Nat /\ 0 < Two[IntBits - 1]
  BY IntWidth
<1>2. 0 \in Int /\ Fits(0)
  BY <1>1, SmallFits
<1> QED BY <1>2 DEF Result, Refused, Value

LEMMA FenResult ==
  ASSUME NEW yuan \in Yuan
  PROVE  Result(YuanToFen(yuan))
<1>1. yuan.coef \in Int /\ yuan.exp \in Int
  BY InputAssumption DEF Decimal
<1>2. Times(yuan, 100) = [coef |-> yuan.coef * 100, exp |-> yuan.exp]
  <2>1. yuan \in Decimal
    BY InputAssumption
  <2> QED BY <2>1 DEF Times, Decimal
<1>3. Rescale(Times(yuan, 100), 0) \in Int
  <2>1. yuan.coef * 100 \in Int
    BY <1>1
  <2> QED BY <1>1, <1>2, <2>1, WholeIs
<1>4. Result(Value(IntPart(Times(yuan, 100))))
  BY <1>3, WrapFits DEF IntPart, Result, Value
<1> QED BY <1>4, RefusedResult DEF YuanToFen

LEMMA QuotaResult ==
  ASSUME NEW dollars \in Dollars, NEW u \in PerUnits, NEW t \in DisplayTypes
  PROVE  Result(creditedQuota(dollars, [perUnit |-> u, display |-> t]))
<1> DEFINE q == IF t = "TOKENS" THEN dollars ELSE IntPart(RoundDecimal(Times(u, dollars)))
<1>1. creditedQuota(dollars, [perUnit |-> u, display |-> t])
        = IF t = "other" \/ q <= 0 \/ q > MaxWalletQuota THEN Refused ELSE Value(q)
  BY DEF creditedQuota
<1>2. dollars \in Nat \ {0} /\ u \in Decimal /\ u.coef > 0
  BY InputAssumption
<1>3. q \in Int
  <2>1. /\ u.coef \in Int /\ u.exp \in Int
        /\ Times(u, dollars) = [coef |-> u.coef * dollars, exp |-> u.exp]
    BY <1>2 DEF Decimal, Times
  <2>2. u.coef * dollars \in Nat \ {0}
    BY <1>2, <2>1
  <2>3. Rescale(RoundDecimal(Times(u, dollars)), 0) \in Int
    BY <2>1, <2>2, RoundIs
  <2>4. IntPart(RoundDecimal(Times(u, dollars))) \in Int
    BY <2>3, WrapFits DEF IntPart
  <2> QED BY <1>2, <2>4
<1> HIDE DEF q
<1>4. ASSUME ~ (q <= 0 \/ q > MaxWalletQuota)
      PROVE  Result(Value(q))
  <2>1. Two[IntBits - 1] \in Nat /\ MaxWalletQuota \in 1..Two[IntBits - 1] - 1
    BY IntWidth, WidthAssumption
  <2>2. q \in Nat /\ q < Two[IntBits - 1]
    BY <1>3, <1>4, <2>1
  <2>3. q \in Int /\ Fits(q)
    BY <2>2, SmallFits
  <2> QED BY <2>3 DEF Result, Value
<1> QED BY <1>1, <1>4, RefusedResult

LEMMA FloatResult ==
  ASSUME NEW n \in Numbers
  PROVE  Result(Value(Float(n)))
<1> DEFINE m == Two[MantissaBits + 1]
<1>1. Two[IntBits - 1] \in Nat /\ m \in Nat /\ m < Two[IntBits - 1] /\ m % 2 = 0
  <2>1. /\ MantissaBits \in Nat /\ MantissaBits + 1 \in Nat
        /\ (MantissaBits + 1) + 1 \in Nat /\ IntBits - 1 \in Nat
        /\ (MantissaBits + 1) + 1 <= IntBits - 1
    BY WidthAssumption
  <2>2. /\ m \in Nat \ {0} /\ m = 2 * Two[MantissaBits] /\ Two[MantissaBits] \in Nat
        /\ Two[(MantissaBits + 1) + 1] = 2 * m
    BY <2>1, TwoPowers
  <2>3. Two[(MantissaBits + 1) + 1] <= Two[IntBits - 1] /\ Two[IntBits - 1] \in Nat
    BY <2>1, TwoGrows, IntWidth
  <2> HIDE DEF m
  <2>4. m < Two[IntBits - 1]
    BY <2>2, <2>3
  <2>5. m % 2 = 0
    BY <2>2
  <2> QED BY <2>2, <2>3, <2>4, <2>5
<1>2. n \in 0..m
  BY InputAssumption
<1> DEFINE l == Two[MantissaBits]
<1>3. l \in Int
  BY TwoPowers, WidthAssumption
<1> HIDE DEF l, m
<1>4. n \in Nat /\ n <= m
  BY <1>1, <1>2
<1>5. Float(n) = CASE n < l \/ n % 2 = 0 -> n
                   [] n >= l /\ n % 4 = 1 -> n - 1
                   [] OTHER -> n + 1
  BY DEF Float, l
<1>6. Float(n) \in Nat /\ Float(n) < Two[IntBits - 1]
  <2>1. CASE n < l \/ n % 2 = 0
    <3>1. ~ (n >= l /\ n % 4 = 1)
      BY <1>3, <1>4, <2>1
    <3>2. Float(n) = n
      BY <1>5, <2>1, <3>1
    <3> QED BY <1>1, <1>4, <3>2
  <2>2. CASE n >= l /\ n % 4 = 1
    <3>1. ~ (n < l \/ n % 2 = 0)
      BY <1>3, <1>4, <2>2
    <3>2. Float(n) = n - 1
      BY <1>5, <2>2, <3>1
    <3>3. n # 0
      BY <2>2
    <3> QED BY <1>1, <1>4, <3>2, <3>3
  <2>3. CASE ~ (n < l \/ n % 2 = 0) /\ ~ (n >= l /\ n % 4 = 1)
    <3>1. Float(n) = n + 1
      BY <1>5, <2>3
    <3>2. n < m
      BY <1>1, <1>4, <2>3
    <3> QED BY <1>1, <1>4, <3>1, <3>2
  <2> QED BY <2>1, <2>2, <2>3
<1>7. Float(n) \in Int /\ Fits(Float(n))
  BY <1>6, SmallFits
<1> QED BY <1>7 DEF Result, Value

LEMMA NumberInit == FormsInit => NumberInv
<1> SUFFICES ASSUME FormsInit
             PROVE  NumberInv
  OBVIOUS
<1>1. outcome = [done |-> FALSE, ok |-> FALSE, value |-> 0]
  BY DEF FormsInit, NotReturned
<1>2. FormsTypeOK
  <2>1. Result(Refused)
    BY RefusedResult
  <2> QED BY <1>1, <2>1 DEF FormsTypeOK, Result, Refused
<1>3. ~ outcome.done
  BY <1>1
<1>4. FenRight /\ QuotaRight /\ AnswerRight
  <2>1. CASE \E yuan \in Yuan : call = [op |-> "YuanToFen", yuan |-> yuan]
    BY <1>3, <2>1 DEF FenRight, QuotaRight, AnswerRight
  <2>2. CASE \E d \in Dollars, u \in PerUnits, t \in DisplayTypes :
               call = [op |-> "creditedQuota", dollars |-> d,
                       billing |-> [perUnit |-> u, display |-> t]]
    <3>1. PICK d \in Dollars, u \in PerUnits, t \in DisplayTypes :
                 call = [op |-> "creditedQuota", dollars |-> d,
                         billing |-> [perUnit |-> u, display |-> t]]
      BY <2>2
    <3> QED BY <1>3, <3>1 DEF FenRight, QuotaRight, AnswerRight
  <2>3. CASE \E form \in Signed, values \in Received, key \in Keys :
               \E sign \in {PartnerSign(form, key), NoSign} :
                 call = [op |-> "epay", form |-> form, values |-> values, sign |-> sign]
    BY <2>3 DEF FenRight, QuotaRight, AnswerRight
  <2>4. CASE \E form \in Signed, values \in Received, key \in Keys :
               \E sign \in GatewaySigns(form, key) \union {NoSign} :
                 call = [op |-> "jeepay", form |-> form, values |-> values, sign |-> sign]
    BY <2>4 DEF FenRight, QuotaRight, AnswerRight
  <2>5. CASE \E signed, sent \in Numbers :
               call = [op |-> "answer", signed |-> signed, sent |-> sent]
    BY <1>3, <2>5 DEF FenRight, QuotaRight, AnswerRight
  <2> QED BY <2>1, <2>2, <2>3, <2>4, <2>5 DEF FormsInit
<1> QED BY <1>2, <1>4 DEF NumberInv

\* A call that returns a result of its function leaves the type as it is.
LEMMA ReturnsResult ==
  ASSUME NEW x, Result(x), Returns(x)
  PROVE  FormsTypeOK' /\ outcome'.done /\ outcome'.ok = x.ok /\ outcome'.value = x.value
<1>1. outcome' = [done |-> TRUE, ok |-> x.ok, value |-> x.value]
  BY DEF Returns
<1>2. /\ outcome' \in [done : BOOLEAN, ok : BOOLEAN, value : Int]
      /\ outcome'.done /\ outcome'.ok = x.ok /\ outcome'.value = x.value
  BY <1>1 DEF Result
<1>3. Fits(outcome'.value) /\ (~ outcome'.ok => outcome'.value = 0)
  BY <1>2 DEF Result
<1> QED BY <1>2, <1>3 DEF FormsTypeOK, Fits

LEMMA NumberStep == NumberInv /\ [FormsNext]_formsVars => NumberInv'
<1> SUFFICES ASSUME NumberInv, [FormsNext]_formsVars
             PROVE  NumberInv'
  OBVIOUS
<1> USE DEF NumberInv
<1>1. CASE CallYuanToFen
  <2>1. /\ call' = call /\ call.op = "YuanToFen" /\ call.yuan \in Yuan
        /\ Returns(YuanToFen(call.yuan))
    BY <1>1 DEF CallYuanToFen, Calls, FenRight
  <2>2. /\ FormsTypeOK'
        /\ outcome'.ok = YuanToFen(call.yuan).ok
        /\ outcome'.value = YuanToFen(call.yuan).value
    BY <2>1, FenResult, ReturnsResult
  <2>3. FenRight' /\ QuotaRight' /\ AnswerRight'
    BY <2>1, <2>2 DEF FenRight, QuotaRight, AnswerRight
  <2> QED BY <2>2, <2>3
<1>2. CASE CallCreditedQuota
  <2>1. /\ call' = call /\ call.op = "creditedQuota" /\ call.dollars \in Dollars
        /\ Returns(creditedQuota(call.dollars, call.billing))
    BY <1>2 DEF CallCreditedQuota, Calls, QuotaRight
  <2>2. PICK u \in PerUnits, t \in DisplayTypes : call.billing = [perUnit |-> u, display |-> t]
    BY <2>1 DEF QuotaRight
  <2>3. Result(creditedQuota(call.dollars, call.billing))
    BY <2>1, <2>2, QuotaResult
  <2>4. /\ FormsTypeOK'
        /\ outcome'.ok = creditedQuota(call.dollars, call.billing).ok
        /\ outcome'.value = creditedQuota(call.dollars, call.billing).value
    BY <2>1, <2>3, ReturnsResult
  <2>5. FenRight' /\ QuotaRight' /\ AnswerRight'
    BY <2>1, <2>2, <2>4 DEF FenRight, QuotaRight, AnswerRight
  <2> QED BY <2>4, <2>5
<1>3. CASE CallEpayVerify
  <2>1. call' = call /\ call.op = "epay"
    BY <1>3 DEF CallEpayVerify, Calls
  <2>2. PICK x \in {Value(0), Refused} : Returns(x)
    BY <1>3 DEF CallEpayVerify
  <2>3. FormsTypeOK'
    BY <2>2, RefusedResult, ReturnsResult
  <2>4. FenRight' /\ QuotaRight' /\ AnswerRight'
    BY <2>1 DEF FenRight, QuotaRight, AnswerRight
  <2> QED BY <2>3, <2>4
<1>4. CASE VerifiedNotify
  <2>1. call' = call /\ call.op = "jeepay"
    BY <1>4 DEF VerifiedNotify, Calls
  <2>2. PICK x \in {Value(0), Refused} : Returns(x)
    BY <1>4 DEF VerifiedNotify
  <2>3. FormsTypeOK'
    BY <2>2, RefusedResult, ReturnsResult
  <2>4. FenRight' /\ QuotaRight' /\ AnswerRight'
    BY <2>1 DEF FenRight, QuotaRight, AnswerRight
  <2> QED BY <2>3, <2>4
<1>5. CASE unwrapSigned
  <2>1. call' = call /\ call.op = "answer" /\ call.sent \in Numbers /\ call.signed \in Numbers
    BY <1>5 DEF unwrapSigned, Calls, AnswerRight
  <2> DEFINE x == IF str(call.sent) = Digits(call.signed) THEN Value(Float(call.sent)) ELSE Refused
  <2>2. Returns(x)
    BY <1>5 DEF unwrapSigned
  <2>3. Result(x)
    BY <2>1, FloatResult, RefusedResult
  <2>4. /\ x.ok <=> str(call.sent) = Digits(call.signed)
        /\ x.ok => x.value = Float(call.sent)
    BY DEF Value, Refused
  <2> HIDE DEF x
  <2>5. FormsTypeOK' /\ outcome'.ok = x.ok /\ outcome'.value = x.value
    BY <2>2, <2>3, ReturnsResult
  <2>6. FenRight' /\ QuotaRight' /\ AnswerRight'
    BY <2>1, <2>4, <2>5 DEF FenRight, QuotaRight, AnswerRight
  <2> QED BY <2>5, <2>6
<1>6. CASE UNCHANGED formsVars
  <2>1. call' = call /\ outcome' = outcome
    BY <1>6 DEF formsVars
  <2>2. FormsTypeOK'
    BY <2>1 DEF FormsTypeOK, Fits
  <2>3. FenRight' /\ QuotaRight' /\ AnswerRight'
    BY <2>1 DEF FenRight, QuotaRight, AnswerRight
  <2> QED BY <2>2, <2>3
<1> QED BY <1>1, <1>2, <1>3, <1>4, <1>5, <1>6 DEF FormsNext

LEMMA FormsNumberInvariant == FormsSpec => []NumberInv
<1>1. FormsInit => NumberInv
  BY NumberInit
<1>2. NumberInv /\ [FormsNext]_formsVars => NumberInv'
  BY NumberStep
<1> QED BY <1>1, <1>2, PTL DEF FormsSpec

\* No call returns a number that is not an integer of IntBits bits, nor a number
\* with an error.
THEOREM FormsType == FormsSpec => []FormsTypeOK
<1>1. NumberInv => FormsTypeOK
  BY DEF NumberInv
<1> QED BY <1>1, FormsNumberInvariant, PTL

-----------------------------------------------------------------------------
(* The properties of the numbers *)

LEMMA FenRead ==
  ASSUME NumberInv
  PROVE  FenIsExact
<1> SUFFICES ASSUME outcome.done, call.op = "YuanToFen",
                    Fits(Rescale(Times(call.yuan, 100), 0))
             PROVE  IF outcome.ok
                    THEN /\ outcome.value > 0
                         /\ SameValue([coef |-> outcome.value, exp |-> -2], call.yuan)
                    ELSE ~ \E n \in 1..Two[IntBits - 1] - 1 :
                             SameValue([coef |-> n, exp |-> -2], call.yuan)
  BY DEF FenIsExact, Returned
<1>1. call.yuan \in Decimal
  BY InputAssumption DEF NumberInv, FenRight
<1>2. PICK c \in Int, e \in Int : call.yuan = [coef |-> c, exp |-> e]
  BY <1>1 DEF Decimal
<1>3. Times(call.yuan, 100) = [coef |-> c * 100, exp |-> e]
  BY <1>2 DEF Times
<1>4. Fits(Rescale([coef |-> c * 100, exp |-> e], 0))
  BY <1>3
<1>5. /\ outcome.ok = YuanToFen(call.yuan).ok
      /\ outcome.value = YuanToFen(call.yuan).value
  BY DEF NumberInv, FenRight
<1>6. /\ outcome.ok => /\ outcome.value > 0
                       /\ SameValue([coef |-> outcome.value, exp |-> -2], call.yuan)
      /\ ~ outcome.ok => \A n \in Nat \ {0} : ~ SameValue([coef |-> n, exp |-> -2], call.yuan)
  BY <1>2, <1>4, <1>5, FenExact
<1>7. \A n \in 1..Two[IntBits - 1] - 1 : n \in Nat \ {0}
  <2>1. Two[IntBits - 1] \in Nat
    BY IntWidth
  <2> QED BY <2>1
<1> QED BY <1>6, <1>7

\* Whatever the width of the integers, an amount becomes exactly its number of
\* fen, and is refused just when there is none (YuanToFen).
THEOREM FormsFen == FormsSpec => []FenIsExact
<1>1. NumberInv => FenIsExact
  BY FenRead
<1> QED BY <1>1, FormsNumberInvariant, PTL

LEMMA QuotaRead ==
  ASSUME NumberInv
  PROVE  QuotaIsNearest
<1> DEFINE worth == IF call.billing.display = "TOKENS" THEN [coef |-> call.dollars, exp |-> 0]
                    ELSE Times(call.billing.perUnit, call.dollars)
           scale == IF worth.exp < 0 THEN -worth.exp ELSE 0
<1> SUFFICES ASSUME outcome.done, call.op = "creditedQuota",
                    Fits(Rescale(Times(call.billing.perUnit, call.dollars), 0) + 1)
             PROVE  outcome.ok <=>
                      /\ call.billing.display # "other"
                      /\ \E q \in 1..MaxWalletQuota :
                           /\ NearestOf(q, Ten[scale], Rescale(worth, -scale))
                           /\ outcome.ok => outcome.value = q
  BY DEF QuotaIsNearest, Returned, NearestOf
<1>1. PICK u \in PerUnits, t \in DisplayTypes : call.billing = [perUnit |-> u, display |-> t]
  BY DEF NumberInv, QuotaRight
<1>2. call.billing.perUnit = u /\ call.billing.display = t
  BY <1>1
<1>3. call.dollars \in Nat \ {0} /\ u \in Decimal /\ u.coef > 0
  <2>1. call.dollars \in Dollars
    BY DEF NumberInv, QuotaRight
  <2> QED BY <2>1, InputAssumption
<1>4. /\ outcome.ok = creditedQuota(call.dollars, [perUnit |-> u, display |-> t]).ok
      /\ outcome.value = creditedQuota(call.dollars, [perUnit |-> u, display |-> t]).value
  BY <1>1 DEF NumberInv, QuotaRight
<1>5. Fits(Rescale(Times(u, call.dollars), 0) + 1)
  BY <1>2
<1> QED BY <1>2, <1>3, <1>4, <1>5, QuotaExact

\* Whatever the widths, the quota taken back is the one nearest to what the
\* dollars were worth, and refused just when there is none in range
\* (creditedQuota).
THEOREM FormsQuota == FormsSpec => []QuotaIsNearest
<1>1. NumberInv => QuotaIsNearest
  BY QuotaRead
<1> QED BY <1>1, FormsNumberInvariant, PTL

LEMMA AnswerRead ==
  ASSUME NumberInv
  PROVE  AnswerIsExact
<1> SUFFICES ASSUME outcome.done, call.op = "answer"
             PROVE  /\ outcome.ok => outcome.value = call.signed
                    /\ call.signed = call.sent /\ call.sent < Two[MantissaBits] => outcome.ok
  BY DEF AnswerIsExact, Returned
<1>1. /\ outcome.ok <=> Digits(Float(call.sent)) = Digits(call.signed)
      /\ outcome.ok => outcome.value = Float(call.sent)
  BY DEF NumberInv, AnswerRight, str
<1>2. ASSUME outcome.ok
      PROVE  outcome.value = call.signed
  BY <1>1, <1>2 DEF Digits
<1>3. ASSUME call.signed = call.sent, call.sent < Two[MantissaBits]
      PROVE  outcome.ok
  <2>1. call.sent \in Nat
    <3>1. call.sent \in Numbers
      BY DEF NumberInv, AnswerRight
    <3>2. \A n \in Numbers : n \in Nat
      BY InputAssumption
    <3> QED BY <3>1, <3>2, Zenon
  <2>2. Two[MantissaBits] \in Int
    BY WidthAssumption, TwoPowers
  <2>3. \A n \in Nat, limit \in Int : n < limit => ~ (n >= limit)
    OBVIOUS
  <2>4. Float(call.sent) = call.sent
    BY <1>3, <2>1, <2>2, <2>3 DEF Float
  <2> QED BY <1>1, <1>3, <2>4
<1> QED BY <1>2, <1>3

\* A number in an answer of the gateway is read as it was signed or refused, and
\* not refused when a float64 holds it (verifyDataSign, str, asInt64).
THEOREM FormsAnswer == FormsSpec => []AnswerIsExact
<1>1. NumberInv => AnswerIsExact
  BY AnswerRead
<1> QED BY <1>1, FormsNumberInvariant, PTL
=============================================================================
