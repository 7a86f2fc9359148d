---------------------------- MODULE NamingProofs -----------------------------
(***************************************************************************)
(* Theorems about the names of the objects of CHIs, for CHIs and layouts   *)
(* that are well named: every host keeps its objects, Services lead to     *)
(* their hosts and to no others, a pass removes nothing of another CHI,    *)
(* and a host that the user has named keeps its StatefulSet.               *)
(*                                                                         *)
(* Names that are joined by dashes come apart in one way, so objects of    *)
(* one kind and name are one object.  Between passes every CHI has the     *)
(* objects of its last pass, and there are no others.                      *)
(***************************************************************************)
EXTENDS ObjectsProofs

-----------------------------------------------------------------------------
(* Sequences put together                                                  *)

\* One sequence after another, without the definition.
After(f, g) == f \o g

Follows(h, f, g) ==
  /\ Len(h) = Len(f) + Len(g)
  /\ \A i \in 1 .. Len(f) : h[i] = f[i]
  /\ \A i \in 1 .. Len(g) : h[Len(f) + i] = g[i]

\* The elements of two sequences put together are those of the first, then
\* those of the second.
LEMMA AfterIs ==
  ASSUME NEW M, NEW f \in Seq(M), NEW g \in Seq(M)
  PROVE  After(f, g) \in Seq(M) /\ Follows(After(f, g), f, g)
BY DEF After, Follows

\* The elements of one sequence after another are those of both.
LEMMA AfterRange ==
  ASSUME NEW M, NEW f \in Seq(M), NEW g \in Seq(M), NEW x
  PROVE  x \in Named!Range(After(f, g)) <=> x \in Named!Range(f) \/ x \in Named!Range(g)
<1> DEFINE h == After(f, g)
<1>1. h \in Seq(M) /\ Follows(h, f, g)
  BY AfterIs
<1> HIDE DEF h
<1>2. Len(f) \in Nat /\ Len(g) \in Nat /\ DOMAIN f = 1 .. Len(f) /\ DOMAIN g = 1 .. Len(g)
  OBVIOUS
<1>3. ASSUME NEW i \in 1 .. Len(f) + Len(g) PROVE h[i] \in Named!Range(f) \/ h[i] \in Named!Range(g)
  <2>1. CASE i \in 1 .. Len(f)
    BY <1>1, <1>2, <2>1 DEF Named!Range, Follows
  <2>2. CASE i \notin 1 .. Len(f)
    <3>1. i - Len(f) \in 1 .. Len(g) /\ Len(f) + (i - Len(f)) = i
      BY <1>2, <2>2
    <3> QED
      BY <1>1, <1>2, <3>1 DEF Named!Range, Follows
  <2> QED
    BY <2>1, <2>2
<1>4. ASSUME NEW i \in 1 .. Len(f) PROVE f[i] \in Named!Range(h)
  BY <1>1, <1>2 DEF Named!Range, Follows
<1>5. ASSUME NEW i \in 1 .. Len(g) PROVE g[i] \in Named!Range(h)
  <2>1. Len(f) + i \in 1 .. Len(f) + Len(g)
    BY <1>2
  <2> QED
    BY <1>1, <2>1 DEF Named!Range, Follows
<1>6. DOMAIN h = 1 .. Len(f) + Len(g)
  BY <1>1 DEF Follows
<1>7. x \in Named!Range(h) <=> x \in Named!Range(f) \/ x \in Named!Range(g)
  BY <1>2, <1>3, <1>4, <1>5, <1>6 DEF Named!Range
<1> QED
  BY <1>7 DEF h

\* What the recursion of FlattenSeq defines: the beginnings of a sequence of
\* sequences, put together.
Beginnings(s, f, n) == f = [i \in 1 .. n |-> IF i = 1 THEN s[i] ELSE f[i - 1] \o s[i]]
Begins(s, f, n) == f[1] = s[1] /\ \A i \in 2 .. n : f[i] = After(f[i - 1], s[i])

\* One more value of a function on the first numbers.
Longer(f, m, e) == [i \in 1 .. m + 1 |-> IF i = m + 1 THEN e ELSE f[i]]

\* There are such beginnings.
LEMMA BeginningsBe ==
  ASSUME NEW M, NEW n \in Nat \ {0}, NEW s \in [1 .. n -> Seq(M)]
  PROVE  \E f \in [1 .. n -> Seq(M)] : Begins(s, f, n)
<1> DEFINE without == {m \in 1 .. n : ~ \E f \in [1 .. m -> Seq(M)] : Begins(s, f, m)}
<1>1. SUFFICES ASSUME without # {} PROVE FALSE
  OBVIOUS
<1>2. without \in SUBSET Nat
  OBVIOUS
<1>3. PICK m \in without : \A j \in without : m <= j
  <2> HIDE DEF without
  <2> QED BY <1>1, <1>2, FirstOf
<1>4. m \in 1 .. n /\ ~ \E f \in [1 .. m -> Seq(M)] : Begins(s, f, m)
  OBVIOUS
<1>5. m # 1
  <2>1. [i \in 1 .. 1 |-> s[1]] \in [1 .. 1 -> Seq(M)] /\ Begins(s, [i \in 1 .. 1 |-> s[1]], 1)
    BY DEF Begins
  <2> QED
    BY <1>4, <2>1
<1>6. PICK p \in 1 .. n : m = p + 1
  <2>1. m - 1 \in 1 .. n /\ m = (m - 1) + 1
    BY <1>4, <1>5
  <2> QED
    BY <2>1
<1>7. PICK f \in [1 .. p -> Seq(M)] : Begins(s, f, p)
  <2>1. ~(m <= p)
    BY <1>6
  <2>2. p \notin without
    <3> HIDE DEF without
    <3> QED BY <1>3, <2>1
  <2> QED
    BY <2>2
<1>8. f[p] \in Seq(M) /\ s[p + 1] \in Seq(M)
  BY <1>4, <1>6
<1>9. After(f[p], s[p + 1]) \in Seq(M)
  BY <1>8, AfterIs
<1>10. PICK g \in [1 .. p + 1 -> Seq(M)] : g[p + 1] = After(f[p], s[p + 1]) /\ \A i \in 1 .. p : g[i] = f[i]
  <2> DEFINE T == Seq(M)
             e == After(f[p], s[p + 1])
  <2>1. p \in Nat /\ f \in [1 .. p -> T] /\ e \in T
    BY <1>9
  <2> HIDE DEF T, e
  <2>2. /\ Longer(f, p, e) \in [1 .. p + 1 -> T]
        /\ Longer(f, p, e)[p + 1] = e /\ \A i \in 1 .. p : Longer(f, p, e)[i] = f[i]
    <3>1. \A i \in 1 .. p + 1 : i = p + 1 \/ i \in 1 .. p
      BY <2>1
    <3> QED
      BY <2>1, <3>1 DEF Longer
  <2> QED
    BY <2>2 DEF T, e
<1>11. Begins(s, g, p + 1)
  <2>1. g[1] = s[1]
    BY <1>7, <1>10 DEF Begins
  <2>2. ASSUME NEW i \in 2 .. p + 1 PROVE g[i] = After(g[i - 1], s[i])
    <3>1. CASE i = p + 1
      BY <1>10, <3>1
    <3>2. CASE i \in 2 .. p
      <4>1. i - 1 \in 1 .. p /\ i \in 1 .. p
        BY <3>2
      <4> QED
        BY <1>7, <1>10, <3>2, <4>1 DEF Begins
    <3> QED
      BY <3>1, <3>2
  <2> QED
    BY <2>1, <2>2 DEF Begins
<1> QED
  BY <1>4, <1>6, <1>11

\* They are sequences of the same elements.
LEMMA BeginningsAre ==
  ASSUME NEW M, NEW n \in Nat \ {0}, NEW s \in [1 .. n -> Seq(M)], NEW f, Beginnings(s, f, n)
  PROVE  f \in [1 .. n -> Seq(M)] /\ Begins(s, f, n)
<1> DEFINE E(i) == IF i = 1 THEN s[i] ELSE After(f[i - 1], s[i])
<1>1. f = [i \in 1 .. n |-> E(i)]
  BY DEF Beginnings, After
<1>2. \A i \in 1 .. n : f[i] = E(i)
  <2> HIDE DEF E
  <2> QED BY <1>1
<1>3. f[1] = s[1]
  BY <1>2
<1>4. ASSUME NEW i \in 2 .. n PROVE f[i] = After(f[i - 1], s[i])
  <2>1. i \in 1 .. n /\ i # 1
    OBVIOUS
  <2>2. f[i] = E(i)
    BY <1>2, <2>1
  <2> QED
    BY <2>1, <2>2
<1> DEFINE not == {i \in 1 .. n : f[i] \notin Seq(M)}
<1>5. not = {}
  <2>1. SUFFICES ASSUME not # {} PROVE FALSE
    OBVIOUS
  <2>2. not \in SUBSET Nat
    OBVIOUS
  <2>3. PICK i \in not : \A j \in not : i <= j
    <3> HIDE DEF not
    <3> QED BY <2>1, <2>2, FirstOf
  <2>4. i # 1
    BY <1>3
  <2>5. i \in 2 .. n /\ i - 1 \in 1 .. n
    BY <2>4
  <2>6. i - 1 \notin not
    <3>1. ~(i <= i - 1)
      BY <2>5
    <3> HIDE DEF not
    <3> QED BY <2>3, <3>1
  <2>7. f[i - 1] \in Seq(M) /\ s[i] \in Seq(M)
    BY <2>5, <2>6
  <2>8. After(f[i - 1], s[i]) \in Seq(M)
    BY <2>7, AfterIs
  <2> QED
    BY <1>4, <2>5, <2>8
<1>6. f \in [1 .. n -> Seq(M)]
  <2>1. \A i \in 1 .. n : E(i) \in Seq(M)
    BY <1>2, <1>5
  <2> HIDE DEF E
  <2> QED BY <1>1, <2>1
<1> QED
  BY <1>3, <1>4, <1>6 DEF Begins

\* A sequence of sequences is put together from its beginnings.
LEMMA FlattenIs ==
  ASSUME NEW M, NEW n \in Nat \ {0}, NEW s \in [1 .. n -> Seq(M)]
  PROVE  \E f \in [1 .. n -> Seq(M)] : Begins(s, f, n) /\ Named!FlattenSeq(s) = f[n]
<1> DEFINE flat == CHOOSE f : Beginnings(s, f, n)
<1>1. Beginnings(s, flat, n)
  <2>1. PICK f \in [1 .. n -> Seq(M)] : Begins(s, f, n)
    BY BeginningsBe
  <2> DEFINE E(i) == IF i = 1 THEN s[i] ELSE After(f[i - 1], s[i])
  <2>2. ASSUME NEW i \in 1 .. n PROVE f[i] = E(i)
    <3>1. i = 1 \/ i \in 2 .. n
      OBVIOUS
    <3> QED
      BY <2>1, <3>1 DEF Begins
  <2> HIDE DEF E
  <2>3. f = [i \in 1 .. n |-> E(i)]
    BY <2>2
  <2>4. Beginnings(s, f, n)
    BY <2>3 DEF Beginnings, E, After
  <2> QED
    BY <2>4
<1>2. Len(s) = n
  OBVIOUS
<1>3. Named!FlattenSeq(s) = flat[n]
  BY <1>2 DEF Named!FlattenSeq, Beginnings
<1> HIDE DEF flat
<1>4. flat \in [1 .. n -> Seq(M)] /\ Begins(s, flat, n)
  BY <1>1, BeginningsAre
<1> QED
  BY <1>3, <1>4

\* The elements of a sequence of sequences are those of its sequences.
LEMMA FlattenRange ==
  ASSUME NEW M, NEW n \in Nat, NEW s \in [1 .. n -> Seq(M)]
  PROVE  /\ Named!FlattenSeq(s) \in Seq(M)
         /\ \A x : x \in Named!Range(Named!FlattenSeq(s)) <=> \E i \in 1 .. n : x \in Named!Range(s[i])
<1>1. CASE n = 0
  <2>1. Len(s) = 0 /\ s = << >>
    BY <1>1
  <2>2. Named!FlattenSeq(s) = << >>
    BY <2>1 DEF Named!FlattenSeq
  <2> QED
    BY <1>1, <2>2 DEF Named!Range
<1>2. CASE n # 0
  <2>1. PICK f \in [1 .. n -> Seq(M)] : Begins(s, f, n) /\ Named!FlattenSeq(s) = f[n]
    BY <1>2, FlattenIs
  <2> SUFFICES ASSUME NEW x
               PROVE  x \in Named!Range(f[n]) <=> \E i \in 1 .. n : x \in Named!Range(s[i])
    BY <1>2, <2>1
  <2> DEFINE In(m) == \E i \in 1 .. m : x \in Named!Range(s[i])
             not == {m \in 1 .. n : ~(x \in Named!Range(f[m]) <=> In(m))}
  <2>2. SUFFICES ASSUME not # {} PROVE FALSE
    <3>1. n \in 1 .. n /\ not = {}
      BY <1>2, <2>2
    <3>2. x \in Named!Range(f[n]) <=> In(n)
      <4> HIDE DEF In
      <4> QED BY <3>1
    <3> QED
      BY <3>2
  <2>3. not \in SUBSET Nat
    <3> HIDE DEF In
    <3> QED OBVIOUS
  <2>4. PICK m \in not : \A j \in not : m <= j
    <3> HIDE DEF not
    <3> QED BY <2>2, <2>3, FirstOf
  <2>5. m \in 1 .. n /\ ~(x \in Named!Range(f[m]) <=> In(m))
    <3> HIDE DEF In
    <3> QED OBVIOUS
  <2>6. CASE m = 1
    BY <2>1, <2>5, <2>6 DEF Begins
  <2>7. CASE m # 1
    <3>1. m \in 2 .. n /\ m - 1 \in 1 .. n /\ ~(m <= m - 1)
      BY <2>5, <2>7
    <3>2. x \in Named!Range(f[m - 1]) <=> In(m - 1)
      <4>1. m - 1 \notin not
        <5> HIDE DEF not
        <5> QED BY <2>4, <3>1
      <4> HIDE DEF In
      <4> QED BY <3>1, <4>1
    <3>3. f[m] = After(f[m - 1], s[m]) /\ f[m - 1] \in Seq(M) /\ s[m] \in Seq(M)
      BY <2>1, <3>1 DEF Begins
    <3>4. x \in Named!Range(f[m]) <=> x \in Named!Range(f[m - 1]) \/ x \in Named!Range(s[m])
      BY <3>3, AfterRange
    <3>5. In(m) <=> In(m - 1) \/ x \in Named!Range(s[m])
      <4>1. \A i : i \in 1 .. m <=> i \in 1 .. m - 1 \/ i = m
        BY <3>1
      <4> QED
        BY <4>1
    <3> QED
      BY <2>5, <3>2, <3>4, <3>5
  <2> QED
    BY <2>6, <2>7
<1> QED
  BY <1>1, <1>2

-----------------------------------------------------------------------------
(* Patterns and what replaces their words                                  *)

\* One after another, in either order.
LEMMA AfterAssociates ==
  ASSUME NEW M, NEW f \in Seq(M), NEW g \in Seq(M), NEW h \in Seq(M)
  PROVE  After(After(f, g), h) = After(f, After(g, h))
<1> DEFINE a == After(After(f, g), h)
           b == After(f, After(g, h))
<1>1. After(f, g) \in Seq(M) /\ After(g, h) \in Seq(M)
  BY AfterIs
<1>2. a \in Seq(M) /\ b \in Seq(M)
  BY <1>1, AfterIs
<1>3. Len(f) \in Nat /\ Len(g) \in Nat /\ Len(h) \in Nat
  OBVIOUS
<1>4. Len(a) = Len(f) + Len(g) + Len(h) /\ Len(b) = Len(f) + Len(g) + Len(h)
  BY <1>1, <1>3 DEF After
<1>5. ASSUME NEW i \in 1 .. Len(f) PROVE a[i] = b[i]
  BY <1>1, <1>3 DEF After
<1>6. ASSUME NEW i \in 1 .. Len(g) PROVE a[Len(f) + i] = b[Len(f) + i]
  BY <1>1, <1>3 DEF After
<1>7. ASSUME NEW i \in 1 .. Len(h) PROVE a[Len(f) + Len(g) + i] = b[Len(f) + Len(g) + i]
  BY <1>1, <1>3 DEF After
<1> HIDE DEF a, b
<1>8. ASSUME NEW i \in 1 .. Len(a) PROVE a[i] = b[i]
  <2>1. CASE i \in 1 .. Len(f)
    BY <1>5, <2>1
  <2>2. CASE i - Len(f) \in 1 .. Len(g)
    BY <1>3, <1>6, <2>2
  <2>3. CASE i - Len(f) - Len(g) \in 1 .. Len(h)
    <3> DEFINE d == i - Len(f) - Len(g)
    <3>1. d \in 1 .. Len(h) /\ Len(f) + Len(g) + d = i
      BY <1>3, <1>4, <2>3
    <3>2. a[Len(f) + Len(g) + d] = b[Len(f) + Len(g) + d]
      BY <1>7, <3>1
    <3> QED
      BY <3>1, <3>2
  <2> QED
    BY <1>3, <1>4, <2>1, <2>2, <2>3
<1>9. a = b
  BY <1>2, <1>4, <1>8
<1> QED
  BY <1>9 DEF a, b

\* Of the same sequences there is one way to put them together.
LEMMA FlattenOne ==
  ASSUME NEW M, NEW n \in Nat \ {0}, n = 1, NEW s \in [1 .. n -> Seq(M)]
  PROVE  Named!FlattenSeq(s) = s[1]
<1>1. PICK f \in [1 .. n -> Seq(M)] : Begins(s, f, n) /\ Named!FlattenSeq(s) = f[n]
  BY FlattenIs
<1> QED
  BY <1>1 DEF Begins

\* The first sequence and the rest.
Rest(s, n) == [i \in 1 .. n |-> s[i + 1]]

\* Flattening many is the first, and after it the rest flattened.
LEMMA FlattenFirst ==
  ASSUME NEW M, NEW n \in Nat \ {0}, NEW s \in [1 .. n + 1 -> Seq(M)]
  PROVE  Named!FlattenSeq(s) = After(s[1], Named!FlattenSeq(Rest(s, n)))
<1>1. PICK f \in [1 .. n + 1 -> Seq(M)] : Begins(s, f, n + 1) /\ Named!FlattenSeq(s) = f[n + 1]
  BY FlattenIs
<1> DEFINE r == Rest(s, n)
<1>2. r \in [1 .. n -> Seq(M)] /\ \A i \in 1 .. n : r[i] = s[i + 1]
  <2>1. ASSUME NEW i \in 1 .. n PROVE s[i + 1] \in Seq(M)
    <3>1. i + 1 \in 1 .. n + 1
      BY SMT
    <3> QED
      BY <3>1, Zenon
  <2> QED
    BY <2>1, Zenon DEF Rest
<1> HIDE DEF r
<1>3. PICK g \in [1 .. n -> Seq(M)] : Begins(r, g, n) /\ Named!FlattenSeq(r) = g[n]
  BY <1>2, FlattenIs
<1> DEFINE not == {i \in 1 .. n : f[i + 1] # After(s[1], g[i])}
<1>4. not = {}
  <2>1. SUFFICES ASSUME not # {} PROVE FALSE
    OBVIOUS
  <2>2. not \in SUBSET Nat
    OBVIOUS
  <2>3. PICK i \in not : \A j \in not : i <= j
    <3> HIDE DEF not
    <3> QED BY <2>1, <2>2, FirstOf
  <2>4. i \in 1 .. n /\ f[i + 1] # After(s[1], g[i])
    OBVIOUS
  <2>5. CASE i = 1
    <3>1. f[2] = After(f[1], s[2]) /\ f[1] = s[1] /\ g[1] = r[1] /\ r[1] = s[2]
      BY <1>1, <1>2, <1>3, <2>4 DEF Begins
    <3> QED
      BY <2>4, <2>5, <3>1
  <2>6. CASE i # 1
    <3>1. i \in 2 .. n /\ i - 1 \in 1 .. n /\ ~(i <= i - 1) /\ i + 1 \in 2 .. n + 1 /\ (i + 1) - 1 = i /\ (i - 1) + 1 = i
      BY <2>4, <2>6
    <3>2. f[i] = After(s[1], g[i - 1])
      <4>1. i - 1 \notin not
        <5> HIDE DEF not
        <5> QED BY <2>3, <3>1
      <4> QED
        BY <3>1, <4>1
    <3>3. f[i + 1] = After(f[i], r[i])
      BY <1>1, <1>2, <3>1 DEF Begins
    <3>4. g[i] = After(g[i - 1], r[i])
      BY <1>3, <3>1 DEF Begins
    <3>5. s[1] \in Seq(M) /\ g[i - 1] \in Seq(M) /\ r[i] \in Seq(M)
      BY <1>2, <3>1
    <3>6. After(After(s[1], g[i - 1]), r[i]) = After(s[1], After(g[i - 1], r[i]))
      <4> DEFINE x == s[1]
                 y == g[i - 1]
                 z == r[i]
      <4>1. x \in Seq(M) /\ y \in Seq(M) /\ z \in Seq(M)
        BY <3>5
      <4> HIDE DEF x, y, z
      <4>2. After(After(x, y), z) = After(x, After(y, z))
        BY <4>1, AfterAssociates
      <4> QED
        BY <4>2 DEF x, y, z
    <3> QED
      BY <2>4, <3>2, <3>3, <3>4, <3>6
  <2> QED
    BY <2>5, <2>6
<1>5. f[n + 1] = After(s[1], g[n])
  <2>1. n \in 1 .. n
    OBVIOUS
  <2>2. n \notin not
    <3> HIDE DEF not
    <3> QED BY <1>4
  <2> QED
    BY <2>1, <2>2
<1> QED
  BY <1>1, <1>3, <1>5 DEF r

\* A word of a pattern, replaced, and what becomes of a pattern from one of its
\* words on.
Replaced(w, macros) == IF w \in DOMAIN macros THEN macros[w] ELSE <<w>>
From(p, macros, k, n) == Named!FlattenSeq([i \in 1 .. n - k + 1 |-> Replaced(p[k + i - 1], macros)])

Replaceable(M, p, macros, n) == \A i \in 1 .. n : Replaced(p[i], macros) \in Seq(M)

\* A pattern with its macros replaced, as words from the first on.
LEMMA ReplaceAll ==
  ASSUME NEW macros, NEW n \in Nat, NEW p, DOMAIN p = 1 .. n
  PROVE  Named!Replace(p, macros) = From(p, macros, 1, n)
<1>1. [i \in 1 .. n - 1 + 1 |-> Replaced(p[1 + i - 1], macros)] = [i \in 1 .. n |-> Replaced(p[i], macros)]
  OBVIOUS
<1> QED
  BY <1>1 DEF Named!Replace, From, Replaced

\* From the last word on, a pattern is that word.
LEMMA ReplaceLast ==
  ASSUME NEW M, NEW macros, NEW n \in Nat \ {0}, NEW p, Replaceable(M, p, macros, n)
  PROVE  From(p, macros, n, n) = Replaced(p[n], macros)
<1> DEFINE s == [i \in 1 .. n - n + 1 |-> Replaced(p[n + i - 1], macros)]
<1>1. s \in [1 .. 1 -> Seq(M)] /\ s[1] = Replaced(p[n], macros)
  BY DEF Replaceable
<1> HIDE DEF s
<1>2. \A m \in Nat \ {0} : m = 1 => (s \in [1 .. m -> Seq(M)] => Named!FlattenSeq(s) = s[1])
  BY FlattenOne
<1> QED
  BY <1>1, <1>2 DEF From, s

\* From a word on, a pattern is that word, and after it the words from the
\* next on.
LEMMA ReplaceNext ==
  ASSUME NEW M, NEW macros, NEW n \in Nat, NEW k \in 1 .. n - 1, NEW p, Replaceable(M, p, macros, n)
  PROVE  From(p, macros, k, n) = After(Replaced(p[k], macros), From(p, macros, k + 1, n))
<1> DEFINE m == n - k
           s == [i \in 1 .. m + 1 |-> Replaced(p[k + i - 1], macros)]
<1>1. m \in Nat \ {0} /\ s[1] = Replaced(p[k], macros)
  OBVIOUS
<1>2. s \in [1 .. m + 1 -> Seq(M)]
  <2>1. \A i \in 1 .. m + 1 : k + i - 1 \in 1 .. n
    OBVIOUS
  <2> QED
    BY <2>1 DEF Replaceable
<1>3. From(p, macros, k, n) = Named!FlattenSeq(s)
  BY DEF From
<1>4. From(p, macros, k + 1, n) = Named!FlattenSeq(Rest(s, m))
  <2> DEFINE t == [i \in 1 .. n - (k + 1) + 1 |-> Replaced(p[(k + 1) + i - 1], macros)]
  <2>1. n - (k + 1) + 1 = m /\ \A i \in 1 .. m : (k + 1) + i - 1 = k + (i + 1) - 1 /\ i + 1 \in 1 .. m + 1
    OBVIOUS
  <2>2. \A i \in 1 .. m : Replaced(p[(k + 1) + i - 1], macros) = s[i + 1]
    BY <2>1
  <2>3. t = Rest(s, m)
    BY <2>1, <2>2 DEF Rest
  <2> QED
    BY <2>3 DEF From
<1> HIDE DEF s, m
<1>5. Named!FlattenSeq(s) = After(s[1], Named!FlattenSeq(Rest(s, m)))
  BY <1>1, <1>2, FlattenFirst
<1> QED
  BY <1>1, <1>3, <1>4, <1>5

\* Two parts of a name, with a dash between them.
Dashed(a, b) == After(a, After(<<"-">>, b))

\* A word and a dash before the rest of a pattern.
LEMMA ReplaceDashed ==
  ASSUME NEW M, NEW macros, NEW n \in Nat, NEW k \in 1 .. n - 2, NEW p, Replaceable(M, p, macros, n),
         p[k + 1] = "-", "-" \notin DOMAIN macros
  PROVE  From(p, macros, k, n) = Dashed(Replaced(p[k], macros), From(p, macros, k + 2, n))
<1> DEFINE j == k + 1
<1>1. k \in 1 .. n - 1 /\ j \in 1 .. n - 1 /\ j + 1 = k + 2
  OBVIOUS
<1>2. From(p, macros, k, n) = After(Replaced(p[k], macros), From(p, macros, k + 1, n))
  BY <1>1, ReplaceNext
<1>3. Replaced(p[j], macros) = <<"-">>
  BY DEF Replaced
<1> HIDE DEF j
<1>4. From(p, macros, j, n) = After(Replaced(p[j], macros), From(p, macros, j + 1, n))
  BY <1>1, ReplaceNext
<1> QED
  BY <1>1, <1>2, <1>3, <1>4 DEF Dashed, j

-----------------------------------------------------------------------------
(* Parts of names between dashes                                           *)

\* The tokens of names, and those that join no names.
Tokens == Named!Letters \cup
  {"-", "chi", "clickhouse", "cluster", "shard", "deploy", "confd", "common", "configd", "usersd"}
Plain == Tokens \ {"-"}

\* Names with a dash between them are a name.
LEMMA DashedIs ==
  ASSUME NEW a \in Seq(Tokens), NEW b \in Seq(Tokens)
  PROVE  Dashed(a, b) \in Seq(Tokens)
<1>1. <<"-">> \in Seq(Tokens)
  BY DEF Tokens
<1>2. After(<<"-">>, b) \in Seq(Tokens)
  BY <1>1, AfterIs
<1> QED
  BY <1>2, AfterIs DEF Dashed

\* The first dash tells where one ends.
LEMMA DashedApart ==
  ASSUME NEW a \in Seq(Plain), NEW b \in Seq(Plain), NEW x \in Seq(Tokens), NEW y \in Seq(Tokens),
         Dashed(a, x) = Dashed(b, y)
  PROVE  a = b /\ x = y
<1> DEFINE u == After(<<"-">>, x)
           v == After(<<"-">>, y)
           r == After(a, u)
           s == After(b, v)
<1> DEFINE dash == <<"-">>
<1>0. dash \in Seq(Tokens) /\ Len(dash) = 1 /\ dash[1] = "-" /\ 1 \in 1 .. Len(dash)
  BY DEF Tokens
<1> HIDE DEF dash
<1>1. u \in Seq(Tokens) /\ Follows(u, dash, x)
  BY <1>0, AfterIs DEF dash
<1>2. v \in Seq(Tokens) /\ Follows(v, dash, y)
  BY <1>0, AfterIs DEF dash
<1>14. Len(u) = 1 + Len(x) /\ u[1] = "-" /\ \A i \in 1 .. Len(x) : u[1 + i] = x[i]
  BY <1>0, <1>1 DEF Follows
<1>15. Len(v) = 1 + Len(y) /\ v[1] = "-" /\ \A i \in 1 .. Len(y) : v[1 + i] = y[i]
  BY <1>0, <1>2 DEF Follows
<1> HIDE DEF u, v
<1>3. a \in Seq(Tokens) /\ b \in Seq(Tokens)
  BY DEF Plain
<1>4. Follows(r, a, u)
  BY <1>1, <1>3, AfterIs
<1>5. Follows(s, b, v)
  BY <1>2, <1>3, AfterIs
<1>6. r = s
  BY DEF Dashed, u, v, dash
<1> HIDE DEF r, s
<1>7. /\ Len(a) \in Nat /\ Len(b) \in Nat /\ Len(x) \in Nat /\ Len(y) \in Nat
      /\ (\A i \in 1 .. Len(a) : a[i] # "-") /\ (\A i \in 1 .. Len(b) : b[i] # "-")
  BY DEF Plain
<1>8. ~(Len(a) < Len(b))
  <2>1. SUFFICES ASSUME Len(a) < Len(b) PROVE FALSE
    OBVIOUS
  <2>2. Len(a) + 1 \in 1 .. Len(b) /\ 1 \in 1 .. Len(u)
    BY <1>14, <1>7, <2>1
  <2> QED
    BY <1>14, <1>4, <1>5, <1>6, <1>7, <2>2 DEF Follows
<1>9. ~(Len(b) < Len(a))
  <2>1. SUFFICES ASSUME Len(b) < Len(a) PROVE FALSE
    OBVIOUS
  <2>2. Len(b) + 1 \in 1 .. Len(a) /\ 1 \in 1 .. Len(v)
    BY <1>15, <1>7, <2>1
  <2> QED
    BY <1>15, <1>4, <1>5, <1>6, <1>7, <2>2 DEF Follows
<1>10. Len(a) = Len(b)
  BY <1>7, <1>8, <1>9
<1>11. a = b
  <2>1. \A i \in 1 .. Len(a) : a[i] = b[i]
    BY <1>4, <1>5, <1>6, <1>10 DEF Follows
  <2> QED
    BY <1>10, <2>1
<1>12. Len(x) = Len(y)
  BY <1>14, <1>15, <1>4, <1>5, <1>6, <1>7, <1>10 DEF Follows
<1>13. x = y
  <2>1. ASSUME NEW i \in 1 .. Len(x) PROVE x[i] = y[i]
    <3>1. 1 + i \in 1 .. Len(u) /\ 1 + i \in 1 .. Len(v)
      BY <1>14, <1>15, <1>7, <1>12
    <3>2. r[Len(a) + (1 + i)] = u[1 + i] /\ s[Len(b) + (1 + i)] = v[1 + i]
      BY <1>4, <1>5, <3>1 DEF Follows
    <3> QED
      BY <1>14, <1>15, <1>6, <1>10, <1>12, <3>2
  <2> QED
    BY <1>12, <2>1
<1> QED
  BY <1>11, <1>13

\* A part of a name that is not too long and neither begins nor ends with a
\* dash stays whole.
LEMMA NamePartWhole ==
  ASSUME NEW M, NEW n \in Seq(M), NEW len \in Nat, Len(n) \in 1 .. len,
         n[1] # "-", n[Len(n)] # "-"
  PROVE  Named!NamePart(n, len) = n
<1>1. Len(n) \in Nat /\ DOMAIN n = 1 .. Len(n)
  OBVIOUS
<1>2. SubSeq(n, 1, IF Len(n) < len THEN Len(n) ELSE len) = n
  <2>1. (IF Len(n) < len THEN Len(n) ELSE len) = Len(n)
    <3>1. Len(n) \in Int /\ len \in Int /\ Len(n) <= len
      OBVIOUS
    <3> QED
      BY <3>1
  <2>2. SubSeq(n, 1, Len(n)) = n
    OBVIOUS
  <2> QED
    BY <2>1, <2>2, Zenon
<1> DEFINE letters == {i \in DOMAIN n : n[i] # "-"}
<1>3. /\ 1 \in letters /\ Len(n) \in letters
      /\ \A i \in letters : i \in Nat /\ 1 <= i /\ i <= Len(n)
  BY <1>1
<1> HIDE DEF letters
<1>4. Named!Min(letters) = 1
  <2>1. \A i \in letters : (\A j \in letters : i <= j) => i = 1
    BY <1>3
  <2> QED
    BY <1>3, <2>1 DEF Named!Min
<1>5. Named!Max(letters) = Len(n)
  <2>1. \A i \in letters : (\A j \in letters : i >= j) => i = Len(n)
    BY <1>1, <1>3
  <2>2. \A j \in letters : Len(n) >= j
    BY <1>1, <1>3
  <2> QED
    BY <1>3, <2>1, <2>2 DEF Named!Max
<1>6. Named!Sanitize(n) = n
  <2>1. Named!Sanitize(n) = IF letters = {} THEN << >> ELSE SubSeq(n, Named!Min(letters), Named!Max(letters))
    BY DEF Named!Sanitize, letters
  <2> QED
    BY <1>3, <1>4, <1>5, <2>1
<1> QED
  BY <1>2, <1>6, Zenon DEF Named!NamePart

-----------------------------------------------------------------------------
(* Names of letters and numbers                                            *)

\* A name of letters joins no others.
LEMMA LettersPlain ==
  ASSUME NEW w \in Seq(Named!Letters)
  PROVE  w \in Seq(Plain) /\ w \in Seq(Tokens) /\ \A i \in 1 .. Len(w) : w[i] # "-"
<1>1. \A i \in 1 .. Len(w) : w[i] \in Named!Letters
  OBVIOUS
<1>2. \A i \in 1 .. Len(w) : w[i] \in Plain /\ w[i] \in Tokens /\ w[i] # "-"
  BY <1>1 DEF Plain, Tokens, Named!Letters
<1> QED
  BY <1>2

\* A word of letters that is short enough stays whole.
LEMMA WordWhole ==
  ASSUME NEW w \in Seq(Named!Letters), NEW len \in Nat, Len(w) \in 1 .. len
  PROVE  Named!NamePart(w, len) = w
<1>1. 1 \in 1 .. Len(w) /\ Len(w) \in 1 .. Len(w)
  OBVIOUS
<1>2. w[1] # "-" /\ w[Len(w)] # "-"
  BY <1>1, LettersPlain
<1> QED
  BY <1>2, NamePartWhole

\* Lengths are numbers, numbers have tokens of their own.
LEMMA NamingConstants ==
  /\ ChiLen \in Nat \ {0} /\ PartLen \in Nat \ {0} /\ LabelLen \in Nat \ {0}
  /\ Numerals \in Seq(Named!Letters)
  /\ \A m, n \in 1 .. Len(Numerals) : Numerals[m] = Numerals[n] => m = n
<1>1. Named!Assumptions
  BY InstancesAssumption
<1>2. Numerals \in Seq(Named!Letters) /\ Named!IsInjective(Numerals)
  BY <1>1 DEF Named!Assumptions
<1> QED
  BY <1>1, <1>2 DEF Named!Assumptions, Named!IsInjective

\* The number of a place is its numeral.
LEMMA NumIs ==
  ASSUME NEW n \in 1 .. Len(Numerals)
  PROVE  /\ Named!Num(n - 1) = <<Numerals[n]>>
         /\ Named!Num(n - 1) \in Seq(Named!Letters) /\ Len(Named!Num(n - 1)) = 1
<1>1. (n - 1) + 1 = n /\ Numerals[n] \in Named!Letters
  BY NamingConstants
<1> QED
  BY <1>1 DEF Named!Num

\* Places of one number are one place.
LEMMA NumApart ==
  ASSUME NEW m \in 1 .. Len(Numerals), NEW n \in 1 .. Len(Numerals), Named!Num(m - 1) = Named!Num(n - 1)
  PROVE  m = n
<1>1. <<Numerals[m]>> = <<Numerals[n]>>
  BY NumIs
<1>2. Numerals[m] = Numerals[n]
  BY <1>1
<1> QED
  BY <1>2, NamingConstants

\* The places of a layout.
ShardIn(l, i, j) == i \in DOMAIN l /\ j \in DOMAIN l[i].shards
HostIn(l, i, j, k) == ShardIn(l, i, j) /\ k \in DOMAIN l[i].shards[j].hosts

\* The clusters of a layout are well named.
LEMMA ClusterIs ==
  ASSUME NEW l, Named!WellNamedLayout(l), NEW i \in DOMAIN l
  PROVE  /\ i \in 1 .. Len(Numerals)
         /\ l[i].name \in Named!Word(Named!Shorter(PartLen, LabelLen))
         /\ l[i].shards \in Seq(Named!WellNamedShards)
<1>1. l \in Seq(Named!WellNamedClusters) /\ Len(l) <= Len(Numerals)
  BY DEF Named!WellNamedLayout
<1>2. Len(l) \in Nat /\ DOMAIN l = 1 .. Len(l) /\ l[i] \in Named!WellNamedClusters
  BY <1>1
<1>3. Len(Numerals) \in Nat
  BY NamingConstants
<1> QED
  BY <1>1, <1>2, <1>3 DEF Named!WellNamedClusters

\* So are its shards,
LEMMA ShardIs ==
  ASSUME NEW l, Named!WellNamedLayout(l), NEW i, NEW j, ShardIn(l, i, j)
  PROVE  /\ j \in 1 .. Len(Numerals)
         /\ l[i].shards[j].name \in Named!UserNames(Named!Shorter(PartLen - 2, LabelLen))
         /\ l[i].shards[j].hosts \in Seq(Named!UserNames(PartLen))
<1> DEFINE shards == l[i].shards
<1>1. i \in DOMAIN l /\ j \in DOMAIN shards
  BY DEF ShardIn
<1>2. shards \in Seq(Named!WellNamedShards)
  BY <1>1, ClusterIs
<1>3. Len(shards) <= Len(Numerals)
  BY <1>1 DEF Named!WellNamedLayout
<1> HIDE DEF shards
<1>4. Len(shards) \in Nat /\ DOMAIN shards = 1 .. Len(shards) /\ shards[j] \in Named!WellNamedShards
  BY <1>1, <1>2
<1>5. Len(Numerals) \in Nat
  BY NamingConstants
<1>6. /\ j \in 1 .. Len(Numerals)
      /\ shards[j].name \in Named!UserNames(Named!Shorter(PartLen - 2, LabelLen))
      /\ shards[j].hosts \in Seq(Named!UserNames(PartLen))
  BY <1>1, <1>3, <1>4, <1>5 DEF Named!WellNamedShards
<1> QED
  BY <1>6 DEF shards

\* and its hosts.
LEMMA HostIs ==
  ASSUME NEW l, Named!WellNamedLayout(l), NEW i, NEW j, NEW k, HostIn(l, i, j, k)
  PROVE  /\ k \in 1 .. Len(Numerals)
         /\ l[i].shards[j].hosts[k] \in Named!UserNames(PartLen)
<1> DEFINE hosts == l[i].shards[j].hosts
<1>1. ShardIn(l, i, j) /\ i \in DOMAIN l /\ j \in DOMAIN l[i].shards /\ k \in DOMAIN hosts
  BY DEF HostIn, ShardIn
<1>2. hosts \in Seq(Named!UserNames(PartLen))
  BY <1>1, ShardIs
<1>3. Len(hosts) <= Len(Numerals)
  BY <1>1 DEF Named!WellNamedLayout
<1> HIDE DEF hosts
<1>4. Len(hosts) \in Nat /\ DOMAIN hosts = 1 .. Len(hosts) /\ hosts[k] \in Named!UserNames(PartLen)
  BY <1>1, <1>2
<1>5. Len(Numerals) \in Nat
  BY NamingConstants
<1>6. k \in 1 .. Len(Numerals) /\ hosts[k] \in Named!UserNames(PartLen)
  BY <1>1, <1>3, <1>4, <1>5
<1> QED
  BY <1>6 DEF hosts

-----------------------------------------------------------------------------
(* Names of clusters, shards and hosts                                     *)

\* The shorter of two lengths is within both.
LEMMA ShorterIs ==
  ASSUME NEW a \in Int, NEW b \in Int, NEW n \in Int, n \in 1 .. Named!Shorter(a, b)
  PROVE  n \in 1 .. a /\ n \in 1 .. b
BY DEF Named!Shorter

\* The name of a cluster stays whole in names and labels.
LEMMA ClusterNameIs ==
  ASSUME NEW l, Named!WellNamedLayout(l), NEW i \in DOMAIN l
  PROVE  /\ l[i].name \in Seq(Named!Letters)
         /\ Named!NamePart(l[i].name, PartLen) = l[i].name
         /\ Named!NamePart(l[i].name, LabelLen) = l[i].name
<1>1. l[i].name \in Named!Word(Named!Shorter(PartLen, LabelLen))
  BY ClusterIs
<1> DEFINE w == l[i].name
<1>2. w \in Seq(Named!Letters) /\ Len(w) \in 1 .. Named!Shorter(PartLen, LabelLen)
  BY <1>1 DEF Named!Word
<1> HIDE DEF w
<1>3. Len(w) \in Int /\ PartLen \in Nat /\ LabelLen \in Nat
  BY <1>2, NamingConstants
<1>4. Len(w) \in 1 .. PartLen /\ Len(w) \in 1 .. LabelLen
  BY <1>2, <1>3, ShorterIs
<1>5. w \in Seq(Named!Letters) /\ Named!NamePart(w, PartLen) = w /\ Named!NamePart(w, LabelLen) = w
  BY <1>2, <1>3, <1>4, WordWhole
<1> QED
  BY <1>5 DEF w

\* So does the name of a shard, given or not.
LEMMA ShardNameIs ==
  ASSUME Named!WellNamed, NEW l, Named!WellNamedLayout(l), NEW i, NEW j, ShardIn(l, i, j)
  PROVE  /\ Named!ShardName(l, i, j) \in Seq(Named!Letters)
         /\ Len(Named!ShardName(l, i, j)) \in 1 .. PartLen - 2
         /\ Named!NamePart(Named!ShardName(l, i, j), PartLen) = Named!ShardName(l, i, j)
         /\ Named!NamePart(Named!ShardName(l, i, j), LabelLen) = Named!ShardName(l, i, j)
<1> DEFINE w == Named!ShardName(l, i, j)
<1>1. PartLen \in Nat /\ LabelLen \in Nat \ {0} /\ 3 <= PartLen
  BY NamingConstants DEF Named!WellNamed
<1>2. /\ j \in 1 .. Len(Numerals)
      /\ l[i].shards[j].name \in Named!UserNames(Named!Shorter(PartLen - 2, LabelLen))
  BY ShardIs
<1>3. w \in Seq(Named!Letters) /\ Len(w) \in Nat /\ Len(w) \in 1 .. PartLen - 2 /\ Len(w) \in 1 .. LabelLen
  <2>1. CASE l[i].shards[j].name = Unnamed
    <3>1. w = Named!Num(j - 1)
      BY <2>1 DEF Named!ShardName
    <3>2. Named!Num(j - 1) \in Seq(Named!Letters) /\ Len(Named!Num(j - 1)) = 1
      BY <1>2, NumIs
    <3>3. 1 \in 1 .. PartLen - 2 /\ 1 \in 1 .. LabelLen
      BY <1>1
    <3> DEFINE n == Named!Num(j - 1)
    <3> HIDE DEF n
    <3>4. w = n /\ n \in Seq(Named!Letters) /\ Len(n) = 1
      BY <3>1, <3>2 DEF n
    <3> HIDE DEF w
    <3>5. w \in Seq(Named!Letters) /\ Len(w) = 1
      BY <3>4
    <3> QED
      BY <3>3, <3>5
  <2>2. CASE l[i].shards[j].name # Unnamed
    <3>1. w = l[i].shards[j].name
      BY <2>2 DEF Named!ShardName
    <3> HIDE DEF w
    <3>2. w \in Named!Word(Named!Shorter(PartLen - 2, LabelLen))
      BY <1>2, <2>2, <3>1 DEF Named!UserNames
    <3>3. w \in Seq(Named!Letters) /\ Len(w) \in 1 .. Named!Shorter(PartLen - 2, LabelLen)
      BY <3>2 DEF Named!Word
    <3>4. Len(w) \in Int /\ PartLen - 2 \in Int /\ LabelLen \in Int
      BY <1>1, <3>3
    <3> DEFINE p == PartLen - 2
    <3> HIDE DEF p
    <3>5. Len(w) \in 1 .. p /\ Len(w) \in 1 .. LabelLen
      BY <3>3, <3>4, ShorterIs DEF p
    <3> QED
      BY <3>3, <3>5 DEF p
  <2> QED
    BY <2>1, <2>2
<1> HIDE DEF w
<1>4. Len(w) \in 1 .. PartLen
  BY <1>1, <1>3
<1>5. Named!NamePart(w, PartLen) = w /\ Named!NamePart(w, LabelLen) = w
  BY <1>1, <1>3, <1>4, WordWhole
<1> QED
  BY <1>3, <1>5 DEF w

\* A given name is no number.
LEMMA NotANumber ==
  ASSUME NEW len, NEW w \in Named!UserNames(len), w # Unnamed, NEW n \in 1 .. Len(Numerals)
  PROVE  w # Named!Num(n - 1)
<1>1. Len(Numerals) \in Nat /\ DOMAIN Numerals = 1 .. Len(Numerals)
  BY NamingConstants
<1>2. w \notin {<<Numerals[m]>> : m \in DOMAIN Numerals}
  BY DEF Named!UserNames
<1>3. Named!Num(n - 1) = <<Numerals[n]>>
  BY NumIs
<1> QED
  BY <1>1, <1>2, <1>3

\* The shards of a cluster have names of their own.
LEMMA ShardNamesApart ==
  ASSUME NEW l, Named!WellNamedLayout(l), NEW i, NEW j, NEW j2, ShardIn(l, i, j), ShardIn(l, i, j2),
         Named!ShardName(l, i, j) = Named!ShardName(l, i, j2)
  PROVE  j = j2
<1> DEFINE a == l[i].shards[j].name
           b == l[i].shards[j2].name
<1>1. j \in 1 .. Len(Numerals) /\ j2 \in 1 .. Len(Numerals)
  BY ShardIs
<1>2. /\ a \in Named!UserNames(Named!Shorter(PartLen - 2, LabelLen))
      /\ b \in Named!UserNames(Named!Shorter(PartLen - 2, LabelLen))
  BY ShardIs
<1>3. (IF a = Unnamed THEN Named!Num(j - 1) ELSE a) = (IF b = Unnamed THEN Named!Num(j2 - 1) ELSE b)
  BY DEF Named!ShardName
<1>4. a # Unnamed /\ a = b => j = j2
  BY DEF Named!WellNamedLayout, ShardIn
<1> HIDE DEF a, b
<1>5. CASE a = Unnamed /\ b = Unnamed
  <2>1. Named!Num(j - 1) = Named!Num(j2 - 1)
    BY <1>3, <1>5
  <2> QED
    BY <1>1, <2>1, NumApart
<1>6. CASE a = Unnamed /\ b # Unnamed
  <2>1. b # Named!Num(j - 1)
    BY <1>1, <1>2, <1>6, NotANumber
  <2> QED
    BY <1>3, <1>6, <2>1
<1>7. CASE a # Unnamed /\ b = Unnamed
  <2>1. a # Named!Num(j2 - 1)
    BY <1>1, <1>2, <1>7, NotANumber
  <2> QED
    BY <1>3, <1>7, <2>1
<1>8. CASE a # Unnamed /\ b # Unnamed
  BY <1>3, <1>4, <1>8
<1> QED
  BY <1>5, <1>6, <1>7, <1>8

\* The name the operator gives a host: that of its shard and its number.
LEMMA CreateHostNameIs ==
  ASSUME Named!WellNamed, NEW l, Named!WellNamedLayout(l), NEW i, NEW j, NEW k, HostIn(l, i, j, k)
  PROVE  Named!CreateHostName(l, i, j, k) = Dashed(Named!ShardName(l, i, j), Named!Num(k - 1))
<1> DEFINE w == Named!ShardName(l, i, j)
           n == Named!Num(k - 1)
           d == <<"-">>
<1>1. ShardIn(l, i, j) /\ k \in 1 .. Len(Numerals)
  BY HostIs DEF HostIn
<1>2. w \in Seq(Named!Letters) /\ n \in Seq(Named!Letters)
  BY <1>1, ShardNameIs, NumIs
<1>3. Named!CreateHostName(l, i, j, k) = After(After(w, d), n)
  BY DEF Named!CreateHostName, Named!ReplicaName, Named!Dash, After
<1>4. d \in Seq(Tokens)
  BY DEF Tokens
<1> HIDE DEF w, n, d
<1>5. w \in Seq(Tokens) /\ n \in Seq(Tokens)
  BY <1>2, LettersPlain
<1>6. After(After(w, d), n) = After(w, After(d, n))
  BY <1>4, <1>5, AfterAssociates
<1> QED
  BY <1>3, <1>6 DEF Dashed, w, n, d

\* It is as long as a part of a name may be, and it has a dash.
LEMMA CreateHostNameWhole ==
  ASSUME Named!WellNamed, NEW l, Named!WellNamedLayout(l), NEW i, NEW j, NEW k, HostIn(l, i, j, k)
  PROVE  /\ Named!CreateHostName(l, i, j, k) \in Seq(Tokens)
         /\ Named!NamePart(Named!CreateHostName(l, i, j, k), PartLen) = Named!CreateHostName(l, i, j, k)
         /\ Named!CreateHostName(l, i, j, k) \notin Seq(Named!Letters)
<1> DEFINE w == Named!ShardName(l, i, j)
           n == Named!Num(k - 1)
           d == <<"-">>
           u == After(d, n)
           h == After(w, u)
<1>1. ShardIn(l, i, j) /\ k \in 1 .. Len(Numerals)
  BY HostIs DEF HostIn
<1>2. w \in Seq(Named!Letters) /\ n \in Seq(Named!Letters) /\ Len(n) = 1 /\ Len(w) \in 1 .. PartLen - 2
  BY <1>1, ShardNameIs, NumIs
<1>3. Named!CreateHostName(l, i, j, k) = h
  BY CreateHostNameIs DEF Dashed
<1>4. d \in Seq(Tokens) /\ Len(d) = 1 /\ d[1] = "-"
  BY DEF Tokens
<1> HIDE DEF w, n, d
<1>5. w \in Seq(Tokens) /\ n \in Seq(Tokens)
  BY <1>2, LettersPlain
<1>6. u \in Seq(Tokens) /\ Follows(u, d, n)
  BY <1>4, <1>5, AfterIs
<1> HIDE DEF u
<1>7. h \in Seq(Tokens) /\ Follows(h, w, u)
  BY <1>5, <1>6, AfterIs
<1> HIDE DEF h
<1>8. Len(u) = 2 /\ u[1] = "-" /\ u[2] = n[1]
  <2>1. Len(u) = 2
    BY <1>2, <1>4, <1>6 DEF Follows
  <2>2. 1 \in 1 .. Len(d) /\ 1 \in 1 .. Len(n) /\ Len(d) + 1 = 2
    BY <1>2, <1>4
  <2> QED
    BY <1>4, <1>6, <2>1, <2>2 DEF Follows
<1>9. w[1] # "-" /\ n[1] # "-"
  <2>1. 1 \in 1 .. Len(w) /\ 1 \in 1 .. Len(n)
    BY <1>2
  <2> QED
    BY <1>2, <2>1, LettersPlain
<1>10. Len(w) \in Nat /\ Len(w) >= 1 /\ PartLen \in Nat /\ Len(w) <= PartLen - 2
  BY <1>2, NamingConstants
<1>11. Len(h) = Len(w) + 2
  BY <1>7, <1>8 DEF Follows
<1>12. h[1] = w[1] /\ h[Len(w) + 1] = "-" /\ h[Len(w) + 2] = n[1]
  <2>1. 1 \in 1 .. Len(w) /\ 1 \in 1 .. Len(u) /\ 2 \in 1 .. Len(u)
    BY <1>8, <1>10
  <2> QED
    BY <1>7, <1>8, <2>1 DEF Follows
<1>13. Named!NamePart(h, PartLen) = h
  <2>1. Len(h) \in 1 .. PartLen /\ h[1] # "-" /\ h[Len(h)] # "-"
    BY <1>9, <1>10, <1>11, <1>12
  <2> QED
    BY <1>7, <1>10, <2>1, NamePartWhole
<1>14. h \notin Seq(Named!Letters)
  <2>1. SUFFICES ASSUME h \in Seq(Named!Letters) PROVE FALSE
    OBVIOUS
  <2>2. Len(w) + 1 \in 1 .. Len(h)
    BY <1>10, <1>11
  <2> QED
    BY <1>12, <2>1, <2>2, LettersPlain
<1> QED
  BY <1>3, <1>7, <1>13, <1>14

\* The name of a host: that it was given, or that.
LEMMA HostNameEither ==
  ASSUME Named!WellNamed, NEW l, Named!WellNamedLayout(l), NEW i, NEW j, NEW k, HostIn(l, i, j, k)
  PROVE  \/ /\ l[i].shards[j].hosts[k] = Unnamed
            /\ Named!HostName(l, i, j, k) = Named!CreateHostName(l, i, j, k)
         \/ /\ l[i].shards[j].hosts[k] # Unnamed
            /\ l[i].shards[j].hosts[k] \in Named!Word(PartLen)
            /\ Named!HostName(l, i, j, k) = l[i].shards[j].hosts[k]
<1> DEFINE name == l[i].shards[j].hosts[k]
<1>1. ShardIn(l, i, j) /\ k \in 1 .. Len(Numerals) /\ name \in Named!UserNames(PartLen)
  BY HostIs DEF HostIn
<1>2. j \in 1 .. Len(Numerals)
  BY <1>1, ShardIs
<1>3. Named!HostName(l, i, j, k) =
        IF Named!IsAutoGeneratedHostName(name, l, i, j, k) THEN Named!CreateHostName(l, i, j, k) ELSE name
  BY DEF Named!HostName
<1> HIDE DEF name
<1>4. CASE name = Unnamed
  <2>1. Named!IsAutoGeneratedHostName(name, l, i, j, k)
    BY <1>4 DEF Named!IsAutoGeneratedHostName
  <2> QED
    BY <1>3, <1>4, <2>1 DEF name
<1>5. CASE name # Unnamed
  <2>1. name \in Named!Word(PartLen) /\ name \in Seq(Named!Letters)
    BY <1>1, <1>5 DEF Named!UserNames, Named!Word
  <2>2. name # Named!CreateHostName(l, i, j, k)
    BY <2>1, CreateHostNameWhole
  <2>3. name # Named!Num(j - 1) /\ name # Named!Num(k - 1)
    BY <1>1, <1>2, <1>5, NotANumber
  <2>4. name # (Named!Num(j - 1) \o Named!Dash) \o Named!Num(k - 1)
    <3> DEFINE u == Named!Num(j - 1)
               v == Named!Num(k - 1)
               z == (u \o Named!Dash) \o v
    <3>1. u \in Seq(Named!Letters) /\ Len(u) = 1 /\ v \in Seq(Named!Letters) /\ Len(v) = 1
      BY <1>1, <1>2, NumIs
    <3>2. u \in Seq(Tokens) /\ v \in Seq(Tokens)
      <4> HIDE DEF u, v
      <4> QED BY <3>1, LettersPlain
    <3> HIDE DEF u, v
    <3> DEFINE d == <<"-">>
               y == After(u, d)
    <3>3. d \in Seq(Tokens) /\ Len(d) = 1 /\ d[1] = "-" /\ z = After(y, v)
      BY DEF Tokens, After, Named!Dash
    <3> HIDE DEF d, z
    <3>8. y \in Seq(Tokens) /\ Follows(y, u, d)
      BY <3>2, <3>3, AfterIs
    <3> HIDE DEF y
    <3>9. Follows(z, y, v)
      BY <3>2, <3>3, <3>8, AfterIs
    <3>10. Len(y) = 2 /\ y[2] = "-"
      <4>1. Len(y) = 2
        BY <3>1, <3>3, <3>8 DEF Follows
      <4>2. 1 \in 1 .. Len(d) /\ Len(u) + 1 = 2
        BY <3>1, <3>3
      <4> QED
        BY <3>3, <3>8, <4>1, <4>2 DEF Follows
    <3>4. z[2] = "-" /\ Len(z) = 3
      <4>1. Len(z) = 3
        BY <3>1, <3>9, <3>10 DEF Follows
      <4>2. 2 \in 1 .. Len(y)
        BY <3>10
      <4> QED
        BY <3>9, <3>10, <4>1, <4>2 DEF Follows
    <3>5. SUFFICES ASSUME name = z PROVE FALSE
      BY DEF u, v, z
    <3>6. z \in Seq(Named!Letters) /\ 2 \in 1 .. Len(z)
      BY <2>1, <3>4, <3>5
    <3>7. z[2] # "-"
      BY <3>6, LettersPlain
    <3> QED
      BY <3>4, <3>7
  <2>5. ~ Named!IsAutoGeneratedHostName(name, l, i, j, k)
    BY <1>5, <2>2, <2>3, <2>4 DEF Named!IsAutoGeneratedHostName
  <2> QED
    BY <1>3, <1>5, <2>1, <2>5 DEF name
<1> QED
  BY <1>4, <1>5

\* It stays whole in names.
LEMMA HostNameIs ==
  ASSUME Named!WellNamed, NEW l, Named!WellNamedLayout(l), NEW i, NEW j, NEW k, HostIn(l, i, j, k)
  PROVE  /\ Named!HostName(l, i, j, k) \in Seq(Tokens)
         /\ Named!NamePart(Named!HostName(l, i, j, k), PartLen) = Named!HostName(l, i, j, k)
<1> DEFINE h == Named!HostName(l, i, j, k)
<1>1. CASE h = Named!CreateHostName(l, i, j, k)
  BY <1>1, CreateHostNameWhole
<1>2. CASE h \in Named!Word(PartLen)
  <2> HIDE DEF h
  <2>1. h \in Seq(Named!Letters) /\ Len(h) \in 1 .. PartLen /\ PartLen \in Nat
    BY <1>2, NamingConstants DEF Named!Word
  <2>2. h \in Seq(Tokens) /\ Named!NamePart(h, PartLen) = h
    BY <2>1, LettersPlain, WordWhole
  <2> QED
    BY <2>2 DEF h
<1> QED
  BY <1>1, <1>2, HostNameEither

\* The hosts of a cluster have names of their own.
LEMMA HostNamesApart ==
  ASSUME Named!WellNamed, NEW l, Named!WellNamedLayout(l), NEW i,
         NEW j, NEW k, HostIn(l, i, j, k), NEW j2, NEW k2, HostIn(l, i, j2, k2),
         Named!HostName(l, i, j, k) = Named!HostName(l, i, j2, k2)
  PROVE  j = j2 /\ k = k2
<1> DEFINE a == l[i].shards[j].hosts[k]
           b == l[i].shards[j2].hosts[k2]
<1>1. \/ a = Unnamed /\ Named!HostName(l, i, j, k) = Named!CreateHostName(l, i, j, k)
      \/ a # Unnamed /\ a \in Seq(Named!Letters) /\ Named!HostName(l, i, j, k) = a
  BY HostNameEither DEF Named!Word
<1>2. \/ b = Unnamed /\ Named!HostName(l, i, j2, k2) = Named!CreateHostName(l, i, j2, k2)
      \/ b # Unnamed /\ b \in Seq(Named!Letters) /\ Named!HostName(l, i, j2, k2) = b
  BY HostNameEither DEF Named!Word
<1>3. a # Unnamed /\ a = b => j = j2 /\ k = k2
  BY DEF Named!WellNamedLayout, HostIn, ShardIn
<1>4. /\ Named!CreateHostName(l, i, j, k) \notin Seq(Named!Letters)
      /\ Named!CreateHostName(l, i, j2, k2) \notin Seq(Named!Letters)
  BY CreateHostNameWhole
<1> HIDE DEF a, b
<1>5. CASE a = Unnamed /\ b = Unnamed
  <2> DEFINE s == Named!ShardName(l, i, j)
             t == Named!ShardName(l, i, j2)
             m == Named!Num(k - 1)
             n == Named!Num(k2 - 1)
  <2>1. Dashed(s, m) = Dashed(t, n)
    <3>1. /\ Named!CreateHostName(l, i, j, k) = Dashed(Named!ShardName(l, i, j), Named!Num(k - 1))
          /\ Named!CreateHostName(l, i, j2, k2) = Dashed(Named!ShardName(l, i, j2), Named!Num(k2 - 1))
      BY CreateHostNameIs
    <3> QED
      BY <1>1, <1>2, <1>5, <3>1
  <2>2. ShardIn(l, i, j) /\ ShardIn(l, i, j2) /\ k \in 1 .. Len(Numerals) /\ k2 \in 1 .. Len(Numerals)
    BY HostIs DEF HostIn
  <2>3. /\ s \in Seq(Named!Letters) /\ t \in Seq(Named!Letters)
        /\ m \in Seq(Named!Letters) /\ n \in Seq(Named!Letters)
    BY <2>2, ShardNameIs, NumIs
  <2> HIDE DEF s, t, m, n
  <2>4. s \in Seq(Plain) /\ t \in Seq(Plain) /\ m \in Seq(Tokens) /\ n \in Seq(Tokens)
    BY <2>3, LettersPlain
  <2>5. s = t /\ m = n
    BY <2>1, <2>4, DashedApart
  <2>6. j = j2
    BY <2>2, <2>5, ShardNamesApart DEF s, t
  <2>7. k = k2
    BY <2>2, <2>5, NumApart DEF m, n
  <2> QED
    BY <2>6, <2>7
<1>6. CASE a # Unnamed \/ b # Unnamed
  BY <1>1, <1>2, <1>3, <1>4, <1>6
<1> QED
  BY <1>5, <1>6

-----------------------------------------------------------------------------
(* Patterns of the operator and what their macros stand for                *)

\* Patterns of two, three, four and six words with dashes between them.
DashesAt(p, dashes) == \A k \in dashes : p[k] = "-"

\* From a word on that a dash follows.
LEMMA DashedFrom ==
  ASSUME NEW M, NEW macros, "-" \notin DOMAIN macros, NEW n \in Nat, NEW p, Replaceable(M, p, macros, n),
         NEW dashes, DashesAt(p, dashes), NEW k \in 1 .. n - 2, k + 1 \in dashes
  PROVE  From(p, macros, k, n) = Dashed(Replaced(p[k], macros), From(p, macros, k + 2, n))
<1>1. p[k + 1] = "-"
  BY DEF DashesAt
<1> QED
  BY <1>1, ReplaceDashed

\* Patterns of two words,
LEMMA ReplaceTwo ==
  ASSUME NEW M, NEW macros, "-" \notin DOMAIN macros, NEW n \in Nat \ {0}, n = 3,
         NEW p, DOMAIN p = 1 .. n, Replaceable(M, p, macros, n), DashesAt(p, {2})
  PROVE  Named!Replace(p, macros) =
           Dashed(Replaced(p[1], macros), Replaced(p[3], macros))
<1>1. Named!Replace(p, macros) = From(p, macros, 1, n) /\ From(p, macros, n, n) = Replaced(p[n], macros)
  BY ReplaceAll, ReplaceLast
<1>2. ASSUME NEW k \in 1 .. n - 2, k + 1 \in {2}
      PROVE  From(p, macros, k, n) = Dashed(Replaced(p[k], macros), From(p, macros, k + 2, n))
  BY <1>2, DashedFrom
<1>3. From(p, macros, 1, n) = Dashed(Replaced(p[1], macros), From(p, macros, 3, n))
  BY <1>2
<1> QED
  BY <1>1, <1>3

\* of three,
LEMMA ReplaceThree ==
  ASSUME NEW M, NEW macros, "-" \notin DOMAIN macros, NEW n \in Nat \ {0}, n = 5,
         NEW p, DOMAIN p = 1 .. n, Replaceable(M, p, macros, n), DashesAt(p, {2, 4})
  PROVE  Named!Replace(p, macros) =
           Dashed(Replaced(p[1], macros), Dashed(Replaced(p[3], macros), Replaced(p[5], macros)))
<1>1. Named!Replace(p, macros) = From(p, macros, 1, n) /\ From(p, macros, n, n) = Replaced(p[n], macros)
  BY ReplaceAll, ReplaceLast
<1>2. ASSUME NEW k \in 1 .. n - 2, k + 1 \in {2, 4}
      PROVE  From(p, macros, k, n) = Dashed(Replaced(p[k], macros), From(p, macros, k + 2, n))
  BY <1>2, DashedFrom
<1>3. /\ From(p, macros, 1, n) = Dashed(Replaced(p[1], macros), From(p, macros, 3, n))
      /\ From(p, macros, 3, n) = Dashed(Replaced(p[3], macros), From(p, macros, 5, n))
  BY <1>2
<1> QED
  BY <1>1, <1>3

\* of four,
LEMMA ReplaceFour ==
  ASSUME NEW M, NEW macros, "-" \notin DOMAIN macros, NEW n \in Nat \ {0}, n = 7,
         NEW p, DOMAIN p = 1 .. n, Replaceable(M, p, macros, n), DashesAt(p, {2, 4, 6})
  PROVE  Named!Replace(p, macros) =
           Dashed(Replaced(p[1], macros),
             Dashed(Replaced(p[3], macros), Dashed(Replaced(p[5], macros), Replaced(p[7], macros))))
<1>1. Named!Replace(p, macros) = From(p, macros, 1, n) /\ From(p, macros, n, n) = Replaced(p[n], macros)
  BY ReplaceAll, ReplaceLast
<1>2. ASSUME NEW k \in 1 .. n - 2, k + 1 \in {2, 4, 6}
      PROVE  From(p, macros, k, n) = Dashed(Replaced(p[k], macros), From(p, macros, k + 2, n))
  BY <1>2, DashedFrom
<1>3. /\ From(p, macros, 1, n) = Dashed(Replaced(p[1], macros), From(p, macros, 3, n))
      /\ From(p, macros, 3, n) = Dashed(Replaced(p[3], macros), From(p, macros, 5, n))
      /\ From(p, macros, 5, n) = Dashed(Replaced(p[5], macros), From(p, macros, 7, n))
  BY <1>2
<1> QED
  BY <1>1, <1>3

\* and of six.
LEMMA ReplaceSix ==
  ASSUME NEW M, NEW macros, "-" \notin DOMAIN macros, NEW n \in Nat \ {0}, n = 11,
         NEW p, DOMAIN p = 1 .. n, Replaceable(M, p, macros, n), DashesAt(p, {2, 4, 6, 8, 10})
  PROVE  Named!Replace(p, macros) =
           Dashed(Replaced(p[1], macros),
             Dashed(Replaced(p[3], macros), Dashed(Replaced(p[5], macros),
               Dashed(Replaced(p[7], macros), Dashed(Replaced(p[9], macros), Replaced(p[11], macros))))))
<1>1. Named!Replace(p, macros) = From(p, macros, 1, n) /\ From(p, macros, n, n) = Replaced(p[n], macros)
  BY ReplaceAll, ReplaceLast
<1>2. ASSUME NEW k \in 1 .. n - 2, k + 1 \in {2, 4, 6, 8, 10}
      PROVE  From(p, macros, k, n) = Dashed(Replaced(p[k], macros), From(p, macros, k + 2, n))
  BY <1>2, DashedFrom
<1>3. /\ From(p, macros, 1, n) = Dashed(Replaced(p[1], macros), From(p, macros, 3, n))
      /\ From(p, macros, 3, n) = Dashed(Replaced(p[3], macros), From(p, macros, 5, n))
      /\ From(p, macros, 5, n) = Dashed(Replaced(p[5], macros), From(p, macros, 7, n))
      /\ From(p, macros, 7, n) = Dashed(Replaced(p[7], macros), From(p, macros, 9, n))
      /\ From(p, macros, 9, n) = Dashed(Replaced(p[9], macros), From(p, macros, 11, n))
  BY <1>2
<1> QED
  BY <1>1, <1>3

\* The name of a CHI stays whole in names and labels.
LEMMA ChiNameIs ==
  ASSUME Named!WellNamed, NEW c \in Installations
  PROVE  /\ c \in Seq(Named!Letters)
         /\ Named!NamePart(c, ChiLen) = c /\ Named!NamePart(c, LabelLen) = c
<1>1. c \in Seq(Named!Letters) /\ Len(c) \in 1 .. Named!Shorter(ChiLen, LabelLen)
  BY DEF Named!WellNamed, Named!Word
<1>2. Len(c) \in Int /\ ChiLen \in Nat /\ LabelLen \in Nat
  BY <1>1, NamingConstants
<1>3. Len(c) \in 1 .. ChiLen /\ Len(c) \in 1 .. LabelLen
  BY <1>1, <1>2, ShorterIs
<1> QED
  BY <1>1, <1>2, <1>3, WordWhole

\* What one function over another gives.
LEMMA OverDomain ==
  ASSUME NEW f, NEW g, NEW x
  PROVE  x \in DOMAIN Named!Over(f, g) <=> x \in DOMAIN f \/ x \in DOMAIN g
BY DEF Named!Over

\* A macro of the narrower scope wins.
LEMMA OverFirst ==
  ASSUME NEW f, NEW g, NEW w \in DOMAIN f
  PROVE  Replaced(w, Named!Over(f, g)) = f[w]
BY DEF Named!Over, Replaced

\* The others are as in the wider scope.
LEMMA OverSecond ==
  ASSUME NEW f, NEW g, NEW w, w \notin DOMAIN f
  PROVE  Replaced(w, Named!Over(f, g)) = Replaced(w, g)
BY DEF Named!Over, Replaced

\* The words of patterns that are no macros.
Fixed == {"-", "chi", "clickhouse", "cluster", "shard", "deploy", "confd", "common", "configd", "usersd"}

FixedFree(macros) == \A w \in Fixed : w \notin DOMAIN macros

\* A word that is no macro stays as it is.
LEMMA FixedStays ==
  ASSUME NEW macros, NEW w \in Fixed, w \notin DOMAIN macros
  PROVE  Replaced(w, macros) = <<w>> /\ Replaced(w, macros) \in Seq(Tokens)
BY DEF Replaced, Fixed, Tokens

\* What the macros stand for.
ChiOf(macros) == Replaced("{chi}", macros)
ClusterOf(macros) == Replaced("{cluster}", macros)
ShardOf(macros) == Replaced("{shard}", macros)
HostOf(macros) == Replaced("{host}", macros)

\* What the macros of a CHI stand for,
LEMMA ChiMacrosAre ==
  ASSUME Named!WellNamed, NEW c \in Installations
  PROVE  /\ FixedFree(Named!ChiMacros(c))
         /\ ChiOf(Named!ChiMacros(c)) = c
<1>1. DOMAIN Named!ChiMacros(c) = {"{chi}", "{chiID}"} /\ Named!ChiMacros(c)["{chi}"] = Named!NamePart(c, ChiLen)
  BY DEF Named!ChiMacros
<1> QED
  BY <1>1, ChiNameIs DEF FixedFree, Fixed, Replaced, ChiOf

\* those of a cluster,
LEMMA ClusterMacrosAre ==
  ASSUME Named!WellNamed, NEW c \in Installations, NEW l, Named!WellNamedLayout(l), NEW i \in DOMAIN l
  PROVE  /\ FixedFree(Named!ClusterMacros(c, l, i))
         /\ ChiOf(Named!ClusterMacros(c, l, i)) = c
         /\ ClusterOf(Named!ClusterMacros(c, l, i)) = l[i].name
<1> DEFINE own == [m \in {"{cluster}", "{clusterID}", "{clusterIndex}"} |->
                     CASE m = "{cluster}"   -> Named!NamePart(l[i].name, PartLen)
                       [] m = "{clusterID}" -> Named!CreateStringID(l[i].name)
                       [] OTHER             -> Named!Num(i - 1)]
           above == Named!ChiMacros(c)
<1>1. Named!ClusterMacros(c, l, i) = Named!Over(own, above)
  BY DEF Named!ClusterMacros
<1>2. DOMAIN own = {"{cluster}", "{clusterID}", "{clusterIndex}"} /\ own["{cluster}"] = Named!NamePart(l[i].name, PartLen)
  OBVIOUS
<1>3. /\ FixedFree(above)
      /\ ChiOf(above) = c
  BY ChiMacrosAre
<1> HIDE DEF own, above
<1>4. FixedFree(Named!Over(own, above))
  BY <1>2, <1>3, OverDomain DEF FixedFree, Fixed
<1>5. ChiOf(Named!Over(own, above)) = c
  BY <1>2, <1>3, OverSecond DEF ChiOf, ClusterOf
<1>6. ClusterOf(Named!Over(own, above)) = l[i].name
  BY <1>2, OverFirst, ClusterNameIs DEF ClusterOf
<1> QED
  BY <1>1, <1>4, <1>5, <1>6

\* of a shard,
LEMMA ShardMacrosAre ==
  ASSUME Named!WellNamed, NEW c \in Installations, NEW l, Named!WellNamedLayout(l),
         NEW i, NEW j, ShardIn(l, i, j)
  PROVE  /\ FixedFree(Named!ShardMacros(c, l, i, j))
         /\ ChiOf(Named!ShardMacros(c, l, i, j)) = c
         /\ ClusterOf(Named!ShardMacros(c, l, i, j)) = l[i].name
         /\ ShardOf(Named!ShardMacros(c, l, i, j)) = Named!ShardName(l, i, j)
<1> DEFINE own == [m \in {"{shard}", "{shardID}", "{shardIndex}"} |->
                     CASE m = "{shard}"   -> Named!NamePart(Named!ShardName(l, i, j), PartLen)
                       [] m = "{shardID}" -> Named!CreateStringID(Named!ShardName(l, i, j))
                       [] OTHER           -> Named!Num(j - 1)]
           above == Named!ClusterMacros(c, l, i)
<1>1. Named!ShardMacros(c, l, i, j) = Named!Over(own, above)
  BY DEF Named!ShardMacros
<1>2. DOMAIN own = {"{shard}", "{shardID}", "{shardIndex}"} /\ own["{shard}"] = Named!NamePart(Named!ShardName(l, i, j), PartLen)
  OBVIOUS
<1>3. /\ FixedFree(above)
      /\ ChiOf(above) = c /\ ClusterOf(above) = l[i].name
  BY ClusterMacrosAre DEF ShardIn
<1> HIDE DEF own, above
<1>4. FixedFree(Named!Over(own, above))
  BY <1>2, <1>3, OverDomain DEF FixedFree, Fixed
<1>5. ChiOf(Named!Over(own, above)) = c /\ ClusterOf(Named!Over(own, above)) = l[i].name
  BY <1>2, <1>3, OverSecond DEF ChiOf, ClusterOf
<1>6. ShardOf(Named!Over(own, above)) = Named!ShardName(l, i, j)
  BY <1>2, OverFirst, ShardNameIs DEF ShardOf
<1> QED
  BY <1>1, <1>4, <1>5, <1>6

\* and of a host.
LEMMA HostMacrosAre ==
  ASSUME Named!WellNamed, NEW c \in Installations, NEW l, Named!WellNamedLayout(l),
         NEW i, NEW j, NEW k, HostIn(l, i, j, k)
  PROVE  /\ FixedFree(Named!HostMacros(c, l, i, j, k))
         /\ ChiOf(Named!HostMacros(c, l, i, j, k)) = c
         /\ ClusterOf(Named!HostMacros(c, l, i, j, k)) = l[i].name
         /\ HostOf(Named!HostMacros(c, l, i, j, k)) = Named!HostName(l, i, j, k)
<1>0. /\ FixedFree(Named!ShardMacros(c, l, i, j))
      /\ ChiOf(Named!ShardMacros(c, l, i, j)) = c
      /\ ClusterOf(Named!ShardMacros(c, l, i, j)) = l[i].name
  <2>1. ShardIn(l, i, j)
    BY DEF HostIn
  <2> QED
    BY <2>1, ShardMacrosAre
<1> DEFINE own == [m \in {"{host}", "{hostID}", "{replica}", "{replicaIndex}"} |->
                     CASE m = "{host}"    -> Named!NamePart(Named!HostName(l, i, j, k), PartLen)
                       [] m = "{hostID}"  -> Named!CreateStringID(Named!HostName(l, i, j, k))
                       [] m = "{replica}" -> Named!NamePart(Named!ReplicaName(k), PartLen)
                       [] OTHER           -> Named!Num(k - 1)]
           above == Named!ShardMacros(c, l, i, j)
<1>1. Named!HostMacros(c, l, i, j, k) = Named!Over(own, above)
  BY DEF Named!HostMacros
<1>2. /\ DOMAIN own = {"{host}", "{hostID}", "{replica}", "{replicaIndex}"}
      /\ own["{host}"] = Named!NamePart(Named!HostName(l, i, j, k), PartLen)
  OBVIOUS
<1>3. /\ FixedFree(above)
      /\ ChiOf(above) = c /\ ClusterOf(above) = l[i].name
  BY <1>0
<1> HIDE DEF own, above
<1>4. FixedFree(Named!Over(own, above))
  BY <1>2, <1>3, OverDomain DEF FixedFree, Fixed
<1>5. ChiOf(Named!Over(own, above)) = c /\ ClusterOf(Named!Over(own, above)) = l[i].name
  BY <1>2, <1>3, OverSecond DEF ChiOf, ClusterOf
<1>6. HostOf(Named!Over(own, above)) = Named!HostName(l, i, j, k)
  BY <1>2, OverFirst, HostNameIs DEF HostOf
<1> QED
  BY <1>1, <1>4, <1>5, <1>6

\* A word of a pattern that stays, as a name of one token.
Token(w) == <<w>>

\* A word that is no dash joins no names.
LEMMA TokenIs ==
  ASSUME NEW w \in Fixed, w # "-"
  PROVE  Token(w) \in Seq(Plain) /\ Token(w) \in Seq(Tokens)
BY DEF Token, Fixed, Plain, Tokens

\* Names of one word each are the same if the words are.
LEMMA TokenApart ==
  ASSUME NEW v, NEW w, Token(v) = Token(w)
  PROVE  v = w
BY DEF Token

\* A word that is no macro stays, as a name.
LEMMA TokenStays ==
  ASSUME NEW macros, FixedFree(macros), NEW w \in Fixed
  PROVE  Replaced(w, macros) = Token(w) /\ Replaced(w, macros) \in Seq(Tokens)
<1>1. w \notin DOMAIN macros
  BY DEF FixedFree
<1> QED
  BY <1>1, FixedStays DEF Token

\* A dash stays.
LEMMA DashStays ==
  ASSUME NEW macros, FixedFree(macros)
  PROVE  "-" \notin DOMAIN macros /\ Replaced("-", macros) \in Seq(Tokens)
<1>1. "-" \in Fixed
  BY DEF Fixed
<1> QED
  BY <1>1, TokenStays DEF FixedFree

\* The patterns of the operator, with what their macros stand for.
LEMMA ChiPattern ==
  ASSUME NEW macros, FixedFree(macros), ChiOf(macros) \in Seq(Tokens)
  PROVE  Named!Replace(<<"clickhouse", "-", "{chi}">>, macros) = Dashed(Token("clickhouse"), ChiOf(macros))
<1> DEFINE p == <<"clickhouse", "-", "{chi}">>
           n == 3
<1>1. n \in Nat \ {0} /\ n = 3 /\ DOMAIN p = 1 .. n /\ DashesAt(p, {2})
  BY DEF DashesAt
<1>2. p[1] = "clickhouse" /\ p[2] = "-" /\ p[3] = "{chi}"
  OBVIOUS
<1>3. "clickhouse" \in Fixed
  BY DEF Fixed
<1> HIDE DEF p, n
<1>4. Replaced(p[1], macros) = Token("clickhouse") /\ Replaced(p[1], macros) \in Seq(Tokens)
  BY <1>2, <1>3, TokenStays
<1>5. Replaced(p[3], macros) = ChiOf(macros)
  BY <1>2 DEF ChiOf
<1>6. Replaced(p[2], macros) \in Seq(Tokens) /\ "-" \notin DOMAIN macros
  BY <1>2, DashStays
<1>7. Replaceable(Tokens, p, macros, n)
  <2>1. ASSUME NEW i \in 1 .. n PROVE Replaced(p[i], macros) \in Seq(Tokens)
    <3>1. i = 1 \/ i = 2 \/ i = 3
      BY <1>1
    <3> QED
      BY <1>4, <1>5, <1>6, <3>1
  <2> QED
    BY <2>1 DEF Replaceable
<1>8. Named!Replace(p, macros) = Dashed(Replaced(p[1], macros), Replaced(p[3], macros))
  BY <1>1, <1>6, <1>7, ReplaceTwo
<1> QED
  BY <1>4, <1>5, <1>8 DEF p

\* The pattern of the Service of a cluster,
LEMMA ClusterPattern ==
  ASSUME NEW macros, FixedFree(macros), ChiOf(macros) \in Seq(Tokens), ClusterOf(macros) \in Seq(Tokens)
  PROVE  Named!Replace(<<"cluster", "-", "{chi}", "-", "{cluster}">>, macros) =
           Dashed(Token("cluster"), Dashed(ChiOf(macros), ClusterOf(macros)))
<1> DEFINE p == <<"cluster", "-", "{chi}", "-", "{cluster}">>
           n == 5
<1>1. n \in Nat \ {0} /\ n = 5 /\ DOMAIN p = 1 .. n /\ DashesAt(p, {2, 4})
  BY DEF DashesAt
<1>2. p[1] = "cluster" /\ p[2] = "-" /\ p[3] = "{chi}" /\ p[4] = "-" /\ p[5] = "{cluster}"
  OBVIOUS
<1>3. "cluster" \in Fixed
  BY DEF Fixed
<1> HIDE DEF p, n
<1>4. Replaced(p[1], macros) = Token("cluster") /\ Replaced(p[1], macros) \in Seq(Tokens)
  BY <1>2, <1>3, TokenStays
<1>5. Replaced(p[3], macros) = ChiOf(macros) /\ Replaced(p[5], macros) = ClusterOf(macros)
  BY <1>2 DEF ChiOf, ClusterOf
<1>6. /\ Replaced(p[2], macros) \in Seq(Tokens) /\ Replaced(p[4], macros) \in Seq(Tokens)
      /\ "-" \notin DOMAIN macros
  BY <1>2, DashStays
<1>7. Replaceable(Tokens, p, macros, n)
  <2>1. ASSUME NEW i \in 1 .. n PROVE Replaced(p[i], macros) \in Seq(Tokens)
    <3>1. i = 1 \/ i = 2 \/ i = 3 \/ i = 4 \/ i = 5
      BY <1>1
    <3> QED
      BY <1>4, <1>5, <1>6, <3>1
  <2> QED
    BY <2>1 DEF Replaceable
<1>8. Named!Replace(p, macros) =
        Dashed(Replaced(p[1], macros), Dashed(Replaced(p[3], macros), Replaced(p[5], macros)))
  BY <1>1, <1>6, <1>7, ReplaceThree
<1> QED
  BY <1>4, <1>5, <1>8 DEF p

\* of a shard,
LEMMA ShardPattern ==
  ASSUME NEW macros, FixedFree(macros), ChiOf(macros) \in Seq(Tokens), ClusterOf(macros) \in Seq(Tokens),
         ShardOf(macros) \in Seq(Tokens)
  PROVE  Named!Replace(<<"shard", "-", "{chi}", "-", "{cluster}", "-", "{shard}">>, macros) =
           Dashed(Token("shard"), Dashed(ChiOf(macros), Dashed(ClusterOf(macros), ShardOf(macros))))
<1> DEFINE p == <<"shard", "-", "{chi}", "-", "{cluster}", "-", "{shard}">>
           n == 7
<1>1. n \in Nat \ {0} /\ n = 7 /\ DOMAIN p = 1 .. n /\ DashesAt(p, {2, 4, 6})
  BY DEF DashesAt
<1>2. /\ p[1] = "shard" /\ p[2] = "-" /\ p[3] = "{chi}" /\ p[4] = "-" /\ p[5] = "{cluster}"
      /\ p[6] = "-" /\ p[7] = "{shard}"
  OBVIOUS
<1>3. "shard" \in Fixed
  BY DEF Fixed
<1> HIDE DEF p, n
<1>4. Replaced(p[1], macros) = Token("shard") /\ Replaced(p[1], macros) \in Seq(Tokens)
  BY <1>2, <1>3, TokenStays
<1>5. /\ Replaced(p[3], macros) = ChiOf(macros) /\ Replaced(p[5], macros) = ClusterOf(macros)
      /\ Replaced(p[7], macros) = ShardOf(macros)
  BY <1>2 DEF ChiOf, ClusterOf, ShardOf
<1>6. /\ Replaced(p[2], macros) \in Seq(Tokens) /\ Replaced(p[4], macros) \in Seq(Tokens)
      /\ Replaced(p[6], macros) \in Seq(Tokens) /\ "-" \notin DOMAIN macros
  BY <1>2, DashStays
<1>7. Replaceable(Tokens, p, macros, n)
  <2>1. ASSUME NEW i \in 1 .. n PROVE Replaced(p[i], macros) \in Seq(Tokens)
    <3>1. i = 1 \/ i = 2 \/ i = 3 \/ i = 4 \/ i = 5 \/ i = 6 \/ i = 7
      BY <1>1
    <3> QED
      BY <1>4, <1>5, <1>6, <3>1
  <2> QED
    BY <2>1 DEF Replaceable
<1>8. Named!Replace(p, macros) =
        Dashed(Replaced(p[1], macros),
          Dashed(Replaced(p[3], macros), Dashed(Replaced(p[5], macros), Replaced(p[7], macros))))
  BY <1>1, <1>6, <1>7, ReplaceFour
<1> QED
  BY <1>4, <1>5, <1>8 DEF p

\* and of the Service and the StatefulSet of a host.
LEMMA HostPattern ==
  ASSUME NEW macros, FixedFree(macros), ChiOf(macros) \in Seq(Tokens), ClusterOf(macros) \in Seq(Tokens),
         HostOf(macros) \in Seq(Tokens)
  PROVE  Named!Replace(<<"chi", "-", "{chi}", "-", "{cluster}", "-", "{host}">>, macros) =
           Dashed(Token("chi"), Dashed(ChiOf(macros), Dashed(ClusterOf(macros), HostOf(macros))))
<1> DEFINE p == <<"chi", "-", "{chi}", "-", "{cluster}", "-", "{host}">>
           n == 7
<1>1. n \in Nat \ {0} /\ n = 7 /\ DOMAIN p = 1 .. n /\ DashesAt(p, {2, 4, 6})
  BY DEF DashesAt
<1>2. /\ p[1] = "chi" /\ p[2] = "-" /\ p[3] = "{chi}" /\ p[4] = "-" /\ p[5] = "{cluster}"
      /\ p[6] = "-" /\ p[7] = "{host}"
  OBVIOUS
<1>3. "chi" \in Fixed
  BY DEF Fixed
<1> HIDE DEF p, n
<1>4. Replaced(p[1], macros) = Token("chi") /\ Replaced(p[1], macros) \in Seq(Tokens)
  BY <1>2, <1>3, TokenStays
<1>5. /\ Replaced(p[3], macros) = ChiOf(macros) /\ Replaced(p[5], macros) = ClusterOf(macros)
      /\ Replaced(p[7], macros) = HostOf(macros)
  BY <1>2 DEF ChiOf, ClusterOf, HostOf
<1>6. /\ Replaced(p[2], macros) \in Seq(Tokens) /\ Replaced(p[4], macros) \in Seq(Tokens)
      /\ Replaced(p[6], macros) \in Seq(Tokens) /\ "-" \notin DOMAIN macros
  BY <1>2, DashStays
<1>7. Replaceable(Tokens, p, macros, n)
  <2>1. ASSUME NEW i \in 1 .. n PROVE Replaced(p[i], macros) \in Seq(Tokens)
    <3>1. i = 1 \/ i = 2 \/ i = 3 \/ i = 4 \/ i = 5 \/ i = 6 \/ i = 7
      BY <1>1
    <3> QED
      BY <1>4, <1>5, <1>6, <3>1
  <2> QED
    BY <2>1 DEF Replaceable
<1>8. Named!Replace(p, macros) =
        Dashed(Replaced(p[1], macros),
          Dashed(Replaced(p[3], macros), Dashed(Replaced(p[5], macros), Replaced(p[7], macros))))
  BY <1>1, <1>6, <1>7, ReplaceFour
<1> QED
  BY <1>4, <1>5, <1>8 DEF p

\* The patterns of the ConfigMaps of a CHI,
LEMMA CommonPattern ==
  ASSUME NEW macros, FixedFree(macros), ChiOf(macros) \in Seq(Tokens), NEW last \in Fixed
  PROVE  Named!Replace(<<"chi", "-", "{chi}", "-", "common", "-", last>>, macros) =
           Dashed(Token("chi"), Dashed(ChiOf(macros), Dashed(Token("common"), Token(last))))
<1> DEFINE p == <<"chi", "-", "{chi}", "-", "common", "-", last>>
           n == 7
<1>1. n \in Nat \ {0} /\ n = 7 /\ DOMAIN p = 1 .. n /\ DashesAt(p, {2, 4, 6})
  BY DEF DashesAt
<1>2. /\ p[1] = "chi" /\ p[2] = "-" /\ p[3] = "{chi}" /\ p[4] = "-" /\ p[5] = "common"
      /\ p[6] = "-" /\ p[7] = last
  OBVIOUS
<1>3. "chi" \in Fixed /\ "common" \in Fixed
  BY DEF Fixed
<1> HIDE DEF p, n
<1>4. /\ Replaced(p[1], macros) = Token("chi") /\ Replaced(p[1], macros) \in Seq(Tokens)
      /\ Replaced(p[5], macros) = Token("common") /\ Replaced(p[5], macros) \in Seq(Tokens)
      /\ Replaced(p[7], macros) = Token(last) /\ Replaced(p[7], macros) \in Seq(Tokens)
  BY <1>2, <1>3, TokenStays
<1>5. Replaced(p[3], macros) = ChiOf(macros)
  BY <1>2 DEF ChiOf
<1>6. /\ Replaced(p[2], macros) \in Seq(Tokens) /\ Replaced(p[4], macros) \in Seq(Tokens)
      /\ Replaced(p[6], macros) \in Seq(Tokens) /\ "-" \notin DOMAIN macros
  BY <1>2, DashStays
<1>7. Replaceable(Tokens, p, macros, n)
  <2>1. ASSUME NEW i \in 1 .. n PROVE Replaced(p[i], macros) \in Seq(Tokens)
    <3>1. i = 1 \/ i = 2 \/ i = 3 \/ i = 4 \/ i = 5 \/ i = 6 \/ i = 7
      BY <1>1
    <3> QED
      BY <1>4, <1>5, <1>6, <3>1
  <2> QED
    BY <2>1 DEF Replaceable
<1>8. Named!Replace(p, macros) =
        Dashed(Replaced(p[1], macros),
          Dashed(Replaced(p[3], macros), Dashed(Replaced(p[5], macros), Replaced(p[7], macros))))
  BY <1>1, <1>6, <1>7, ReplaceFour
<1> QED
  BY <1>4, <1>5, <1>8 DEF p

\* and of the ConfigMap of a host.
LEMMA ConfigPattern ==
  ASSUME NEW macros, FixedFree(macros), ChiOf(macros) \in Seq(Tokens), ClusterOf(macros) \in Seq(Tokens),
         HostOf(macros) \in Seq(Tokens)
  PROVE  Named!Replace(Named!ConfigMapHost, macros) =
           Dashed(Token("chi"), Dashed(ChiOf(macros),
             Dashed(Token("deploy"), Dashed(Token("confd"), Dashed(ClusterOf(macros), HostOf(macros))))))
<1> DEFINE p == Named!ConfigMapHost
           n == 11
<1>1. n \in Nat \ {0} /\ n = 11 /\ DOMAIN p = 1 .. n
  BY DEF Named!ConfigMapHost
<1>2. /\ p[1] = "chi" /\ p[2] = "-" /\ p[3] = "{chi}" /\ p[4] = "-" /\ p[5] = "deploy"
      /\ p[6] = "-" /\ p[7] = "confd" /\ p[8] = "-" /\ p[9] = "{cluster}" /\ p[10] = "-" /\ p[11] = "{host}"
  BY DEF Named!ConfigMapHost
<1>3. "chi" \in Fixed /\ "deploy" \in Fixed /\ "confd" \in Fixed
  BY DEF Fixed
<1>9. DashesAt(p, {2, 4, 6, 8, 10})
  BY <1>2 DEF DashesAt
<1> HIDE DEF p, n
<1>4. /\ Replaced(p[1], macros) = Token("chi") /\ Replaced(p[1], macros) \in Seq(Tokens)
      /\ Replaced(p[5], macros) = Token("deploy") /\ Replaced(p[5], macros) \in Seq(Tokens)
      /\ Replaced(p[7], macros) = Token("confd") /\ Replaced(p[7], macros) \in Seq(Tokens)
  BY <1>2, <1>3, TokenStays
<1>5. /\ Replaced(p[3], macros) = ChiOf(macros) /\ Replaced(p[9], macros) = ClusterOf(macros)
      /\ Replaced(p[11], macros) = HostOf(macros)
  BY <1>2 DEF ChiOf, ClusterOf, HostOf
<1>6. /\ Replaced(p[2], macros) \in Seq(Tokens) /\ Replaced(p[4], macros) \in Seq(Tokens)
      /\ Replaced(p[6], macros) \in Seq(Tokens) /\ Replaced(p[8], macros) \in Seq(Tokens)
      /\ Replaced(p[10], macros) \in Seq(Tokens) /\ "-" \notin DOMAIN macros
  BY <1>2, DashStays
<1>7. Replaceable(Tokens, p, macros, n)
  <2>1. ASSUME NEW i \in 1 .. n PROVE Replaced(p[i], macros) \in Seq(Tokens)
    <3>1. \/ i = 1 \/ i = 2 \/ i = 3 \/ i = 4 \/ i = 5 \/ i = 6
          \/ i = 7 \/ i = 8 \/ i = 9 \/ i = 10 \/ i = 11
      BY <1>1
    <3> QED
      BY <1>4, <1>5, <1>6, <3>1
  <2> QED
    BY <2>1 DEF Replaceable
<1>8. Named!Replace(p, macros) =
        Dashed(Replaced(p[1], macros),
          Dashed(Replaced(p[3], macros), Dashed(Replaced(p[5], macros),
            Dashed(Replaced(p[7], macros), Dashed(Replaced(p[9], macros), Replaced(p[11], macros))))))
  BY <1>1, <1>6, <1>7, <1>9, ReplaceSix
<1>10. Named!ConfigMapHost = p
  BY DEF p
<1> QED
  BY <1>4, <1>5, <1>8, <1>10, Zenon

-----------------------------------------------------------------------------
(* The objects of a CHI                                                    *)

\* The objects of a CHI.
OfCluster(l, i) == {h \in Named!Hosts(l) : h[1] = i}
OfShard(l, i, j) == {h \in Named!Hosts(l) : h[1] = i /\ h[2] = j}

ChiService(c, l) ==
  Named!Service(c, "chi", Named!ChiMacros(c), Named!SelectorCHIScope(c), Named!Hosts(l))
CommonConfig(c, l) ==
  Named!ConfigMap(c, Named!ConfigMapCommon, Named!ChiMacros(c), Named!SelectorCHIScope(c), Named!Hosts(l))
CommonUsers(c, l) ==
  Named!ConfigMap(c, Named!ConfigMapCommonUsers, Named!ChiMacros(c), Named!SelectorCHIScope(c), Named!Hosts(l))
ClusterService(c, l, i) ==
  Named!Service(c, "cluster", Named!ClusterMacros(c, l, i), Named!SelectorClusterScope(c, l, i), OfCluster(l, i))
ShardService(c, l, i, j) ==
  Named!Service(c, "shard", Named!ShardMacros(c, l, i, j), Named!SelectorShardScope(c, l, i, j), OfShard(l, i, j))
HostConfig(c, l, i, j, k) ==
  Named!ConfigMap(c, Named!ConfigMapHost, Named!HostMacros(c, l, i, j, k),
                  Named!SelectorHostScope(c, l, i, j, k), {<<i, j, k>>})
HostSet(c, l, i, j, k) ==
  Named!Object(c, "StatefulSet", Named!Replace(Named!Pattern("pod"), Named!HostMacros(c, l, i, j, k)),
               Named!SelectorHostScope(c, l, i, j, k), Named!SelectorHostScope(c, l, i, j, k), {<<i, j, k>>})
HostService(c, l, i, j, k) ==
  Named!Service(c, "host", Named!HostMacros(c, l, i, j, k), Named!SelectorHostScope(c, l, i, j, k), {<<i, j, k>>})

OneOfThree(o, a, b, c) == o = a \/ o = b \/ o = c

OfAHost(c, l, i, j, k, o) ==
  OneOfThree(o, HostConfig(c, l, i, j, k), HostSet(c, l, i, j, k), HostService(c, l, i, j, k))
InShard(c, l, i, j, o) ==
  \/ Template["shard"] # None /\ o = ShardService(c, l, i, j)
  \/ \E k \in DOMAIN l[i].shards[j].hosts : OfAHost(c, l, i, j, k, o)
InCluster(c, l, i, o) ==
  \/ Template["cluster"] # None /\ o = ClusterService(c, l, i)
  \/ \E j \in DOMAIN l[i].shards : InShard(c, l, i, j, o)
InChi(c, l, o) ==
  \/ OneOfThree(o, ChiService(c, l), CommonConfig(c, l), CommonUsers(c, l))
  \/ \E i \in DOMAIN l : InCluster(c, l, i, o)

\* The elements of a list of three.
LEMMA ThreeRange ==
  ASSUME NEW a, NEW b, NEW c
  PROVE  /\ <<a, b, c>> \in Seq({a, b, c})
         /\ \A o : o \in Named!Range(<<a, b, c>>) <=> OneOfThree(o, a, b, c)
<1>1. DOMAIN <<a, b, c>> = 1 .. 3
  OBVIOUS
<1> QED
  BY <1>1 DEF Named!Range, OneOfThree

\* A sequence, whatever its elements.
Listing(s) == s \in Seq(Named!Range(s))

\* A sequence lists its elements.
LEMMA ListingIs ==
  ASSUME NEW M, NEW s \in Seq(M)
  PROVE  Listing(s)
<1>1. DOMAIN s = 1 .. Len(s) /\ Len(s) \in Nat /\ \A i \in DOMAIN s : s[i] \in Named!Range(s)
  BY DEF Named!Range
<1> DEFINE R == Named!Range(s)
<1>2. \A i \in 1 .. Len(s) : s[i] \in R
  BY <1>1
<1> HIDE DEF R
<1>3. s \in Seq(R)
  BY <1>1, <1>2
<1> QED
  BY <1>3 DEF Listing, R

\* It is one over any larger set.
LEMMA ListingOver ==
  ASSUME NEW s, Listing(s), NEW M, \A x : x \in Named!Range(s) => x \in M
  PROVE  s \in Seq(M)
<1> DEFINE R == Named!Range(s)
<1>1. s \in Seq(R) /\ \A x \in R : x \in M
  BY DEF Listing
<1> HIDE DEF R
<1> QED
  BY <1>1

\* A list of three lists three.
LEMMA ThreeListed ==
  ASSUME NEW a, NEW b, NEW c, NEW o
  PROVE  Listing(<<a, b, c>>) /\ (o \in Named!Range(<<a, b, c>>) <=> OneOfThree(o, a, b, c))
<1>1. <<a, b, c>> \in Seq({a, b, c})
  OBVIOUS
<1>2. Listing(<<a, b, c>>)
  BY <1>1, ListingIs
<1> QED
  BY <1>2, ThreeRange

\* A sequence after another, and after one that is there or not.
LEMMA AfterListed ==
  ASSUME NEW s, Listing(s), NEW t, Listing(t), NEW o
  PROVE  /\ Listing(After(s, t))
         /\ o \in Named!Range(After(s, t)) <=> o \in Named!Range(s) \/ o \in Named!Range(t)
<1> DEFINE M == Named!Range(s) \cup Named!Range(t)
<1>1. (\A x : x \in Named!Range(s) => x \in M) /\ (\A x : x \in Named!Range(t) => x \in M)
  OBVIOUS
<1> HIDE DEF M
<1>2. s \in Seq(M) /\ t \in Seq(M)
  BY <1>1, ListingOver
<1> QED
  BY <1>2, AfterIs, AfterRange, ListingIs

\* A list with an object before it, or without.
LEMMA MaybeListed ==
  ASSUME NEW a, NEW P \in BOOLEAN, NEW s, Listing(s), NEW o
  PROVE  /\ Listing(After(IF P THEN << >> ELSE <<a>>, s))
         /\ o \in Named!Range(After(IF P THEN << >> ELSE <<a>>, s)) <=> (~P /\ o = a) \/ o \in Named!Range(s)
<1>1. CASE P
  <2>1. << >> \in Seq({a}) /\ o \notin Named!Range(<< >>)
    BY DEF Named!Range
  <2>2. Listing(<< >>)
    BY <2>1, ListingIs
  <2>3. /\ Listing(After(<< >>, s))
        /\ o \in Named!Range(After(<< >>, s)) <=> o \in Named!Range(<< >>) \/ o \in Named!Range(s)
    BY <2>2, AfterListed
  <2> QED
    BY <1>1, <2>1, <2>3
<1>2. CASE ~P
  <2>1. <<a>> \in Seq({a}) /\ (o \in Named!Range(<<a>>) <=> o = a)
    BY DEF Named!Range
  <2>2. Listing(<<a>>)
    BY <2>1, ListingIs
  <2>3. /\ Listing(After(<<a>>, s))
        /\ o \in Named!Range(After(<<a>>, s)) <=> o \in Named!Range(<<a>>) \/ o \in Named!Range(s)
    BY <2>2, AfterListed
  <2> QED
    BY <1>2, <2>1, <2>3
<1> QED
  BY <1>1, <1>2

\* Lists that are flattened list what each of them does.
LEMMA FlattenListed ==
  ASSUME NEW n \in Nat, NEW s, s = [i \in 1 .. n |-> s[i]], \A i \in 1 .. n : Listing(s[i]), NEW o
  PROVE  /\ Listing(Named!FlattenSeq(s))
         /\ o \in Named!Range(Named!FlattenSeq(s)) <=> \E i \in 1 .. n : o \in Named!Range(s[i])
<1> DEFINE M == UNION {Named!Range(s[i]) : i \in 1 .. n}
<1>1. ASSUME NEW i \in 1 .. n PROVE s[i] \in Seq(M)
  <2>1. \A x : x \in Named!Range(s[i]) => x \in M
    OBVIOUS
  <2> HIDE DEF M
  <2> QED
    BY <2>1, ListingOver
<1> HIDE DEF M
<1> DEFINE T == Seq(M)
<1>2. s \in [1 .. n -> T]
  <2>1. \A i \in 1 .. n : s[i] \in T
    BY <1>1
  <2> HIDE DEF T
  <2> QED
    BY <2>1
<1>3. /\ Named!FlattenSeq(s) \in Seq(M)
      /\ \A x : x \in Named!Range(Named!FlattenSeq(s)) <=> \E i \in 1 .. n : x \in Named!Range(s[i])
  BY <1>2, FlattenRange
<1> QED
  BY <1>3, ListingIs

\* Where there are places, there are numbers of them.
LEMMA PlacesAre ==
  ASSUME NEW l, Named!WellNamedLayout(l)
  PROVE  /\ Len(l) \in Nat /\ DOMAIN l = 1 .. Len(l)
         /\ \A i \in DOMAIN l :
              /\ Len(l[i].shards) \in Nat /\ DOMAIN l[i].shards = 1 .. Len(l[i].shards)
              /\ \A j \in DOMAIN l[i].shards :
                   Len(l[i].shards[j].hosts) \in Nat /\ DOMAIN l[i].shards[j].hosts = 1 .. Len(l[i].shards[j].hosts)
<1>1. l \in Seq(Named!WellNamedClusters)
  BY DEF Named!WellNamedLayout
<1>2. ASSUME NEW i \in DOMAIN l PROVE Len(l[i].shards) \in Nat /\ DOMAIN l[i].shards = 1 .. Len(l[i].shards)
  BY ClusterIs
<1>3. ASSUME NEW i \in DOMAIN l, NEW j \in DOMAIN l[i].shards
      PROVE  Len(l[i].shards[j].hosts) \in Nat /\ DOMAIN l[i].shards[j].hosts = 1 .. Len(l[i].shards[j].hosts)
  BY ShardIs DEF ShardIn
<1> QED
  BY <1>1, <1>2, <1>3

\* A pass makes these objects and no others.
LEMMA HostObjectsAre ==
  ASSUME NEW c, NEW l, NEW i, NEW j, NEW k, NEW o
  PROVE  /\ Listing(Named!HostObjects(c, l, i, j, k))
         /\ o \in Named!Range(Named!HostObjects(c, l, i, j, k)) <=> OfAHost(c, l, i, j, k, o)
<1>1. Named!HostObjects(c, l, i, j, k) = <<HostConfig(c, l, i, j, k), HostSet(c, l, i, j, k), HostService(c, l, i, j, k)>>
  BY DEF Named!HostObjects, HostConfig, HostSet, HostService
<1> QED
  BY <1>1, ThreeListed DEF OfAHost

\* The objects of a shard are its Service, if it has more than one host, and
\* those of its hosts.
LEMMA ShardObjectsAre ==
  ASSUME NEW c, NEW l, Named!WellNamedLayout(l), NEW i, NEW j, ShardIn(l, i, j), NEW o
  PROVE  /\ Listing(Named!ShardObjects(c, l, i, j))
         /\ o \in Named!Range(Named!ShardObjects(c, l, i, j)) <=> InShard(c, l, i, j, o)
<1> DEFINE n == Len(l[i].shards[j].hosts)
           s == [k \in 1 .. n |-> Named!HostObjects(c, l, i, j, k)]
           flat == Named!FlattenSeq(s)
           none == Template["shard"] = None
<1>1. n \in Nat /\ DOMAIN l[i].shards[j].hosts = 1 .. n
  BY PlacesAre DEF ShardIn
<1>2. Named!ShardObjects(c, l, i, j) = After(IF none THEN << >> ELSE <<ShardService(c, l, i, j)>>, flat)
  BY <1>1 DEF Named!ShardObjects, Named!ServiceIfTemplate, ShardService, OfShard, After
<1>3. /\ s = [k \in 1 .. n |-> s[k]]
      /\ \A k \in 1 .. n : s[k] = Named!HostObjects(c, l, i, j, k)
  OBVIOUS
<1>4. \A k \in 1 .. n : Listing(s[k]) /\ (o \in Named!Range(s[k]) <=> OfAHost(c, l, i, j, k, o))
  BY <1>3, HostObjectsAre
<1> HIDE DEF n, s
<1>5. Listing(flat) /\ (o \in Named!Range(flat) <=> \E k \in 1 .. n : o \in Named!Range(s[k]))
  BY <1>1, <1>3, <1>4, FlattenListed
<1> HIDE DEF flat
<1>6. /\ Listing(After(IF none THEN << >> ELSE <<ShardService(c, l, i, j)>>, flat))
      /\ o \in Named!Range(After(IF none THEN << >> ELSE <<ShardService(c, l, i, j)>>, flat)) <=>
           (~none /\ o = ShardService(c, l, i, j)) \/ o \in Named!Range(flat)
  <2>1. none \in BOOLEAN
    OBVIOUS
  <2> HIDE DEF none
  <2> QED
    BY <1>5, <2>1, MaybeListed
<1> QED
  BY <1>1, <1>2, <1>4, <1>5, <1>6 DEF InShard

\* Those of a cluster are its Service and those of its shards.
LEMMA ClusterObjectsAre ==
  ASSUME NEW c, NEW l, Named!WellNamedLayout(l), NEW i \in DOMAIN l, NEW o
  PROVE  /\ Listing(Named!ClusterObjects(c, l, i))
         /\ o \in Named!Range(Named!ClusterObjects(c, l, i)) <=> InCluster(c, l, i, o)
<1> DEFINE n == Len(l[i].shards)
           s == [j \in 1 .. n |-> Named!ShardObjects(c, l, i, j)]
           flat == Named!FlattenSeq(s)
           none == Template["cluster"] = None
<1>1. n \in Nat /\ DOMAIN l[i].shards = 1 .. n
  BY PlacesAre
<1>2. Named!ClusterObjects(c, l, i) = After(IF none THEN << >> ELSE <<ClusterService(c, l, i)>>, flat)
  BY <1>1 DEF Named!ClusterObjects, Named!ServiceIfTemplate, ClusterService, OfCluster, After
<1>3. /\ s = [j \in 1 .. n |-> s[j]]
      /\ \A j \in 1 .. n : s[j] = Named!ShardObjects(c, l, i, j) /\ ShardIn(l, i, j)
  BY <1>1 DEF ShardIn
<1>4. \A j \in 1 .. n : Listing(s[j]) /\ (o \in Named!Range(s[j]) <=> InShard(c, l, i, j, o))
  BY <1>3, ShardObjectsAre
<1> HIDE DEF n, s
<1>5. Listing(flat) /\ (o \in Named!Range(flat) <=> \E j \in 1 .. n : o \in Named!Range(s[j]))
  BY <1>1, <1>3, <1>4, FlattenListed
<1> HIDE DEF flat
<1>6. /\ Listing(After(IF none THEN << >> ELSE <<ClusterService(c, l, i)>>, flat))
      /\ o \in Named!Range(After(IF none THEN << >> ELSE <<ClusterService(c, l, i)>>, flat)) <=>
           (~none /\ o = ClusterService(c, l, i)) \/ o \in Named!Range(flat)
  <2>1. none \in BOOLEAN
    OBVIOUS
  <2> HIDE DEF none
  <2> QED
    BY <1>5, <2>1, MaybeListed
<1> QED
  BY <1>1, <1>2, <1>4, <1>5, <1>6 DEF InCluster

\* Those of a CHI are its own three and those of its clusters.
LEMMA ObjectsAre ==
  ASSUME NEW c, NEW l, Named!WellNamedLayout(l), NEW o
  PROVE  Listing(Named!Objects(c, l)) /\ (o \in Named!Range(Named!Objects(c, l)) <=> InChi(c, l, o))
<1> DEFINE n == Len(l)
           s == [i \in 1 .. n |-> Named!ClusterObjects(c, l, i)]
           flat == Named!FlattenSeq(s)
           three == <<ChiService(c, l), CommonConfig(c, l), CommonUsers(c, l)>>
<1>1. n \in Nat /\ DOMAIN l = 1 .. n
  BY PlacesAre
<1>2. Named!Objects(c, l) = After(three, flat)
  BY <1>1 DEF Named!Objects, ChiService, CommonConfig, CommonUsers, After
<1>3. /\ s = [i \in 1 .. n |-> s[i]]
      /\ \A i \in 1 .. n : s[i] = Named!ClusterObjects(c, l, i) /\ i \in DOMAIN l
  BY <1>1
<1>4. \A i \in 1 .. n : Listing(s[i]) /\ (o \in Named!Range(s[i]) <=> InCluster(c, l, i, o))
  BY <1>3, ClusterObjectsAre
<1> HIDE DEF n, s
<1>5. Listing(flat) /\ (o \in Named!Range(flat) <=> \E i \in 1 .. n : o \in Named!Range(s[i]))
  BY <1>1, <1>3, <1>4, FlattenListed
<1>6. Listing(three) /\ (o \in Named!Range(three) <=> OneOfThree(o, ChiService(c, l), CommonConfig(c, l), CommonUsers(c, l)))
  BY ThreeListed
<1> HIDE DEF flat, three
<1>7. Listing(After(three, flat)) /\ (o \in Named!Range(After(three, flat)) <=> o \in Named!Range(three) \/ o \in Named!Range(flat))
  BY <1>5, <1>6, AfterListed
<1> QED
  BY <1>1, <1>2, <1>4, <1>5, <1>6, <1>7 DEF InChi

-----------------------------------------------------------------------------
(* Their names                                                             *)

\* The patterns that are used.
LEMMA PatternIs ==
  ASSUME Named!WellNamed, NEW scope \in {"chi", "cluster", "shard", "host", "pod"}
  PROVE  Named!Pattern(scope) = Named!Default[scope]
<1>1. scope \in DOMAIN Named!Default
  BY DEF Named!Default
<1> QED
  BY <1>1 DEF Named!WellNamed, Named!Pattern

\* The names of the objects: of the CHI, of a cluster, a shard and a host.
NameOfChi(c) == Dashed(Token("clickhouse"), c)
NameOfCommon(c, last) == Dashed(Token("chi"), Dashed(c, Dashed(Token("common"), last)))
NameOfCluster(c, x) == Dashed(Token("cluster"), Dashed(c, x))
NameOfShard(c, x, s) == Dashed(Token("shard"), Dashed(c, Dashed(x, s)))
NameOfHost(c, x, h) == Dashed(Token("chi"), Dashed(c, Dashed(x, h)))
NameOfConfig(c, x, h) ==
  Dashed(Token("chi"), Dashed(c, Dashed(Token("deploy"), Dashed(Token("confd"), Dashed(x, h)))))

\* What the macros of a CHI stand for is a name.
LEMMA ChiParts ==
  ASSUME Named!WellNamed, NEW c \in Installations
  PROVE  /\ FixedFree(Named!ChiMacros(c)) /\ ChiOf(Named!ChiMacros(c)) = c
         /\ c \in Seq(Tokens) /\ c \in Seq(Plain)
<1>1. c \in Seq(Named!Letters)
  BY ChiNameIs
<1> QED
  BY <1>1, ChiMacrosAre, LettersPlain

\* The name of a cluster joins no others.
LEMMA ClusterParts ==
  ASSUME Named!WellNamed, NEW l, Named!WellNamedLayout(l), NEW i \in DOMAIN l
  PROVE  l[i].name \in Seq(Tokens) /\ l[i].name \in Seq(Plain)
<1>1. l[i].name \in Seq(Named!Letters)
  BY ClusterNameIs
<1> QED
  BY <1>1, LettersPlain

\* The name of a shard is one.
LEMMA ShardParts ==
  ASSUME Named!WellNamed, NEW l, Named!WellNamedLayout(l), NEW i, NEW j, ShardIn(l, i, j)
  PROVE  Named!ShardName(l, i, j) \in Seq(Tokens)
<1>1. Named!ShardName(l, i, j) \in Seq(Named!Letters)
  BY ShardNameIs
<1> QED
  BY <1>1, LettersPlain

\* The name of the Service of a CHI,
LEMMA ChiServiceName ==
  ASSUME Named!WellNamed, NEW c \in Installations
  PROVE  Named!Replace(Named!Pattern("chi"), Named!ChiMacros(c)) = NameOfChi(c)
<1>1. Named!Pattern("chi") = <<"clickhouse", "-", "{chi}">>
  BY PatternIs DEF Named!Default
<1>2. FixedFree(Named!ChiMacros(c)) /\ ChiOf(Named!ChiMacros(c)) = c /\ c \in Seq(Tokens)
  BY ChiParts
<1> QED
  BY <1>1, <1>2, ChiPattern DEF NameOfChi

\* of its ConfigMaps,
LEMMA CommonNames ==
  ASSUME Named!WellNamed, NEW c \in Installations
  PROVE  /\ Named!Replace(Named!ConfigMapCommon, Named!ChiMacros(c)) = NameOfCommon(c, Token("configd"))
         /\ Named!Replace(Named!ConfigMapCommonUsers, Named!ChiMacros(c)) = NameOfCommon(c, Token("usersd"))
<1>1. FixedFree(Named!ChiMacros(c)) /\ ChiOf(Named!ChiMacros(c)) = c /\ c \in Seq(Tokens)
  BY ChiParts
<1>2. "configd" \in Fixed /\ "usersd" \in Fixed
  BY DEF Fixed
<1> QED
  BY <1>1, <1>2, CommonPattern DEF NameOfCommon, Named!ConfigMapCommon, Named!ConfigMapCommonUsers

\* of the Service of a cluster,
LEMMA ClusterServiceName ==
  ASSUME Named!WellNamed, NEW c \in Installations, NEW l, Named!WellNamedLayout(l), NEW i \in DOMAIN l
  PROVE  Named!Replace(Named!Pattern("cluster"), Named!ClusterMacros(c, l, i)) = NameOfCluster(c, l[i].name)
<1> DEFINE m == Named!ClusterMacros(c, l, i)
<1>1. Named!Pattern("cluster") = <<"cluster", "-", "{chi}", "-", "{cluster}">>
  BY PatternIs DEF Named!Default
<1>2. FixedFree(m) /\ ChiOf(m) = c /\ ClusterOf(m) = l[i].name
  BY ClusterMacrosAre
<1>3. c \in Seq(Tokens) /\ l[i].name \in Seq(Tokens)
  BY ChiParts, ClusterParts
<1> HIDE DEF m
<1>4. Named!Replace(<<"cluster", "-", "{chi}", "-", "{cluster}">>, m) = NameOfCluster(c, l[i].name)
  BY <1>2, <1>3, ClusterPattern DEF NameOfCluster
<1> QED
  BY <1>1, <1>4 DEF m

\* of the Service of a shard,
LEMMA ShardServiceName ==
  ASSUME Named!WellNamed, NEW c \in Installations, NEW l, Named!WellNamedLayout(l), NEW i, NEW j, ShardIn(l, i, j)
  PROVE  Named!Replace(Named!Pattern("shard"), Named!ShardMacros(c, l, i, j)) =
           NameOfShard(c, l[i].name, Named!ShardName(l, i, j))
<1> DEFINE m == Named!ShardMacros(c, l, i, j)
<1>1. Named!Pattern("shard") = <<"shard", "-", "{chi}", "-", "{cluster}", "-", "{shard}">>
  BY PatternIs DEF Named!Default
<1>2. FixedFree(m) /\ ChiOf(m) = c /\ ClusterOf(m) = l[i].name /\ ShardOf(m) = Named!ShardName(l, i, j)
  BY ShardMacrosAre
<1>3. c \in Seq(Tokens) /\ l[i].name \in Seq(Tokens) /\ Named!ShardName(l, i, j) \in Seq(Tokens)
  BY ChiParts, ClusterParts, ShardParts DEF ShardIn
<1> HIDE DEF m
<1>4. Named!Replace(<<"shard", "-", "{chi}", "-", "{cluster}", "-", "{shard}">>, m) =
        NameOfShard(c, l[i].name, Named!ShardName(l, i, j))
  BY <1>2, <1>3, ShardPattern DEF NameOfShard
<1> QED
  BY <1>1, <1>4 DEF m

\* and of the objects of a host.
LEMMA HostObjectNames ==
  ASSUME Named!WellNamed, NEW c \in Installations, NEW l, Named!WellNamedLayout(l),
         NEW i, NEW j, NEW k, HostIn(l, i, j, k)
  PROVE  /\ Named!Replace(Named!Pattern("pod"), Named!HostMacros(c, l, i, j, k)) =
              NameOfHost(c, l[i].name, Named!HostName(l, i, j, k))
         /\ Named!Replace(Named!Pattern("host"), Named!HostMacros(c, l, i, j, k)) =
              NameOfHost(c, l[i].name, Named!HostName(l, i, j, k))
         /\ Named!Replace(Named!ConfigMapHost, Named!HostMacros(c, l, i, j, k)) =
              NameOfConfig(c, l[i].name, Named!HostName(l, i, j, k))
<1> DEFINE m == Named!HostMacros(c, l, i, j, k)
<1>1. /\ Named!Pattern("pod") = <<"chi", "-", "{chi}", "-", "{cluster}", "-", "{host}">>
      /\ Named!Pattern("host") = <<"chi", "-", "{chi}", "-", "{cluster}", "-", "{host}">>
  BY PatternIs DEF Named!Default
<1>2. FixedFree(m) /\ ChiOf(m) = c /\ ClusterOf(m) = l[i].name /\ HostOf(m) = Named!HostName(l, i, j, k)
  BY HostMacrosAre
<1>3. c \in Seq(Tokens) /\ l[i].name \in Seq(Tokens) /\ Named!HostName(l, i, j, k) \in Seq(Tokens)
  BY ChiParts, ClusterParts, HostNameIs DEF HostIn, ShardIn
<1> HIDE DEF m
<1>4. Named!Replace(<<"chi", "-", "{chi}", "-", "{cluster}", "-", "{host}">>, m) =
        NameOfHost(c, l[i].name, Named!HostName(l, i, j, k))
  BY <1>2, <1>3, HostPattern DEF NameOfHost
<1>5. Named!Replace(Named!ConfigMapHost, m) = NameOfConfig(c, l[i].name, Named!HostName(l, i, j, k))
  BY <1>2, <1>3, ConfigPattern DEF NameOfConfig
<1> QED
  BY <1>1, <1>4, <1>5 DEF m

\* The first word of a name.
Begun(name, w) == \E t \in Seq(Tokens) : name = Dashed(Token(w), t)
Firsts == Fixed \ {"-"}

\* A word that names begin with joins no others.
LEMMA FirstIs ==
  ASSUME NEW w \in Firsts
  PROVE  Token(w) \in Seq(Plain) /\ Token(w) \in Seq(Tokens)
<1>1. w \in Fixed /\ w # "-"
  BY DEF Firsts
<1> QED
  BY <1>1, TokenIs

\* A name begins with one word.
LEMMA BegunOnce ==
  ASSUME NEW v \in Firsts, NEW w \in Firsts, NEW name, Begun(name, v), Begun(name, w)
  PROVE  v = w
<1>1. PICK a \in Seq(Tokens) : name = Dashed(Token(v), a)
  BY DEF Begun
<1>2. PICK b \in Seq(Tokens) : name = Dashed(Token(w), b)
  BY DEF Begun
<1>3. Token(v) \in Seq(Plain) /\ Token(w) \in Seq(Plain)
  BY FirstIs
<1>4. Token(v) = Token(w)
  BY <1>1, <1>2, <1>3, DashedApart
<1> QED
  BY <1>4, TokenApart

\* A name in Kubernetes: one that may stand between dashes, or last.
Part(c) == c \in Seq(Plain) /\ c \in Seq(Tokens)
Last(h) == h \in Seq(Tokens)

\* A name after another is a name.
LEMMA PartDashed ==
  ASSUME NEW c, Part(c), NEW t, Last(t)
  PROVE  Last(Dashed(c, t))
BY DashedIs DEF Part, Last

\* A name of parts is taken apart in one way.
LEMMA PartsApart ==
  ASSUME NEW c, Part(c), NEW d, Part(d), NEW t, Last(t), NEW u, Last(u), Dashed(c, t) = Dashed(d, u)
  PROVE  c = d /\ t = u
BY DashedApart DEF Part, Last

\* A word that names begin with is a part of them.
LEMMA FirstPart ==
  ASSUME NEW w \in Firsts
  PROVE  Part(Token(w)) /\ Last(Token(w))
BY FirstIs DEF Part, Last

\* Names of objects are equal only where all their parts are.
LEMMA ChiNamesApart ==
  ASSUME NEW c, Part(c), NEW d, Part(d)
  PROVE  Begun(NameOfChi(c), "clickhouse") /\ (NameOfChi(c) = NameOfChi(d) => c = d)
<1>1. "clickhouse" \in Firsts
  BY DEF Firsts, Fixed
<1>2. Last(c) /\ Last(d) /\ Part(Token("clickhouse"))
  BY <1>1, FirstPart DEF Part, Last
<1> QED
  BY <1>2, PartsApart DEF Begun, NameOfChi, Last

\* So have clusters,
LEMMA ClusterNamesApart ==
  ASSUME NEW c, Part(c), NEW x, Part(x), NEW d, Part(d), NEW y, Part(y)
  PROVE  /\ Begun(NameOfCluster(c, x), "cluster")
         /\ NameOfCluster(c, x) = NameOfCluster(d, y) => c = d /\ x = y
<1>1. "cluster" \in Firsts
  BY DEF Firsts, Fixed
<1>2. Last(x) /\ Last(y) /\ Part(Token("cluster"))
  BY <1>1, FirstPart DEF Part, Last
<1>3. Last(Dashed(c, x)) /\ Last(Dashed(d, y))
  BY <1>2, PartDashed
<1> QED
  BY <1>2, <1>3, PartsApart DEF Begun, NameOfCluster, Last

\* shards,
LEMMA ShardNamesOfObjectsApart ==
  ASSUME NEW c, Part(c), NEW x, Part(x), NEW s, Last(s), NEW d, Part(d), NEW y, Part(y), NEW t, Last(t)
  PROVE  /\ Begun(NameOfShard(c, x, s), "shard")
         /\ NameOfShard(c, x, s) = NameOfShard(d, y, t) => c = d /\ x = y /\ s = t
<1>1. "shard" \in Firsts
  BY DEF Firsts, Fixed
<1>2. Part(Token("shard"))
  BY <1>1, FirstPart
<1>3. Last(Dashed(x, s)) /\ Last(Dashed(y, t))
  BY PartDashed
<1>4. Last(Dashed(c, Dashed(x, s))) /\ Last(Dashed(d, Dashed(y, t)))
  BY <1>3, PartDashed
<1>5. ASSUME NameOfShard(c, x, s) = NameOfShard(d, y, t) PROVE c = d /\ x = y /\ s = t
  <2>1. Dashed(c, Dashed(x, s)) = Dashed(d, Dashed(y, t))
    BY <1>2, <1>4, <1>5, PartsApart DEF NameOfShard
  <2>2. c = d /\ Dashed(x, s) = Dashed(y, t)
    BY <1>3, <2>1, PartsApart
  <2> QED
    BY <2>2, PartsApart
<1> QED
  BY <1>4, <1>5 DEF Begun, NameOfShard, Last

\* and hosts.
LEMMA HostNamesOfObjectsApart ==
  ASSUME NEW c, Part(c), NEW x, Part(x), NEW s, Last(s), NEW d, Part(d), NEW y, Part(y), NEW t, Last(t)
  PROVE  /\ Begun(NameOfHost(c, x, s), "chi")
         /\ NameOfHost(c, x, s) = NameOfHost(d, y, t) => c = d /\ x = y /\ s = t
<1>1. "chi" \in Firsts
  BY DEF Firsts, Fixed
<1>2. Part(Token("chi"))
  BY <1>1, FirstPart
<1>3. Last(Dashed(x, s)) /\ Last(Dashed(y, t))
  BY PartDashed
<1>4. Last(Dashed(c, Dashed(x, s))) /\ Last(Dashed(d, Dashed(y, t)))
  BY <1>3, PartDashed
<1>5. ASSUME NameOfHost(c, x, s) = NameOfHost(d, y, t) PROVE c = d /\ x = y /\ s = t
  <2>1. Dashed(c, Dashed(x, s)) = Dashed(d, Dashed(y, t))
    BY <1>2, <1>4, <1>5, PartsApart DEF NameOfHost
  <2>2. c = d /\ Dashed(x, s) = Dashed(y, t)
    BY <1>3, <2>1, PartsApart
  <2> QED
    BY <2>2, PartsApart
<1> QED
  BY <1>4, <1>5 DEF Begun, NameOfHost, Last

\* The ConfigMaps of a CHI and of its hosts.
LEMMA ConfigFirsts ==
  /\ Part(Token("chi")) /\ Part(Token("common")) /\ Part(Token("deploy")) /\ Part(Token("confd"))
  /\ Last(Token("configd")) /\ Last(Token("usersd"))
  /\ Token("common") # Token("deploy") /\ Token("configd") # Token("usersd")
<1>1. /\ "chi" \in Firsts /\ "common" \in Firsts /\ "deploy" \in Firsts /\ "confd" \in Firsts
      /\ "configd" \in Firsts /\ "usersd" \in Firsts
  BY DEF Firsts, Fixed
<1>2. Token("common") # Token("deploy") /\ Token("configd") # Token("usersd")
  BY DEF Token
<1> QED
  BY <1>1, <1>2, FirstPart

\* The ConfigMaps of CHIs,
LEMMA CommonNamesApart ==
  ASSUME NEW c, Part(c), NEW a, Last(a), NEW d, Part(d), NEW b, Last(b),
         NameOfCommon(c, a) = NameOfCommon(d, b)
  PROVE  c = d /\ a = b
<1> DEFINE chi == Token("chi")
           common == Token("common")
<1>1. Part(chi) /\ Part(common)
  BY ConfigFirsts
<1>2. /\ NameOfCommon(c, a) = Dashed(chi, Dashed(c, Dashed(common, a)))
      /\ NameOfCommon(d, b) = Dashed(chi, Dashed(d, Dashed(common, b)))
  BY DEF NameOfCommon
<1> HIDE DEF chi, common
<1>3. Last(Dashed(common, a)) /\ Last(Dashed(common, b))
  BY <1>1, PartDashed
<1>4. Last(Dashed(c, Dashed(common, a))) /\ Last(Dashed(d, Dashed(common, b)))
  BY <1>3, PartDashed
<1>7. Dashed(chi, Dashed(c, Dashed(common, a))) = Dashed(chi, Dashed(d, Dashed(common, b)))
  BY <1>2
<1>5. Dashed(c, Dashed(common, a)) = Dashed(d, Dashed(common, b))
  BY <1>1, <1>4, <1>7, PartsApart
<1>6. c = d /\ Dashed(common, a) = Dashed(common, b)
  BY <1>3, <1>5, PartsApart
<1> QED
  BY <1>1, <1>6, PartsApart

\* and those of hosts, have names of their own.
LEMMA ConfigNamesApart ==
  ASSUME NEW c, Part(c), NEW x, Part(x), NEW s, Last(s), NEW d, Part(d), NEW y, Part(y), NEW t, Last(t),
         NameOfConfig(c, x, s) = NameOfConfig(d, y, t)
  PROVE  c = d /\ x = y /\ s = t
<1> DEFINE chi == Token("chi")
           deploy == Token("deploy")
           confd == Token("confd")
<1>1. Part(chi) /\ Part(deploy) /\ Part(confd)
  BY ConfigFirsts
<1>2. /\ NameOfConfig(c, x, s) = Dashed(chi, Dashed(c, Dashed(deploy, Dashed(confd, Dashed(x, s)))))
      /\ NameOfConfig(d, y, t) = Dashed(chi, Dashed(d, Dashed(deploy, Dashed(confd, Dashed(y, t)))))
  BY DEF NameOfConfig
<1> HIDE DEF chi, deploy, confd
<1>3. Last(Dashed(x, s)) /\ Last(Dashed(y, t))
  BY PartDashed
<1>4. Last(Dashed(confd, Dashed(x, s))) /\ Last(Dashed(confd, Dashed(y, t)))
  BY <1>1, <1>3, PartDashed
<1>5. Last(Dashed(deploy, Dashed(confd, Dashed(x, s)))) /\ Last(Dashed(deploy, Dashed(confd, Dashed(y, t))))
  BY <1>1, <1>4, PartDashed
<1>6. /\ Last(Dashed(c, Dashed(deploy, Dashed(confd, Dashed(x, s)))))
      /\ Last(Dashed(d, Dashed(deploy, Dashed(confd, Dashed(y, t)))))
  BY <1>5, PartDashed
<1>11. /\ Dashed(chi, Dashed(c, Dashed(deploy, Dashed(confd, Dashed(x, s))))) =
          Dashed(chi, Dashed(d, Dashed(deploy, Dashed(confd, Dashed(y, t)))))
  BY <1>2
<1>7. Dashed(c, Dashed(deploy, Dashed(confd, Dashed(x, s)))) = Dashed(d, Dashed(deploy, Dashed(confd, Dashed(y, t))))
  BY <1>1, <1>6, <1>11, PartsApart
<1>8. c = d /\ Dashed(deploy, Dashed(confd, Dashed(x, s))) = Dashed(deploy, Dashed(confd, Dashed(y, t)))
  BY <1>5, <1>7, PartsApart
<1>9. Dashed(confd, Dashed(x, s)) = Dashed(confd, Dashed(y, t))
  BY <1>1, <1>4, <1>8, PartsApart
<1>10. Dashed(x, s) = Dashed(y, t)
  BY <1>1, <1>3, <1>9, PartsApart
<1> QED
  BY <1>8, <1>10, PartsApart

\* No ConfigMap of a CHI has the name of one of a host.
LEMMA CommonNotConfig ==
  ASSUME NEW c, Part(c), NEW a, Last(a), NEW d, Part(d), NEW x, Part(x), NEW s, Last(s)
  PROVE  NameOfCommon(c, a) # NameOfConfig(d, x, s)
<1> DEFINE common == Token("common")
           deploy == Token("deploy")
           rest == Dashed(Token("confd"), Dashed(x, s))
<1>1. Part(Token("chi")) /\ Part(common) /\ Part(deploy) /\ common # deploy
  BY ConfigFirsts
<1>2. Last(rest)
  <2>1. Last(Dashed(x, s)) /\ Part(Token("confd"))
    BY PartDashed, ConfigFirsts
  <2> QED
    BY <2>1, PartDashed
<1>3. /\ NameOfCommon(c, a) = Dashed(Token("chi"), Dashed(c, Dashed(common, a)))
      /\ NameOfConfig(d, x, s) = Dashed(Token("chi"), Dashed(d, Dashed(deploy, rest)))
  BY DEF NameOfCommon, NameOfConfig
<1> HIDE DEF common, deploy, rest
<1>4. Last(Dashed(common, a)) /\ Last(Dashed(deploy, rest))
  BY <1>1, <1>2, PartDashed
<1>5. Last(Dashed(c, Dashed(common, a))) /\ Last(Dashed(d, Dashed(deploy, rest)))
  BY <1>4, PartDashed
<1>6. SUFFICES ASSUME NameOfCommon(c, a) = NameOfConfig(d, x, s) PROVE FALSE
  OBVIOUS
<1>7. Dashed(c, Dashed(common, a)) = Dashed(d, Dashed(deploy, rest))
  BY <1>1, <1>3, <1>5, <1>6, PartsApart
<1>8. Dashed(common, a) = Dashed(deploy, rest)
  BY <1>4, <1>7, PartsApart
<1> QED
  BY <1>1, <1>2, <1>8, PartsApart

\* What an object is.
Is(o, c, kind, name, labels, selector, hosts) ==
  /\ o.owner = c /\ o.kind = kind /\ o.name = name
  /\ o.labels = labels /\ o.selector = selector /\ o.hosts = hosts

Kinds == {"Service", "ConfigMap", "StatefulSet"}

\* An object is what it is made of.
LEMMA ObjectIs ==
  ASSUME NEW c, NEW kind, NEW name, NEW labels, NEW selector, NEW hosts
  PROVE  Is(Named!Object(c, kind, name, labels, selector, hosts), c, kind, name, labels, selector, hosts)
BY DEF Is, Named!Object

\* The Service of a CHI is for all its hosts.
LEMMA ChiServiceIs ==
  ASSUME Named!WellNamed, NEW c \in Installations, NEW l
  PROVE  Is(ChiService(c, l), c, "Service", NameOfChi(c), Named!SelectorCHIScope(c),
            Named!SelectorCHIScope(c), Named!Hosts(l))
BY ChiServiceName, ObjectIs DEF ChiService, Named!Service

\* So is its ConfigMap of settings,
LEMMA CommonConfigIs ==
  ASSUME Named!WellNamed, NEW c \in Installations, NEW l
  PROVE  Is(CommonConfig(c, l), c, "ConfigMap", NameOfCommon(c, Token("configd")), Named!SelectorCHIScope(c),
            << >>, Named!Hosts(l))
BY CommonNames, ObjectIs DEF CommonConfig, Named!ConfigMap

\* and that of users.
LEMMA CommonUsersIs ==
  ASSUME Named!WellNamed, NEW c \in Installations, NEW l
  PROVE  Is(CommonUsers(c, l), c, "ConfigMap", NameOfCommon(c, Token("usersd")), Named!SelectorCHIScope(c),
            << >>, Named!Hosts(l))
BY CommonNames, ObjectIs DEF CommonUsers, Named!ConfigMap

\* The Service of a cluster is for the hosts of the cluster,
LEMMA ClusterServiceIs ==
  ASSUME Named!WellNamed, NEW c \in Installations, NEW l, Named!WellNamedLayout(l), NEW i \in DOMAIN l
  PROVE  Is(ClusterService(c, l, i), c, "Service", NameOfCluster(c, l[i].name),
            Named!SelectorClusterScope(c, l, i), Named!SelectorClusterScope(c, l, i), OfCluster(l, i))
BY ClusterServiceName, ObjectIs DEF ClusterService, Named!Service

\* that of a shard for those of the shard.
LEMMA ShardServiceIs ==
  ASSUME Named!WellNamed, NEW c \in Installations, NEW l, Named!WellNamedLayout(l), NEW i, NEW j, ShardIn(l, i, j)
  PROVE  Is(ShardService(c, l, i, j), c, "Service", NameOfShard(c, l[i].name, Named!ShardName(l, i, j)),
            Named!SelectorShardScope(c, l, i, j), Named!SelectorShardScope(c, l, i, j), OfShard(l, i, j))
BY ShardServiceName, ObjectIs DEF ShardService, Named!Service

\* The ConfigMap of a host is for that host,
LEMMA HostConfigIs ==
  ASSUME Named!WellNamed, NEW c \in Installations, NEW l, Named!WellNamedLayout(l),
         NEW i, NEW j, NEW k, HostIn(l, i, j, k)
  PROVE  Is(HostConfig(c, l, i, j, k), c, "ConfigMap", NameOfConfig(c, l[i].name, Named!HostName(l, i, j, k)),
            Named!SelectorHostScope(c, l, i, j, k), << >>, {<<i, j, k>>})
BY HostObjectNames, ObjectIs DEF HostConfig, Named!ConfigMap

\* so is its StatefulSet,
LEMMA HostSetIs ==
  ASSUME Named!WellNamed, NEW c \in Installations, NEW l, Named!WellNamedLayout(l),
         NEW i, NEW j, NEW k, HostIn(l, i, j, k)
  PROVE  Is(HostSet(c, l, i, j, k), c, "StatefulSet", NameOfHost(c, l[i].name, Named!HostName(l, i, j, k)),
            Named!SelectorHostScope(c, l, i, j, k), Named!SelectorHostScope(c, l, i, j, k), {<<i, j, k>>})
BY HostObjectNames, ObjectIs DEF HostSet

\* and its Service.
LEMMA HostServiceIs ==
  ASSUME Named!WellNamed, NEW c \in Installations, NEW l, Named!WellNamedLayout(l),
         NEW i, NEW j, NEW k, HostIn(l, i, j, k)
  PROVE  Is(HostService(c, l, i, j, k), c, "Service", NameOfHost(c, l[i].name, Named!HostName(l, i, j, k)),
            Named!SelectorHostScope(c, l, i, j, k), Named!SelectorHostScope(c, l, i, j, k), {<<i, j, k>>})
BY HostObjectNames, ObjectIs DEF HostService, Named!Service

\* The classes of objects of a CHI.
Classes(c, l, o) ==
  \/ o = ChiService(c, l) \/ o = CommonConfig(c, l) \/ o = CommonUsers(c, l)
  \/ \E i : i \in DOMAIN l /\ o = ClusterService(c, l, i)
  \/ \E i, j : ShardIn(l, i, j) /\ o = ShardService(c, l, i, j)
  \/ \E i, j, k : HostIn(l, i, j, k) /\ o = HostConfig(c, l, i, j, k)
  \/ \E i, j, k : HostIn(l, i, j, k) /\ o = HostSet(c, l, i, j, k)
  \/ \E i, j, k : HostIn(l, i, j, k) /\ o = HostService(c, l, i, j, k)

\* The objects of a layout are of eight classes.
LEMMA InClasses ==
  ASSUME NEW c, NEW l, NEW o, InChi(c, l, o)
  PROVE  Classes(c, l, o)
<1>1. CASE OneOfThree(o, ChiService(c, l), CommonConfig(c, l), CommonUsers(c, l))
  BY <1>1 DEF OneOfThree, Classes
<1>2. ASSUME NEW i \in DOMAIN l, InCluster(c, l, i, o) PROVE Classes(c, l, o)
  <2>1. CASE o = ClusterService(c, l, i)
    BY <2>1 DEF Classes
  <2>2. ASSUME NEW j \in DOMAIN l[i].shards, InShard(c, l, i, j, o) PROVE Classes(c, l, o)
    <3>1. ShardIn(l, i, j)
      BY DEF ShardIn
    <3>2. CASE o = ShardService(c, l, i, j)
      BY <3>1, <3>2 DEF Classes
    <3>3. ASSUME NEW k \in DOMAIN l[i].shards[j].hosts, OfAHost(c, l, i, j, k, o) PROVE Classes(c, l, o)
      <4>1. HostIn(l, i, j, k)
        BY <3>1 DEF HostIn
      <4> QED
        BY <3>3, <4>1 DEF Classes, OfAHost, OneOfThree
    <3> QED
      BY <2>2, <3>2, <3>3 DEF InShard
  <2> QED
    BY <1>2, <2>1, <2>2 DEF InCluster
<1> QED
  BY <1>1, <1>2 DEF InChi

\* Every host has its objects.
LEMMA HostObjectsIn ==
  ASSUME NEW c, NEW l, NEW i, NEW j, NEW k, HostIn(l, i, j, k)
  PROVE  /\ InChi(c, l, HostConfig(c, l, i, j, k)) /\ InChi(c, l, HostSet(c, l, i, j, k))
         /\ InChi(c, l, HostService(c, l, i, j, k))
<1>1. i \in DOMAIN l /\ j \in DOMAIN l[i].shards /\ k \in DOMAIN l[i].shards[j].hosts
  BY DEF HostIn, ShardIn
<1>2. ASSUME NEW o, OfAHost(c, l, i, j, k, o) PROVE InChi(c, l, o)
  <2>1. InShard(c, l, i, j, o)
    BY <1>1, <1>2 DEF InShard
  <2>2. InCluster(c, l, i, o)
    BY <1>1, <2>1 DEF InCluster
  <2> QED
    BY <1>1, <2>2 DEF InChi
<1> QED
  BY <1>2 DEF OfAHost, OneOfThree

-----------------------------------------------------------------------------
(* Objects of one kind and name                                            *)

\* They are of their CHI, and of three kinds.
LEMMA KindsAre ==
  ASSUME Named!WellNamed, NEW c \in Installations, NEW l, Named!WellNamedLayout(l), NEW o, Classes(c, l, o)
  PROVE  o.owner = c /\ o.kind \in Kinds
<1>1. CASE o = ChiService(c, l) \/ o = CommonConfig(c, l) \/ o = CommonUsers(c, l)
  BY <1>1, ChiServiceIs, CommonConfigIs, CommonUsersIs DEF Is, Kinds
<1>2. ASSUME NEW i, i \in DOMAIN l, o = ClusterService(c, l, i) PROVE o.owner = c /\ o.kind \in Kinds
  BY <1>2, ClusterServiceIs DEF Is, Kinds
<1>3. ASSUME NEW i, NEW j, ShardIn(l, i, j), o = ShardService(c, l, i, j) PROVE o.owner = c /\ o.kind \in Kinds
  BY <1>3, ShardServiceIs DEF Is, Kinds
<1>4. ASSUME NEW i, NEW j, NEW k, HostIn(l, i, j, k),
             o = HostConfig(c, l, i, j, k) \/ o = HostSet(c, l, i, j, k) \/ o = HostService(c, l, i, j, k)
      PROVE  o.owner = c /\ o.kind \in Kinds
  BY <1>4, HostConfigIs, HostSetIs, HostServiceIs DEF Is, Kinds
<1> QED
  BY <1>1, <1>2, <1>3, <1>4 DEF Classes

\* The objects of one kind.
AService(c, l, o) ==
  \/ o = ChiService(c, l)
  \/ \E i : i \in DOMAIN l /\ o = ClusterService(c, l, i)
  \/ \E i, j : ShardIn(l, i, j) /\ o = ShardService(c, l, i, j)
  \/ \E i, j, k : HostIn(l, i, j, k) /\ o = HostService(c, l, i, j, k)
AConfig(c, l, o) ==
  \/ o = CommonConfig(c, l) \/ o = CommonUsers(c, l)
  \/ \E i, j, k : HostIn(l, i, j, k) /\ o = HostConfig(c, l, i, j, k)
ASet(c, l, o) == \E i, j, k : HostIn(l, i, j, k) /\ o = HostSet(c, l, i, j, k)

\* The kind of an object tells its classes.
LEMMA OfItsKind ==
  ASSUME Named!WellNamed, NEW c \in Installations, NEW l, Named!WellNamedLayout(l), NEW o, Classes(c, l, o)
  PROVE  \/ o.kind = "Service" /\ AService(c, l, o)
         \/ o.kind = "ConfigMap" /\ AConfig(c, l, o)
         \/ o.kind = "StatefulSet" /\ ASet(c, l, o)
<1>1. CASE o = ChiService(c, l)
  BY <1>1, ChiServiceIs DEF Is, AService
<1>2. CASE o = CommonConfig(c, l) \/ o = CommonUsers(c, l)
  BY <1>2, CommonConfigIs, CommonUsersIs DEF Is, AConfig
<1>3. CASE \E i : i \in DOMAIN l /\ o = ClusterService(c, l, i)
  BY <1>3, ClusterServiceIs DEF Is, AService
<1>4. CASE \E i, j : ShardIn(l, i, j) /\ o = ShardService(c, l, i, j)
  BY <1>4, ShardServiceIs DEF Is, AService
<1>5. CASE \E i, j, k : HostIn(l, i, j, k) /\ o = HostConfig(c, l, i, j, k)
  BY <1>5, HostConfigIs DEF Is, AConfig
<1>6. CASE \E i, j, k : HostIn(l, i, j, k) /\ o = HostSet(c, l, i, j, k)
  BY <1>6, HostSetIs DEF Is, ASet
<1>7. CASE \E i, j, k : HostIn(l, i, j, k) /\ o = HostService(c, l, i, j, k)
  BY <1>7, HostServiceIs DEF Is, AService
<1> QED
  BY <1>1, <1>2, <1>3, <1>4, <1>5, <1>6, <1>7 DEF Classes

\* The parts of names.
LEMMA PartsAre ==
  ASSUME Named!WellNamed, NEW l, Named!WellNamedLayout(l), NEW i, NEW j, NEW k, HostIn(l, i, j, k)
  PROVE  Part(l[i].name) /\ Last(Named!ShardName(l, i, j)) /\ Last(Named!HostName(l, i, j, k))
BY ClusterParts, ShardParts, HostNameIs DEF HostIn, ShardIn, Part, Last

\* Those of a shard are parts of names,
LEMMA ShardPartsAre ==
  ASSUME Named!WellNamed, NEW l, Named!WellNamedLayout(l), NEW i, NEW j, ShardIn(l, i, j)
  PROVE  Part(l[i].name) /\ Last(Named!ShardName(l, i, j))
BY ClusterParts, ShardParts DEF ShardIn, Part, Last

\* that of a cluster is,
LEMMA ClusterPartsAre ==
  ASSUME Named!WellNamed, NEW l, Named!WellNamedLayout(l), NEW i \in DOMAIN l
  PROVE  Part(l[i].name)
BY ClusterParts DEF Part

\* and that of a CHI.
LEMMA ChiPartsAre ==
  ASSUME Named!WellNamed, NEW c \in Installations
  PROVE  Part(c)
BY ChiParts DEF Part

\* How the name of a Service begins tells what it is of.
LEMMA ServicesBegin ==
  ASSUME Named!WellNamed, NEW c \in Installations, NEW l, Named!WellNamedLayout(l)
  PROVE  /\ Begun(ChiService(c, l).name, "clickhouse")
         /\ \A i : i \in DOMAIN l => Begun(ClusterService(c, l, i).name, "cluster")
         /\ \A i, j : ShardIn(l, i, j) => Begun(ShardService(c, l, i, j).name, "shard")
         /\ \A i, j, k : HostIn(l, i, j, k) => Begun(HostService(c, l, i, j, k).name, "chi")
<1>1. Begun(ChiService(c, l).name, "clickhouse")
  BY ChiServiceIs, ChiPartsAre, ChiNamesApart DEF Is
<1>2. ASSUME NEW i, i \in DOMAIN l PROVE Begun(ClusterService(c, l, i).name, "cluster")
  BY <1>2, ClusterServiceIs, ChiPartsAre, ClusterPartsAre, ClusterNamesApart DEF Is
<1>3. ASSUME NEW i, NEW j, ShardIn(l, i, j) PROVE Begun(ShardService(c, l, i, j).name, "shard")
  BY <1>3, ShardServiceIs, ChiPartsAre, ShardPartsAre, ShardNamesOfObjectsApart DEF Is
<1>4. ASSUME NEW i, NEW j, NEW k, HostIn(l, i, j, k) PROVE Begun(HostService(c, l, i, j, k).name, "chi")
  BY <1>4, HostServiceIs, ChiPartsAre, PartsAre, HostNamesOfObjectsApart DEF Is
<1> QED
  BY <1>1, <1>2, <1>3, <1>4

\* No name begins in two ways.
LEMMA BegunApart ==
  ASSUME NEW name
  PROVE  /\ ~(Begun(name, "clickhouse") /\ Begun(name, "cluster"))
         /\ ~(Begun(name, "clickhouse") /\ Begun(name, "shard"))
         /\ ~(Begun(name, "clickhouse") /\ Begun(name, "chi"))
         /\ ~(Begun(name, "cluster") /\ Begun(name, "shard"))
         /\ ~(Begun(name, "cluster") /\ Begun(name, "chi"))
         /\ ~(Begun(name, "shard") /\ Begun(name, "chi"))
<1>1. "clickhouse" \in Firsts /\ "cluster" \in Firsts /\ "shard" \in Firsts /\ "chi" \in Firsts
  BY DEF Firsts, Fixed
<1> QED
  BY <1>1, BegunOnce

\* The places of a layout that have names of their own.
LEMMA ClustersApart ==
  ASSUME NEW l, Named!WellNamedLayout(l), NEW i \in DOMAIN l, NEW j \in DOMAIN l, l[i].name = l[j].name
  PROVE  i = j
BY DEF Named!WellNamedLayout

\* Two objects of one kind and name are one object of one CHI.
OneObject(c, d, l, m, o, p) == c = d /\ (l = m => o = p)

\* Services of one name are one Service.
LEMMA ServicesApart ==
  ASSUME Named!WellNamed, NEW c \in Installations, NEW d \in Installations,
         NEW l, Named!WellNamedLayout(l), NEW m, Named!WellNamedLayout(m),
         NEW o, AService(c, l, o), NEW p, AService(d, m, p), o.name = p.name
  PROVE  OneObject(c, d, l, m, o, p)
<1>0. Part(c) /\ Part(d)
  BY ChiPartsAre
<1>1. CASE o = ChiService(c, l)
  <2>1. Begun(p.name, "clickhouse")
    BY <1>1, ServicesBegin
  <2>2. p = ChiService(d, m)
    BY <2>1, ServicesBegin, BegunApart DEF AService
  <2> QED
    BY <1>0, <1>1, <2>2, ChiServiceIs, ChiNamesApart DEF Is, OneObject
<1>2. ASSUME NEW i \in DOMAIN l, o = ClusterService(c, l, i) PROVE OneObject(c, d, l, m, o, p)
  <2>1. Begun(p.name, "cluster")
    BY <1>2, ServicesBegin
  <2>2. PICK i2 : i2 \in DOMAIN m /\ p = ClusterService(d, m, i2)
    BY <2>1, ServicesBegin, BegunApart DEF AService
  <2>3. NameOfCluster(c, l[i].name) = NameOfCluster(d, m[i2].name)
    BY <1>2, <2>2, ClusterServiceIs DEF Is
  <2>4. c = d /\ l[i].name = m[i2].name
    BY <1>0, <2>2, <2>3, ClusterPartsAre, ClusterNamesApart
  <2> QED
    BY <1>2, <2>2, <2>4, ClustersApart DEF OneObject
<1>3. ASSUME NEW i, NEW j, ShardIn(l, i, j), o = ShardService(c, l, i, j) PROVE OneObject(c, d, l, m, o, p)
  <2>1. Begun(p.name, "shard")
    BY <1>3, ServicesBegin
  <2>2. PICK i2, j2 : ShardIn(m, i2, j2) /\ p = ShardService(d, m, i2, j2)
    BY <2>1, ServicesBegin, BegunApart DEF AService
  <2>3. NameOfShard(c, l[i].name, Named!ShardName(l, i, j)) = NameOfShard(d, m[i2].name, Named!ShardName(m, i2, j2))
    BY <1>3, <2>2, ShardServiceIs DEF Is
  <2>4. c = d /\ l[i].name = m[i2].name /\ Named!ShardName(l, i, j) = Named!ShardName(m, i2, j2)
    BY <1>0, <1>3, <2>2, <2>3, ShardPartsAre, ShardNamesOfObjectsApart
  <2>5. ASSUME l = m PROVE i = i2 /\ j = j2
    <3>1. i = i2
      BY <1>3, <2>2, <2>4, <2>5, ClustersApart DEF ShardIn
    <3> QED
      BY <1>3, <2>2, <2>4, <2>5, <3>1, ShardNamesApart
  <2> QED
    BY <1>3, <2>2, <2>4, <2>5 DEF OneObject
<1>4. ASSUME NEW i, NEW j, NEW k, HostIn(l, i, j, k), o = HostService(c, l, i, j, k) PROVE OneObject(c, d, l, m, o, p)
  <2>1. Begun(p.name, "chi")
    BY <1>4, ServicesBegin
  <2>2. PICK i2, j2, k2 : HostIn(m, i2, j2, k2) /\ p = HostService(d, m, i2, j2, k2)
    BY <2>1, ServicesBegin, BegunApart DEF AService
  <2>3. NameOfHost(c, l[i].name, Named!HostName(l, i, j, k)) = NameOfHost(d, m[i2].name, Named!HostName(m, i2, j2, k2))
    BY <1>4, <2>2, HostServiceIs DEF Is
  <2>4. c = d /\ l[i].name = m[i2].name /\ Named!HostName(l, i, j, k) = Named!HostName(m, i2, j2, k2)
    BY <1>0, <1>4, <2>2, <2>3, PartsAre, HostNamesOfObjectsApart
  <2>5. ASSUME l = m PROVE i = i2 /\ j = j2 /\ k = k2
    <3>1. i = i2
      BY <1>4, <2>2, <2>4, <2>5, ClustersApart DEF ShardIn, HostIn
    <3> QED
      BY <1>4, <2>2, <2>4, <2>5, <3>1, HostNamesApart
  <2> QED
    BY <1>4, <2>2, <2>4, <2>5 DEF OneObject
<1> QED
  BY <1>1, <1>2, <1>3, <1>4 DEF AService

\* StatefulSets of one name are one StatefulSet.
LEMMA SetsApart ==
  ASSUME Named!WellNamed, NEW c \in Installations, NEW d \in Installations,
         NEW l, Named!WellNamedLayout(l), NEW m, Named!WellNamedLayout(m),
         NEW o, ASet(c, l, o), NEW p, ASet(d, m, p), o.name = p.name
  PROVE  OneObject(c, d, l, m, o, p)
<1>0. Part(c) /\ Part(d)
  BY ChiPartsAre
<1>1. PICK i, j, k : HostIn(l, i, j, k) /\ o = HostSet(c, l, i, j, k)
  BY DEF ASet
<1>2. PICK i2, j2, k2 : HostIn(m, i2, j2, k2) /\ p = HostSet(d, m, i2, j2, k2)
  BY DEF ASet
<1>3. NameOfHost(c, l[i].name, Named!HostName(l, i, j, k)) = NameOfHost(d, m[i2].name, Named!HostName(m, i2, j2, k2))
  BY <1>1, <1>2, HostSetIs DEF Is
<1>4. c = d /\ l[i].name = m[i2].name /\ Named!HostName(l, i, j, k) = Named!HostName(m, i2, j2, k2)
  BY <1>0, <1>1, <1>2, <1>3, PartsAre, HostNamesOfObjectsApart
<1>5. ASSUME l = m PROVE i = i2 /\ j = j2 /\ k = k2
  <2>1. i = i2
    BY <1>1, <1>2, <1>4, <1>5, ClustersApart DEF ShardIn, HostIn
  <2> QED
    BY <1>1, <1>2, <1>4, <1>5, <2>1, HostNamesApart
<1> QED
  BY <1>1, <1>2, <1>4, <1>5 DEF OneObject

\* ConfigMaps of hosts of one name are one ConfigMap.
LEMMA HostConfigsApart ==
  ASSUME Named!WellNamed, NEW c \in Installations, NEW d \in Installations,
         NEW l, Named!WellNamedLayout(l), NEW m, Named!WellNamedLayout(m),
         NEW i, NEW j, NEW k, HostIn(l, i, j, k), NEW i2, NEW j2, NEW k2, HostIn(m, i2, j2, k2),
         HostConfig(c, l, i, j, k).name = HostConfig(d, m, i2, j2, k2).name
  PROVE  OneObject(c, d, l, m, HostConfig(c, l, i, j, k), HostConfig(d, m, i2, j2, k2))
<1>0. Part(c) /\ Part(d)
  BY ChiPartsAre
<1>3. NameOfConfig(c, l[i].name, Named!HostName(l, i, j, k)) = NameOfConfig(d, m[i2].name, Named!HostName(m, i2, j2, k2))
  BY HostConfigIs DEF Is
<1>4. c = d /\ l[i].name = m[i2].name /\ Named!HostName(l, i, j, k) = Named!HostName(m, i2, j2, k2)
  BY <1>0, <1>3, PartsAre, ConfigNamesApart
<1>5. ASSUME l = m PROVE i = i2 /\ j = j2 /\ k = k2
  <2>1. i = i2
    BY <1>4, <1>5, ClustersApart DEF ShardIn, HostIn
  <2> QED
    BY <1>4, <1>5, <2>1, HostNamesApart
<1> QED
  BY <1>4, <1>5 DEF OneObject

\* ConfigMaps of one name are one ConfigMap.
LEMMA ConfigsApart ==
  ASSUME Named!WellNamed, NEW c \in Installations, NEW d \in Installations,
         NEW l, Named!WellNamedLayout(l), NEW m, Named!WellNamedLayout(m),
         NEW o, AConfig(c, l, o), NEW p, AConfig(d, m, p), o.name = p.name
  PROVE  OneObject(c, d, l, m, o, p)
<1>0. Part(c) /\ Part(d)
  BY ChiPartsAre
<1>1. /\ CommonConfig(c, l).name = NameOfCommon(c, Token("configd"))
      /\ CommonConfig(d, m).name = NameOfCommon(d, Token("configd"))
      /\ CommonUsers(c, l).name = NameOfCommon(c, Token("usersd"))
      /\ CommonUsers(d, m).name = NameOfCommon(d, Token("usersd"))
  BY CommonConfigIs, CommonUsersIs DEF Is
<1>2. /\ \A i, j, k : HostIn(l, i, j, k) =>
           HostConfig(c, l, i, j, k).name = NameOfConfig(c, l[i].name, Named!HostName(l, i, j, k))
      /\ \A i, j, k : HostIn(m, i, j, k) =>
           HostConfig(d, m, i, j, k).name = NameOfConfig(d, m[i].name, Named!HostName(m, i, j, k))
  BY HostConfigIs DEF Is
<1>3. CASE o = CommonConfig(c, l) /\ p = CommonConfig(d, m)
  BY <1>0, <1>1, <1>3, ConfigFirsts, CommonNamesApart DEF OneObject
<1>4. CASE o = CommonUsers(c, l) /\ p = CommonUsers(d, m)
  BY <1>0, <1>1, <1>4, ConfigFirsts, CommonNamesApart DEF OneObject
<1>5. CASE o = CommonConfig(c, l) /\ p = CommonUsers(d, m)
  BY <1>0, <1>1, <1>5, ConfigFirsts, CommonNamesApart
<1>6. CASE o = CommonUsers(c, l) /\ p = CommonConfig(d, m)
  BY <1>0, <1>1, <1>6, ConfigFirsts, CommonNamesApart
<1>7. ASSUME o = CommonConfig(c, l) \/ o = CommonUsers(c, l),
             NEW i, NEW j, NEW k, HostIn(m, i, j, k), p = HostConfig(d, m, i, j, k)
      PROVE  FALSE
  BY <1>0, <1>1, <1>2, <1>7, PartsAre, ConfigFirsts, CommonNotConfig
<1>8. ASSUME p = CommonConfig(d, m) \/ p = CommonUsers(d, m),
             NEW i, NEW j, NEW k, HostIn(l, i, j, k), o = HostConfig(c, l, i, j, k)
      PROVE  FALSE
  BY <1>0, <1>1, <1>2, <1>8, PartsAre, ConfigFirsts, CommonNotConfig
<1>9. CASE /\ \E i, j, k : HostIn(l, i, j, k) /\ o = HostConfig(c, l, i, j, k)
           /\ \E i, j, k : HostIn(m, i, j, k) /\ p = HostConfig(d, m, i, j, k)
  BY <1>9, HostConfigsApart
<1> QED
  BY <1>3, <1>4, <1>5, <1>6, <1>7, <1>8, <1>9 DEF AConfig

\* Objects of one kind and name are of one CHI, and in one layout they are one
\* object.
LEMMA SameObjectsAreOne ==
  ASSUME Named!WellNamed, NEW c \in Installations, NEW d \in Installations,
         NEW l, Named!WellNamedLayout(l), NEW m, Named!WellNamedLayout(m),
         NEW o, InChi(c, l, o), NEW p, InChi(d, m, p), Named!SameObject(o, p)
  PROVE  OneObject(c, d, l, m, o, p)
<1>1. Classes(c, l, o) /\ Classes(d, m, p)
  BY InClasses
<1>2. /\ \/ o.kind = "Service" /\ AService(c, l, o)
         \/ o.kind = "ConfigMap" /\ AConfig(c, l, o)
         \/ o.kind = "StatefulSet" /\ ASet(c, l, o)
      /\ \/ p.kind = "Service" /\ AService(d, m, p)
         \/ p.kind = "ConfigMap" /\ AConfig(d, m, p)
         \/ p.kind = "StatefulSet" /\ ASet(d, m, p)
  BY <1>1, OfItsKind
<1>3. o.kind = p.kind /\ o.name = p.name
  BY DEF Named!SameObject
<1> QED
  BY <1>2, <1>3, ServicesApart, ConfigsApart, SetsApart

-----------------------------------------------------------------------------
(* What Services select                                                    *)

\* The hosts of a layout.
LEMMA HostsAre ==
  ASSUME NEW l, NEW h
  PROVE  h \in Named!Hosts(l) <=> \E i, j, k : HostIn(l, i, j, k) /\ h = <<i, j, k>>
<1>1. h \in Named!Hosts(l) <=>
        \E i \in DOMAIN l : \E j \in DOMAIN l[i].shards : h \in {<<i, j, k>> : k \in DOMAIN l[i].shards[j].hosts}
  <2>1. \A i : h \in UNION {{<<i, j, k>> : k \in DOMAIN l[i].shards[j].hosts} : j \in DOMAIN l[i].shards} <=>
               \E j \in DOMAIN l[i].shards : h \in {<<i, j, k>> : k \in DOMAIN l[i].shards[j].hosts}
    OBVIOUS
  <2> QED
    BY <2>1 DEF Named!Hosts
<1>2. \A i, j : h \in {<<i, j, k>> : k \in DOMAIN l[i].shards[j].hosts} <=>
                \E k \in DOMAIN l[i].shards[j].hosts : h = <<i, j, k>>
  OBVIOUS
<1> QED
  BY <1>1, <1>2 DEF HostIn, ShardIn

\* A host is in its cluster and its shard, and in no others.
LEMMA HostPlaces ==
  ASSUME NEW l, NEW i, NEW j, NEW k, HostIn(l, i, j, k), NEW x, NEW y
  PROVE  /\ <<i, j, k>> \in Named!Hosts(l)
         /\ <<i, j, k>> \in OfCluster(l, x) <=> i = x
         /\ <<i, j, k>> \in OfShard(l, x, y) <=> i = x /\ j = y
<1>1. <<i, j, k>> \in Named!Hosts(l)
  BY HostsAre
<1>2. <<i, j, k>>[1] = i /\ <<i, j, k>>[2] = j
  OBVIOUS
<1> QED
  BY <1>1, <1>2 DEF OfCluster, OfShard

\* What the labels of a Pod say.
LabelOfReplica(k) == Named!NamePart(Named!ReplicaName(k), LabelLen)

\* The label of a replica is its number.
LEMMA ReplicaLabelIs ==
  ASSUME NEW k \in 1 .. Len(Numerals)
  PROVE  LabelOfReplica(k) = Named!Num(k - 1)
<1> DEFINE w == Named!Num(k - 1)
<1>1. w \in Seq(Named!Letters) /\ Len(w) = 1
  BY NumIs
<1>2. LabelOfReplica(k) = Named!NamePart(w, LabelLen)
  BY DEF LabelOfReplica, Named!ReplicaName
<1>3. LabelLen \in Nat /\ LabelLen # 0
  BY NamingConstants
<1> HIDE DEF w
<1>4. Len(w) \in 1 .. LabelLen
  BY <1>1, <1>3
<1>5. Named!NamePart(w, LabelLen) = w
  BY <1>1, <1>3, <1>4, WordWhole
<1> QED
  BY <1>2, <1>5 DEF w

\* The selector of a CHI selects by the name of the CHI,
LEMMA MatchesChi ==
  ASSUME NEW c, NEW d, NEW m, NEW i2, NEW j2, NEW k2
  PROVE  Named!Matches(Named!SelectorCHIScope(c), Named!SelectorHostScope(d, m, i2, j2, k2)) <=>
           Named!NamePart(c, LabelLen) = Named!NamePart(d, LabelLen)
BY DEF Named!Matches, Named!SelectorCHIScope, Named!SelectorHostScope

\* that of a cluster by the name of the cluster too,
LEMMA MatchesCluster ==
  ASSUME NEW c, NEW l, NEW i, NEW d, NEW m, NEW i2, NEW j2, NEW k2
  PROVE  Named!Matches(Named!SelectorClusterScope(c, l, i), Named!SelectorHostScope(d, m, i2, j2, k2)) <=>
           /\ Named!NamePart(c, LabelLen) = Named!NamePart(d, LabelLen)
           /\ Named!NamePart(l[i].name, LabelLen) = Named!NamePart(m[i2].name, LabelLen)
BY DEF Named!Matches, Named!SelectorClusterScope, Named!SelectorHostScope

\* that of a shard by the name of the shard too,
LEMMA MatchesShard ==
  ASSUME NEW c, NEW l, NEW i, NEW j, NEW d, NEW m, NEW i2, NEW j2, NEW k2
  PROVE  Named!Matches(Named!SelectorShardScope(c, l, i, j), Named!SelectorHostScope(d, m, i2, j2, k2)) <=>
           /\ Named!NamePart(c, LabelLen) = Named!NamePart(d, LabelLen)
           /\ Named!NamePart(l[i].name, LabelLen) = Named!NamePart(m[i2].name, LabelLen)
           /\ Named!NamePart(Named!ShardName(l, i, j), LabelLen) = Named!NamePart(Named!ShardName(m, i2, j2), LabelLen)
BY DEF Named!Matches, Named!SelectorShardScope, Named!SelectorHostScope

\* and that of a host by its replica too.
LEMMA MatchesHost ==
  ASSUME NEW c, NEW l, NEW i, NEW j, NEW k, NEW d, NEW m, NEW i2, NEW j2, NEW k2
  PROVE  Named!Matches(Named!SelectorHostScope(c, l, i, j, k), Named!SelectorHostScope(d, m, i2, j2, k2)) <=>
           /\ Named!NamePart(c, LabelLen) = Named!NamePart(d, LabelLen)
           /\ Named!NamePart(l[i].name, LabelLen) = Named!NamePart(m[i2].name, LabelLen)
           /\ Named!NamePart(Named!ShardName(l, i, j), LabelLen) = Named!NamePart(Named!ShardName(m, i2, j2), LabelLen)
           /\ LabelOfReplica(k) = LabelOfReplica(k2)
BY DEF Named!Matches, Named!SelectorHostScope, LabelOfReplica

\* A Service selects no Pod of another CHI.
LEMMA SelectsOwn ==
  ASSUME Named!WellNamed, NEW c \in Installations, NEW l, Named!WellNamedLayout(l), NEW o, AService(c, l, o),
         NEW d \in Installations, NEW m, NEW i2, NEW j2, NEW k2,
         Named!Matches(o.selector, Named!SelectorHostScope(d, m, i2, j2, k2))
  PROVE  c = d
<1>1. CASE o = ChiService(c, l)
  BY <1>1, ChiServiceIs, MatchesChi, ChiNameIs DEF Is
<1>2. ASSUME NEW i, i \in DOMAIN l, o = ClusterService(c, l, i) PROVE c = d
  BY <1>2, ClusterServiceIs, MatchesCluster, ChiNameIs DEF Is
<1>3. ASSUME NEW i, NEW j, ShardIn(l, i, j), o = ShardService(c, l, i, j) PROVE c = d
  BY <1>3, ShardServiceIs, MatchesShard, ChiNameIs DEF Is
<1>4. ASSUME NEW i, NEW j, NEW k, HostIn(l, i, j, k), o = HostService(c, l, i, j, k) PROVE c = d
  BY <1>4, HostServiceIs, MatchesHost, ChiNameIs DEF Is
<1> QED
  BY <1>1, <1>2, <1>3, <1>4 DEF AService

\* Of its CHI it selects the Pods it is for.
LEMMA SelectsRight ==
  ASSUME Named!WellNamed, NEW c \in Installations, NEW l, Named!WellNamedLayout(l), NEW o, AService(c, l, o),
         NEW i2, NEW j2, NEW k2, HostIn(l, i2, j2, k2)
  PROVE  Named!Matches(o.selector, Named!SelectorHostScope(c, l, i2, j2, k2)) <=> <<i2, j2, k2>> \in o.hosts
<1>0. ShardIn(l, i2, j2) /\ i2 \in DOMAIN l
  BY DEF HostIn, ShardIn
<1>5. ASSUME NEW i \in DOMAIN l
      PROVE  Named!NamePart(l[i].name, LabelLen) = Named!NamePart(l[i2].name, LabelLen) <=> i = i2
  <2>1. Named!NamePart(l[i].name, LabelLen) = l[i].name /\ Named!NamePart(l[i2].name, LabelLen) = l[i2].name
    BY <1>0, ClusterNameIs
  <2> QED
    BY <1>0, <2>1, ClustersApart
<1>6. ASSUME NEW j, ShardIn(l, i2, j)
      PROVE  Named!NamePart(Named!ShardName(l, i2, j), LabelLen) = Named!NamePart(Named!ShardName(l, i2, j2), LabelLen)
               <=> j = j2
  <2>1. /\ Named!NamePart(Named!ShardName(l, i2, j), LabelLen) = Named!ShardName(l, i2, j)
        /\ Named!NamePart(Named!ShardName(l, i2, j2), LabelLen) = Named!ShardName(l, i2, j2)
    BY <1>0, <1>6, ShardNameIs
  <2> QED
    BY <1>0, <1>6, <2>1, ShardNamesApart
<1>7. ASSUME NEW k, HostIn(l, i2, j2, k)
      PROVE  LabelOfReplica(k) = LabelOfReplica(k2) <=> k = k2
  <2>1. k \in 1 .. Len(Numerals) /\ k2 \in 1 .. Len(Numerals)
    BY <1>7, HostIs
  <2>2. LabelOfReplica(k) = Named!Num(k - 1) /\ LabelOfReplica(k2) = Named!Num(k2 - 1)
    BY <2>1, ReplicaLabelIs
  <2> QED
    BY <2>1, <2>2, NumApart
<1>1. CASE o = ChiService(c, l)
  BY <1>1, ChiServiceIs, MatchesChi, HostPlaces DEF Is
<1>2. ASSUME NEW i, i \in DOMAIN l, o = ClusterService(c, l, i)
      PROVE  Named!Matches(o.selector, Named!SelectorHostScope(c, l, i2, j2, k2)) <=> <<i2, j2, k2>> \in o.hosts
  <2>1. o.selector = Named!SelectorClusterScope(c, l, i) /\ o.hosts = OfCluster(l, i)
    BY <1>2, ClusterServiceIs DEF Is
  <2>2. <<i2, j2, k2>> \in OfCluster(l, i) <=> i2 = i
    BY HostPlaces
  <2>3. Named!Matches(Named!SelectorClusterScope(c, l, i), Named!SelectorHostScope(c, l, i2, j2, k2)) <=> i = i2
    BY <1>2, <1>5, MatchesCluster
  <2> QED
    BY <2>1, <2>2, <2>3
<1>3. ASSUME NEW i, NEW j, ShardIn(l, i, j), o = ShardService(c, l, i, j)
      PROVE  Named!Matches(o.selector, Named!SelectorHostScope(c, l, i2, j2, k2)) <=> <<i2, j2, k2>> \in o.hosts
  <2>1. i \in DOMAIN l
    BY <1>3 DEF ShardIn
  <2>2. Is(o, c, "Service", NameOfShard(c, l[i].name, Named!ShardName(l, i, j)),
            Named!SelectorShardScope(c, l, i, j), Named!SelectorShardScope(c, l, i, j), OfShard(l, i, j))
    BY <1>3, ShardServiceIs
  <2>3. <<i2, j2, k2>> \in o.hosts <=> i2 = i /\ j2 = j
    BY <2>2, HostPlaces DEF Is
  <2>4. Named!Matches(Named!SelectorShardScope(c, l, i, j), Named!SelectorHostScope(c, l, i2, j2, k2)) <=> i = i2 /\ j = j2
    BY <1>3, <1>5, <1>6, <2>1, MatchesShard
  <2> QED
    BY <2>2, <2>3, <2>4 DEF Is
<1>4. ASSUME NEW i, NEW j, NEW k, HostIn(l, i, j, k), o = HostService(c, l, i, j, k)
      PROVE  Named!Matches(o.selector, Named!SelectorHostScope(c, l, i2, j2, k2)) <=> <<i2, j2, k2>> \in o.hosts
  <2>1. i \in DOMAIN l /\ ShardIn(l, i, j)
    BY <1>4 DEF HostIn, ShardIn
  <2>2. o.selector = Named!SelectorHostScope(c, l, i, j, k) /\ o.hosts = {<<i, j, k>>}
    BY <1>4, HostServiceIs DEF Is
  <2>3. <<i2, j2, k2>> \in o.hosts <=> i2 = i /\ j2 = j /\ k2 = k
    BY <2>2
  <2>4. Named!Matches(Named!SelectorHostScope(c, l, i, j, k), Named!SelectorHostScope(c, l, i2, j2, k2)) <=>
          i = i2 /\ j = j2 /\ k = k2
    BY <1>4, <1>5, <1>6, <1>7, <2>1, MatchesHost
  <2> QED
    BY <2>2, <2>3, <2>4
<1> QED
  BY <1>1, <1>2, <1>3, <1>4 DEF AService

\* The hosts it is for are hosts of the layout.
LEMMA ForHosts ==
  ASSUME Named!WellNamed, NEW c \in Installations, NEW l, Named!WellNamedLayout(l), NEW o, AService(c, l, o),
         NEW h \in o.hosts
  PROVE  h \in Named!Hosts(l)
<1>1. CASE o = ChiService(c, l)
  BY <1>1, ChiServiceIs DEF Is
<1>2. ASSUME NEW i, i \in DOMAIN l, o = ClusterService(c, l, i) PROVE h \in Named!Hosts(l)
  BY <1>2, ClusterServiceIs DEF Is, OfCluster
<1>3. ASSUME NEW i, NEW j, ShardIn(l, i, j), o = ShardService(c, l, i, j) PROVE h \in Named!Hosts(l)
  BY <1>3, ShardServiceIs DEF Is, OfShard
<1>4. ASSUME NEW i, NEW j, NEW k, HostIn(l, i, j, k), o = HostService(c, l, i, j, k) PROVE h \in Named!Hosts(l)
  BY <1>4, HostServiceIs, HostPlaces DEF Is
<1> QED
  BY <1>1, <1>2, <1>3, <1>4 DEF AService

\* Every object says of which CHI it is.
Marked(labels, c) == "chi" \in DOMAIN labels /\ labels["chi"] = Named!NamePart(c, LabelLen)

\* The labels of a CHI have its name,
LEMMA ChiScopeMarked ==
  ASSUME NEW c
  PROVE  Marked(Named!SelectorCHIScope(c), c)
BY DEF Marked, Named!SelectorCHIScope

\* those of a cluster,
LEMMA ClusterScopeMarked ==
  ASSUME NEW c, NEW l, NEW i
  PROVE  Marked(Named!SelectorClusterScope(c, l, i), c)
BY DEF Marked, Named!SelectorClusterScope

\* of a shard,
LEMMA ShardScopeMarked ==
  ASSUME NEW c, NEW l, NEW i, NEW j
  PROVE  Marked(Named!SelectorShardScope(c, l, i, j), c)
BY DEF Marked, Named!SelectorShardScope

\* and of a host too.
LEMMA HostScopeMarked ==
  ASSUME NEW c, NEW l, NEW i, NEW j, NEW k
  PROVE  Marked(Named!SelectorHostScope(c, l, i, j, k), c)
BY DEF Marked, Named!SelectorHostScope

\* Every object of a CHI has the name of the CHI among its labels.
LEMMA ObjectsMarked ==
  ASSUME Named!WellNamed, NEW c \in Installations, NEW l, Named!WellNamedLayout(l), NEW o, Classes(c, l, o)
  PROVE  Marked(o.labels, c)
<1>1. CASE o = ChiService(c, l) \/ o = CommonConfig(c, l) \/ o = CommonUsers(c, l)
  BY <1>1, ChiServiceIs, CommonConfigIs, CommonUsersIs, ChiScopeMarked DEF Is
<1>2. ASSUME NEW i, i \in DOMAIN l, o = ClusterService(c, l, i) PROVE Marked(o.labels, c)
  BY <1>2, ClusterServiceIs, ClusterScopeMarked DEF Is
<1>3. ASSUME NEW i, NEW j, ShardIn(l, i, j), o = ShardService(c, l, i, j) PROVE Marked(o.labels, c)
  BY <1>3, ShardServiceIs, ShardScopeMarked DEF Is
<1>4. ASSUME NEW i, NEW j, NEW k, HostIn(l, i, j, k),
             o = HostConfig(c, l, i, j, k) \/ o = HostSet(c, l, i, j, k) \/ o = HostService(c, l, i, j, k)
      PROVE  Marked(o.labels, c)
  BY <1>4, HostConfigIs, HostSetIs, HostServiceIs, HostScopeMarked DEF Is
<1> QED
  BY <1>1, <1>2, <1>3, <1>4 DEF Classes

\* A pass discovers the objects of its CHI and of no other.
LEMMA DiscoversOwn ==
  ASSUME Named!WellNamed, NEW c \in Installations, NEW d \in Installations, NEW l, Named!WellNamedLayout(l),
         NEW o, InChi(d, l, o)
  PROVE  Named!Matches(Named!SelectorCHIScope(c), o.labels) <=> c = d
<1>1. Marked(o.labels, d)
  BY InClasses, ObjectsMarked
<1>2. Named!NamePart(c, LabelLen) = c /\ Named!NamePart(d, LabelLen) = d
  BY ChiNameIs
<1> QED
  BY <1>1, <1>2 DEF Marked, Named!Matches, Named!SelectorCHIScope

-----------------------------------------------------------------------------
(* Passes                                                                  *)

\* The objects that a pass wants: those of the layout, none for a CHI that is
\* deleted.
Wants(c, s, o) == s # None /\ InChi(c, s, o)

WantedOf(c, s) == IF s = None THEN << >> ELSE Named!ObjectsOf[c][s]

\* The layouts that users ask for are well named.
LEMMA LayoutsAre ==
  ASSUME Named!WellNamed, NEW s \in Clusterings
  PROVE  Named!WellNamedLayout(s) /\ s # None
<1>1. None \notin Clusterings
  BY InstancesAssumption DEF Named!Assumptions
<1> QED
  BY <1>1 DEF Named!WellNamed

\* The objects that a pass wants are those of the layout.
LEMMA WantedIs ==
  ASSUME Named!WellNamed, NEW c \in Installations, NEW s \in Clusterings \cup {None}, NEW o
  PROVE  Listing(WantedOf(c, s)) /\ (o \in Named!Range(WantedOf(c, s)) <=> Wants(c, s, o))
<1>1. CASE s = None
  <2>1. << >> \in Seq({o}) /\ o \notin Named!Range(<< >>)
    BY DEF Named!Range
  <2>2. Listing(<< >>)
    BY <2>1, ListingIs
  <2> QED
    BY <1>1, <2>1, <2>2 DEF WantedOf, Wants
<1>2. CASE s # None
  <2>1. WantedOf(c, s) = Named!Objects(c, s) /\ Named!WellNamedLayout(s)
    BY <1>2, LayoutsAre DEF WantedOf, Named!ObjectsOf
  <2> QED
    BY <1>2, <2>1, ObjectsAre DEF Wants
<1> QED
  BY <1>1, <1>2

\* Objects of one kind and name are wanted by one CHI, and once by a layout.
LEMMA WantedOnce ==
  ASSUME Named!WellNamed, NEW c \in Installations, NEW d \in Installations,
         NEW s \in Clusterings \cup {None}, NEW t \in Clusterings \cup {None},
         NEW o, Wants(c, s, o), NEW p, Wants(d, t, p), Named!SameObject(o, p)
  PROVE  c = d /\ (s = t => o = p)
<1>1. /\ Named!WellNamedLayout(s) /\ Named!WellNamedLayout(t)
      /\ InChi(c, s, o) /\ InChi(d, t, p)
  BY LayoutsAre DEF Wants
<1> QED
  BY <1>1, SameObjectsAreOne DEF OneObject

\* Of wanted objects that are one, there is a last.
LEMMA PutIs ==
  ASSUME NEW w, Listing(w), NEW olds, NEW o,
         \A p, q : p \in Named!Range(w) /\ q \in Named!Range(w) /\ Named!SameObject(p, q) => p = q
  PROVE  o \in Named!Put(olds, w) <=> o \in Named!Subtract(olds, Named!Range(w)) \/ o \in Named!Range(w)
<1> DEFINE stays == {n \in DOMAIN w : \A m \in DOMAIN w : Named!SameObject(w[m], w[n]) => m <= n}
           R == Named!Range(w)
<1>1. DOMAIN w = 1 .. Len(w) /\ Len(w) \in Nat
  <2>1. w \in Seq(R)
    BY DEF Listing
  <2> HIDE DEF R
  <2> QED
    BY <2>1
<1>2. Named!Put(olds, w) = Named!Subtract(olds, R) \cup {w[n] : n \in stays}
  BY DEF Named!Put
<1>3. \A n \in stays : w[n] \in R
  BY DEF Named!Range
<1>4. ASSUME NEW n \in DOMAIN w PROVE \E m \in stays : w[m] = w[n]
  <2> DEFINE those == {m \in DOMAIN w : Named!SameObject(w[m], w[n])}
  <2>1. those \in SUBSET Nat /\ n \in those /\ \A m \in those : m <= Len(w)
    BY <1>1 DEF Named!SameObject
  <2>2. PICK m \in those : \A x \in those : x <= m
    <3> HIDE DEF those
    <3>1. those # {} /\ Len(w) \in Nat
      BY <1>1, <2>1
    <3> QED
      BY <2>1, <3>1, GreatestOf
  <2>3. ASSUME NEW x \in DOMAIN w, Named!SameObject(w[x], w[m]) PROVE x <= m
    <3>1. x \in those
      BY <2>3 DEF Named!SameObject
    <3> HIDE DEF those
    <3> QED
      BY <2>2, <3>1
  <2>4. m \in stays
    BY <2>3
  <2>5. w[m] = w[n]
    <3>1. Named!SameObject(w[m], w[n]) /\ w[m] \in R /\ w[n] \in R
      BY DEF Named!Range
    <3> QED
      BY <3>1
  <2> QED
    BY <2>4, <2>5
<1>5. \A x : x \in R => \E n \in DOMAIN w : x = w[n]
  BY DEF Named!Range
<1>6. o \in {w[n] : n \in stays} <=> o \in R
  <2> HIDE DEF stays, R
  <2> QED
    BY <1>3, <1>4, <1>5
<1> QED
  BY <1>2, <1>6

-----------------------------------------------------------------------------
(* What is in Kubernetes between passes                                    *)

\* Every CHI has the objects of its last pass, and there are no others.
Kept(chis, lasts) == UNION {Named!Range(WantedOf(c, lasts[c])) : c \in chis}

Registered ==
  /\ spec \in [Installations -> Clusterings \cup {None}]
  /\ reconciled \in [Installations -> Clusterings \cup {None}]
  /\ store = Kept(Installations, reconciled)

InKept(lasts, o) == \E c \in Installations : Wants(c, lasts[c], o)

\* The objects of all CHIs are what the last pass of one of them wanted.
LEMMA KeptIs ==
  ASSUME Named!WellNamed, NEW lasts \in [Installations -> Clusterings \cup {None}], NEW o
  PROVE  o \in Kept(Installations, lasts) <=> InKept(lasts, o)
<1>1. \A c \in Installations : o \in Named!Range(WantedOf(c, lasts[c])) <=> Wants(c, lasts[c], o)
  BY WantedIs
<1> QED
  BY <1>1 DEF Kept, InKept

\* A pass leaves the objects of its CHI, those of the others, and nothing else.
Remaining(olds, w, c) ==
  Named!Put(olds, w) \ Named!Subtract(Named!Discovered(c, Named!Put(olds, w)), Named!Range(w))

\* The pass purges what its CHI no longer wants, and nothing of another CHI.
LEMMA PassLeaves ==
  ASSUME Named!WellNamed, NEW lasts \in [Installations -> Clusterings \cup {None}],
         NEW c \in Installations, NEW s \in Clusterings \cup {None}, NEW o
  PROVE  o \in Remaining(Kept(Installations, lasts), WantedOf(c, s), c) <=>
           Wants(c, s, o) \/ \E d \in Installations : d # c /\ Wants(d, lasts[d], o)
<1> DEFINE w == WantedOf(c, s)
           R == Named!Range(w)
           olds == Kept(Installations, lasts)
           puts == Named!Put(olds, w)
<1>1. Listing(w) /\ \A p : p \in R <=> Wants(c, s, p)
  BY WantedIs
<1>2. \A p, q : p \in R /\ q \in R /\ Named!SameObject(p, q) => p = q
  BY <1>1, WantedOnce
<1>3. \A p : p \in puts <=> p \in Named!Subtract(olds, R) \/ p \in R
  <2> HIDE DEF w, olds
  <2> QED
    BY <1>1, <1>2, PutIs
<1>4. \A p : p \in olds <=> InKept(lasts, p)
  BY KeptIs
<1>5. o \in Remaining(olds, w, c) <=> o \in puts /\ ~(o \in Named!Subtract(Named!Discovered(c, puts), R))
  BY DEF Remaining
<1>6. \A sub, all : o \in Named!Subtract(all, sub) <=> o \in all /\ ~\E p \in sub : Named!SameObject(o, p)
  BY DEF Named!Subtract
<1>7. \A all : o \in Named!Discovered(c, all) <=> o \in all /\ Named!Matches(Named!SelectorCHIScope(c), o.labels)
  BY DEF Named!Discovered
<1>8. Named!SameObject(o, o)
  BY DEF Named!SameObject
<1>9. ASSUME NEW d \in Installations, Wants(d, lasts[d], o)
      PROVE  Named!Matches(Named!SelectorCHIScope(c), o.labels) <=> c = d
  <2>1. lasts[d] \in Clusterings \cup {None} /\ lasts[d] # None /\ InChi(d, lasts[d], o)
    BY <1>9 DEF Wants
  <2> QED
    BY <2>1, LayoutsAre, DiscoversOwn
<1>10. ASSUME NEW d \in Installations, Wants(d, lasts[d], o), NEW p \in R, Named!SameObject(o, p)
       PROVE  c = d
  <2>1. Wants(c, s, p)
    BY <1>1
  <2>2. lasts[d] \in Clusterings \cup {None}
    OBVIOUS
  <2> HIDE DEF R
  <2> QED
    BY <1>10, <2>1, <2>2, WantedOnce
<1> HIDE DEF R, olds, puts, w
<1>11. ASSUME Wants(c, s, o) PROVE o \in Remaining(olds, w, c)
  <2>1. o \in R
    BY <1>1, <1>11
  <2> QED
    BY <1>3, <1>5, <1>6, <1>8, <2>1
<1>12. ASSUME NEW d \in Installations, d # c, Wants(d, lasts[d], o) PROVE o \in Remaining(olds, w, c)
  <2>1. o \in olds
    BY <1>4, <1>12 DEF InKept
  <2>2. o \in Named!Subtract(olds, R)
    BY <1>6, <1>10, <1>12, <2>1
  <2>3. o \in puts /\ o \notin Named!Discovered(c, puts)
    BY <1>3, <1>7, <1>9, <1>12, <2>2
  <2> QED
    BY <1>5, <1>6, <2>3
<1>13. ASSUME o \in Remaining(olds, w, c), ~Wants(c, s, o)
       PROVE  \E d \in Installations : d # c /\ Wants(d, lasts[d], o)
  <2>1. o \in puts /\ o \notin Named!Subtract(Named!Discovered(c, puts), R) /\ o \notin R
    BY <1>1, <1>5, <1>13
  <2>2. o \in Named!Subtract(olds, R)
    BY <1>3, <2>1
  <2>3. o \in olds /\ ~\E p \in R : Named!SameObject(o, p)
    BY <1>6, <2>2
  <2>4. o \notin Named!Discovered(c, puts)
    BY <1>6, <2>1, <2>3
  <2>5. PICK d \in Installations : Wants(d, lasts[d], o)
    BY <1>4, <2>3 DEF InKept
  <2>6. d # c
    BY <1>7, <1>9, <2>1, <2>4, <2>5
  <2> QED
    BY <2>5, <2>6
<1>14. o \in Remaining(olds, w, c) <=>
         Wants(c, s, o) \/ \E d \in Installations : d # c /\ Wants(d, lasts[d], o)
  BY <1>11, <1>12, <1>13
<1> QED
  BY <1>14 DEF olds, w

\* At first there is nothing.
LEMMA RegisteredInit ==
  ASSUME Named!WellNamed, Named!Init
  PROVE  Registered
<1>1. /\ spec = [c \in Installations |-> None] /\ store = {}
      /\ reconciled = [c \in Installations |-> None]
  BY DEF Named!Init
<1>2. reconciled \in [Installations -> Clusterings \cup {None}]
  BY <1>1
<1>3. \A o : o \notin Kept(Installations, reconciled)
  BY <1>1, <1>2, KeptIs DEF InKept, Wants
<1> QED
  BY <1>1, <1>2, <1>3 DEF Registered

\* A pass, whatever users do between passes, keeps the registry.
LEMMA PassKeeps ==
  ASSUME Named!WellNamed, Registered, NEW c \in Installations, Named!Reconcile(c)
  PROVE  /\ Registered'
         /\ reconciled' = [reconciled EXCEPT ![c] = spec[c]] /\ reconciled[c] # spec[c]
<1>1. /\ reconciled' = [reconciled EXCEPT ![c] = spec[c]] /\ spec' = spec /\ reconciled[c] # spec[c]
      /\ store' = Remaining(store, WantedOf(c, spec[c]), c)
  BY DEF Named!Reconcile, Remaining, WantedOf
<1>2. /\ spec[c] \in Clusterings \cup {None}
      /\ reconciled \in [Installations -> Clusterings \cup {None}]
      /\ reconciled' \in [Installations -> Clusterings \cup {None}]
      /\ reconciled'[c] = spec[c] /\ \A d \in Installations : d # c => reconciled'[d] = reconciled[d]
  BY <1>1 DEF Registered
<1>3. store = Kept(Installations, reconciled)
  BY DEF Registered
<1>4. ASSUME NEW o PROVE o \in store' <=> o \in Kept(Installations, reconciled')
  <2>1. o \in store' <=> Wants(c, spec[c], o) \/ \E d \in Installations : d # c /\ Wants(d, reconciled[d], o)
    BY <1>1, <1>2, <1>3, PassLeaves
  <2>2. o \in Kept(Installations, reconciled') <=> InKept(reconciled', o)
    BY <1>2, KeptIs
  <2> QED
    BY <1>2, <2>1, <2>2 DEF InKept
<1>5. store' = Kept(Installations, reconciled')
  BY <1>4
<1> QED
  BY <1>1, <1>2, <1>5 DEF Registered

\* An edit changes no object.
LEMMA EditKeeps ==
  ASSUME Registered, NEW c \in Installations, Named!Edit(c)
  PROVE  Registered' /\ UNCHANGED <<store, reconciled>>
<1>1. PICK s \in (Clusterings \cup {None}) \ {spec[c]} :
        spec' = [spec EXCEPT ![c] = s] /\ store' = store /\ reconciled' = reconciled
  BY DEF Named!Edit
<1>2. spec' \in [Installations -> Clusterings \cup {None}]
  BY <1>1 DEF Registered
<1> QED
  BY <1>1, <1>2 DEF Registered

\* The parts are explored apart.
Registers == part = "names" => Registered

\* The invariant at first, in every part,
LEMMA RegistersInit ==
  ASSUME Named!WellNamed, InitAll
  PROVE  Registers
BY RegisteredInit DEF InitAll, Registers

\* and after every step.
LEMMA RegistersNext ==
  ASSUME Named!WellNamed, Registers, [NextAll]_allVars
  PROVE  Registers'
<1>1. CASE NamesStep
  <2>1. part = "names" /\ Registered /\ \E c \in Installations : Named!Edit(c) \/ Named!Reconcile(c)
    BY <1>1 DEF NamesStep, Named!Next, Registers
  <2>2. Registered'
    BY <2>1, EditKeeps, PassKeeps
  <2> QED
    BY <2>2 DEF Registers
<1>2. CASE ZooKeeperStep \/ LayoutStep \/ PodStep \/ NodesStep
  BY <1>2 DEF ZooKeeperStep, LayoutStep, PodStep, NodesStep, Registers
<1>3. CASE UNCHANGED allVars
  BY <1>3 DEF allVars, registry, Registers, Registered
<1> QED
  BY <1>1, <1>2, <1>3 DEF NextAll

\* What is there, some CHI wanted in its last pass.
LEMMA InTheStore ==
  ASSUME Named!WellNamed, Registered, NEW o
  PROVE  o \in store <=> \E c \in Installations : Wants(c, reconciled[c], o)
<1>1. reconciled \in [Installations -> Clusterings \cup {None}] /\ store = Kept(Installations, reconciled)
  BY DEF Registered
<1> QED
  BY <1>1, KeptIs DEF InKept

\* What was reconciled last was a layout that a user asked for.
LEMMA LastLayout ==
  ASSUME Named!WellNamed, Registered, NEW c \in Installations, reconciled[c] # None
  PROVE  reconciled[c] \in Clusterings /\ Named!WellNamedLayout(reconciled[c])
<1>1. reconciled[c] \in Clusterings
  BY DEF Registered
<1> QED
  BY <1>1, LayoutsAre

\* Then every host has its three objects,
LEMMA HostsHave ==
  ASSUME Named!WellNamed, Registered
  PROVE  Named!HostsApart
<1> SUFFICES ASSUME NEW c \in Installations, reconciled[c] # None, NEW h \in Named!Hosts(reconciled[c]),
                    NEW kind \in {"StatefulSet", "Service", "ConfigMap"}
             PROVE  \E o \in store : o.owner = c /\ o.kind = kind /\ o.hosts = {h}
  BY DEF Named!HostsApart
<1> DEFINE l == reconciled[c]
<1>1. Named!WellNamedLayout(l)
  BY LastLayout
<1>2. PICK i, j, k : HostIn(l, i, j, k) /\ h = <<i, j, k>>
  BY HostsAre
<1>3. /\ HostConfig(c, l, i, j, k) \in store /\ HostSet(c, l, i, j, k) \in store
      /\ HostService(c, l, i, j, k) \in store
  BY <1>2, InTheStore, HostObjectsIn DEF Wants
<1>4. /\ Is(HostConfig(c, l, i, j, k), c, "ConfigMap", NameOfConfig(c, l[i].name, Named!HostName(l, i, j, k)),
            Named!SelectorHostScope(c, l, i, j, k), << >>, {h})
      /\ Is(HostSet(c, l, i, j, k), c, "StatefulSet", NameOfHost(c, l[i].name, Named!HostName(l, i, j, k)),
            Named!SelectorHostScope(c, l, i, j, k), Named!SelectorHostScope(c, l, i, j, k), {h})
      /\ Is(HostService(c, l, i, j, k), c, "Service", NameOfHost(c, l[i].name, Named!HostName(l, i, j, k)),
            Named!SelectorHostScope(c, l, i, j, k), Named!SelectorHostScope(c, l, i, j, k), {h})
  BY <1>1, <1>2, HostConfigIs, HostSetIs, HostServiceIs
<1> QED
  BY <1>3, <1>4 DEF Is

\* and every Service leads to its hosts.
LEMMA ServicesLead ==
  ASSUME Named!WellNamed, Registered
  PROVE  Named!ServicesExact
<1> SUFFICES ASSUME NEW o \in store, o.kind = "Service"
             PROVE  LET all == {p \in store : p.kind = "StatefulSet" /\ Named!Matches(o.selector, p.labels)}
                    IN (\A p \in all : p.owner = o.owner) /\ UNION {p.hosts : p \in all} = o.hosts
  BY DEF Named!ServicesExact
<1> DEFINE all == {p \in store : p.kind = "StatefulSet" /\ Named!Matches(o.selector, p.labels)}
<1>1. PICK c \in Installations : Wants(c, reconciled[c], o)
  BY InTheStore
<1> DEFINE l == reconciled[c]
<1>2. Named!WellNamedLayout(l) /\ InChi(c, l, o)
  BY <1>1, LastLayout DEF Wants
<1>3. AService(c, l, o) /\ o.owner = c
  <2>1. Classes(c, l, o)
    BY <1>2, InClasses
  <2> QED
    BY <1>2, <2>1, OfItsKind, KindsAre
<1>4. ASSUME NEW p \in all
      PROVE  \E i, j, k : HostIn(l, i, j, k) /\ p.owner = c /\ p.hosts = {<<i, j, k>>} /\ <<i, j, k>> \in o.hosts
  <2>1. PICK d \in Installations : Wants(d, reconciled[d], p)
    BY InTheStore
  <2> DEFINE m == reconciled[d]
  <2>2. Named!WellNamedLayout(m) /\ InChi(d, m, p)
    BY <2>1, LastLayout DEF Wants
  <2>3. ASet(d, m, p)
    <3>1. Classes(d, m, p) /\ p.kind = "StatefulSet"
      BY <2>2, InClasses
    <3> QED
      BY <2>2, <3>1, OfItsKind
  <2>4. PICK i, j, k : HostIn(m, i, j, k) /\ p = HostSet(d, m, i, j, k)
    BY <2>3 DEF ASet
  <2>5. p.owner = d /\ p.labels = Named!SelectorHostScope(d, m, i, j, k) /\ p.hosts = {<<i, j, k>>}
    BY <2>2, <2>4, HostSetIs DEF Is
  <2>6. Named!Matches(o.selector, Named!SelectorHostScope(d, m, i, j, k))
    BY <2>5
  <2>7. c = d
    BY <1>2, <1>3, <2>6, SelectsOwn
  <2>8. <<i, j, k>> \in o.hosts
    BY <1>2, <1>3, <2>4, <2>6, <2>7, SelectsRight
  <2> QED
    BY <2>4, <2>5, <2>7, <2>8
<1>5. ASSUME NEW h \in o.hosts PROVE \E p \in all : h \in p.hosts
  <2>1. PICK i, j, k : HostIn(l, i, j, k) /\ h = <<i, j, k>>
    BY <1>2, <1>3, ForHosts, HostsAre
  <2>2. HostSet(c, l, i, j, k) \in store
    BY <1>1, <2>1, InTheStore, HostObjectsIn DEF Wants
  <2>3. /\ HostSet(c, l, i, j, k).kind = "StatefulSet" /\ HostSet(c, l, i, j, k).hosts = {h}
        /\ HostSet(c, l, i, j, k).labels = Named!SelectorHostScope(c, l, i, j, k)
    BY <1>2, <2>1, HostSetIs DEF Is
  <2>4. Named!Matches(o.selector, Named!SelectorHostScope(c, l, i, j, k))
    BY <1>2, <1>3, <2>1, SelectsRight
  <2> QED
    BY <2>2, <2>3, <2>4
<1>6. \A p \in all : p.owner = o.owner
  BY <1>3, <1>4
<1>7. \A h : h \in UNION {p.hosts : p \in all} <=> h \in o.hosts
  <2> HIDE DEF all
  <2>1. \A p \in all : \A h \in p.hosts : h \in o.hosts
    BY <1>4
  <2>2. \A h : h \in UNION {p.hosts : p \in all} <=> \E p \in all : h \in p.hosts
    OBVIOUS
  <2> QED
    BY <1>5, <2>1, <2>2
<1>8. UNION {p.hosts : p \in all} = o.hosts
  BY <1>7
<1> QED
  BY <1>6, <1>8

\* Every host of every CHI has a StatefulSet, a Service and a ConfigMap of its
\* own after any passes, if the names of users tell everything apart.
THEOREM HostsKeepApart ==
  ASSUME Named!WellNamed
  PROVE  SpecAll => []HostsApart
<1>1. InitAll => Registers
  BY RegistersInit
<1>2. Registers /\ [NextAll]_allVars => Registers'
  BY RegistersNext
<1>3. Registers => HostsApart
  BY HostsHave DEF Registers, HostsApart
<1> QED
  BY <1>1, <1>2, <1>3, PTL DEF SpecAll

\* A Service leads to the Pods it is for and to no others.
THEOREM ServicesStayExact ==
  ASSUME Named!WellNamed
  PROVE  SpecAll => []ServicesExact
<1>1. InitAll => Registers
  BY RegistersInit
<1>2. Registers /\ [NextAll]_allVars => Registers'
  BY RegistersNext
<1>3. Registers => ServicesExact
  BY ServicesLead DEF Registers, ServicesExact
<1> QED
  BY <1>1, <1>2, <1>3, PTL DEF SpecAll

\* What a pass over one CHI removes is of that CHI.
RemovesOwn == part = "names" => \A o \in store \ store' : reconciled'[o.owner] # reconciled[o.owner]

\* What a step removes is of the CHI whose pass it is.
LEMMA PassRemovesOwn ==
  ASSUME Named!WellNamed, Registers, Registers', [NextAll]_allVars
  PROVE  RemovesOwn
<1> SUFFICES ASSUME part = "names", NEW o \in store, o \notin store'
             PROVE  reconciled'[o.owner] # reconciled[o.owner]
  BY DEF RemovesOwn
<1>1. Registered
  BY DEF Registers
<1>2. PICK c \in Installations : Named!Reconcile(c)
  <2>1. ~ UNCHANGED allVars /\ ~ ZooKeeperStep /\ ~ LayoutStep /\ ~ PodStep /\ ~ NodesStep
    BY DEF allVars, registry, ZooKeeperStep, LayoutStep, PodStep, NodesStep
  <2>2. \E c \in Installations : Named!Edit(c) \/ Named!Reconcile(c)
    BY <2>1 DEF NextAll, NamesStep, Named!Next
  <2> QED
    BY <1>1, <2>2, EditKeeps
<1>3. Registered' /\ reconciled' = [reconciled EXCEPT ![c] = spec[c]] /\ reconciled[c] # spec[c]
  BY <1>1, <1>2, PassKeeps
<1>4. PICK d \in Installations : Wants(d, reconciled[d], o)
  BY <1>1, InTheStore
<1>5. o.owner = d
  <2>1. Named!WellNamedLayout(reconciled[d]) /\ InChi(d, reconciled[d], o)
    BY <1>1, <1>4, LastLayout DEF Wants
  <2>2. Classes(d, reconciled[d], o)
    BY <2>1, InClasses
  <2> QED
    BY <2>1, <2>2, KindsAre
<1>6. d = c
  <2>1. ~ Wants(d, reconciled'[d], o)
    <3>1. reconciled' \in [Installations -> Clusterings \cup {None}] /\ store' = Kept(Installations, reconciled')
      BY <1>3 DEF Registered
    <3> QED
      BY <3>1, KeptIs DEF InKept
  <2>2. d # c => reconciled'[d] = reconciled[d]
    BY <1>1, <1>3 DEF Registered
  <2> QED
    BY <1>4, <2>1, <2>2
<1>7. reconciled'[c] = spec[c]
  BY <1>1, <1>3 DEF Registered
<1> QED
  BY <1>3, <1>5, <1>6, <1>7

\* A pass over one CHI removes none of the objects of another.
THEOREM PurgesOwn ==
  ASSUME Named!WellNamed
  PROVE  SpecAll => [][RemovesOwn]_allVars
<1>1. InitAll => Registers
  BY RegistersInit
<1>2. Registers /\ [NextAll]_allVars => Registers'
  BY RegistersNext
<1>3. Registers /\ Registers' /\ [NextAll]_allVars => RemovesOwn
  BY PassRemovesOwn
<1> QED
  BY <1>1, <1>2, <1>3, PTL DEF SpecAll

-----------------------------------------------------------------------------
(* Hosts that users have named                                             *)

\* A host has one key, by which the user tells it, or none.
NamedHost(x, h) == {<<x, h>>}
NamedShard(x, s, k) == {<<x, s, k>>}

\* The key of a host is its name, or that of its shard and its place there.
LEMMA KeyIs ==
  ASSUME NEW l, NEW i, NEW j, NEW k, Named!Key(l, <<i, j, k>>) # {}
  PROVE  \/ /\ l[i].shards[j].hosts[k] # Unnamed
            /\ Named!Key(l, <<i, j, k>>) = NamedHost(l[i].name, l[i].shards[j].hosts[k])
         \/ /\ l[i].shards[j].hosts[k] = Unnamed /\ l[i].shards[j].name # Unnamed
            /\ Named!Key(l, <<i, j, k>>) = NamedShard(l[i].name, l[i].shards[j].name, k)
<1>1. <<i, j, k>>[1] = i /\ <<i, j, k>>[2] = j /\ <<i, j, k>>[3] = k
  OBVIOUS
<1> QED
  BY <1>1 DEF Named!Key, NamedHost, NamedShard

\* Keys of hosts of different names differ,
LEMMA NamedHostsApart ==
  ASSUME NEW a, NEW b, NEW c, NEW d, NamedHost(a, b) = NamedHost(c, d)
  PROVE  a = c /\ b = d
<1>1. <<a, b>> = <<c, d>>
  BY DEF NamedHost
<1> QED
  BY <1>1

\* so do those of places in shards,
LEMMA NamedShardsApart ==
  ASSUME NEW a, NEW b, NEW c, NEW d, NEW e, NEW f, NamedShard(a, b, c) = NamedShard(d, e, f)
  PROVE  a = d /\ b = e /\ c = f
<1>1. <<a, b, c>> = <<d, e, f>>
  BY DEF NamedShard
<1> QED
  BY <1>1

\* and no name of a host is a place in a shard.
LEMMA HostNoShard ==
  ASSUME NEW a, NEW b, NEW d, NEW e, NEW f
  PROVE  NamedHost(a, b) # NamedShard(d, e, f)
<1>1. SUFFICES ASSUME NamedHost(a, b) = NamedShard(d, e, f) PROVE FALSE
  OBVIOUS
<1>2. <<a, b>> = <<d, e, f>>
  BY <1>1 DEF NamedHost, NamedShard
<1>3. Len(<<a, b>>) = 2 /\ Len(<<d, e, f>>) = 3
  OBVIOUS
<1> QED
  BY <1>2, <1>3

\* Hosts of one key have one name, in whatever layouts and places.
LEMMA OneKeyOneName ==
  ASSUME Named!WellNamed, NEW l, Named!WellNamedLayout(l), NEW m, Named!WellNamedLayout(m),
         NEW i, NEW j, NEW k, HostIn(l, i, j, k), NEW i2, NEW j2, NEW k2, HostIn(m, i2, j2, k2),
         Named!Key(l, <<i, j, k>>) # {}, Named!Key(l, <<i, j, k>>) = Named!Key(m, <<i2, j2, k2>>)
  PROVE  l[i].name = m[i2].name /\ Named!HostName(l, i, j, k) = Named!HostName(m, i2, j2, k2)
<1> DEFINE a == l[i].shards[j].hosts[k]
           b == m[i2].shards[j2].hosts[k2]
           s == l[i].shards[j].name
           t == m[i2].shards[j2].name
<1>1. \/ a # Unnamed /\ Named!Key(l, <<i, j, k>>) = NamedHost(l[i].name, a)
      \/ a = Unnamed /\ s # Unnamed /\ Named!Key(l, <<i, j, k>>) = NamedShard(l[i].name, s, k)
  BY KeyIs
<1>2. \/ b # Unnamed /\ Named!Key(m, <<i2, j2, k2>>) = NamedHost(m[i2].name, b)
      \/ b = Unnamed /\ t # Unnamed /\ Named!Key(m, <<i2, j2, k2>>) = NamedShard(m[i2].name, t, k2)
  BY KeyIs
<1>3. /\ a # Unnamed => Named!HostName(l, i, j, k) = a
      /\ b # Unnamed => Named!HostName(m, i2, j2, k2) = b
  BY HostNameEither
<1>4. /\ a = Unnamed => Named!HostName(l, i, j, k) = Dashed(Named!ShardName(l, i, j), Named!Num(k - 1))
      /\ b = Unnamed => Named!HostName(m, i2, j2, k2) = Dashed(Named!ShardName(m, i2, j2), Named!Num(k2 - 1))
  BY HostNameEither, CreateHostNameIs
<1>5. (s # Unnamed => Named!ShardName(l, i, j) = s) /\ (t # Unnamed => Named!ShardName(m, i2, j2) = t)
  BY DEF Named!ShardName
<1>6. CASE a # Unnamed /\ b # Unnamed
  <2>1. NamedHost(l[i].name, a) = NamedHost(m[i2].name, b)
    BY <1>1, <1>2, <1>6
  <2>2. l[i].name = m[i2].name /\ a = b
    BY <2>1, NamedHostsApart, NamedShardsApart, HostNoShard
  <2> QED
    BY <1>3, <1>6, <2>2
<1>7. CASE a = Unnamed /\ b = Unnamed
  <2>1. NamedShard(l[i].name, s, k) = NamedShard(m[i2].name, t, k2) /\ s # Unnamed /\ t # Unnamed
    BY <1>1, <1>2, <1>7
  <2>2. l[i].name = m[i2].name /\ s = t /\ k = k2
    BY <2>1, NamedHostsApart, NamedShardsApart, HostNoShard
  <2> QED
    BY <1>4, <1>5, <1>7, <2>1, <2>2
<1>8. CASE a # Unnamed /\ b = Unnamed
  <2>1. NamedHost(l[i].name, a) = NamedShard(m[i2].name, t, k2)
    BY <1>1, <1>2, <1>8
  <2> QED
    BY <2>1, NamedHostsApart, NamedShardsApart, HostNoShard
<1>9. CASE a = Unnamed /\ b # Unnamed
  <2>1. NamedShard(l[i].name, s, k) = NamedHost(m[i2].name, b)
    BY <1>1, <1>2, <1>9
  <2> QED
    BY <2>1, NamedHostsApart, NamedShardsApart, HostNoShard
<1> QED
  BY <1>6, <1>7, <1>8, <1>9

\* The StatefulSets of a key.
NameOfKey(c, l, key, name) ==
  \E i, j, k : /\ HostIn(l, i, j, k) /\ Named!Key(l, <<i, j, k>>) = key
               /\ name = NameOfHost(c, l[i].name, Named!HostName(l, i, j, k))

\* They are what the hosts of that key have.
LEMMA SetsOfKey ==
  ASSUME Named!WellNamed, NEW c \in Installations, NEW l \in Clusterings, NEW key, NEW name
  PROVE  name \in Named!StatefulSetsOf(c, l, key) <=> NameOfKey(c, l, key, name)
<1>0. Named!WellNamedLayout(l) /\ Named!ObjectsOf[c][l] = Named!Objects(c, l)
  BY LayoutsAre DEF Named!ObjectsOf
<1>1. \A o : o \in Named!Range(Named!ObjectsOf[c][l]) <=> InChi(c, l, o)
  BY <1>0, ObjectsAre
<1>2. name \in Named!StatefulSetsOf(c, l, key) <=>
        \E o : InChi(c, l, o) /\ o.kind = "StatefulSet" /\ (\E h \in o.hosts : Named!Key(l, h) = key) /\ name = o.name
  BY <1>1 DEF Named!StatefulSetsOf
<1>3. ASSUME NEW o, InChi(c, l, o), o.kind = "StatefulSet", NEW h \in o.hosts, Named!Key(l, h) = key, name = o.name
      PROVE  NameOfKey(c, l, key, name)
  <2>1. Classes(c, l, o)
    BY <1>3, InClasses
  <2>2. ASet(c, l, o)
    BY <1>0, <1>3, <2>1, OfItsKind
  <2>3. PICK i, j, k : HostIn(l, i, j, k) /\ o = HostSet(c, l, i, j, k)
    BY <2>2 DEF ASet
  <2>4. o.name = NameOfHost(c, l[i].name, Named!HostName(l, i, j, k)) /\ o.hosts = {<<i, j, k>>}
    BY <1>0, <2>3, HostSetIs DEF Is
  <2>5. h = <<i, j, k>>
    BY <1>3, <2>4
  <2> QED
    BY <1>3, <2>3, <2>4, <2>5 DEF NameOfKey
<1>4. ASSUME NEW i, NEW j, NEW k, HostIn(l, i, j, k), Named!Key(l, <<i, j, k>>) = key,
             name = NameOfHost(c, l[i].name, Named!HostName(l, i, j, k))
      PROVE  \E o : InChi(c, l, o) /\ o.kind = "StatefulSet" /\ (\E h \in o.hosts : Named!Key(l, h) = key) /\ name = o.name
  <2>1. InChi(c, l, HostSet(c, l, i, j, k))
    BY <1>4, HostObjectsIn
  <2>2. /\ HostSet(c, l, i, j, k).kind = "StatefulSet" /\ HostSet(c, l, i, j, k).name = name
        /\ HostSet(c, l, i, j, k).hosts = {<<i, j, k>>}
    BY <1>0, <1>4, HostSetIs DEF Is
  <2> QED
    BY <1>4, <2>1, <2>2
<1> QED
  BY <1>2, <1>3, <1>4 DEF NameOfKey

\* They are the same in any two layouts that have the key.
LEMMA KeysKeepSets ==
  ASSUME Named!WellNamed, NEW c \in Installations, NEW l \in Clusterings, NEW m \in Clusterings,
         NEW h \in Named!Hosts(l), NEW g \in Named!Hosts(m),
         Named!Key(l, h) # {}, Named!Key(l, h) = Named!Key(m, g)
  PROVE  Named!StatefulSetsOf(c, l, Named!Key(l, h)) = Named!StatefulSetsOf(c, m, Named!Key(l, h))
<1>1. Named!WellNamedLayout(l) /\ Named!WellNamedLayout(m)
  BY LayoutsAre
<1>2. PICK i, j, k : HostIn(l, i, j, k) /\ h = <<i, j, k>>
  BY HostsAre
<1>3. PICK i2, j2, k2 : HostIn(m, i2, j2, k2) /\ g = <<i2, j2, k2>>
  BY HostsAre
<1> DEFINE key == Named!Key(l, <<i, j, k>>)
           only == NameOfHost(c, l[i].name, Named!HostName(l, i, j, k))
<1>4. ASSUME NEW name PROVE name \in Named!StatefulSetsOf(c, l, key) <=> name = only
  <2>1. ASSUME NEW x, NEW y, NEW z, HostIn(l, x, y, z), Named!Key(l, <<x, y, z>>) = key
        PROVE  l[i].name = l[x].name /\ Named!HostName(l, i, j, k) = Named!HostName(l, x, y, z)
    BY <1>1, <1>2, <2>1, OneKeyOneName
  <2>2. name \in Named!StatefulSetsOf(c, l, key) <=> NameOfKey(c, l, key, name)
    BY SetsOfKey
  <2> QED
    BY <1>2, <2>1, <2>2 DEF NameOfKey
<1>5. ASSUME NEW name PROVE name \in Named!StatefulSetsOf(c, m, key) <=> name = only
  <2>1. ASSUME NEW x, NEW y, NEW z, HostIn(m, x, y, z), Named!Key(m, <<x, y, z>>) = key
        PROVE  l[i].name = m[x].name /\ Named!HostName(l, i, j, k) = Named!HostName(m, x, y, z)
    BY <1>1, <1>2, <2>1, OneKeyOneName
  <2>2. name \in Named!StatefulSetsOf(c, m, key) <=> NameOfKey(c, m, key, name)
    BY SetsOfKey
  <2> QED
    BY <1>2, <1>3, <2>1, <2>2 DEF NameOfKey
<1>6. Named!StatefulSetsOf(c, l, key) = Named!StatefulSetsOf(c, m, key)
  BY <1>4, <1>5
<1> QED
  BY <1>2, <1>6

\* The parts are explored apart.
NamesStay == part = "names" => Named!NamedStay

\* So no step changes them.
LEMMA StepKeepsSets ==
  ASSUME Named!WellNamed, Registers, Registers', [NextAll]_allVars
  PROVE  NamesStay
<1> SUFFICES ASSUME part = "names"
             PROVE  Named!NamedStay
  BY DEF NamesStay
<1>1. Registered /\ Registered'
  <2>1. part' = part
    BY DEF NextAll, ZooKeeperStep, LayoutStep, NamesStep, PodStep, NodesStep, allVars
  <2> QED
    BY <2>1 DEF Registers
<1> SUFFICES ASSUME NEW c \in Installations, reconciled[c] # None, reconciled'[c] # None,
                    NEW h \in Named!Hosts(reconciled[c]), Named!Key(reconciled[c], h) # {},
                    NEW g \in Named!Hosts(reconciled'[c]),
                    Named!Key(reconciled[c], h) = Named!Key(reconciled'[c], g)
             PROVE  Named!StatefulSetsOf(c, reconciled[c], Named!Key(reconciled[c], h)) =
                      Named!StatefulSetsOf(c, reconciled'[c], Named!Key(reconciled[c], h))
  BY DEF Named!NamedStay
<1>2. reconciled[c] \in Clusterings /\ reconciled'[c] \in Clusterings
  BY <1>1 DEF Registered
<1> QED
  BY <1>2, KeysKeepSets

\* A host that the user has named, or whose shard is, keeps its StatefulSet
\* wherever edits move it: the name of the StatefulSet is made of names, and of
\* the place in the shard only for a host without one (creator.go, namer.go).
THEOREM NamesKeepSets ==
  ASSUME Named!WellNamed
  PROVE  SpecAll => NamedStays
<1>1. InitAll => Registers
  BY RegistersInit
<1>2. Registers /\ [NextAll]_allVars => Registers'
  BY RegistersNext
<1>3. Registers /\ Registers' /\ [NextAll]_allVars => (part = "names" => Named!NamedStay)
  BY StepKeepsSets DEF NamesStay
<1> QED
  BY <1>1, <1>2, <1>3, PTL DEF SpecAll, NamedStays

=============================================================================
