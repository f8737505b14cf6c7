--------------------------- MODULE HttpParserProofs ---------------------------
(***************************************************************************)
(* Proofs about HttpParser and HttpEncoder, for any header names, packets, *)
(* messages, numbers of them and sizes of chunks, with bodies as long as   *)
(* one likes: the callbacks of the vendored parser, cut into reads         *)
(* anywhere, make packets with the content of their messages, and what     *)
(* HttpEncoder has written comes back with its body, its word on the       *)
(* connection and, unless one before another has no value, its headers.    *)
(***************************************************************************)
EXTENDS HttpParser, SequenceTheorems, WellFoundedInduction, TLAPS

\* A set of numbers with 0 and with the successor of each of its members has all.
LEMMA SetInduction ==
    ASSUME NEW T \in SUBSET Nat, 0 \in T, \A n \in T : n + 1 \in T
    PROVE  T = Nat
<1> DEFINE R == OpToRel(<, Nat)
<1>1. IsWellFoundedOn(R, Nat)
  BY Zenon, NatLessThanWellFounded
<1>2. \A p \in Nat \X Nat : p[1] < p[2] => p \in R
  BY Zenon DEF OpToRel
<1> HIDE DEF R
<1>3. \A i, j \in Nat : i < j => <<i, j>> \in R
  BY <1>2
<1>4. ASSUME NEW x \in Nat \ T, \A y \in Nat \ T : <<y, x>> \notin R
      PROVE  FALSE
  <2>1. x - 1 \in Nat /\ x - 1 < x
    OBVIOUS
  <2>2. <<x - 1, x>> \in R
    BY <1>3, <2>1
  <2>3. x - 1 \in T
    BY Zenon, <1>4, <2>1, <2>2
  <2> QED
    BY <2>1, <2>3
<1>5. CASE Nat \ T # {}
  <2>1. Nat \ T \subseteq Nat
    OBVIOUS
  <2>2. \E x \in Nat \ T : \A y \in Nat \ T : ~(<<y, x>> \in R)
    BY Zenon, <1>1, <1>5, <2>1, WFMin
  <2> QED
    BY Zenon, <1>4, <2>2
<1> QED
  BY <1>5

\* f is made step by step from a.
Chain(f, k, a, step) == f[1] = a /\ \A i \in 2 .. k : f[i] = step[i][f[i - 1]]
HasChain(k, S, a, step) == \E f \in [1 .. k -> S] : Chain(f, k, a, step)

\* Recursion over 1 .. n: by induction.
LEMMA Recursion ==
    ASSUME NEW S, NEW n \in Nat \ {0}, NEW a \in S, NEW step \in [2 .. n -> [S -> S]]
    PROVE  HasChain(n, S, a, step)
<1> DEFINE T == {k \in Nat : k + 1 <= n => HasChain(k + 1, S, a, step)}
<1>1. HasChain(0 + 1, S, a, step)
  <2> DEFINE f == [i \in 1 .. 0 + 1 |-> a]
  <2>1. f \in [1 .. 0 + 1 -> S] /\ Chain(f, 0 + 1, a, step)
    BY DEF Chain
  <2> QED
    BY <2>1 DEF HasChain
<1>2. ASSUME NEW k \in Nat, k + 1 + 1 <= n, HasChain(k + 1, S, a, step)
      PROVE  HasChain(k + 1 + 1, S, a, step)
  <2>1. PICK f \in [1 .. k + 1 -> S] : Chain(f, k + 1, a, step)
    BY <1>2 DEF HasChain
  <2> DEFINE e == step[k + 1 + 1][f[k + 1]]
             g == [i \in 1 .. k + 1 + 1 |-> IF i = k + 1 + 1 THEN e ELSE f[i]]
  <2>2. e \in S
    BY <1>2
  <2>3. ASSUME NEW i \in 2 .. k + 1 + 1
        PROVE  g[i] = step[i][g[i - 1]]
    <3>1. i - 1 \in 1 .. k + 1 + 1 /\ i - 1 # k + 1 + 1
      OBVIOUS
    <3>2. CASE i = k + 1 + 1
      BY <3>1, <3>2
    <3>3. CASE i # k + 1 + 1
      <4>1. f[i] = step[i][f[i - 1]]
        BY <2>1, <3>3 DEF Chain
      <4> QED
        BY <3>1, <3>3, <4>1
    <3> QED
      BY <3>2, <3>3
  <2>4. g[1] = a
    BY <2>1 DEF Chain
  <2> HIDE DEF e
  <2>5. g \in [1 .. k + 1 + 1 -> S]
    BY <2>2
  <2> HIDE DEF g
  <2> QED
    BY <2>3, <2>4, <2>5 DEF HasChain, Chain
<1>3. T = Nat
  <2>1. 0 \in T
    BY <1>1
  <2>2. \A k \in T : k + 1 \in T
    BY <1>2
  <2> HIDE DEF T
  <2> QED
    BY <2>1, <2>2, SetInduction DEF T
<1>4. n - 1 \in T /\ n - 1 + 1 = n
  <2> HIDE DEF T
  <2> QED
    BY <1>3
<1> QED
  BY <1>4

\* f joins the texts of s, one after the other.
Joins(f, s) == f = [i \in 1 .. Len(s) |-> IF i = 1 THEN s[i] ELSE f[i - 1] \o s[i]]

\* FlattenSeq joins them.
LEMMA Flattens ==
    ASSUME NEW S, NEW s \in Seq(Seq(S)), s # <<>>
    PROVE  \E f \in [1 .. Len(s) -> Seq(S)] : Joins(f, s) /\ FlattenSeq(s) = f[Len(s)]
<1> DEFINE n == Len(s)
           step == [i \in 2 .. n |-> [x \in Seq(S) |-> x \o s[i]]]
<1>1. n \in Nat \ {0} /\ \A i \in 1 .. n : s[i] \in Seq(S)
  BY EmptySeq
<1>2. PICK f \in [1 .. n -> Seq(S)] : Chain(f, n, s[1], step)
  <2>1. \A i \in 2 .. n : \A x \in Seq(S) : x \o s[i] \in Seq(S)
    BY <1>1, ConcatProperties
  <2>2. step \in [2 .. n -> [Seq(S) -> Seq(S)]]
    BY <2>1
  <2>3. s[1] \in Seq(S)
    BY <1>1
  <2> HIDE DEF step, n
  <2> QED
    BY <1>1, <2>2, <2>3, Recursion DEF HasChain
<1>3. ASSUME NEW i \in 1 .. n
      PROVE  f[i] = IF i = 1 THEN s[i] ELSE f[i - 1] \o s[i]
  <2>1. CASE i = 1
    BY <1>2, <2>1 DEF Chain
  <2>2. CASE i # 1
    <3>1. i \in 2 .. n /\ i - 1 \in 1 .. n
      BY <1>1, <2>2
    <3>2. f[i] = step[i][f[i - 1]] /\ f[i - 1] \in Seq(S)
      BY <1>2, <3>1 DEF Chain
    <3> QED
      BY <2>2, <3>1, <3>2
  <2> QED
    BY <2>1, <2>2
<1>4. Joins(f, s)
  BY <1>1, <1>3 DEF Joins
<1> DEFINE h == CHOOSE h : Joins(h, s)
<1>5. Joins(h, s)
  BY Zenon, <1>4
<1>6. FlattenSeq(s) = h[n]
  BY <1>1 DEF FlattenSeq, Joins
<1> HIDE DEF h, step
<1>7. ASSUME NEW i \in 1 .. n
      PROVE  h[i] = IF i = 1 THEN s[i] ELSE h[i - 1] \o s[i]
  BY <1>5 DEF Joins
<1> DEFINE T == {k \in Nat : k + 1 <= n => h[k + 1] \in Seq(S)}
<1>8. T = Nat
  <2>1. 0 \in T
    <3>1. h[1] = s[1]
      BY <1>1, <1>7
    <3> QED
      BY <1>1, <3>1
  <2>2. ASSUME NEW k \in T
        PROVE  k + 1 \in T
    <3>1. CASE k + 1 + 1 <= n
      <4>1. h[k + 1] \in Seq(S) /\ s[k + 1 + 1] \in Seq(S) /\ k + 1 + 1 \in 1 .. n
            /\ k + 1 + 1 # 1 /\ k + 1 + 1 - 1 = k + 1
        BY <1>1, <3>1
      <4> DEFINE J(i, r) == h[r] \o s[i]
      <4>2. ASSUME NEW i \in 1 .. n, i # 1
            PROVE  h[i] = J(i, i - 1)
        BY <1>7, <4>2
      <4> HIDE DEF J
      <4>4. h[k + 1 + 1] = J(k + 1 + 1, k + 1)
        BY <4>1, <4>2
      <4>5. h[k + 1 + 1] = h[k + 1] \o s[k + 1 + 1]
        BY Zenon, <4>4 DEF J
      <4>3. h[k + 1 + 1] \in Seq(S)
        BY <4>1, <4>5, ConcatProperties
      <4> QED
        BY <4>3
    <3> QED
      BY <3>1
  <2> HIDE DEF T
  <2> QED
    BY <2>1, <2>2, SetInduction DEF T
<1>9. ASSUME NEW i \in 1 .. n
      PROVE  h[i] \in Seq(S)
  <2>1. i - 1 \in T /\ i - 1 + 1 = i
    <3> HIDE DEF T
    <3> QED
      BY <1>8
  <2> QED
    BY <2>1
<1>10. h \in [1 .. n -> Seq(S)]
  BY <1>5, <1>9 DEF Joins
<1> QED
  BY <1>5, <1>6, <1>10

\* What FlattenSeq has joined after each text, and what after the last.
Growth(f, s, S) ==
    /\ f \in [0 .. Len(s) -> Seq(S)]
    /\ f[0] = <<>>
    /\ \A i \in 1 .. Len(s) : f[i] = f[i - 1] \o s[i]
    /\ FlattenSeq(s) = f[Len(s)]

LEMMA FlattenGrows ==
    ASSUME NEW S, NEW s \in Seq(Seq(S))
    PROVE  \E f : Growth(f, s, S)
<1>1. CASE s = <<>>
  <2> DEFINE f == [i \in 0 .. Len(s) |-> s]
  <2>1. Len(s) = 0 /\ s \in Seq(S)
    BY <1>1, EmptySeq
  <2>2. FlattenSeq(s) = s
    BY <2>1 DEF FlattenSeq
  <2>3. Growth(f, s, S)
    BY <1>1, <2>1, <2>2 DEF Growth
  <2> QED
    BY <2>3
<1>2. CASE s # <<>>
  <2>1. Len(s) \in Nat \ {0} /\ \A i \in 1 .. Len(s) : s[i] \in Seq(S)
    BY <1>2, EmptySeq
  <2>2. PICK f \in [1 .. Len(s) -> Seq(S)] : Joins(f, s) /\ FlattenSeq(s) = f[Len(s)]
    BY <1>2, Flattens
  <2>3. ASSUME NEW i \in 1 .. Len(s)
        PROVE  f[i] = IF i = 1 THEN s[i] ELSE f[i - 1] \o s[i]
    BY <2>2 DEF Joins
  <2> DEFINE g == [i \in 0 .. Len(s) |-> IF i = 0 THEN <<>> ELSE f[i]]
  <2>4. <<>> \in Seq(S)
    BY EmptySeq
  <2>5. g \in [0 .. Len(s) -> Seq(S)]
    BY <2>4
  <2>6. ASSUME NEW i \in 1 .. Len(s)
        PROVE  g[i] = g[i - 1] \o s[i]
    <3>1. CASE i = 1
      <4>3. f[1] = s[1]
        BY <2>3, <3>1
      <4>1. g[i] = s[1] /\ g[i - 1] = <<>>
        BY <2>1, <3>1, <4>3
      <4>2. <<>> \o s[1] = s[1]
        BY <2>1, ConcatEmptySeq
      <4> QED
        BY <3>1, <4>1, <4>2
    <3>2. CASE i # 1
      <4>1. g[i] = f[i] /\ g[i - 1] = f[i - 1]
        BY <3>2
      <4> QED
        BY <2>3, <3>2, <4>1
    <3> QED
      BY <3>1, <3>2
  <2>7. g[0] = <<>> /\ g[Len(s)] = f[Len(s)]
    BY <2>1
  <2> HIDE DEF g
  <2>8. Growth(g, s, S)
    BY <2>2, <2>5, <2>6, <2>7 DEF Growth
  <2> QED
    BY <2>8
<1> QED
  BY <1>1, <1>2


\* Induction up to n.
LEMMA UpTo ==
    ASSUME NEW n \in Nat, NEW T, 0 \in T, \A k \in 0 .. n - 1 : k \in T => k + 1 \in T
    PROVE  \A k \in 0 .. n : k \in T
<1> DEFINE U == {k \in Nat : k <= n => k \in T}
<1>1. 0 \in U
  OBVIOUS
<1>2. \A k \in U : k + 1 \in U
  OBVIOUS
<1>3. U = Nat
  <2> HIDE DEF U
  <2> QED
    BY <1>1, <1>2, SetInduction DEF U
<1> QED
  BY <1>3

\* The joined texts become longer, and each step adds its text.
LEMMA GrowthIsMonotone ==
    ASSUME NEW S, NEW s \in Seq(Seq(S)), NEW f, Growth(f, s, S)
    PROVE  /\ \A i \in 0 .. Len(s) : f[i] \in Seq(S) /\ Len(f[i]) \in Nat
           /\ \A i \in 1 .. Len(s) : s[i] \in Seq(S) /\ Len(f[i]) = Len(f[i - 1]) + Len(s[i])
           /\ \A i, j \in 0 .. Len(s) : i <= j => Len(f[i]) <= Len(f[j])
<1> DEFINE n == Len(s)
           L(i) == Len(f[i])
<1>1. n \in Nat /\ \A i \in 1 .. n : s[i] \in Seq(S) /\ Len(s[i]) \in Nat
  OBVIOUS
<1>2. \A i \in 0 .. n : f[i] \in Seq(S) /\ L(i) \in Nat
  <2>1. \A i \in 0 .. n : f[i] \in Seq(S)
    BY DEF Growth
  <2> QED
    BY <2>1, LenProperties
<1>3. ASSUME NEW i \in 1 .. n
      PROVE  L(i) = L(i - 1) + Len(s[i])
  <2>1. i - 1 \in 0 .. n
    OBVIOUS
  <2>2. f[i] = f[i - 1] \o s[i] /\ f[i - 1] \in Seq(S) /\ s[i] \in Seq(S)
    BY <1>1, <1>2, <2>1 DEF Growth
  <2> QED
    BY <2>2, ConcatProperties
<1> HIDE DEF L, n
<1>4. ASSUME NEW i \in 0 .. n, NEW j \in 0 .. n, i <= j
      PROVE  L(i) <= L(j)
  <2> DEFINE T == {k \in 0 .. n - i : L(i) <= L(i + k)}
  <2>1. 0 \in T
    BY <1>1, <1>2
  <2>2. ASSUME NEW k \in 0 .. n - i - 1, k \in T
        PROVE  k + 1 \in T
    <3>1. i + k \in 0 .. n /\ i + (k + 1) \in 1 .. n /\ i + (k + 1) - 1 = i + k
          /\ k + 1 \in 0 .. n - i
      BY <1>1
    <3>2. L(i + (k + 1)) = L(i + k) + Len(s[i + (k + 1)]) /\ Len(s[i + (k + 1)]) \in Nat
      BY <1>1, <1>3, <3>1
    <3>3. L(i) \in Nat /\ L(i + k) \in Nat /\ L(i) <= L(i + k)
      BY <1>2, <2>2, <3>1
    <3>4. L(i) <= L(i + (k + 1))
      BY <1>1, <3>1, <3>2, <3>3
    <3> QED
      BY <3>1, <3>4
  <2>3. n - i \in Nat /\ j - i \in 0 .. n - i /\ i + (j - i) = j
    BY <1>1, <1>4
  <2>4. j - i \in T
    <3> HIDE DEF T
    <3> QED
      BY <2>1, <2>2, <2>3, UpTo
  <2> QED
    BY <2>3, <2>4
<1> QED
  BY <1>1, <1>2, <1>3, <1>4 DEF L, n

\* c alternates between a and b.
Pairs(c, a, b, n, S) ==
    /\ c \in Seq(S) /\ Len(c) = 2 * n
    /\ \A i \in 1 .. n : c[2 * i - 1] = a[i] /\ c[2 * i] = b[i]

\* Pairs joined alternate.
LEMMA FlattenPairs ==
    ASSUME NEW S, NEW n \in Nat, NEW a \in [1 .. n -> S], NEW b \in [1 .. n -> S],
           NEW s, s = [i \in 1 .. n |-> <<a[i], b[i]>>]
    PROVE  Pairs(FlattenSeq(s), a, b, n, S)
<1>1. s \in Seq(Seq(S)) /\ Len(s) = n /\ \A i \in 1 .. n : s[i] = <<a[i], b[i]>>
  <2>1. \A i \in 1 .. n : <<a[i], b[i]>> \in Seq(S)
    OBVIOUS
  <2> QED
    BY <2>1
<1>2. PICK f : Growth(f, s, S)
  BY <1>1, FlattenGrows
<1>3. \A i \in 0 .. n : f[i] \in Seq(S)
  BY <1>1, <1>2 DEF Growth
<1>4. f[0] = <<>> /\ FlattenSeq(s) = f[n]
  BY <1>1, <1>2 DEF Growth
<1>5. ASSUME NEW i \in 1 .. n
      PROVE  f[i] = f[i - 1] \o <<a[i], b[i]>>
  BY <1>1, <1>2 DEF Growth
<1> DEFINE P(k) == /\ Len(f[k]) = 2 * k
                   /\ \A i \in 1 .. k : f[k][2 * i - 1] = a[i] /\ f[k][2 * i] = b[i]
           T == {k \in 0 .. n : P(k)}
<1>6. 0 \in T
  <2>1. Len(f[0]) = 0
    BY <1>4
  <2> QED
    BY <2>1
<1>7. ASSUME NEW k \in 0 .. n - 1, k \in T
      PROVE  k + 1 \in T
  <2> DEFINE x == f[k]
             y == <<a[k + 1], b[k + 1]>>
             z == f[k + 1]
  <2>1. k + 1 \in 1 .. n /\ k + 1 - 1 = k /\ k \in 0 .. n
    OBVIOUS
  <2>2. z = x \o y
    BY <1>5, <2>1
  <2>3. x \in Seq(S) /\ Len(x) = 2 * k
        /\ \A i \in 1 .. k : x[2 * i - 1] = a[i] /\ x[2 * i] = b[i]
    BY <1>3, <1>7, <2>1
  <2>4. y \in Seq(S) /\ Len(y) = 2 /\ y[1] = a[k + 1] /\ y[2] = b[k + 1]
    BY <2>1
  <2> HIDE DEF x, y, z
  <2>9. Len(z) = Len(x) + Len(y)
        /\ \A i \in 1 .. Len(x) + Len(y) : z[i] = IF i <= Len(x) THEN x[i] ELSE y[i - Len(x)]
    BY <2>2, <2>3, <2>4, ConcatProperties
  <2>5. Len(z) = 2 * k + 2
        /\ \A i \in 1 .. 2 * k + 2 : z[i] = IF i <= 2 * k THEN x[i] ELSE y[i - 2 * k]
    BY <2>3, <2>4, <2>9
  <2>11. /\ 2 * k + 1 \in 1 .. 2 * k + 2 /\ ~(2 * k + 1 <= 2 * k) /\ 2 * k + 1 - 2 * k = 1
         /\ 2 * k + 2 \in 1 .. 2 * k + 2 /\ ~(2 * k + 2 <= 2 * k) /\ 2 * k + 2 - 2 * k = 2
    BY <2>1
  <2>6. z[2 * k + 1] = y[1] /\ z[2 * k + 2] = y[2]
    BY <2>5, <2>11
  <2>7. ASSUME NEW i \in 1 .. k + 1
        PROVE  z[2 * i - 1] = a[i] /\ z[2 * i] = b[i]
    <3>1. CASE i = k + 1
      <4>1. 2 * i - 1 = 2 * k + 1 /\ 2 * i = 2 * k + 2
        BY <3>1
      <4> QED
        BY <2>4, <2>6, <3>1, <4>1
    <3>2. CASE i # k + 1
      <4>1. i \in 1 .. k /\ 2 * i - 1 \in 1 .. 2 * k + 2 /\ 2 * i \in 1 .. 2 * k + 2
            /\ 2 * i - 1 <= 2 * k /\ 2 * i <= 2 * k
        BY <3>2
      <4> QED
        BY <2>3, <2>5, <4>1
    <3> QED
      BY <3>1, <3>2
  <2>10. Len(z) = 2 * (k + 1)
    BY <2>5
  <2>8. P(k + 1)
    BY Zenon, <2>7, <2>10 DEF z
  <2> QED
    BY <2>1, <2>8
<1>8. n \in T
  <2> HIDE DEF T
  <2>1. n \in 0 .. n
    OBVIOUS
  <2> QED
    BY <1>6, <1>7, <2>1, UpTo
<1>9. n \in 0 .. n
  OBVIOUS
<1>10. FlattenSeq(s) \in Seq(S) /\ P(n)
  BY <1>3, <1>4, <1>8, <1>9
<1> QED
  BY <1>4, <1>10 DEF Pairs

\* The elements of u are those of the texts of s.
Elements(u, s) ==
    /\ \A i \in 1 .. Len(s) : \A j \in 1 .. Len(s[i]) : \E r \in 1 .. Len(u) : u[r] = s[i][j]
    /\ \A r \in 1 .. Len(u) : \E i \in 1 .. Len(s) : \E j \in 1 .. Len(s[i]) : u[r] = s[i][j]

\* What is joined are the elements of the texts.
LEMMA FlattenElements ==
    ASSUME NEW S, NEW s \in Seq(Seq(S)), NEW f, Growth(f, s, S)
    PROVE  Elements(FlattenSeq(s), s)
<1> DEFINE n == Len(s)
           P(k) == /\ \A i \in 1 .. k : \A j \in 1 .. Len(s[i]) :
                         \E r \in 1 .. Len(f[k]) : f[k][r] = s[i][j]
                   /\ \A r \in 1 .. Len(f[k]) :
                         \E i \in 1 .. k : \E j \in 1 .. Len(s[i]) : f[k][r] = s[i][j]
           T == {k \in 0 .. n : P(k)}
<1>1. /\ n \in Nat
      /\ \A i \in 0 .. n : f[i] \in Seq(S) /\ Len(f[i]) \in Nat
      /\ \A i \in 1 .. n : s[i] \in Seq(S) /\ Len(s[i]) \in Nat
  <2>1. \A i \in 0 .. n : f[i] \in Seq(S) /\ Len(f[i]) \in Nat
    BY Zenon, GrowthIsMonotone
  <2> QED
    BY <2>1
<1>2. f[0] = <<>> /\ FlattenSeq(s) = f[n]
  BY DEF Growth
<1> DEFINE K(i, r) == f[r] \o s[i]
<1>3. ASSUME NEW i \in 1 .. n
      PROVE  f[i] = K(i, i - 1)
  BY DEF Growth
<1> HIDE DEF n, K
<1>4. 0 \in T
  <2>1. Len(f[0]) = 0
    BY <1>2
  <2> QED
    BY <1>1, <2>1
<1>5. ASSUME NEW k \in 0 .. n - 1, k \in T
      PROVE  k + 1 \in T
  <2> DEFINE x == f[k]
             y == s[k + 1]
             z == f[k + 1]
  <2>1. k + 1 \in 1 .. n /\ k + 1 - 1 = k /\ k \in 0 .. n
    BY <1>1
  <2>14. f[k + 1] = K(k + 1, k)
    BY <1>3, <2>1
  <2>12. z = x \o y
    BY Zenon, <2>14 DEF K
  <2>13. x \in Seq(S) /\ y \in Seq(S)
    BY <1>1, <2>1
  <2>2. z = x \o y /\ x \in Seq(S) /\ y \in Seq(S)
    BY <2>12, <2>13
  <2>3. P(k)
    BY <1>5
  <2> DEFINE J(i, j) == s[i][j]
  <2>4. /\ \A i \in 1 .. k : \A j \in 1 .. Len(s[i]) : \E r \in 1 .. Len(x) : x[r] = J(i, j)
        /\ \A r \in 1 .. Len(x) :
              \E i \in 1 .. k : \E j \in 1 .. Len(s[i]) : x[r] = J(i, j)
    BY Zenon, <2>3
  <2>5. /\ Len(x) \in Nat /\ Len(y) \in Nat /\ Len(z) = Len(x) + Len(y)
        /\ \A i \in 1 .. Len(x) + Len(y) :
              z[i] = IF i <= Len(x) THEN x[i] ELSE y[i - Len(x)]
    <3> HIDE DEF x, y, z
    <3> QED
      BY <2>2, ConcatProperties, LenProperties
  <2>6. \A j : y[j] = J(k + 1, j)
    OBVIOUS
  <2>7. Len(y) = Len(s[k + 1])
    OBVIOUS
  <2>8. \A i : i \in 1 .. k + 1 => i \in 1 .. k \/ i = k + 1
    BY <2>1
  <2> HIDE DEF x, y, z, J, P
  <2>9. ASSUME NEW i \in 1 .. k + 1, NEW j \in 1 .. Len(s[i])
        PROVE  \E r \in 1 .. Len(z) : z[r] = J(i, j)
    <3>1. CASE i \in 1 .. k
      <4>1. PICK r \in 1 .. Len(x) : x[r] = J(i, j)
        BY <2>4, <3>1
      <4>2. r \in 1 .. Len(z) /\ z[r] = x[r]
        BY <2>5, <4>1
      <4> QED
        BY <4>1, <4>2
    <3>2. CASE i = k + 1
      <4>3. j \in 1 .. Len(y)
        BY <2>7, <3>2
      <4>1. j \in 1 .. Len(y) /\ y[j] = J(i, j)
        BY <2>6, <3>2, <4>3
      <4>4. /\ Len(x) + j \in 1 .. Len(x) + Len(y) /\ Len(x) + j - Len(x) = j
            /\ ~(Len(x) + j <= Len(x))
        BY <2>5, <4>3
      <4>2. Len(x) + j \in 1 .. Len(z) /\ z[Len(x) + j] = y[j]
        BY <2>5, <4>4
      <4> QED
        BY <4>1, <4>2
    <3> QED
      BY <2>8, <3>1, <3>2
  <2>10. ASSUME NEW r \in 1 .. Len(z)
         PROVE  \E i \in 1 .. k + 1 : \E j \in 1 .. Len(s[i]) : z[r] = J(i, j)
    <3>1. CASE r <= Len(x)
      <4>1. r \in 1 .. Len(x) /\ z[r] = x[r]
        BY <2>5, <3>1
      <4>2. PICK i \in 1 .. k : \E j \in 1 .. Len(s[i]) : x[r] = J(i, j)
        BY <2>4, <4>1
      <4> QED
        BY <2>1, <4>1, <4>2
    <3>2. CASE ~(r <= Len(x))
      <4>1. r - Len(x) \in 1 .. Len(y) /\ z[r] = y[r - Len(x)]
        BY <2>5, <3>2
      <4>2. k + 1 \in 1 .. k + 1
        BY <2>1
      <4> QED
        BY <2>6, <2>7, <4>1, <4>2
    <3> QED
      BY <3>1, <3>2
  <2>11. P(k + 1)
    BY Zenon, <2>9, <2>10 DEF P, J, z
  <2> QED
    BY <1>1, <2>1, <2>11
<1>6. n \in T
  <2> HIDE DEF T
  <2>1. n \in 0 .. n
    BY <1>1
  <2> QED
    BY <1>1, <1>4, <1>5, <2>1, UpTo
<1>7. P(n)
  BY Zenon, <1>6
<1>8. Elements(f[n], s)
  BY Zenon, <1>7 DEF Elements, n
<1> QED
  BY <1>2, <1>8
\* c is a and then b.
Joint(c, a, b, n, k, S) ==
    /\ c \in Seq(S) /\ Len(c) = n + k
    /\ \A i \in 1 .. n : c[i] = a[i]
    /\ \A i \in 1 .. k : c[n + i] = b[i]

\* Where the elements of a joined sequence are.
LEMMA JoinedAt ==
    ASSUME NEW S, NEW a \in Seq(S), NEW b \in Seq(S), NEW n \in Nat, NEW k \in Nat,
           Len(a) = n, Len(b) = k
    PROVE  Joint(a \o b, a, b, n, k, S)
<1> DEFINE c == a \o b
<1>1. /\ c \in Seq(S) /\ Len(c) = Len(a) + Len(b)
      /\ \A i \in 1 .. Len(a) + Len(b) : c[i] = IF i <= Len(a) THEN a[i] ELSE b[i - Len(a)]
  BY ConcatProperties
<1> HIDE DEF c
<1>2. Len(c) = n + k /\ \A i \in 1 .. n + k : c[i] = IF i <= n THEN a[i] ELSE b[i - n]
  BY <1>1
<1>3. ASSUME NEW i \in 1 .. n
      PROVE  c[i] = a[i]
  BY <1>2
<1>4. ASSUME NEW i \in 1 .. k
      PROVE  c[n + i] = b[i]
  <2>1. n + i \in 1 .. n + k /\ ~(n + i <= n) /\ n + i - n = i
    OBVIOUS
  <2> QED
    BY <1>2, <2>1
<1>5. Joint(c, a, b, n, k, S)
  BY <1>1, <1>2, <1>3, <1>4 DEF Joint
<1> QED
  BY <1>5 DEF c

Callbacked ==
    [name : {"url", "status", "field", "value", "headers", "body", "complete"}, text : Texts]
HeaderLine == [name : Texts \ {<<>>}, value : Texts]

\* The callbacks of header lines.
LEMMA LinesLaidOut ==
    ASSUME NEW lines \in Seq(HeaderLine), NEW n \in Nat, n = Len(lines)
    PROVE  /\ LineCallbacks(lines) \in Seq(Callbacked)
           /\ Len(LineCallbacks(lines)) = 2 * n
           /\ \A j \in 1 .. n :
                 /\ LineCallbacks(lines)[2 * j - 1] = Callback("field", lines[j].name)
                 /\ LineCallbacks(lines)[2 * j] = Callback("value", lines[j].value)
<1> DEFINE a == [i \in 1 .. n |-> Callback("field", lines[i].name)]
           b == [i \in 1 .. n |-> Callback("value", lines[i].value)]
           s == [i \in 1 .. n |-> <<a[i], b[i]>>]
<1>1. n \in Nat /\ DOMAIN lines = 1 .. n
  OBVIOUS
<1>2. \A i \in 1 .. n : lines[i].name \in Texts /\ lines[i].value \in Texts
  <2>1. \A i \in 1 .. n : lines[i] \in HeaderLine
    BY ElementOfSeq
  <2> QED
    BY <2>1 DEF HeaderLine
<1>3. a \in [1 .. n -> Callbacked] /\ b \in [1 .. n -> Callbacked]
  <2>1. \A i \in 1 .. n : /\ Callback("field", lines[i].name) \in Callbacked
                         /\ Callback("value", lines[i].value) \in Callbacked
    BY <1>2 DEF Callback, Callbacked
  <2> QED
    BY <2>1
<1>4. LineCallbacks(lines) = FlattenSeq(s)
  <2>1. s = [i \in DOMAIN lines |-> << Callback("field", lines[i].name),
                                       Callback("value", lines[i].value) >>]
    BY <1>1
  <2> QED
    BY Zenon, <2>1 DEF LineCallbacks
<1>5. \A i \in 1 .. n : a[i] = Callback("field", lines[i].name)
                        /\ b[i] = Callback("value", lines[i].value)
  OBVIOUS
<1> HIDE DEF a, b
<1>6. Pairs(FlattenSeq(s), a, b, n, Callbacked)
  BY <1>1, <1>3, FlattenPairs
<1> HIDE DEF s
<1> QED
  BY <1>4, <1>5, <1>6 DEF Pairs

\* How many header lines, pieces of the body and trailers a message has.
Sizes(m, h, p, t) ==
    /\ h = Len(m.headers) /\ p = Len(Pieces(m)) /\ t = Len(m.trailers)
    /\ Pieces(m) \in Seq(Texts)

\* The place of each callback of a message.
Layout(m, h, p, t, c) ==
    /\ c \in Seq(Callbacked) /\ Len(c) = 2 * h + p + 2 * t + 3
    /\ c[1] = Callback(IF m.type = "HDT_REQUEST" THEN "url" ELSE "status", m.line)
    /\ \A j \in 1 .. h : /\ c[2 * j] = Callback("field", m.headers[j].name)
                         /\ c[2 * j + 1] = Callback("value", m.headers[j].value)
    /\ c[2 * h + 2] = Callback("headers", <<>>)
    /\ \A i \in 1 .. p : c[2 * h + 2 + i] = Callback("body", Pieces(m)[i])
    /\ \A j \in 1 .. t : /\ c[2 * h + 1 + p + 2 * j] = Callback("field", m.trailers[j].name)
                         /\ c[2 * h + 2 + p + 2 * j] = Callback("value", m.trailers[j].value)
    /\ c[2 * h + p + 2 * t + 3] = Callback("complete", <<>>)

LEMMA LaidOut ==
    ASSUME NEW m, WellFormed(m), NEW h \in Nat, NEW p \in Nat, NEW t \in Nat, Sizes(m, h, p, t)
    PROVE  Layout(m, h, p, t, Callbacks(m))
<1> DEFINE c == Callbacks(m)
<1> DEFINE x == Callback(IF m.type = "HDT_REQUEST" THEN "url" ELSE "status", m.line)
           y == Callback("headers", <<>>)
           z == Callback("complete", <<>>)
           a1 == <<x>>
           a2 == LineCallbacks(m.headers)
           a3 == <<y>>
           a4 == [i \in DOMAIN Pieces(m) |-> Callback("body", Pieces(m)[i])]
           a5 == LineCallbacks(m.trailers)
           a6 == <<z>>
           b2 == a1 \o a2
           b3 == b2 \o a3
           b4 == b3 \o a4
           b5 == b4 \o a5
           b6 == b5 \o a6
<1>1. c = b6
  BY Zenon DEF Callbacks
<1> HIDE DEF c
<1>2. m.headers \in Seq(HeaderLine) /\ m.trailers \in Seq(HeaderLine) /\ m.line \in Texts
  BY DEF WellFormed, HeaderLine
<1>4. <<>> \in Texts
  BY EmptySeq DEF Texts
<1>5. x \in Callbacked /\ y \in Callbacked /\ z \in Callbacked
  BY <1>2, <1>4 DEF Callback, Callbacked
<1>6. /\ a1 \in Seq(Callbacked) /\ a3 \in Seq(Callbacked) /\ a6 \in Seq(Callbacked)
      /\ Len(a1) = 1 /\ Len(a3) = 1 /\ Len(a6) = 1 /\ a1[1] = x /\ a3[1] = y /\ a6[1] = z
  <2> HIDE DEF x, y, z
  <2> QED
    BY <1>5
<1>7. /\ a2 \in Seq(Callbacked) /\ Len(a2) = 2 * h
      /\ \A j \in 1 .. h : /\ a2[2 * j - 1] = Callback("field", m.headers[j].name)
                           /\ a2[2 * j] = Callback("value", m.headers[j].value)
  BY <1>2, LinesLaidOut DEF Sizes
<1>8. /\ a5 \in Seq(Callbacked) /\ Len(a5) = 2 * t
      /\ \A j \in 1 .. t : /\ a5[2 * j - 1] = Callback("field", m.trailers[j].name)
                           /\ a5[2 * j] = Callback("value", m.trailers[j].value)
  BY <1>2, LinesLaidOut DEF Sizes
<1>9. /\ a4 \in Seq(Callbacked) /\ Len(a4) = p
      /\ \A i \in 1 .. p : a4[i] = Callback("body", Pieces(m)[i])
  <2>1. DOMAIN Pieces(m) = 1 .. p /\ \A i \in 1 .. p : Pieces(m)[i] \in Texts
    BY DEF Sizes
  <2>2. \A i \in 1 .. p : Callback("body", Pieces(m)[i]) \in Callbacked
    BY <2>1 DEF Callback, Callbacked
  <2> QED
    BY <2>1, <2>2
<1>3. /\ 1 \in Nat /\ 2 * h \in Nat /\ 1 + 2 * h \in Nat /\ 2 + 2 * h \in Nat /\ 2 * t \in Nat
      /\ 2 + 2 * h + p \in Nat /\ 2 + 2 * h + p + 2 * t \in Nat
      /\ 1 + 2 * h + 1 = 2 + 2 * h
  OBVIOUS
<1> HIDE DEF x, y, z, a1, a2, a3, a4, a5, a6
<1>10. /\ b2 \in Seq(Callbacked) /\ Len(b2) = 1 + 2 * h
       /\ b2[1] = x /\ \A i \in 1 .. 2 * h : b2[1 + i] = a2[i]
  <2>1. Joint(b2, a1, a2, 1, 2 * h, Callbacked)
    BY <1>3, <1>6, <1>7, JoinedAt
  <2> HIDE DEF b2
  <2> QED
    BY <1>6, <2>1 DEF Joint
<1> HIDE DEF b2
<1>11. /\ b3 \in Seq(Callbacked) /\ Len(b3) = 2 + 2 * h /\ b3[2 + 2 * h] = y
       /\ \A i \in 1 .. 1 + 2 * h : b3[i] = b2[i]
  <2>1. 1 + 2 * h + 1 = 2 + 2 * h /\ 1 \in 1 .. 1
    OBVIOUS
  <2>2. Joint(b3, b2, a3, 1 + 2 * h, 1, Callbacked)
    BY <1>3, <1>6, <1>10, JoinedAt
  <2> HIDE DEF b3
  <2> QED
    BY <1>6, <2>1, <2>2 DEF Joint
<1> HIDE DEF b3
<1>12. /\ b4 \in Seq(Callbacked) /\ Len(b4) = 2 + 2 * h + p
       /\ \A i \in 1 .. 2 + 2 * h : b4[i] = b3[i]
       /\ \A i \in 1 .. p : b4[2 + 2 * h + i] = a4[i]
  <2>1. Joint(b4, b3, a4, 2 + 2 * h, p, Callbacked)
    BY <1>3, <1>9, <1>11, JoinedAt
  <2> HIDE DEF b4
  <2> QED
    BY <2>1 DEF Joint
<1> HIDE DEF b4
<1>13. /\ b5 \in Seq(Callbacked) /\ Len(b5) = 2 + 2 * h + p + 2 * t
       /\ \A i \in 1 .. 2 + 2 * h + p : b5[i] = b4[i]
       /\ \A i \in 1 .. 2 * t : b5[2 + 2 * h + p + i] = a5[i]
  <2>1. Joint(b5, b4, a5, 2 + 2 * h + p, 2 * t, Callbacked)
    BY <1>3, <1>8, <1>12, JoinedAt
  <2> HIDE DEF b5
  <2> QED
    BY <2>1 DEF Joint
<1> HIDE DEF b5
<1>14. /\ b6 \in Seq(Callbacked) /\ Len(b6) = 2 + 2 * h + p + 2 * t + 1
       /\ b6[2 + 2 * h + p + 2 * t + 1] = z
       /\ \A i \in 1 .. 2 + 2 * h + p + 2 * t : b6[i] = b5[i]
  <2>1. 1 \in 1 .. 1
    OBVIOUS
  <2>2. Joint(b6, b5, a6, 2 + 2 * h + p + 2 * t, 1, Callbacked)
    BY <1>3, <1>6, <1>13, JoinedAt
  <2> HIDE DEF b6
  <2> QED
    BY <1>6, <2>1, <2>2 DEF Joint
<1> HIDE DEF b6
<1>15. 2 * h + p + 2 * t + 3 = 2 + 2 * h + p + 2 * t + 1
  OBVIOUS
<1>16. b6[1] = x
  <2>1. 1 \in 1 .. 2 + 2 * h + p + 2 * t /\ 1 \in 1 .. 2 + 2 * h + p /\ 1 \in 1 .. 2 + 2 * h
        /\ 1 \in 1 .. 1 + 2 * h
    OBVIOUS
  <2> QED
    BY <1>10, <1>11, <1>12, <1>13, <1>14, <2>1
<1>17. ASSUME NEW i \in 1 .. 2 * h
       PROVE  b6[1 + i] = a2[i]
  <2>1. 1 + i \in 1 .. 2 + 2 * h + p + 2 * t /\ 1 + i \in 1 .. 2 + 2 * h + p
        /\ 1 + i \in 1 .. 2 + 2 * h /\ 1 + i \in 1 .. 1 + 2 * h
    OBVIOUS
  <2> QED
    BY <1>10, <1>11, <1>12, <1>13, <1>14, <2>1
<1>18. ASSUME NEW j \in 1 .. h
       PROVE  /\ b6[2 * j] = Callback("field", m.headers[j].name)
              /\ b6[2 * j + 1] = Callback("value", m.headers[j].value)
  <2>1. /\ 2 * j - 1 \in 1 .. 2 * h /\ 1 + (2 * j - 1) = 2 * j
        /\ 2 * j \in 1 .. 2 * h /\ 1 + 2 * j = 2 * j + 1
    OBVIOUS
  <2>2. b6[1 + (2 * j - 1)] = a2[2 * j - 1] /\ b6[1 + 2 * j] = a2[2 * j]
    BY <1>17, <2>1
  <2> QED
    BY <1>7, <2>1, <2>2
<1>19. b6[2 * h + 2] = y
  <2>1. 2 * h + 2 = 2 + 2 * h /\ 2 + 2 * h \in 1 .. 2 + 2 * h + p + 2 * t
        /\ 2 + 2 * h \in 1 .. 2 + 2 * h + p /\ 2 + 2 * h \in 1 .. 2 + 2 * h
    OBVIOUS
  <2> QED
    BY <1>11, <1>12, <1>13, <1>14, <2>1
<1>20. ASSUME NEW i \in 1 .. p
       PROVE  b6[2 * h + 2 + i] = Callback("body", Pieces(m)[i])
  <2>1. 2 * h + 2 + i = 2 + 2 * h + i /\ 2 + 2 * h + i \in 1 .. 2 + 2 * h + p + 2 * t
        /\ 2 + 2 * h + i \in 1 .. 2 + 2 * h + p
    OBVIOUS
  <2> QED
    BY <1>9, <1>12, <1>13, <1>14, <2>1
<1>21. ASSUME NEW i \in 1 .. 2 * t
       PROVE  b6[2 + 2 * h + p + i] = a5[i]
  <2>1. 2 + 2 * h + p + i \in 1 .. 2 + 2 * h + p + 2 * t
    OBVIOUS
  <2> QED
    BY <1>13, <1>14, <2>1
<1>22. ASSUME NEW j \in 1 .. t
       PROVE  /\ b6[2 * h + 1 + p + 2 * j] = Callback("field", m.trailers[j].name)
              /\ b6[2 * h + 2 + p + 2 * j] = Callback("value", m.trailers[j].value)
  <2>1. /\ 2 * j - 1 \in 1 .. 2 * t /\ 2 + 2 * h + p + (2 * j - 1) = 2 * h + 1 + p + 2 * j
        /\ 2 * j \in 1 .. 2 * t /\ 2 + 2 * h + p + 2 * j = 2 * h + 2 + p + 2 * j
    OBVIOUS
  <2>2. /\ b6[2 + 2 * h + p + (2 * j - 1)] = a5[2 * j - 1]
        /\ b6[2 + 2 * h + p + 2 * j] = a5[2 * j]
    BY <1>21, <2>1
  <2> QED
    BY <1>8, <2>1, <2>2
<1>23. Layout(m, h, p, t, c)
  BY <1>1, <1>14, <1>15, <1>16, <1>18, <1>19, <1>20, <1>22 DEF Layout, x, y, z
<1> QED
  BY Zenon, <1>23 DEF c

\* A body in one piece, or in none, joins to itself.
LEMMA WholeJoins ==
    ASSUME NEW S, NEW b \in Seq(S)
    PROVE  Whole(b) \in Seq(Seq(S)) /\ FlattenSeq(Whole(b)) = b
<1>1. CASE b = <<>>
  <2>1. Whole(b) = <<>> /\ <<>> \in Seq(Seq(S)) /\ Len(<<>>) = 0
    BY <1>1, EmptySeq DEF Whole
  <2>2. FlattenSeq(<<>>) = <<>>
    BY <2>1 DEF FlattenSeq
  <2> QED
    BY <1>1, <2>1, <2>2
<1>2. CASE b # <<>>
  <2> DEFINE s == <<b>>
  <2>1. Whole(b) = s
    BY <1>2 DEF Whole
  <2>2. s \in Seq(Seq(S)) /\ Len(s) = 1 /\ s[1] = b
    OBVIOUS
  <2> HIDE DEF s
  <2>3. PICK f : Growth(f, s, S)
    BY <2>2, FlattenGrows
  <2>4. FlattenSeq(s) = f[1] /\ f[0] = <<>>
    BY <2>2, <2>3 DEF Growth
  <2> DEFINE K(i, r) == f[r] \o s[i]
  <2>5. ASSUME NEW i \in 1 .. 1
        PROVE  f[i] = K(i, i - 1)
    BY <2>2, <2>3 DEF Growth
  <2> HIDE DEF K
  <2>6. f[1] = K(1, 0)
    BY <2>5
  <2>7. f[1] = <<>> \o b
    BY Zenon, <2>2, <2>4, <2>6 DEF K
  <2>8. <<>> \o b = b
    BY ConcatEmptySeq
  <2> QED
    BY <2>1, <2>2, <2>4, <2>7, <2>8
<1> QED
  BY <1>1, <1>2

\* The vendored parser hands over all of the body.
LEMMA PiecesJoin ==
    ASSUME NEW m, WellFormed(m)
    PROVE  /\ Pieces(m) \in Seq(Texts) /\ FlattenSeq(m.chunks) \in Texts
           /\ FlattenSeq(Pieces(m)) = FlattenSeq(m.chunks)
<1> DEFINE b == FlattenSeq(m.chunks)
           n == Len(b)
<1>1. m.chunks \in Seq(Texts)
  BY DEF WellFormed
<1>2. b \in Texts
  <2>1. PICK f : Growth(f, m.chunks, Units)
    BY <1>1, FlattenGrows DEF Texts
  <2>2. Len(m.chunks) \in 0 .. Len(m.chunks)
    BY <1>1
  <2> QED
    BY <2>1, <2>2 DEF Growth, Texts
<1>3. CASE Says(m, TransferEncoding, <<"chunked">>)
  BY Zenon, <1>1, <1>2, <1>3 DEF Pieces
<1>4. CASE ~Says(m, TransferEncoding, <<"chunked">>)
  <2> DEFINE k == IF Length(m) = {} THEN 0 ELSE Max(Length(m))
  <2>1. Pieces(m) = Whole(SubSeq(b, 1, k))
    BY Zenon, <1>4 DEF Pieces
  <2>2. n \in Length(m) \cup {0} /\ Length(m) \subseteq 0 .. n
    BY <1>4 DEF WellFormed, Length
  <2>3. n \in Nat
    BY <1>2 DEF Texts
  <2> HIDE DEF n
  <2>4. k = n
    <3>1. CASE Length(m) = {}
      BY <2>2, <3>1
    <3>2. CASE Length(m) # {}
      <4>1. n \in Length(m)
        BY <2>2, <2>3, <3>2
      <4>2. \A y \in Length(m) : n >= y
        BY <2>2, <2>3
      <4>3. Max(Length(m)) \in Length(m) /\ \A y \in Length(m) : Max(Length(m)) >= y
        BY <4>1, <4>2 DEF Max
      <4>4. Max(Length(m)) = n
        BY <2>2, <2>3, <4>1, <4>3
      <4> QED
        BY <3>2, <4>4
    <3> QED
      BY <3>1, <3>2
  <2> HIDE DEF k, b
  <2>5. SubSeq(b, 1, n) = b
    BY <1>2, SubSeqFull DEF n, Texts
  <2>6. Pieces(m) = Whole(b)
    BY <2>1, <2>4, <2>5
  <2>7. Whole(b) \in Seq(Texts) /\ FlattenSeq(Whole(b)) = b
    BY <1>2, WholeJoins DEF Texts
  <2> QED
    BY <1>2, <2>6, <2>7 DEF b
<1> QED
  BY <1>3, <1>4

-----------------------------------------------------------------------------
(* The header map.                                                         *)

\* What stands before the name of line j in the name it has in _HeadInfo.
Before(m, j) == IF j = 1 \/ m.headers[j - 1].value # <<>> THEN <<>> ELSE Names(m)[j - 1]

NamesFunction(f, m) ==
    f = [i \in DOMAIN m.headers |->
            (IF i = 1 \/ m.headers[i - 1].value # <<>> THEN <<>> ELSE f[i - 1])
            \o m.headers[i].name]

\* The names exist: by recursion over the lines.
LEMMA NamesExist ==
    ASSUME NEW m, NEW h \in Nat, DOMAIN m.headers = 1 .. h,
           \A i \in 1 .. h : m.headers[i].name \in Texts
    PROVE  \E f : NamesFunction(f, m)
<1> DEFINE name(i) == m.headers[i].name
           fresh(i) == m.headers[i - 1].value # <<>>
           step == [i \in 2 .. h |-> [x \in Texts |-> (IF fresh(i) THEN <<>> ELSE x) \o name(i)]]
<1>1. \A i \in 1 .. h : name(i) \in Texts
  OBVIOUS
<1>2. CASE h = 0
  <2> DEFINE f == [i \in {} |-> <<>>]
             g == [i \in DOMAIN m.headers |->
                      (IF i = 1 \/ m.headers[i - 1].value # <<>> THEN <<>> ELSE f[i - 1])
                      \o m.headers[i].name]
  <2>1. DOMAIN m.headers = {}
    BY <1>2
  <2>2. DOMAIN g = {} /\ g = [i \in DOMAIN g |-> g[i]]
    BY Zenon, <2>1
  <2> HIDE DEF g
  <2>3. f = g
    BY <2>2
  <2> QED
    BY Zenon, <2>3 DEF NamesFunction, g
<1>3. CASE h # 0
  <2> HIDE DEF name, fresh
  <2>1. \A i \in 2 .. h : \A x \in Texts : (IF fresh(i) THEN <<>> ELSE x) \o name(i) \in Texts
    BY <1>1, ConcatProperties, EmptySeq DEF Texts
  <2>2. step \in [2 .. h -> [Texts -> Texts]]
    BY <2>1
  <2>3. h \in Nat \ {0} /\ name(1) \in Texts
    BY <1>1, <1>3
  <2> HIDE DEF step
  <2>4. PICK f \in [1 .. h -> Texts] : Chain(f, h, name(1), step)
    BY <2>2, <2>3, Recursion DEF HasChain
  <2>5. ASSUME NEW i \in 1 .. h
        PROVE  f[i] = (IF i = 1 \/ fresh(i) THEN <<>> ELSE f[i - 1]) \o name(i)
    <3>1. CASE i = 1
      <4>1. f[1] = name(1) /\ <<>> \o name(1) = name(1)
        BY <2>3, <2>4, ConcatEmptySeq DEF Chain, Texts
      <4> QED
        BY Zenon, <3>1, <4>1
    <3>2. CASE i # 1
      <4>1. i \in 2 .. h /\ i - 1 \in 1 .. h
        BY <3>2
      <4>2. f[i] = step[i][f[i - 1]] /\ f[i - 1] \in Texts
        BY <2>4, <4>1 DEF Chain
      <4>3. f[i] = (IF fresh(i) THEN <<>> ELSE f[i - 1]) \o name(i)
        BY <4>1, <4>2 DEF step
      <4> QED
        BY Zenon, <3>2, <4>3
    <3> QED
      BY <3>1, <3>2
  <2>6. f = [i \in 1 .. h |-> (IF i = 1 \/ fresh(i) THEN <<>> ELSE f[i - 1]) \o name(i)]
    BY <2>5
  <2> QED
    BY Zenon, <2>6 DEF NamesFunction, name, fresh
<1> QED
  BY <1>2, <1>3

\* Each name follows what stands before it; none is empty.
LEMMA NamesAre ==
    ASSUME NEW m, NEW h \in Nat, DOMAIN m.headers = 1 .. h,
           \A i \in 1 .. h : m.headers[i].name \in Texts \ {<<>>}
    PROVE  \A j \in 1 .. h : /\ Names(m)[j] = Before(m, j) \o m.headers[j].name
                             /\ Names(m)[j] \in Texts \ {<<>>} /\ Before(m, j) \in Texts
<1> DEFINE f == CHOOSE f : NamesFunction(f, m)
           N == Names(m)
           name(i) == m.headers[i].name
<1>1. NamesFunction(f, m)
  BY Zenon, NamesExist
<1>2. N = f
  BY Zenon DEF Names, NamesFunction
<1>3. NamesFunction(N, m)
  BY Zenon, <1>1, <1>2
<1> HIDE DEF f
<1>4. ASSUME NEW j \in 1 .. h
      PROVE  N[j] = Before(m, j) \o name(j)
  BY <1>3 DEF NamesFunction, Before
<1> HIDE DEF N
<1>5. \A i \in 1 .. h : name(i) \in Texts \ {<<>>}
  OBVIOUS
<1> HIDE DEF name
<1>6. ASSUME NEW j \in 1 .. h, Before(m, j) \in Texts
      PROVE  N[j] \in Texts \ {<<>>}
  <2> DEFINE b == Before(m, j)
             n == name(j)
  <2>1. N[j] = b \o n
    BY Zenon, <1>4
  <2>2. b \in Seq(Units) /\ n \in Seq(Units) /\ n # <<>>
    BY <1>5, <1>6 DEF Texts
  <2> HIDE DEF b, n
  <2>3. b \o n \in Seq(Units) /\ Len(b \o n) = Len(b) + Len(n) /\ Len(n) # 0 /\ Len(<<>>) = 0
        /\ Len(b) \in Nat /\ Len(n) \in Nat
    BY <2>2, ConcatProperties, EmptySeq
  <2>4. b \o n # <<>>
    BY <2>3
  <2> QED
    BY Zenon, <2>1, <2>3, <2>4 DEF Texts
<1> DEFINE T == {k \in Nat : k + 1 <= h => Before(m, k + 1) \in Texts}
<1>7. T = Nat
  <2>1. 0 \in T
    <3>1. <<>> \in Texts
      BY EmptySeq DEF Texts
    <3> QED
      BY <3>1 DEF Before
  <2>2. ASSUME NEW k \in T
        PROVE  k + 1 \in T
    <3>1. CASE k + 1 + 1 <= h
      <4>1. k + 1 \in 1 .. h /\ k + 1 + 1 - 1 = k + 1 /\ Before(m, k + 1) \in Texts
        BY <3>1
      <4>2. N[k + 1] \in Texts
        BY Zenon, <1>6, <4>1
      <4>3. <<>> \in Texts
        BY EmptySeq DEF Texts
      <4>4. Before(m, k + 1 + 1) = <<>> \/ Before(m, k + 1 + 1) = N[k + 1]
        BY <4>1 DEF Before, N
      <4>5. Before(m, k + 1 + 1) \in Texts
        BY Zenon, <4>2, <4>3, <4>4
      <4> QED
        BY <4>5
    <3> QED
      BY <3>1
  <2> HIDE DEF T
  <2> QED
    BY <2>1, <2>2, SetInduction DEF T
<1>8. ASSUME NEW j \in 1 .. h
      PROVE  Before(m, j) \in Texts
  <2>1. j - 1 \in T /\ j - 1 + 1 = j
    <3> HIDE DEF T
    <3> QED
      BY <1>7
  <2> QED
    BY <2>1
<1> QED
  BY Zenon, <1>4, <1>6, <1>8 DEF N, name

\* Those of the first j lines that have a value.
Valued(m, j) == {i \in 1 .. j : m.headers[i].value # <<>>}

\* map has, for every name of the lines K of m, the last value of it.
IsMap(map, m, K) ==
    /\ map = [x \in DOMAIN map |-> map[x]]
    /\ DOMAIN map = {Lower(Names(m)[i]) : i \in K}
    /\ \A i \in K :
          (\A k \in K : k > i => Lower(Names(m)[k]) # Lower(Names(m)[i])) =>
              map[Lower(Names(m)[i])] = m.headers[i].value

\* One line more.
LEMMA WithLine ==
    ASSUME NEW map, NEW m, NEW j \in Nat, NEW K \in SUBSET (1 .. j - 1), IsMap(map, m, K)
    PROVE  IsMap(With(map, Lower(Names(m)[j]), m.headers[j].value), m, K \cup {j})
<1> DEFINE N(i) == Lower(Names(m)[i])
           V(i) == m.headers[i].value
           map2 == With(map, N(j), V(j))
<1>1. map2 = [x \in DOMAIN map \cup {N(j)} |-> IF x = N(j) THEN V(j) ELSE map[x]]
  BY DEF With
<1>2. DOMAIN map = {N(i) : i \in K}
      /\ \A i \in K : (\A k \in K : k > i => N(k) # N(i)) => map[N(i)] = V(i)
  BY Zenon DEF IsMap
<1> HIDE DEF N, V, map2
<1>3. map2 = [x \in DOMAIN map2 |-> map2[x]]
  BY <1>1
<1>4. DOMAIN map2 = {N(i) : i \in K \cup {j}}
  BY <1>1, <1>2
<1>5. ASSUME NEW i \in K \cup {j}, \A k \in K \cup {j} : k > i => N(k) # N(i)
      PROVE  map2[N(i)] = V(i)
  <2>1. CASE i = j
    BY <1>1, <2>1
  <2>2. CASE i # j
    <3>1. i \in K /\ j > i
      BY <2>2
    <3>2. N(j) # N(i) /\ map[N(i)] = V(i) /\ N(i) \in DOMAIN map
      BY <1>2, <1>5, <3>1
    <3> QED
      BY <1>1, <3>2
  <2> QED
    BY <2>1, <2>2
<1>6. IsMap(map2, m, K \cup {j})
  BY Zenon, <1>3, <1>4, <1>5 DEF IsMap, N, V
<1> QED
  BY Zenon, <1>6 DEF map2, N, V

\* A set of numbers up to n has a greatest one.
LEMMA MaxExists ==
    ASSUME NEW n \in Nat, NEW S \in SUBSET (0 .. n), S # {}
    PROVE  Max(S) \in S /\ \A y \in S : Max(S) >= y
<1> DEFINE T == {k \in Nat : \A y \in S : y <= n - k}
<1>1. \E x \in S : \A y \in S : x >= y
  <2> SUFFICES ASSUME ~\E x \in S : \A y \in S : x >= y
               PROVE  FALSE
    OBVIOUS
  <2>1. 0 \in T
    OBVIOUS
  <2>2. ASSUME NEW k \in T
        PROVE  k + 1 \in T
    <3>1. n - k \notin S
      OBVIOUS
    <3> QED
      BY <3>1
  <2>3. n + 1 \in T
    <3> HIDE DEF T
    <3>1. T \subseteq Nat
      BY DEF T
    <3> QED
      BY <2>1, <2>2, <3>1, SetInduction
  <2>4. \A y \in S : y <= n - (n + 1)
    BY <2>3
  <2>5. PICK y \in S : TRUE
    OBVIOUS
  <2>6. y \in Nat /\ y <= n - (n + 1)
    BY <2>4
  <2> QED
    BY <2>6
<1> QED
  BY <1>1 DEF Max

\* The lines that are stored.
Taken(m) == {i \in DOMAIN m.headers : m.headers[i].value # <<>> \/ i = Len(m.headers)}

\* The map of the lines that are stored.
LEMMA MapIsStored ==
    ASSUME NEW map, NEW m, NEW h \in Nat, DOMAIN m.headers = 1 .. h, IsMap(map, m, Taken(m))
    PROVE  map = StoredMap(m)
<1> DEFINE N(i) == Lower(Names(m)[i])
           K == Taken(m)
           lines(x) == {i \in K : N(i) = x}
           F(x) == m.headers[Max(lines(x))].value
<1>1. StoredMap(m) = [x \in {N(i) : i \in K} |-> F(x)]
  BY Zenon DEF StoredMap, Taken
<1>2. map = [x \in {N(i) : i \in K} |-> map[x]]
  BY Zenon DEF IsMap
<1>3. K \in SUBSET (1 .. h)
  BY DEF Taken
<1>4. \A i \in K : (\A k \in K : k > i => N(k) # N(i)) => map[N(i)] = m.headers[i].value
  BY Zenon DEF IsMap
<1> HIDE DEF N, K
<1>5. ASSUME NEW x \in {N(i) : i \in K}
      PROVE  map[x] = F(x)
  <2> DEFINE k == Max(lines(x))
  <2>2. lines(x) \in SUBSET (0 .. h) /\ lines(x) # {}
    BY <1>3
  <2> HIDE DEF lines
  <2>3. k \in lines(x) /\ \A y \in lines(x) : k >= y
    BY <2>2, MaxExists
  <2> HIDE DEF k
  <2>4. k \in K /\ N(k) = x /\ \A y \in K : N(y) = x => k >= y
    BY <2>3 DEF lines
  <2>5. \A y \in K : y > k => N(y) # N(k)
    BY <1>3, <2>4
  <2>6. map[N(k)] = m.headers[k].value
    BY Zenon, <1>4, <2>4, <2>5
  <2> QED
    BY <2>4, <2>6 DEF k
<1> HIDE DEF F
<1> QED
  BY Zenon, <1>1, <1>2, <1>5

\* When none but the last is without a value, the lines stored are all of them.
LEMMA StoredIsAll ==
    ASSUME NEW m, NEW h \in Nat, DOMAIN m.headers = 1 .. h, Len(m.headers) = h,
           OnlyLastIsEmpty(m),
           \A i \in 1 .. h : m.headers[i].name \in Texts \ {<<>>}
    PROVE  StoredMap(m) = HeaderMap(m)
<1> DEFINE N(i) == Lower(Names(m)[i])
           L(i) == Lower(m.headers[i].name)
           K == Taken(m)
<1>1. K = 1 .. h
  BY DEF Taken, OnlyLastIsEmpty
<1>2. ASSUME NEW i \in 1 .. h
      PROVE  N(i) = L(i)
  <2>1. i = 1 \/ m.headers[i - 1].value # <<>>
    <3>1. CASE i # 1
      <4>1. i - 1 \in 1 .. h /\ i - 1 # h
        BY <3>1
      <4> QED
        BY <4>1 DEF OnlyLastIsEmpty
    <3> QED
      BY <3>1
  <2>2. Before(m, i) = <<>>
    BY <2>1 DEF Before
  <2>3. Names(m)[i] = <<>> \o m.headers[i].name /\ m.headers[i].name \in Texts
    BY <2>2, NamesAre
  <2>4. Names(m)[i] = m.headers[i].name
    BY <2>3, ConcatEmptySeq DEF Texts
  <2> QED
    BY Zenon, <2>4
<1> DEFINE F(x) == m.headers[Max({i \in K : N(i) = x})].value
           G(x) == m.headers[Max({i \in 1 .. h : L(i) = x})].value
<1>3. StoredMap(m) = [x \in {N(i) : i \in K} |-> F(x)]
  BY Zenon DEF StoredMap, Taken
<1>4. HeaderMap(m) = [x \in {L(i) : i \in 1 .. h} |-> G(x)]
  BY Zenon DEF HeaderMap
<1> HIDE DEF N, L, K
<1>5. {N(i) : i \in K} = {L(i) : i \in 1 .. h}
  BY <1>1, <1>2
<1>6. ASSUME NEW x
      PROVE  F(x) = G(x)
  <2>1. {i \in K : N(i) = x} = {i \in 1 .. h : L(i) = x}
    BY <1>1, <1>2
  <2> QED
    BY Zenon, <2>1
<1> HIDE DEF F, G
<1> QED
  BY <1>3, <1>4, <1>5, <1>6

-----------------------------------------------------------------------------
(* What HttpEncoder writes.                                                *)

\* What it writes by itself is text.
LEMMA OwnAreTexts ==
    /\ \A text \in OwnTexts : text \in Texts \ {<<>>}
    /\ \A i \in 1 .. Len(Alphabet) : Alphabet[i] \in Texts \ {<<>>}
    /\ Len(Alphabet) \in Nat /\ DOMAIN Alphabet = 1 .. Len(Alphabet)
    /\ <<"C", "onnection">> \in Texts \ {<<>>}
    /\ {Connection, ContentLength, TransferEncoding} \subseteq Texts \ {<<>>}
    /\ {<<"keep-alive">>, <<"close">>, <<"chunked">>} \subseteq Texts \ {<<>>}
<1>1. \A text \in OwnTexts : text \in Texts \ {<<>>}
  BY Zenon, ParserAssumption
<1>2. /\ Alphabet \in Seq(ToSet(Alphabet)) /\ Len(Alphabet) \in Nat
      /\ DOMAIN Alphabet = 1 .. Len(Alphabet)
  BY EncoderAssumption
<1>3. \A i \in 1 .. Len(Alphabet) : Alphabet[i] \in OwnTexts
  BY <1>2 DEF OwnTexts, ToSet
<1>4. /\ <<"C", "onnection">> \in OwnTexts
      /\ {Connection, ContentLength, TransferEncoding} \subseteq OwnTexts
      /\ {<<"keep-alive">>, <<"close">>, <<"chunked">>} \subseteq OwnTexts
  <2> DEFINE A == ToSet(Alphabet)
             x1 == Connection
             x2 == ContentLength
             x3 == TransferEncoding
             x4 == <<"C", "onnection">>
             x5 == <<"keep-alive">>
             x6 == <<"close">>
             x7 == <<"chunked">>
  <2>1. OwnTexts = A \cup {x1, x2, x3, x4, x5, x6, x7}
    BY Zenon DEF OwnTexts
  <2> HIDE DEF A, x1, x2, x3, x4, x5, x6, x7
  <2>2. x4 \in OwnTexts /\ {x1, x2, x3} \subseteq OwnTexts /\ {x5, x6, x7} \subseteq OwnTexts
    BY <2>1
  <2> QED
    BY Zenon, <2>2 DEF x1, x2, x3, x4, x5, x6, x7
<1> QED
  BY Zenon, <1>1, <1>2, <1>3, <1>4

\* The names it knows are in lower case.
LEMMA LowerNames ==
    /\ \A text \in Texts : Lower(text) \in Texts
    /\ \A x \in ToSet(Alphabet) : Lower(x) = x
    /\ Lower(ContentLength) = ContentLength /\ Lower(TransferEncoding) = TransferEncoding
    /\ Lower(<<"C", "onnection">>) = Connection
<1>1. ASSUME NEW text \in Texts
      PROVE  Lower(text) \in Texts
  <2>1. "a" \in Units /\ "c" \in Units
    BY ParserAssumption
  <2>2. Len(text) \in Nat /\ DOMAIN text = 1 .. Len(text) /\ \A i \in 1 .. Len(text) : text[i] \in Units
    BY DEF Texts
  <2> QED
    BY <2>1, <2>2 DEF Lower, Texts
<1>2. ASSUME NEW x, NEW n \in Nat, x = [i \in 1 .. n |-> x[i]],
             \A i \in 1 .. n : x[i] # "A" /\ x[i] # "C"
      PROVE  Lower(x) = x
  <2>1. DOMAIN x = 1 .. n
    BY <1>2
  <2>2. \A i \in 1 .. n : Lower(x)[i] = x[i]
    BY <1>2, <2>1 DEF Lower
  <2>3. Lower(x) = [i \in 1 .. n |-> Lower(x)[i]]
    BY <2>1 DEF Lower
  <2> QED
    BY <1>2, <2>2, <2>3
<1>3. ASSUME NEW x \in {<<"content", "-length">>, <<"transfer", "-encoding">>}
      PROVE  Lower(x) = x
  <2>1. x = [i \in 1 .. 2 |-> x[i]] /\ x[1] # "A" /\ x[1] # "C" /\ x[2] # "A" /\ x[2] # "C"
    OBVIOUS
  <2>2. \A i \in 1 .. 2 : x[i] # "A" /\ x[i] # "C"
    BY <2>1
  <2> QED
    BY <1>2, <2>1, <2>2
<1>4. Lower(<<"C", "onnection">>) = Connection
  <2> DEFINE x == <<"C", "onnection">>
             y == Lower(x)
  <2>1. DOMAIN x = 1 .. 2 /\ x[1] = "C" /\ x[2] = "onnection"
    OBVIOUS
  <2>2. y = [i \in 1 .. 2 |-> y[i]] /\ y[1] = "c" /\ y[2] = "onnection"
    BY <2>1 DEF Lower
  <2> HIDE DEF x, y
  <2>3. y = <<"c", "onnection">>
    BY <2>2
  <2> QED
    BY <2>3 DEF Connection, x, y
<1>5. \A x \in ToSet(Alphabet) : Lower(x) = x
  BY Zenon, EncoderAssumption
<1> QED
  BY Zenon, <1>1, <1>3, <1>4, <1>5 DEF ContentLength, TransferEncoding

\* The elements of a joined sequence.
LEMMA JointElements ==
    ASSUME NEW S, NEW a \in Seq(S), NEW b \in Seq(S)
    PROVE  a \o b \in Seq(S) /\ ToSet(a \o b) = ToSet(a) \cup ToSet(b)
<1> DEFINE c == a \o b
           n == Len(a)
           k == Len(b)
<1>1. n \in Nat /\ k \in Nat
  OBVIOUS
<1>2. Joint(c, a, b, n, k, S)
  BY <1>1, JoinedAt
<1>3. DOMAIN a = 1 .. n /\ DOMAIN b = 1 .. k
  OBVIOUS
<1> HIDE DEF c, n, k
<1>4. c \in Seq(S) /\ Len(c) = n + k /\ DOMAIN c = 1 .. n + k
  BY <1>2 DEF Joint
<1>5. ASSUME NEW i \in 1 .. n + k
      PROVE  c[i] \in ToSet(a) \cup ToSet(b)
  <2>1. CASE i <= n
    <3>1. i \in 1 .. n
      BY <1>1, <2>1
    <3>2. c[i] = a[i]
      BY <1>2, <3>1 DEF Joint
    <3> QED
      BY <1>3, <3>1, <3>2 DEF ToSet
  <2>2. CASE ~(i <= n)
    <3>1. i - n \in 1 .. k /\ n + (i - n) = i
      BY <1>1, <2>2
    <3>2. c[n + (i - n)] = b[i - n]
      BY <1>2, <3>1 DEF Joint
    <3> QED
      BY <1>3, <3>1, <3>2 DEF ToSet
  <2> QED
    BY <2>1, <2>2
<1>6. ASSUME NEW i \in 1 .. n
      PROVE  a[i] \in ToSet(c)
  <2>1. i \in 1 .. n + k
    BY <1>1
  <2>2. c[i] = a[i]
    BY <1>2 DEF Joint
  <2> QED
    BY <1>4, <2>1, <2>2 DEF ToSet
<1>7. ASSUME NEW i \in 1 .. k
      PROVE  b[i] \in ToSet(c)
  <2>1. n + i \in 1 .. n + k /\ c[n + i] = b[i]
    BY <1>1, <1>2 DEF Joint
  <2> QED
    BY <1>4, <2>1 DEF ToSet
<1>8. c \in Seq(S) /\ ToSet(c) = ToSet(a) \cup ToSet(b)
  BY <1>3, <1>4, <1>5, <1>6, <1>7 DEF ToSet
<1> QED
  BY <1>8 DEF c

\* The user's lines are one for each header.
LEMMA UserLinesAre ==
    ASSUME NEW p, WellMade(p)
    PROVE  /\ UserLines(p) \in Seq(HeaderLine)
           /\ ToSet(UserLines(p)) = {Line(x, p.headers[x]) : x \in DOMAIN p.headers}
<1> DEFINE s == [i \in DOMAIN Alphabet |->
                    IF Alphabet[i] \in DOMAIN p.headers
                      THEN << Line(Alphabet[i], p.headers[Alphabet[i]]) >> ELSE <<>>]
           u == FlattenSeq(s)
           L(i) == Line(Alphabet[i], p.headers[Alphabet[i]])
           n == Len(Alphabet)
<1>1. UserLines(p) = u
  BY Zenon DEF UserLines
<1>2. DOMAIN Alphabet = 1 .. n /\ n \in Nat
  BY OwnAreTexts
<1>3. /\ DOMAIN p.headers \subseteq {Alphabet[i] : i \in 1 .. n}
      /\ \A x \in DOMAIN p.headers : p.headers[x] \in Texts
  BY <1>2 DEF WellMade, ToSet
<1>4. ASSUME NEW i \in 1 .. n, Alphabet[i] \in DOMAIN p.headers
      PROVE  L(i) \in HeaderLine
  <2>1. Alphabet[i] \in Texts \ {<<>>}
    BY OwnAreTexts
  <2> QED
    BY <1>3, <1>4, <2>1 DEF Line, HeaderLine
<1> HIDE DEF L
<1>5. ASSUME NEW i \in 1 .. n
      PROVE  s[i] = IF Alphabet[i] \in DOMAIN p.headers THEN <<L(i)>> ELSE <<>>
  BY <1>2 DEF L
<1>6. ASSUME NEW i \in 1 .. n
      PROVE  /\ s[i] \in Seq(HeaderLine)
             /\ Alphabet[i] \in DOMAIN p.headers => Len(s[i]) = 1 /\ s[i][1] = L(i)
             /\ Alphabet[i] \notin DOMAIN p.headers => Len(s[i]) = 0
  <2> HIDE DEF s
  <2>1. CASE Alphabet[i] \in DOMAIN p.headers
    <3> DEFINE l == L(i)
    <3>1. s[i] = <<l>>
      BY <1>5, <2>1
    <3>2. l \in HeaderLine
      BY <1>4, <2>1
    <3> HIDE DEF l
    <3>3. <<l>> \in Seq(HeaderLine) /\ Len(<<l>>) = 1 /\ <<l>>[1] = l
      BY <3>2
    <3> QED
      BY <2>1, <3>1, <3>3 DEF l
  <2>2. CASE Alphabet[i] \notin DOMAIN p.headers
    BY <1>5, <2>2, EmptySeq
  <2> QED
    BY <2>1, <2>2
<1>7. s \in Seq(Seq(HeaderLine)) /\ Len(s) = n
  <2>1. s = [i \in 1 .. n |-> s[i]]
    BY <1>2
  <2> HIDE DEF s
  <2> QED
    BY <1>6, <2>1
<1> HIDE DEF s
<1>8. PICK f : Growth(f, s, HeaderLine)
  BY <1>7, FlattenGrows
<1>9. u \in Seq(HeaderLine)
  BY <1>7, <1>8 DEF Growth
<1>10. Elements(u, s)
  BY <1>7, <1>8, FlattenElements
<1> HIDE DEF u
<1>11. ASSUME NEW x \in DOMAIN p.headers
       PROVE  \E r \in 1 .. Len(u) : u[r] = Line(x, p.headers[x])
  <2>1. PICK i \in 1 .. n : x = Alphabet[i]
    BY <1>3
  <2>2. 1 \in 1 .. Len(s[i]) /\ s[i][1] = L(i)
    BY <1>6, <2>1
  <2>4. \A j \in 1 .. Len(s[i]) : \E r \in 1 .. Len(u) : u[r] = s[i][j]
    BY <1>7, <1>10 DEF Elements
  <2>5. \E r \in 1 .. Len(u) : u[r] = s[i][1]
    BY <2>2, <2>4
  <2>3. \E r \in 1 .. Len(u) : u[r] = L(i)
    BY <2>2, <2>5
  <2> QED
    BY <2>1, <2>3 DEF L
<1>12. ASSUME NEW r \in 1 .. Len(u)
       PROVE  \E x \in DOMAIN p.headers : u[r] = Line(x, p.headers[x])
  <2>4. \E i \in 1 .. Len(s) : \E j \in 1 .. Len(s[i]) : u[r] = s[i][j]
    BY Zenon, <1>10 DEF Elements
  <2>1. PICK i \in 1 .. n : \E j \in 1 .. Len(s[i]) : u[r] = s[i][j]
    BY <1>7, <2>4
  <2>2. PICK j \in 1 .. Len(s[i]) : u[r] = s[i][j]
    BY <2>1
  <2>3. Alphabet[i] \in DOMAIN p.headers /\ j = 1 /\ u[r] = L(i)
    BY <1>6, <2>2
  <2> QED
    BY <2>3 DEF L
<1>13. DOMAIN u = 1 .. Len(u)
  BY <1>9
<1> DEFINE V == {Line(x, p.headers[x]) : x \in DOMAIN p.headers}
<1>14. \A e \in V : e \in ToSet(u)
  BY <1>11, <1>13 DEF ToSet
<1>15. \A e \in ToSet(u) : e \in V
  BY <1>12, <1>13 DEF ToSet
<1>16. ToSet(u) = V
  <2> HIDE DEF V
  <2> QED
    BY <1>14, <1>15
<1> QED
  BY Zenon, <1>1, <1>9, <1>16

\* The header lines of the message of a packet.
Written(p) ==
    {Line(x, p.headers[x]) : x \in DOMAIN p.headers} \cup
    (IF Connection \notin DOMAIN p.headers /\ (p.keepAlive <=> p.version = "HTTP_1_0")
       THEN {Line(<<"C", "onnection">>, <<IF p.keepAlive THEN "keep-alive" ELSE "close">>)}
       ELSE {}) \cup
    (IF p.type # "HDT_REQUEST" /\ UseChunk(p) THEN {Line(TransferEncoding, <<"chunked">>)}
     ELSE IF p.type = "HDT_REQUEST" /\ p.body = <<>> THEN {}
     ELSE {Line(ContentLength, Decimal(Len(p.body)))})

\* One line, or none.
LEMMA OneLine ==
    ASSUME NEW S
    PROVE  /\ <<>> \in Seq(S) /\ ToSet(<<>>) = {}
           /\ \A x \in S : <<x>> \in Seq(S) /\ ToSet(<<x>>) = {x}
<1>1. <<>> \in Seq(S) /\ ToSet(<<>>) = {}
  <2>1. DOMAIN <<>> = {}
    OBVIOUS
  <2> QED
    BY <2>1, EmptySeq DEF ToSet
<1>2. ASSUME NEW x \in S
      PROVE  <<x>> \in Seq(S) /\ ToSet(<<x>>) = {x}
  <2>1. <<x>> \in Seq(S) /\ DOMAIN <<x>> = {1} /\ <<x>>[1] = x
    OBVIOUS
  <2> QED
    BY <2>1 DEF ToSet
<1> QED
  BY <1>1, <1>2

LEMMA LinesAre ==
    ASSUME NEW p, WellMade(p)
    PROVE  Encode(p).headers \in Seq(HeaderLine) /\ ToSet(Encode(p).headers) = Written(p)
<1> DEFINE v1 == IF p.keepAlive THEN "keep-alive" ELSE "close"
           x1 == Line(<<"C", "onnection">>, <<v1>>)
           x2 == Line(TransferEncoding, <<"chunked">>)
           x3 == Line(ContentLength, Decimal(Len(p.body)))
           a == ConnectionLine(p)
           b == UserLines(p)
           d == IF p.type # "HDT_REQUEST" /\ UseChunk(p) THEN <<x2>> ELSE LengthLine(p)
<1>1. x1 \in HeaderLine /\ x2 \in HeaderLine /\ x3 \in HeaderLine
  <2>1. /\ <<"keep-alive">> \in Texts /\ <<"close">> \in Texts /\ <<"chunked">> \in Texts
        /\ ContentLength \in Texts \ {<<>>} /\ TransferEncoding \in Texts \ {<<>>}
    BY OwnAreTexts
  <2>2. <<"C", "onnection">> \in Texts \ {<<>>}
    BY OwnAreTexts
  <2>3. <<v1>> \in Texts
    BY <2>1
  <2>4. Decimal(Len(p.body)) \in Texts
    BY DEF WellMade
  <2> HIDE DEF v1
  <2> QED
    BY <2>1, <2>2, <2>3, <2>4 DEF Line, HeaderLine
<1>2. /\ a \in Seq(HeaderLine)
      /\ ToSet(a) = IF Connection \notin DOMAIN p.headers /\ (p.keepAlive <=> p.version = "HTTP_1_0")
                      THEN {x1} ELSE {}
  <2>1. a = IF Connection \notin DOMAIN p.headers /\ (p.keepAlive <=> p.version = "HTTP_1_0")
              THEN <<x1>> ELSE <<>>
    BY Zenon DEF ConnectionLine
  <2> HIDE DEF x1, a
  <2> QED
    BY <1>1, <2>1, OneLine
<1>3. /\ d \in Seq(HeaderLine)
      /\ ToSet(d) = IF p.type # "HDT_REQUEST" /\ UseChunk(p) THEN {x2}
                    ELSE IF p.type = "HDT_REQUEST" /\ p.body = <<>> THEN {} ELSE {x3}
  <2>1. ContentLength \notin DOMAIN p.headers
    BY DEF WellMade
  <2>2. LengthLine(p) = IF p.type = "HDT_REQUEST" /\ p.body = <<>> THEN <<>> ELSE <<x3>>
    BY Zenon, <2>1 DEF LengthLine
  <2> HIDE DEF x2, x3
  <2> QED
    BY <1>1, <2>2, OneLine
<1>4. Encode(p).headers = (a \o b) \o d
  <2>1. CASE p.type = "HDT_REQUEST"
    BY <2>1 DEF Encode, EncodeRequest
  <2>2. CASE p.type # "HDT_REQUEST"
    BY <2>2 DEF Encode, EncodeResponse
  <2> QED
    BY <2>1, <2>2
<1>5. b \in Seq(HeaderLine) /\ ToSet(b) = {Line(x, p.headers[x]) : x \in DOMAIN p.headers}
  BY Zenon, UserLinesAre
<1> HIDE DEF a, b, d
<1>6. a \o b \in Seq(HeaderLine) /\ ToSet(a \o b) = ToSet(a) \cup ToSet(b)
  BY <1>2, <1>5, JointElements
<1>7. (a \o b) \o d \in Seq(HeaderLine) /\ ToSet((a \o b) \o d) = (ToSet(a) \cup ToSet(b)) \cup ToSet(d)
  <2> DEFINE e == a \o b
  <2>2. e \in Seq(HeaderLine)
    BY Zenon, <1>6
  <2> HIDE DEF e
  <2>1. e \o d \in Seq(HeaderLine) /\ ToSet(e \o d) = ToSet(e) \cup ToSet(d)
    BY <1>3, <2>2, JointElements
  <2> QED
    BY Zenon, <1>6, <2>1 DEF e
<1>8. (ToSet(a) \cup ToSet(b)) \cup ToSet(d) = Written(p)
  <2>1. Written(p) =
          {Line(x, p.headers[x]) : x \in DOMAIN p.headers} \cup
          (IF Connection \notin DOMAIN p.headers /\ (p.keepAlive <=> p.version = "HTTP_1_0")
             THEN {x1} ELSE {}) \cup
          (IF p.type # "HDT_REQUEST" /\ UseChunk(p) THEN {x2}
           ELSE IF p.type = "HDT_REQUEST" /\ p.body = <<>> THEN {} ELSE {x3})
    BY Zenon DEF Written
  <2>2. \A A, B, C : (A \cup B) \cup C = (B \cup A) \cup C
    OBVIOUS
  <2> HIDE DEF x1, x2, x3
  <2> QED
    BY Zenon, <1>2, <1>3, <1>5, <2>1, <2>2
<1> QED
  BY Zenon, <1>4, <1>7, <1>8

-----------------------------------------------------------------------------
(* The body in chunks.                                                     *)

\* Enough whole chunks cover the body, and one less does not.
LEMMA ChunksCover ==
    ASSUME NEW l \in Nat, NEW k \in Nat \ {0}, NEW n, n = (l + k - 1) \div k
    PROVE  n \in Nat /\ n * k >= l /\ \A i \in 1 .. n : (i - 1) * k < l
<1>1. n \in Nat /\ n * k <= l + k - 1 /\ l + k - 1 < n * k + k
  BY Z3
<1>2. ASSUME NEW i \in 1 .. n
      PROVE  (i - 1) * k < l
  <2>1. (i - 1) * k = i * k - k
    BY <1>1
  <2>2. i * k <= n * k
    BY <1>1
  <2> QED
    BY <1>1, <2>1, <2>2
<1> QED
  BY <1>1, <1>2

\* How far the body is written after i chunks.
Reached(body, i) == IF i * ChunkedSize > Len(body) THEN Len(body) ELSE i * ChunkedSize

\* The chunks joined are the body.
LEMMA ChunksJoin ==
    ASSUME NEW S, NEW body \in Seq(S), ChunkedSize > 0
    PROVE  Chunks(body) \in Seq(Seq(S)) /\ FlattenSeq(Chunks(body)) = body
<1> DEFINE l == Len(body)
           n == (l + ChunkedSize - 1) \div ChunkedSize
           s == Chunks(body)
           E(i) == Reached(body, i)
           B(i) == (i - 1) * ChunkedSize
<1>1. l \in Nat /\ ChunkedSize \in Nat \ {0}
  BY EncoderAssumption
<1> HIDE DEF l
<1>2. n \in Nat /\ n * ChunkedSize >= l /\ \A i \in 1 .. n : (i - 1) * ChunkedSize < l
  BY <1>1, ChunksCover
<1> HIDE DEF n
<1>3. s = [i \in 1 .. n |-> SubSeq(body, B(i) + 1, E(i))]
  BY Zenon DEF Chunks, Reached, n, l
<1> HIDE DEF s
<1>4. E(0) = 0 /\ E(n) = l
  <2>1. 0 * ChunkedSize = 0
    BY <1>1
  <2> QED
    BY <1>1, <1>2, <2>1 DEF Reached, l
<1>5. ASSUME NEW i \in 1 .. n
      PROVE  E(i - 1) = B(i) /\ B(i) \in 0 .. l /\ E(i) \in B(i) .. l
  <2>1. (i - 1) * ChunkedSize \in Nat /\ (i - 1) * ChunkedSize < l
    BY <1>1, <1>2
  <2>2. i * ChunkedSize = (i - 1) * ChunkedSize + ChunkedSize
    BY <1>1, <1>2
  <2> DEFINE x == (i - 1) * ChunkedSize
             y == i * ChunkedSize
  <2> HIDE DEF x, y
  <2>3. x \in Nat /\ x < l /\ y = x + ChunkedSize
    BY <2>1, <2>2 DEF x, y
  <2>4. E(i - 1) = (IF x > l THEN l ELSE x) /\ E(i) = IF y > l THEN l ELSE y
    BY Zenon DEF Reached, x, y, l
  <2>5. B(i) = x
    BY DEF x
  <2> HIDE DEF E, B
  <2> QED
    BY <1>1, <2>3, <2>4, <2>5
<1> HIDE DEF E, B
<1>6. s \in Seq(Seq(S)) /\ Len(s) = n
  <2>1. ASSUME NEW i \in 1 .. n
        PROVE  SubSeq(body, B(i) + 1, E(i)) \in Seq(S)
    <3>1. B(i) + 1 \in Int /\ E(i) \in Int /\ \A j \in B(i) + 1 .. E(i) : j \in 1 .. l
      BY <1>1, <1>5
    <3>2. \A j \in B(i) + 1 .. E(i) : body[j] \in S
      BY <3>1, ElementOfSeq DEF l
    <3> QED
      BY <3>1, <3>2, SubSeqProperties
  <2> DEFINE Q(i) == SubSeq(body, B(i) + 1, E(i))
  <2> HIDE DEF Q
  <2>2. s = [i \in 1 .. n |-> Q(i)] /\ \A i \in 1 .. n : Q(i) \in Seq(S)
    BY Zenon, <1>3, <2>1 DEF Q
  <2> QED
    BY <1>2, <2>2
<1>7. PICK f : Growth(f, s, S)
  BY <1>6, FlattenGrows
<1>8. f[0] = <<>> /\ FlattenSeq(s) = f[n]
  BY <1>6, <1>7 DEF Growth
<1> DEFINE K(i, r) == f[r] \o s[i]
           P(i) == SubSeq(body, 1, E(i))
           T == {i \in 0 .. n : f[i] = P(i)}
<1>9. ASSUME NEW i \in 1 .. n
      PROVE  f[i] = K(i, i - 1)
  BY <1>6, <1>7 DEF Growth
<1> HIDE DEF K
<1>10. 0 \in T
  <2>1. P(0) = <<>>
    BY <1>4, SubSeqEmpty
  <2>2. f[0] = P(0)
    BY Zenon, <1>8, <2>1
  <2> HIDE DEF P
  <2> QED
    BY <1>2, <2>2
<1>11. ASSUME NEW k \in 0 .. n - 1, k \in T
       PROVE  k + 1 \in T
  <2>1. k + 1 \in 1 .. n /\ k + 1 - 1 = k /\ k + 1 \in 0 .. n
    BY <1>2
  <2>2. f[k + 1] = K(k + 1, k)
    BY <1>9, <2>1
  <2>3. f[k] = P(k) /\ E(k) = B(k + 1) /\ B(k + 1) \in 0 .. l /\ E(k + 1) \in B(k + 1) .. l
    BY <1>5, <1>11, <2>1
  <2>4. s[k + 1] = SubSeq(body, B(k + 1) + 1, E(k + 1))
    BY <1>3, <2>1
  <2> DEFINE x == B(k + 1)
             y == E(k + 1)
  <2> HIDE DEF x, y
  <2>5. x \in 0 .. l /\ y \in x .. l
    BY <2>3 DEF x, y
  <2>6. SubSeq(body, 1, x) \o SubSeq(body, x + 1, y) = SubSeq(body, 1, y)
    <3>1. 1 \in 1 .. l + 1 /\ x \in 1 - 1 .. l
      BY <1>1, <2>5
    <3> QED
      BY <2>5, <3>1, ConcatAdjacentSubSeq DEF l
  <2>7. f[k + 1] = SubSeq(body, 1, x) \o SubSeq(body, x + 1, y)
    BY Zenon, <2>2, <2>3, <2>4 DEF K, x, y
  <2>8. f[k + 1] = P(k + 1)
    BY Zenon, <2>6, <2>7 DEF y
  <2> QED
    BY <2>1, <2>8
<1>12. n \in T
  <2> HIDE DEF T
  <2>1. n \in 0 .. n
    BY <1>2
  <2> QED
    BY <1>2, <1>10, <1>11, <2>1, UpTo
<1>13. f[n] = SubSeq(body, 1, l)
  BY <1>4, <1>12
<1>14. SubSeq(body, 1, l) = body
  BY SubSeqFull DEF l
<1> QED
  BY Zenon, <1>6, <1>8, <1>13, <1>14 DEF s

\* What a message says is in one of its lines.
LEMMA SaysLine ==
    ASSUME NEW m, NEW name, NEW value
    PROVE  Says(m, name, value) <=>
               \E l \in ToSet(m.headers) : Lower(l.name) = name /\ l.value = value
BY DEF Says, ToSet

\* The lines of the message, by their name in lower case.
LEMMA WrittenNames ==
    ASSUME NEW p, WellMade(p), NEW l \in Written(p)
    PROVE  \/ \E x \in DOMAIN p.headers : Lower(l.name) = x /\ l.value = p.headers[x]
           \/ /\ Connection \notin DOMAIN p.headers
              /\ p.keepAlive <=> p.version = "HTTP_1_0"
              /\ Lower(l.name) = Connection
              /\ l.value = <<IF p.keepAlive THEN "keep-alive" ELSE "close">>
           \/ Lower(l.name) \in {ContentLength, TransferEncoding}
<1>1. \A x \in DOMAIN p.headers : Lower(x) = x
  BY LowerNames DEF WellMade
<1>2. /\ Lower(<<"C", "onnection">>) = Connection
      /\ Lower(ContentLength) = ContentLength /\ Lower(TransferEncoding) = TransferEncoding
  BY LowerNames
<1> DEFINE v1 == <<IF p.keepAlive THEN "keep-alive" ELSE "close">>
           c1 == <<"C", "onnection">>
           v3 == Decimal(Len(p.body))
           v2 == <<"chunked">>
<1>3. \/ l \in {Line(x, p.headers[x]) : x \in DOMAIN p.headers}
      \/ Connection \notin DOMAIN p.headers /\ (p.keepAlive <=> p.version = "HTTP_1_0")
         /\ l = Line(c1, v1)
      \/ l = Line(TransferEncoding, v2)
      \/ l = Line(ContentLength, v3)
  <2> DEFINE A == {Line(x, p.headers[x]) : x \in DOMAIN p.headers}
             B == Connection \notin DOMAIN p.headers /\ (p.keepAlive <=> p.version = "HTTP_1_0")
             C == p.type # "HDT_REQUEST" /\ UseChunk(p)
             D == p.type = "HDT_REQUEST" /\ p.body = <<>>
             x1 == Line(c1, v1)
             x2 == Line(TransferEncoding, v2)
             x3 == Line(ContentLength, v3)
  <2>1. l \in A \cup (IF B THEN {x1} ELSE {}) \cup (IF C THEN {x2} ELSE IF D THEN {} ELSE {x3})
    BY Zenon DEF Written
  <2> HIDE DEF A, B, C, D, x1, x2, x3
  <2>2. l \in A \/ (B /\ l = x1) \/ l = x2 \/ l = x3
    BY <2>1
  <2> QED
    BY Zenon, <2>2 DEF A, B, x1, x2, x3
<1> HIDE DEF v1, c1, v2, v3
<1>4. CASE l \in {Line(x, p.headers[x]) : x \in DOMAIN p.headers}
  <2>1. PICK x \in DOMAIN p.headers : l = Line(x, p.headers[x])
    BY <1>4
  <2> QED
    BY <1>1, <2>1 DEF Line
<1>5. CASE Connection \notin DOMAIN p.headers /\ (p.keepAlive <=> p.version = "HTTP_1_0")
           /\ l = Line(c1, v1)
  <2>1. l.name = c1 /\ l.value = v1
    BY <1>5 DEF Line
  <2> QED
    BY Zenon, <1>2, <1>5, <2>1 DEF c1, v1
<1>6. CASE l = Line(TransferEncoding, v2) \/ l = Line(ContentLength, v3)
  <2>1. l.name \in {TransferEncoding, ContentLength}
    BY <1>6 DEF Line
  <2> QED
    BY <1>2, <2>1
<1> QED
  BY Zenon, <1>3, <1>4, <1>5, <1>6

\* Three names are three.
LEMMA NamesDiffer ==
    Connection # ContentLength /\ Connection # TransferEncoding /\ ContentLength # TransferEncoding
<1>1. Connection[1] = "c" /\ ContentLength[1] = "content" /\ TransferEncoding[1] = "transfer"
  BY DEF Connection, ContentLength, TransferEncoding
<1> QED
  BY <1>1

\* HttpEncoder writes messages, and the whole body.
LEMMA EncodeIsWellFormed ==
    ASSUME NEW p, WellMade(p), ~Refuses(p)
    PROVE  WellFormed(Encode(p)) /\ FlattenSeq(Encode(p).chunks) = p.body
<1> DEFINE m == Encode(p)
           chunked == p.type # "HDT_REQUEST" /\ UseChunk(p)
<1>2. /\ m.line = IF p.type = "HDT_REQUEST" THEN p.uri ELSE p.status
      /\ m.type = "HDT_REQUEST" <=> p.type = "HDT_REQUEST"
      /\ m.trailers = <<>>
      /\ m.chunks = IF chunked THEN Chunks(p.body) ELSE Whole(p.body)
  <2>1. CASE p.type = "HDT_REQUEST"
    BY <2>1 DEF Encode, EncodeRequest
  <2>2. CASE p.type # "HDT_REQUEST"
    BY <2>2 DEF Encode, EncodeResponse
  <2> QED
    BY <2>1, <2>2
<1>3. m.headers \in Seq(HeaderLine) /\ ToSet(m.headers) = Written(p)
  BY Zenon, LinesAre
<1> HIDE DEF m
<1>4. m.line \in Texts /\ (m.type = "HDT_REQUEST" => m.line # <<>>)
  BY <1>2 DEF WellMade, Refuses, RequestRefused
<1>5. m.chunks \in Seq(Texts) /\ FlattenSeq(m.chunks) = p.body
  <2>1. CASE chunked
    <3>1. ChunkedSize > 0 /\ p.body \in Seq(Units)
      BY <2>1 DEF UseChunk, WellMade, Texts
    <3>2. Chunks(p.body) \in Seq(Seq(Units)) /\ FlattenSeq(Chunks(p.body)) = p.body
      BY Zenon, <3>1, ChunksJoin
    <3> QED
      BY Zenon, <1>2, <2>1, <3>2 DEF Texts
  <2>2. CASE ~chunked
    <3>1. p.body \in Seq(Units)
      BY DEF WellMade, Texts
    <3>2. Whole(p.body) \in Seq(Seq(Units)) /\ FlattenSeq(Whole(p.body)) = p.body
      BY Zenon, <3>1, WholeJoins
    <3> QED
      BY Zenon, <1>2, <2>2, <3>2 DEF Texts
  <2> QED
    BY <2>1, <2>2
<1>6. \/ Says(m, TransferEncoding, <<"chunked">>)
      \/ Len(p.body) \in Length(m) \cup {0}
  <2>1. CASE chunked
    <3> DEFINE l == Line(TransferEncoding, <<"chunked">>)
    <3>1. l \in Written(p)
      BY <2>1 DEF Written
    <3>2. Lower(l.name) = TransferEncoding /\ l.value = <<"chunked">>
      <4>1. l.name = TransferEncoding /\ l.value = <<"chunked">>
        BY DEF Line
      <4> QED
        BY <4>1, LowerNames
    <3> HIDE DEF l
    <3> QED
      BY <1>3, <3>1, <3>2, SaysLine
  <2>2. CASE ~chunked /\ p.type = "HDT_REQUEST" /\ p.body = <<>>
    <3>1. Len(p.body) = 0
      BY <2>2
    <3> QED
      BY <3>1
  <2>3. CASE ~chunked /\ ~(p.type = "HDT_REQUEST" /\ p.body = <<>>)
    <3> DEFINE v == Decimal(Len(p.body))
               l == Line(ContentLength, v)
    <3>1. l \in Written(p)
      BY <2>3 DEF Written
    <3>2. Lower(l.name) = ContentLength /\ l.value = v
      <4>1. l.name = ContentLength /\ l.value = v
        BY DEF Line
      <4> QED
        BY <4>1, LowerNames
    <3> HIDE DEF l
    <3>3. Says(m, ContentLength, v)
      BY <1>3, <3>1, <3>2, SaysLine
    <3>4. Len(p.body) \in 0 .. Len(FlattenSeq(m.chunks))
      BY <1>5 DEF WellMade, Texts
    <3> QED
      BY <3>3, <3>4 DEF Length
  <2> QED
    BY <2>1, <2>2, <2>3
<1>7. m.trailers \in Seq(HeaderLine)
  BY <1>2, EmptySeq
<1> QED
  BY Zenon, <1>3, <1>4, <1>5, <1>6, <1>7 DEF WellFormed, HeaderLine, m

\* A message keeps the connection as its packet says, unless the user has said it.
LEMMA WordIsKept ==
    ASSUME NEW p, WellMade(p), ~Refuses(p), Connection \notin DOMAIN p.headers
    PROVE  ShouldKeepAlive(Encode(p)) = p.keepAlive
<1> DEFINE m == Encode(p)
           v10 == p.version = "HTTP_1_0"
           alive == <<"keep-alive">>
           close == <<"close">>
           v == <<IF p.keepAlive THEN "keep-alive" ELSE "close">>
           l1 == Line(<<"C", "onnection">>, v)
<1>1. m.version = p.version /\ p.version \in Versions /\ p.keepAlive \in BOOLEAN
  <2>1. CASE p.type = "HDT_REQUEST"
    BY <2>1 DEF Encode, EncodeRequest, Refuses, RequestRefused, WellMade
  <2>2. CASE p.type # "HDT_REQUEST"
    BY <2>2 DEF Encode, EncodeResponse, Refuses, ResponseRefused, WellMade
  <2> QED
    BY <2>1, <2>2
<1>2. ToSet(m.headers) = Written(p)
  BY Zenon, LinesAre
<1> HIDE DEF m
<1>3. alive # close
  <2>1. alive[1] = "keep-alive" /\ close[1] = "close"
    OBVIOUS
  <2> QED
    BY <2>1
<1>4. ASSUME NEW l \in Written(p), Lower(l.name) = Connection
      PROVE  (p.keepAlive <=> v10) /\ l.value = v
  <2>1. ~\E x \in DOMAIN p.headers : Lower(l.name) = x
    BY <1>4
  <2>2. Lower(l.name) \notin {ContentLength, TransferEncoding}
    BY <1>4, NamesDiffer
  <2> QED
    BY Zenon, <2>1, <2>2, WrittenNames
<1>5. (p.keepAlive <=> v10) => \E l \in Written(p) : Lower(l.name) = Connection /\ l.value = v
  <2>1. Lower(l1.name) = Connection /\ l1.value = v
    <3>1. l1.name = <<"C", "onnection">> /\ l1.value = v
      BY DEF Line
    <3> QED
      BY <3>1, LowerNames
  <2>2. (p.keepAlive <=> v10) => l1 \in Written(p)
    BY DEF Written
  <2> HIDE DEF l1, v
  <2> QED
    BY <2>1, <2>2
<1>6. \A w : Says(m, Connection, w) <=> (p.keepAlive <=> v10) /\ w = v
  <2> HIDE DEF v, v10
  <2> QED
    BY Zenon, <1>2, <1>4, <1>5, SaysLine
<1>7. v = IF p.keepAlive THEN alive ELSE close
  OBVIOUS
<1> HIDE DEF v, alive, close
<1>10. /\ ShouldKeepAlive(m) = TRUE \/ ShouldKeepAlive(m) = FALSE
       /\ p.keepAlive = TRUE \/ p.keepAlive = FALSE
  BY <1>1 DEF ShouldKeepAlive, Says
<1>8. ASSUME v10
      PROVE  ShouldKeepAlive(m) = p.keepAlive
  <2>1. ShouldKeepAlive(m) <=> Says(m, Connection, alive)
    BY <1>1, <1>8 DEF ShouldKeepAlive, alive
  <2>2. Says(m, Connection, alive) <=> p.keepAlive = TRUE
    BY Zenon, <1>1, <1>3, <1>6, <1>7, <1>8
  <2>3. CASE p.keepAlive = TRUE
    <3>1. ShouldKeepAlive(m)
      BY Zenon, <2>1, <2>2, <2>3
    <3>2. ShouldKeepAlive(m) = TRUE
      BY <1>10, <3>1
    <3> QED
      BY <2>3, <3>2
  <2>4. CASE p.keepAlive = FALSE
    <3>1. ~ShouldKeepAlive(m)
      BY <2>1, <2>2, <2>4
    <3>2. ShouldKeepAlive(m) = FALSE
      BY <1>10, <3>1
    <3> QED
      BY <2>4, <3>2
  <2> QED
    BY <1>10, <2>3, <2>4
<1>9. ASSUME ~v10
      PROVE  ShouldKeepAlive(m) = p.keepAlive
  <2>1. ShouldKeepAlive(m) <=> ~Says(m, Connection, close)
    BY <1>1, <1>9 DEF ShouldKeepAlive, close
  <2>2. Says(m, Connection, close) <=> p.keepAlive = FALSE
    BY Zenon, <1>1, <1>3, <1>6, <1>7, <1>9
  <2>3. CASE p.keepAlive = TRUE
    <3>1. ShouldKeepAlive(m)
      BY Zenon, <2>1, <2>2, <2>3
    <3>2. ShouldKeepAlive(m) = TRUE
      BY <1>10, <3>1
    <3> QED
      BY <2>3, <3>2
  <2>4. CASE p.keepAlive = FALSE
    <3>1. ~ShouldKeepAlive(m)
      BY <2>1, <2>2, <2>4
    <3>2. ShouldKeepAlive(m) = FALSE
      BY <1>10, <3>1
    <3> QED
      BY <2>4, <3>2
  <2> QED
    BY <1>10, <2>3, <2>4
<1> QED
  BY Zenon, <1>8, <1>9 DEF m

\* The header map of a message has what the user has put in.
LEMMA HeadersAreKept ==
    ASSUME NEW p, WellMade(p), NEW x \in DOMAIN p.headers
    PROVE  HeaderMap(Encode(p))[x] = p.headers[x]
<1> DEFINE m == Encode(p)
           n == Len(m.headers)
           N(i) == Lower(m.headers[i].name)
           lines(y) == {i \in 1 .. n : N(i) = y}
           F(y) == m.headers[Max(lines(y))].value
           k == Max(lines(x))
<1>1. m.headers \in Seq(HeaderLine) /\ ToSet(m.headers) = Written(p)
  BY Zenon, LinesAre
<1> HIDE DEF m
<1>2. n \in Nat /\ DOMAIN m.headers = 1 .. n
  BY <1>1
<1>3. HeaderMap(m) = [y \in {N(i) : i \in 1 .. n} |-> F(y)]
  BY Zenon, <1>2 DEF HeaderMap
<1>4. \A i \in 1 .. n : m.headers[i] \in Written(p)
  <2> HIDE DEF n
  <2> QED
    BY <1>1, <1>2 DEF ToSet
<1>5. PICK i \in 1 .. n : N(i) = x
  <2>1. Line(x, p.headers[x]) \in Written(p)
    BY DEF Written
  <2>2. PICK i \in 1 .. n : m.headers[i] = Line(x, p.headers[x])
    <3> HIDE DEF n
    <3> QED
      BY <1>1, <1>2, <2>1 DEF ToSet
  <2>3. m.headers[i].name = x
    BY <2>2 DEF Line
  <2>4. Lower(x) = x
    BY LowerNames DEF WellMade
  <2> QED
    BY <2>3, <2>4
<1> HIDE DEF N, n, F
<1>6. lines(x) \in SUBSET (0 .. n) /\ lines(x) # {}
  BY <1>2, <1>5
<1>7. k \in lines(x)
  <2> HIDE DEF lines
  <2> QED
    BY <1>2, <1>6, MaxExists
<1>8. k \in 1 .. n /\ N(k) = x
  BY <1>7
<1>9. HeaderMap(m)[x] = m.headers[k].value
  <2>1. HeaderMap(m)[x] = F(x)
    BY <1>3, <1>5
  <2> QED
    BY Zenon, <2>1 DEF F
<1> HIDE DEF k
<1>10. m.headers[k].value = p.headers[x]
  <2> DEFINE l == m.headers[k]
  <2>1. l \in Written(p) /\ Lower(l.name) = x
    BY <1>4, <1>8 DEF N
  <2> HIDE DEF l
  <2>2. x \notin {ContentLength, TransferEncoding}
    BY DEF WellMade
  <2>3. l.value = p.headers[x]
    BY Zenon, <2>1, <2>2, WrittenNames
  <2> QED
    BY <2>3 DEF l
<1> QED
  BY <1>9, <1>10 DEF m

-----------------------------------------------------------------------------
(* Every message is one the vendored parser takes.                         *)

LEMMA MessagesMade ==
    /\ \A m \in Messages : WellFormed(m)
    /\ \A e \in Encoded : /\ WellMade(e.packet) /\ ~Refuses(e.packet)
                          /\ e.message = Encode(e.packet)
<1>1. ASSUME NEW e \in Encoded
      PROVE  WellMade(e.packet) /\ ~Refuses(e.packet) /\ e.message = Encode(e.packet)
  <2>1. PICK p \in Packets : ~Refuses(p) /\ e = [packet |-> p, message |-> Encode(p)]
    BY DEF Encoded
  <2>2. e.packet = p /\ e.message = Encode(p)
    BY <2>1
  <2> QED
    BY <2>1, <2>2, MessagesAssumption
<1>2. ASSUME NEW m \in Messages
      PROVE  WellFormed(m)
  <2>1. CASE m \in Foreign
    BY <2>1, MessagesAssumption
  <2>2. CASE m \notin Foreign
    <3>1. PICK e \in Encoded : m = e.message
      BY <2>2 DEF Messages
    <3> QED
      BY <1>1, <3>1, EncodeIsWellFormed
  <2> QED
    BY <2>1, <2>2
<1> QED
  BY <1>1, <1>2

\* Even or odd.
LEMMA Halves ==
    \A a \in Nat : \E k \in Nat : a = 2 * k \/ a = 2 * k + 1
<1> SUFFICES ASSUME NEW a \in Nat
             PROVE  \E k \in Nat : a = 2 * k \/ a = 2 * k + 1
  OBVIOUS
<1>1. a \div 2 \in Nat /\ (a = 2 * (a \div 2) \/ a = 2 * (a \div 2) + 1)
  OBVIOUS
<1> QED
  BY <1>1

\* Which callbacks are where, and what text they are given.
PlaceOf(m, h, p, t, c, a) ==
    /\ c[a].text \in Texts
    /\ c[a].name = "url" => a = 1 /\ m.type = "HDT_REQUEST" /\ c[a].text = m.line
    /\ c[a].name = "status" => a = 1 /\ m.type # "HDT_REQUEST"
    /\ c[a].name = "field" =>
          \/ \E j \in 1 .. h : a = 2 * j /\ c[a].text = m.headers[j].name
          \/ a > 2 * h + 2 + p /\ a < 2 * h + p + 2 * t + 3
    /\ c[a].name = "value" =>
          \/ \E j \in 1 .. h : a = 2 * j + 1 /\ c[a].text = m.headers[j].value
          \/ a > 2 * h + 2 + p /\ a < 2 * h + p + 2 * t + 3
    /\ c[a].name = "headers" => a = 2 * h + 2 /\ c[a].text = <<>>
    /\ c[a].name = "body" =>
          \E i \in 1 .. p : a = 2 * h + 2 + i /\ c[a].text = Pieces(m)[i]
    /\ c[a].name = "complete" => a = 2 * h + p + 2 * t + 3 /\ c[a].text = <<>>

LEMMA Places ==
    ASSUME NEW m, WellFormed(m), NEW h \in Nat, NEW p \in Nat, NEW t \in Nat, Sizes(m, h, p, t),
           NEW c, c = Callbacks(m), NEW a \in 1 .. Len(c)
    PROVE  PlaceOf(m, h, p, t, c, a)
<1>12. Layout(m, h, p, t, c)
  BY LaidOut
<1>1. /\ c \in Seq(Callbacked) /\ Len(c) = 2 * h + p + 2 * t + 3
      /\ c[1] = Callback(IF m.type = "HDT_REQUEST" THEN "url" ELSE "status", m.line)
      /\ \A j \in 1 .. h : /\ c[2 * j] = Callback("field", m.headers[j].name)
                           /\ c[2 * j + 1] = Callback("value", m.headers[j].value)
      /\ c[2 * h + 2] = Callback("headers", <<>>)
      /\ \A i \in 1 .. p : c[2 * h + 2 + i] = Callback("body", Pieces(m)[i])
      /\ \A j \in 1 .. t : /\ c[2 * h + 1 + p + 2 * j] = Callback("field", m.trailers[j].name)
                           /\ c[2 * h + 2 + p + 2 * j] = Callback("value", m.trailers[j].value)
      /\ c[2 * h + p + 2 * t + 3] = Callback("complete", <<>>)
  BY Zenon, <1>12 DEF Layout
<1>2. c[a].text \in Texts
  <2>1. c[a] \in Callbacked
    BY <1>1, ElementOfSeq
  <2> QED
    BY <2>1 DEF Callbacked
<1>3. \/ a = 1
      \/ \E j \in 1 .. h : a = 2 * j
      \/ \E j \in 1 .. h : a = 2 * j + 1
      \/ a = 2 * h + 2
      \/ \E i \in 1 .. p : a = 2 * h + 2 + i
      \/ \E j \in 1 .. t : a = 2 * h + 1 + p + 2 * j
      \/ \E j \in 1 .. t : a = 2 * h + 2 + p + 2 * j
      \/ a = 2 * h + p + 2 * t + 3
  <2>1. a \in 1 .. 2 * h + p + 2 * t + 3
    BY <1>1
  <2>2. CASE a <= 2 * h + 2
    <3>2. a \in Nat
      BY <2>1
    <3>1. PICK k \in Nat : a = 2 * k \/ a = 2 * k + 1
      BY <3>2, Halves
    <3> QED
      BY <2>1, <2>2, <3>1
  <2>3. CASE a > 2 * h + 2 /\ a <= 2 * h + 2 + p
    <3>1. a - (2 * h + 2) \in 1 .. p /\ a = 2 * h + 2 + (a - (2 * h + 2))
      BY <2>1, <2>3
    <3> QED
      BY <3>1
  <2>4. CASE a > 2 * h + 2 + p
    <3>1. a - (2 * h + 1 + p) \in Nat
      BY <2>1, <2>4
    <3>2. PICK k \in Nat : a - (2 * h + 1 + p) = 2 * k \/ a - (2 * h + 1 + p) = 2 * k + 1
      BY <3>1, Halves
    <3>3. CASE a - (2 * h + 1 + p) = 2 * k
      <4>1. a = 2 * h + 1 + p + 2 * k /\ k \in 1 .. t + 1
        BY <2>1, <2>4, <3>3
      <4>2. CASE k = t + 1
        BY <4>1, <4>2
      <4> QED
        BY <4>1, <4>2
    <3>4. CASE a - (2 * h + 1 + p) = 2 * k + 1
      <4>1. a = 2 * h + 2 + p + 2 * k /\ k \in 1 .. t
        BY <2>1, <2>4, <3>4
      <4> QED
        BY <4>1
    <3> QED
      BY <3>2, <3>3, <3>4
  <2> QED
    BY <2>1, <2>2, <2>3, <2>4
<1>4. CASE a = 1
  BY <1>1, <1>2, <1>4 DEF Callback, PlaceOf
<1>5. CASE \E j \in 1 .. h : a = 2 * j
  <2>1. PICK j \in 1 .. h : a = 2 * j
    BY <1>5
  <2>2. c[a] = Callback("field", m.headers[j].name)
    BY <1>1, <2>1
  <2>3. c[a].name = "field" /\ c[a].text = m.headers[j].name
    BY <2>2 DEF Callback
  <2> QED
    BY <1>2, <2>1, <2>3 DEF PlaceOf
<1>6. CASE \E j \in 1 .. h : a = 2 * j + 1
  <2>1. PICK j \in 1 .. h : a = 2 * j + 1
    BY <1>6
  <2>2. c[a] = Callback("value", m.headers[j].value)
    BY <1>1, <2>1
  <2>3. c[a].name = "value" /\ c[a].text = m.headers[j].value
    BY <2>2 DEF Callback
  <2> QED
    BY <1>2, <2>1, <2>3 DEF PlaceOf
<1>7. CASE a = 2 * h + 2
  <2>1. c[a].name = "headers" /\ c[a].text = <<>>
    BY <1>1, <1>7 DEF Callback
  <2> QED
    BY <1>2, <1>7, <2>1 DEF PlaceOf
<1>8. CASE \E i \in 1 .. p : a = 2 * h + 2 + i
  <2>1. PICK i \in 1 .. p : a = 2 * h + 2 + i
    BY <1>8
  <2>2. c[a] = Callback("body", Pieces(m)[i])
    BY <1>1, <2>1
  <2>3. c[a].name = "body" /\ c[a].text = Pieces(m)[i]
    BY <2>2 DEF Callback
  <2> QED
    BY <1>2, <2>1, <2>3 DEF PlaceOf
<1>9. CASE \E j \in 1 .. t : a = 2 * h + 1 + p + 2 * j
  <2>1. PICK j \in 1 .. t : a = 2 * h + 1 + p + 2 * j
    BY <1>9
  <2>2. c[a] = Callback("field", m.trailers[j].name)
    BY <1>1, <2>1
  <2>3. c[a].name = "field"
    BY <2>2 DEF Callback
  <2>4. a > 2 * h + 2 + p /\ a < 2 * h + p + 2 * t + 3
    BY <2>1
  <2> QED
    BY <1>2, <2>3, <2>4 DEF PlaceOf
<1>10. CASE \E j \in 1 .. t : a = 2 * h + 2 + p + 2 * j
  <2>1. PICK j \in 1 .. t : a = 2 * h + 2 + p + 2 * j
    BY <1>10
  <2>2. c[a] = Callback("value", m.trailers[j].value)
    BY <1>1, <2>1
  <2>3. c[a].name = "value"
    BY <2>2 DEF Callback
  <2>4. a > 2 * h + 2 + p /\ a < 2 * h + p + 2 * t + 3
    BY <2>1
  <2> QED
    BY <1>2, <2>3, <2>4 DEF PlaceOf
<1>11. CASE a = 2 * h + p + 2 * t + 3
  <2>1. c[a].name = "complete" /\ c[a].text = <<>>
    BY <1>1, <1>11 DEF Callback
  <2> QED
    BY <1>2, <1>11, <2>1 DEF PlaceOf
<1> QED
  BY Zenon, <1>3, <1>4, <1>5, <1>6, <1>7, <1>8, <1>9, <1>10, <1>11

-----------------------------------------------------------------------------
(* The inductive invariant.                                                *)

HN(m) == Len(m.headers)
PN(m) == Len(Pieces(m))
TN(m) == Len(m.trailers)

LEMMA SizesAre ==
    ASSUME NEW m, WellFormed(m)
    PROVE  /\ HN(m) \in Nat /\ PN(m) \in Nat /\ TN(m) \in Nat
           /\ Sizes(m, HN(m), PN(m), TN(m)) /\ DOMAIN m.headers = 1 .. HN(m)
           /\ Len(Callbacks(m)) = 2 * HN(m) + PN(m) + 2 * TN(m) + 3
<1>1. m.headers \in Seq(HeaderLine) /\ m.trailers \in Seq(HeaderLine)
  BY DEF WellFormed, HeaderLine
<1>2. Pieces(m) \in Seq(Texts)
  BY PiecesJoin
<1>3. HN(m) \in Nat /\ PN(m) \in Nat /\ TN(m) \in Nat /\ DOMAIN m.headers = 1 .. HN(m)
  BY <1>1, <1>2 DEF HN, PN, TN
<1>4. Sizes(m, HN(m), PN(m), TN(m))
  BY <1>2 DEF Sizes, HN, PN, TN
<1>5. Layout(m, HN(m), PN(m), TN(m), Callbacks(m))
  BY <1>3, <1>4, LaidOut
<1> QED
  BY <1>3, <1>4, <1>5 DEF Layout

\* The lines of a message: their names, and the names they have in _HeadInfo.
LEMMA NamesOf ==
    ASSUME NEW m, WellFormed(m)
    PROVE  /\ HN(m) \in Nat /\ DOMAIN m.headers = 1 .. HN(m) /\ Len(m.headers) = HN(m)
           /\ \A j \in 1 .. HN(m) :
                 /\ m.headers[j].name \in Texts \ {<<>>}
                 /\ Names(m)[j] = Before(m, j) \o m.headers[j].name
                 /\ Names(m)[j] \in Texts \ {<<>>} /\ Before(m, j) \in Texts
<1>1. HN(m) \in Nat /\ DOMAIN m.headers = 1 .. HN(m) /\ Len(m.headers) = HN(m)
  BY SizesAre DEF HN
<1>2. m.headers \in Seq(HeaderLine)
  BY DEF WellFormed, HeaderLine
<1>3. ASSUME NEW j \in 1 .. HN(m)
      PROVE  m.headers[j].name \in Texts \ {<<>>}
  <2>1. m.headers[j] \in HeaderLine
    BY <1>1, <1>2, ElementOfSeq
  <2> QED
    BY <2>1 DEF HeaderLine
<1>4. \A j \in 1 .. HN(m) : /\ Names(m)[j] = Before(m, j) \o m.headers[j].name
                            /\ Names(m)[j] \in Texts \ {<<>>} /\ Before(m, j) \in Texts
  BY <1>1, <1>3, NamesAre
<1> QED
  BY <1>1, <1>3, <1>4

\* The lines with a value, one line more.
LEMMA ValuedMore ==
    ASSUME NEW m, NEW j \in Nat, j # 0
    PROVE  Valued(m, j) = IF m.headers[j].value # <<>> THEN Valued(m, j - 1) \cup {j}
                                                       ELSE Valued(m, j - 1)
BY DEF Valued

\* The URL is in hd as far as it has come.
UrlAt(hd, m, a, g) ==
    m.type = "HDT_REQUEST" => hd.url = IF a = 1 THEN SubSeq(m.line, 1, g) ELSE m.line

\* The first j header lines are in hd, the last of them not yet in its map.
After(hd, m, j) ==
    IF j = 0 THEN hd.field = <<>> /\ hd.value = <<>> /\ IsMap(hd.map, m, Valued(m, 0))
    ELSE /\ hd.field = Names(m)[j] /\ hd.value = m.headers[j].value
         /\ IsMap(hd.map, m, Valued(m, j - 1))

\* The header lines are in hd as far as they have come, g units of callback a included.
HeadAt(hd, m, a, g) ==
    /\ a = 1 => After(hd, m, 0)
    /\ \A j \in 1 .. HN(m) :
          /\ a = 2 * j =>
                IF g = 0 THEN After(hd, m, j - 1)
                ELSE /\ hd.field = Before(m, j) \o SubSeq(m.headers[j].name, 1, g)
                     /\ hd.value = <<>> /\ IsMap(hd.map, m, Valued(m, j - 1))
          /\ a = 2 * j + 1 =>
                /\ hd.field = Names(m)[j] /\ hd.value = SubSeq(m.headers[j].value, 1, g)
                /\ IsMap(hd.map, m, Valued(m, j - 1))
    /\ a = 2 * HN(m) + 2 => After(hd, m, HN(m))

\* The body is as long as it has come.
BodyAt(body, m, a, g) ==
    \A f : Growth(f, Pieces(m), Units) =>
        /\ \A i \in 1 .. PN(m) :
              a = 2 * HN(m) + 2 + i => body = f[i - 1] \o SubSeq(Pieces(m)[i], 1, g)
        /\ a > 2 * HN(m) + 2 + PN(m) => body = f[PN(m)]

\* The packet is the message's, but for its body.
PacketIs(p, m) ==
    /\ {"version", "headers", "keepAlive", "body"} \subseteq DOMAIN p
    /\ p.version = m.version /\ m.version \in Versions
    /\ p.headers = StoredMap(m)
    /\ IF m.type = "HDT_REQUEST" THEN "uri" \in DOMAIN p /\ p.uri = Uri(m.line)
                                 ELSE "code" \in DOMAIN p /\ p.code = m.code

Place ==
    /\ begun > 0 =>
          /\ message \in Messages /\ message.type = type
          /\ calls = Callbacks(message)
          /\ at \in 1 .. Len(calls) + 1 /\ given \in Nat
          /\ at <= Len(calls) => given = 0 \/ given < Len(calls[at].text)
          /\ at > Len(calls) => given = 0
    /\ begun = 0 => calls = <<>> /\ at = 1

Heads ==
    (begun > 0 /\ pc # "refused" /\ at <= 2 * HN(message) + 2) =>
        /\ UrlAt(head, message, at, given)
        /\ HeadAt(head, message, at, given)

Bodies ==
    (begun > 0 /\ pc # "refused" /\ at > 2 * HN(message) + 2 /\ at <= Len(calls)) =>
        PacketIs(current, message) /\ BodyAt(current.body, message, at, given)

Limits ==
    (begun > 0 /\ pc # "refused") =>
        /\ (type = "HDT_REQUEST" /\ UrlMaxLen # 0) =>
              IF at = 1 THEN given <= UrlMaxLen ELSE Len(message.line) <= UrlMaxLen
        /\ (BodyMaxLen # 0 /\ at > 2 * HN(message) + 2 /\ at <= Len(calls)) =>
              Len(current.body) <= BodyMaxLen

RefusedIsRefusable == pc = "refused" => begun > 0 /\ Refusable(message)

\* What is in the list for m.
Delivers(p, m) ==
    /\ m.type = type /\ m \in Messages
    /\ PacketIs(p, m)
    /\ p.body = FlattenSeq(m.chunks)
    /\ p.keepAlive = ShouldKeepAlive(m)
    /\ ~Refusable(m)

Delivered ==
    /\ \E S : list \in Seq(S)
    /\ \E S : due \in Seq(S)
    /\ Len(list) = Len(due)
    /\ \A i \in 1 .. Len(list) : Delivers(list[i], due[i])

ParseInv ==
    TypeOK /\ Place /\ Heads /\ Bodies /\ Limits /\ RefusedIsRefusable /\ Delivered

\* Where the next callback is, and what it is given.
Given(n) ==
    LET text == calls[at].text
    IN  /\ begun > 0 /\ WellFormed(message) /\ message \in Messages /\ message.type = type
        /\ calls = Callbacks(message) /\ at \in 1 .. Len(calls)
        /\ given \in Nat /\ n \in Nat /\ given + n <= Len(text) /\ Len(text) \in Nat
        /\ text \in Texts /\ Data(n) \in Texts /\ Len(Data(n)) = n
        /\ SubSeq(text, 1, given) \o Data(n) = SubSeq(text, 1, given + n)
        /\ given + n = Len(text) => /\ SubSeq(text, 1, given + n) = text
                                    /\ at' = at + 1 /\ given' = 0
        /\ given + n # Len(text) => at' = at /\ given' = given + n /\ given' > 0
        /\ calls' = calls
        /\ pc = "decode"

LEMMA CalledMoves ==
    ASSUME TypeOK, Place, NEW name, NEW n, Called(name, n),
           UNCHANGED <<type, message, begun>>
    PROVE  Given(n) /\ Place'
<1> DEFINE c == calls
           text == calls[at].text
<1>1. /\ pc = "decode" /\ at <= Len(calls)
      /\ IF n = Left THEN at' = at + 1 /\ given' = 0 ELSE at' = at /\ given' = given + n
      /\ calls' = calls
  BY DEF Called
<1>2. begun > 0
  <2>1. begun \in Nat
    BY ParserAssumption DEF TypeOK
  <2>2. begun = 0 => Len(calls) = 0 /\ at = 1
    BY EmptySeq DEF Place
  <2> QED
    BY <1>1, <2>1, <2>2 DEF Called
<1>3. /\ message \in Messages /\ message.type = type /\ calls = Callbacks(message)
      /\ at \in 1 .. Len(calls) + 1 /\ given \in Nat
      /\ at <= Len(calls) => given = 0 \/ given < Len(calls[at].text)
  BY <1>2 DEF Place
<1>4. WellFormed(message)
  BY <1>3, MessagesMade
<1>5. Len(calls) \in Nat /\ at \in 1 .. Len(calls) /\ at <= Len(calls)
  <2>1. Len(calls) \in Nat
    BY <1>3, <1>4, SizesAre
  <2> QED
    BY <1>3, <2>1 DEF Called
<1>6. text \in Texts
  BY <1>3, <1>4, <1>5, SizesAre, Places DEF PlaceOf
<1>7. Len(text) \in Nat
  BY <1>6 DEF Texts
<1>8. Left = Len(text) - given
  BY DEF Left
<1> HIDE DEF text
<1>9. n \in Nat /\ given + n <= Len(text) /\ (n = Left <=> given + n = Len(text))
      /\ (n # Left => n > 0)
  <2>1. n \in 1 .. Left \/ (n = 0 /\ Left = 0)
    BY DEF Called
  <2> QED
    BY <1>3, <1>7, <1>8, <2>1
<1>10. Data(n) = SubSeq(text, given + 1, given + n)
  BY DEF Data, text
<1>11. /\ Data(n) \in Texts /\ Len(Data(n)) = n
       /\ SubSeq(text, 1, given) \o Data(n) = SubSeq(text, 1, given + n)
       /\ given + n = Len(text) => SubSeq(text, 1, given + n) = text
  <2>1. \A i \in given + 1 .. given + n : text[i] \in Units
    BY <1>3, <1>6, <1>7, <1>9 DEF Texts
  <2>2. Data(n) \in Seq(Units) /\ Len(Data(n)) = n
    BY <1>3, <1>9, <1>10, <2>1, SubSeqProperties
  <2>3. /\ 1 \in 1 .. Len(text) + 1 /\ given \in 1 - 1 .. Len(text)
        /\ given + n \in given .. Len(text)
    BY <1>3, <1>7, <1>9
  <2>4. SubSeq(text, 1, given) \o SubSeq(text, given + 1, given + n) = SubSeq(text, 1, given + n)
    BY <1>6, <2>3, ConcatAdjacentSubSeq DEF Texts
  <2>5. SubSeq(text, 1, Len(text)) = text
    BY <1>6, SubSeqFull DEF Texts
  <2> QED
    BY <1>10, <2>2, <2>4, <2>5 DEF Texts
<1>12. /\ given + n = Len(text) => at' = at + 1 /\ given' = 0
       /\ given + n # Len(text) => at' = at /\ given' = given + n /\ given' > 0
  <2>1. given + n = Len(text) => at' = at + 1 /\ given' = 0
    BY Zenon, <1>1, <1>9
  <2>2. given + n # Len(text) => at' = at /\ given' = given + n /\ n > 0
    BY Zenon, <1>1, <1>9
  <2> QED
    BY <1>3, <1>9, <2>1, <2>2
<1>13. Given(n)
  <2>1. /\ begun > 0 /\ WellFormed(message) /\ message \in Messages /\ message.type = type
        /\ calls = Callbacks(message) /\ at \in 1 .. Len(calls)
        /\ given \in Nat /\ n \in Nat /\ given + n <= Len(text) /\ Len(text) \in Nat
        /\ calls' = calls
        /\ pc = "decode"
    BY Zenon, <1>1, <1>2, <1>3, <1>4, <1>5, <1>7, <1>9
  <2>2. /\ text \in Texts /\ Data(n) \in Texts /\ Len(Data(n)) = n
        /\ SubSeq(text, 1, given) \o Data(n) = SubSeq(text, 1, given + n)
    BY Zenon, <1>6, <1>11
  <2>3. /\ given + n = Len(text) => /\ SubSeq(text, 1, given + n) = text
                                    /\ at' = at + 1 /\ given' = 0
        /\ given + n # Len(text) => at' = at /\ given' = given + n /\ given' > 0
    BY Zenon, <1>11, <1>12
  <2> QED
    BY Zenon, <2>1, <2>2, <2>3 DEF Given, text
<1>14. Place'
  <2>1. (begun > 0)' /\ (begun # 0)' /\ message' = message /\ type' = type /\ calls' = calls
    BY <1>1, <1>2
  <2>2. at' \in 1 .. Len(calls) + 1 /\ given' \in Nat
    BY <1>3, <1>5, <1>9, <1>12
  <2>3. at' <= Len(calls) => given' = 0 \/ given' < Len(calls[at'].text)
    <3>1. CASE given + n = Len(text)
      BY <1>12, <3>1
    <3>2. CASE given + n # Len(text)
      <4>1. at' = at /\ given' < Len(text)
        BY <1>3, <1>7, <1>9, <1>12, <3>2
      <4> QED
        BY <4>1 DEF text
    <3> QED
      BY <3>1, <3>2
  <2>4. at' > Len(calls) => given' = 0
    BY <1>5, <1>12
  <2> QED
    BY <1>3, <2>1, <2>2, <2>3, <2>4 DEF Place
<1> QED
  BY <1>13, <1>14

\* With the first j lines, the next callback is that of line j + 1, or the last one.
LEMMA AfterIsHead ==
    ASSUME NEW m, NEW hd, HN(m) \in Nat, NEW j \in 0 .. HN(m), After(hd, m, j)
    PROVE  HeadAt(hd, m, 2 * j + 2, 0)
<1>1. 2 * j + 2 # 1
  OBVIOUS
<1>2. ASSUME NEW k \in 1 .. HN(m)
      PROVE  /\ 2 * j + 2 = 2 * k => k - 1 = j
             /\ 2 * j + 2 # 2 * k + 1
  OBVIOUS
<1>3. 2 * j + 2 = 2 * HN(m) + 2 => HN(m) = j
  <2> DEFINE h == HN(m)
  <2> HIDE DEF h
  <2>1. h \in Nat /\ j \in 0 .. h
    BY DEF h
  <2>2. 2 * j + 2 = 2 * h + 2 => h = j
    BY <2>1
  <2> QED
    BY Zenon, <2>2 DEF h
<1> QED
  BY <1>1, <1>2, <1>3 DEF HeadAt

\* With the first i pieces, the next callback is that of piece i + 1, or follows the body.
LEMMA JoinedIsBody ==
    ASSUME NEW m, WellFormed(m), NEW body, NEW i \in 0 .. PN(m),
           \A f : Growth(f, Pieces(m), Units) => body = f[i]
    PROVE  BodyAt(body, m, 2 * HN(m) + 3 + i, 0)
<1>1. HN(m) \in Nat /\ PN(m) \in Nat /\ Len(Pieces(m)) = PN(m) /\ Pieces(m) \in Seq(Seq(Units))
  BY SizesAre, PiecesJoin DEF PN, Texts
<1> DEFINE a == 2 * HN(m) + 3 + i
<1> SUFFICES ASSUME NEW f, Growth(f, Pieces(m), Units)
             PROVE  /\ \A k \in 1 .. PN(m) :
                          a = 2 * HN(m) + 2 + k => body = f[k - 1] \o SubSeq(Pieces(m)[k], 1, 0)
                    /\ a > 2 * HN(m) + 2 + PN(m) => body = f[PN(m)]
  BY Zenon DEF BodyAt
<1>2. body = f[i]
  OBVIOUS
<1>3. ASSUME NEW k \in 1 .. PN(m), a = 2 * HN(m) + 2 + k
      PROVE  body = f[k - 1] \o SubSeq(Pieces(m)[k], 1, 0)
  <2>1. k - 1 = i
    BY <1>1, <1>3
  <2>2. SubSeq(Pieces(m)[k], 1, 0) = <<>>
    BY SubSeqEmpty
  <2>3. f[i] \in Seq(Units)
    BY <1>1 DEF Growth
  <2>4. f[i] \o <<>> = f[i]
    BY <2>3, ConcatEmptySeq
  <2> QED
    BY <1>2, <2>1, <2>2, <2>4
<1>4. a > 2 * HN(m) + 2 + PN(m) => i = PN(m)
  BY <1>1
<1> HIDE DEF a
<1> QED
  BY <1>2, <1>3, <1>4

\* What is in the list stays right.
LEMMA DeliveredStays ==
    ASSUME Delivered, UNCHANGED <<type, list, due>>
    PROVE  Delivered'
BY DEF Delivered, Delivers, Refusable

LEMMA UrlKeeps ==
    ASSUME ParseInv, NEW n, OnUrl(n)
    PROVE  ParseInv'
<1> DEFINE m == message
           text == calls[at].text
           fits == UrlMaxLen = 0 \/ ~(UrlMaxLen < n + Len(head.url))
<1>1. /\ UNCHANGED <<type, current, list, message, begun, due>>
      /\ Called("url", n)
      /\ IF ~fits THEN Fails /\ UNCHANGED head
         ELSE Goes(n) /\ head' = [head EXCEPT !.url = @ \o Data(n)]
  BY DEF OnUrl
<1>2. Given(n) /\ Place'
  BY <1>1, CalledMoves DEF ParseInv
<1>3. calls[at].name = "url"
  BY <1>1 DEF Called
<1>4. WellFormed(m) /\ HN(m) \in Nat /\ at \in 1 .. Len(Callbacks(m)) /\ calls = Callbacks(m)
  BY <1>2, SizesAre DEF Given
<1>5. at = 1 /\ m.type = "HDT_REQUEST" /\ text = m.line
  <2>1. PlaceOf(m, HN(m), PN(m), TN(m), calls, at)
    BY <1>4, SizesAre, Places
  <2> QED
    BY Zenon, <1>3, <2>1 DEF PlaceOf
<1>6. head.url = SubSeq(text, 1, given) /\ After(head, m, 0)
  BY <1>2, <1>4, <1>5 DEF ParseInv, Heads, Given, UrlAt, HeadAt
<1>7. Len(head.url) = given /\ head.url \in Texts
  <2>1. \A i \in 1 .. given : text[i] \in Units
    BY <1>2 DEF Given, Texts
  <2>2. given \in Int /\ given \in Nat
    BY <1>2 DEF Given
  <2> HIDE DEF text
  <2> QED
    BY <1>6, <2>1, <2>2, SubSeqProperties DEF Texts
<1>8. TypeOK'
  <2>1. Data(n) \in Texts /\ pc = "decode"
    BY <1>2 DEF Given
  <2>2. head.url \o Data(n) \in Texts
    BY <1>7, <2>1, ConcatProperties DEF Texts
  <2>3. pc' \in {"read", "decode", "refused"}
    BY <1>1 DEF Fails, Goes
  <2>4. head' = head \/ head' = [head EXCEPT !.url = head.url \o Data(n)]
    BY <1>1
  <2> QED
    BY <1>1, <2>2, <2>3, <2>4 DEF ParseInv, TypeOK, NoHead
<1>9. Heads'
  <2> SUFFICES ASSUME (begun > 0)', (pc # "refused")', (at <= 2 * HN(message) + 2)'
               PROVE  /\ UrlAt(head', m, at', given')
                      /\ HeadAt(head', m, at', given')
    BY <1>1 DEF Heads
  <2>1. head' = [head EXCEPT !.url = head.url \o Data(n)]
    BY <1>1 DEF Fails
  <2>2. DOMAIN head = {"url", "status", "field", "value", "map"}
    BY DEF ParseInv, TypeOK, NoHead
  <2>3. /\ head'.url = SubSeq(text, 1, given + n)
        /\ head'.field = head.field /\ head'.value = head.value /\ head'.map = head.map
    <3>1. head.url \o Data(n) = SubSeq(text, 1, given + n)
      BY <1>2, <1>6 DEF Given
    <3> QED
      BY <2>1, <2>2, <3>1
  <2>4. After(head', m, 0)
    BY <1>6, <2>3 DEF After
  <2>5. CASE given + n = Len(text)
    <3>1. at' = 2 /\ given' = 0 /\ head'.url = m.line
      BY <1>2, <1>5, <2>3, <2>5 DEF Given
    <3>2. HeadAt(head', m, 2 * 0 + 2, 0)
      BY <1>4, <2>4, AfterIsHead
    <3> QED
      BY <3>1, <3>2 DEF UrlAt
  <2>6. CASE given + n # Len(text)
    <3>1. at' = 1 /\ given' = given + n
      BY <1>2, <1>5, <2>6 DEF Given
    <3>2. HeadAt(head', m, 1, given') <=> After(head', m, 0)
      BY <1>4 DEF HeadAt
    <3> QED
      BY <1>5, <2>3, <2>4, <3>1, <3>2 DEF UrlAt
  <2> QED
    BY <2>5, <2>6
<1>10. Bodies'
  <2>1. at' \in {1, 2} /\ ~(at' > 2 * HN(m) + 2)
    BY <1>2, <1>4, <1>5 DEF Given
  <2> QED
    BY <1>1, <2>1 DEF Bodies
<1>11. Limits'
  <2>1. at' \in {1, 2} /\ ~(at' > 2 * HN(m) + 2)
    BY <1>2, <1>4, <1>5 DEF Given
  <2> SUFFICES ASSUME (pc # "refused")', UrlMaxLen # 0
               PROVE  IF at' = 1 THEN given' <= UrlMaxLen ELSE Len(m.line) <= UrlMaxLen
    BY <1>1, <2>1 DEF Limits
  <2>2. ~(UrlMaxLen < n + given)
    BY <1>1, <1>7 DEF Fails
  <2>3. UrlMaxLen \in Nat /\ given \in Nat /\ n \in Nat
    BY <1>2, ParserAssumption DEF Given
  <2>4. given + n <= UrlMaxLen
    BY <2>2, <2>3
  <2>5. \/ at' = 2 /\ given + n = Len(m.line)
        \/ at' = 1 /\ given' = given + n
    BY <1>2, <1>5 DEF Given
  <2> QED
    BY <2>4, <2>5
<1>12. RefusedIsRefusable'
  <2> SUFFICES ASSUME pc' = "refused"
               PROVE  begun > 0 /\ Refusable(m)
    BY <1>1 DEF RefusedIsRefusable, Refusable
  <2>1. ~fits
    BY <1>1 DEF Goes
  <2>2. UrlMaxLen # 0 /\ UrlMaxLen < n + given
    BY <1>7, <2>1
  <2>3. UrlMaxLen \in Nat /\ given \in Nat /\ n \in Nat /\ given + n <= Len(m.line)
        /\ Len(m.line) \in Nat /\ begun > 0 /\ type = "HDT_REQUEST"
    BY <1>2, <1>5, ParserAssumption DEF Given
  <2>4. Len(m.line) > UrlMaxLen
    BY <2>2, <2>3
  <2> QED
    BY <2>2, <2>3, <2>4 DEF Refusable
<1>13. Delivered'
  BY <1>1, DeliveredStays DEF ParseInv
<1> QED
  BY <1>2, <1>8, <1>9, <1>10, <1>11, <1>12, <1>13 DEF ParseInv

LEMMA StatusKeeps ==
    ASSUME ParseInv, NEW n, OnStatus(n)
    PROVE  ParseInv'
<1> DEFINE m == message
           text == calls[at].text
<1>1. /\ UNCHANGED <<type, current, list, message, begun, due>>
      /\ Called("status", n) /\ Goes(n)
      /\ head' = [head EXCEPT !.status = @ \o Data(n)]
  BY DEF OnStatus
<1>2. Given(n) /\ Place'
  BY <1>1, CalledMoves DEF ParseInv
<1>3. calls[at].name = "status"
  BY <1>1 DEF Called
<1>4. WellFormed(m) /\ HN(m) \in Nat /\ at \in 1 .. Len(Callbacks(m)) /\ calls = Callbacks(m)
  BY <1>2, SizesAre DEF Given
<1>5. at = 1 /\ m.type # "HDT_REQUEST"
  <2>1. PlaceOf(m, HN(m), PN(m), TN(m), calls, at)
    BY <1>4, SizesAre, Places
  <2> QED
    BY Zenon, <1>3, <2>1 DEF PlaceOf
<1>6. pc # "refused" /\ pc' \in {"read", "decode"}
  BY <1>1, <1>2 DEF Given, Goes
<1>7. at' \in {1, 2} /\ ~(at' > 2 * HN(m) + 2)
  BY <1>2, <1>4, <1>5 DEF Given
<1>8. TypeOK'
  <2>1. Data(n) \in Texts /\ head.status \in Texts
    BY <1>2 DEF Given, ParseInv, TypeOK
  <2>2. head.status \o Data(n) \in Texts
    BY <2>1, ConcatProperties DEF Texts
  <2> QED
    BY <1>1, <1>6, <2>2 DEF ParseInv, TypeOK, NoHead
<1>9. Heads'
  <2>1. DOMAIN head = {"url", "status", "field", "value", "map"}
    BY DEF ParseInv, TypeOK, NoHead
  <2>2. head'.field = head.field /\ head'.value = head.value /\ head'.map = head.map
    BY <1>1, <2>1
  <2>3. After(head, m, 0)
    BY <1>2, <1>4, <1>5, <1>6 DEF ParseInv, Heads, Given, HeadAt
  <2>4. After(head', m, 0)
    BY <2>2, <2>3 DEF After
  <2>5. HeadAt(head', m, at', given')
    <3>1. CASE given + n = Len(text)
      <4>1. at' = 2 * 0 + 2 /\ given' = 0
        BY <1>2, <1>5, <3>1 DEF Given
      <4> QED
        BY <1>4, <2>4, <4>1, AfterIsHead
    <3>2. CASE given + n # Len(text)
      <4>1. at' = 1
        BY <1>2, <1>5, <3>2 DEF Given
      <4> QED
        BY <1>4, <2>4, <4>1 DEF HeadAt
    <3> QED
      BY <3>1, <3>2
  <2> QED
    BY <1>1, <1>5, <2>5 DEF Heads, UrlAt
<1>10. Bodies'
  BY <1>1, <1>7 DEF Bodies
<1>11. Limits'
  <2>1. type # "HDT_REQUEST"
    BY <1>2, <1>5 DEF Given
  <2> QED
    BY <1>1, <1>7, <2>1 DEF Limits
<1>12. RefusedIsRefusable'
  BY <1>6 DEF RefusedIsRefusable
<1>13. Delivered'
  BY <1>1, DeliveredStays DEF ParseInv
<1> QED
  BY <1>2, <1>8, <1>9, <1>10, <1>11, <1>12, <1>13 DEF ParseInv

\* After the body, a callback for a trailer changes nothing that is still to be used.
LEMMA TrailerKeeps ==
    ASSUME ParseInv, NEW n, Given(n), Place', TypeOK', UNCHANGED <<type, current, list, message, begun, due>>,
           pc' \in {"read", "decode"},
           at > 2 * HN(message) + 2 + PN(message), at < Len(calls)
    PROVE  ParseInv'
<1> DEFINE m == message
<1>1. HN(m) \in Nat /\ PN(m) \in Nat /\ at \in Nat /\ Len(calls) \in Nat /\ pc # "refused"
  BY SizesAre DEF Given
<1>2. /\ at' > 2 * HN(m) + 2 + PN(m) /\ at' > 2 * HN(m) + 2 /\ at' # 1
      /\ at > 2 * HN(m) + 2 + PN(m) /\ at > 2 * HN(m) + 2 /\ at # 1
      /\ ~(at' <= 2 * HN(m) + 2)
      /\ at <= Len(calls) /\ calls' = calls
  BY <1>1 DEF Given
<1>3. Heads'
  BY <1>2 DEF Heads
<1>4. Bodies'
  <2>1. begun > 0 /\ PacketIs(current, m) /\ BodyAt(current.body, m, at, given)
    BY <1>1, <1>2 DEF ParseInv, Bodies, Given
  <2>2. ASSUME NEW f, Growth(f, Pieces(m), Units)
        PROVE  current.body = f[PN(m)]
    BY <1>2, <2>1, <2>2 DEF BodyAt
  <2>3. \A i \in 1 .. PN(m) : at' # 2 * HN(m) + 2 + i
    BY <1>1, <1>2
  <2>4. BodyAt(current.body, m, at', given')
    BY <2>2, <2>3 DEF BodyAt
  <2> QED
    BY <2>1, <2>4 DEF Bodies
<1>5. Limits'
  BY <1>1, <1>2 DEF ParseInv, Limits, Given
<1>6. RefusedIsRefusable'
  BY DEF RefusedIsRefusable
<1>7. Delivered'
  BY DeliveredStays DEF ParseInv
<1> QED
  BY <1>3, <1>4, <1>5, <1>6, <1>7 DEF ParseInv

LEMMA TextsJoin ==
    ASSUME NEW a \in Texts, NEW b \in Texts
    PROVE  a \o b \in Texts /\ Len(a \o b) = Len(a) + Len(b) /\ Len(a) \in Nat /\ Len(b) \in Nat
  BY ConcatProperties, LenProperties DEF Texts

LEMMA TextsJoinInTurn ==
    ASSUME NEW a \in Texts, NEW b \in Texts, NEW c \in Texts
    PROVE  (a \o b) \o c = a \o (b \o c)
  BY ConcatAssociative DEF Texts

\* The field of line j is in hd2 as far as g, with the lines before in the map.
FieldIs(hd2, hd, m, j, g) ==
    /\ hd2.field = Before(m, j) \o SubSeq(m.headers[j].name, 1, g) /\ hd2.value = <<>>
    /\ IsMap(hd2.map, m, Valued(m, j - 1)) /\ hd2.url = hd.url

\* A field takes the line before into the map if it has a value, and begins its own; if it
\* has none it goes on with the name that is there.
LEMMA FieldTaken ==
    ASSUME NEW m, WellFormed(m), NEW j \in 1 .. HN(m), NEW n \in Nat, NEW g \in Nat,
           NEW d, SubSeq(m.headers[j].name, 1, g) \o d = SubSeq(m.headers[j].name, 1, g + n),
           d \in Texts, SubSeq(m.headers[j].name, 1, g) \in Texts,
           NEW hd, HeadAt(hd, m, 2 * j, g), DOMAIN hd = DOMAIN NoHead, hd.field \in Texts,
           NEW hd2,
           hd2 = IF hd.value # <<>>
                   THEN [hd EXCEPT !.map = With(@, Lower(hd.field), hd.value),
                                   !.field = d, !.value = <<>>]
                   ELSE [hd EXCEPT !.field = @ \o d]
    PROVE  FieldIs(hd2, hd, m, j, g + n)
<1> DEFINE name == m.headers[j].name
           had == SubSeq(name, 1, g)
           has == SubSeq(name, 1, g + n)
           b == Before(m, j)
<1>1. j \in Nat /\ j - 1 \in Nat /\ (j - 1 # 0 => j - 1 \in 1 .. HN(m) /\ j # 1)
  BY NamesOf
<1>2. IF g = 0 THEN After(hd, m, j - 1)
      ELSE hd.field = b \o had /\ hd.value = <<>> /\ IsMap(hd.map, m, Valued(m, j - 1))
  BY Zenon DEF HeadAt
<1>3. DOMAIN hd = {"url", "status", "field", "value", "map"}
  BY DEF NoHead
<1>4. b \in Texts
  BY NamesOf
<1>5. g = 0 => has = d
  <2>1. g = 0 => had = <<>>
    BY SubSeqEmpty
  <2>2. <<>> \o d = d
    BY ConcatEmptySeq DEF Texts
  <2> QED
    BY Zenon, <2>1, <2>2
<1>6. had \o d = has /\ had \in Texts
  BY Zenon
<1> HIDE DEF had, has, b
<1>7. CASE hd.value = <<>>
  <2>1. hd2 = [hd EXCEPT !.field = hd.field \o d]
    BY <1>7
  <2>2. hd2.field = hd.field \o d /\ hd2.value = <<>> /\ hd2.map = hd.map /\ hd2.url = hd.url
    BY <1>3, <1>7, <2>1
  <2>3. CASE g # 0
    <3>1. (b \o had) \o d = b \o (had \o d)
      BY <1>4, <1>6, TextsJoinInTurn
    <3>2. hd2.field = b \o has
      BY Zenon, <1>2, <1>6, <2>2, <2>3, <3>1
    <3> QED
      BY Zenon, <1>2, <2>2, <2>3, <3>2 DEF FieldIs, b, has
  <2>4. CASE g = 0 /\ j - 1 = 0
    <3>1. hd.field = <<>> /\ IsMap(hd.map, m, Valued(m, 0))
      BY <1>2, <2>4 DEF After
    <3>2. j = 1
      BY <1>1, <2>4
    <3>3. b = <<>>
      BY Zenon, <3>2 DEF Before, b
    <3>4. hd2.field = b \o has
      BY Zenon, <1>5, <2>2, <2>4, <3>1, <3>3
    <3> QED
      BY Zenon, <2>2, <2>4, <3>1, <3>4 DEF FieldIs, b, has
  <2>5. CASE g = 0 /\ j - 1 # 0
    <3>1. /\ hd.field = Names(m)[j - 1] /\ m.headers[j - 1].value = <<>>
          /\ IsMap(hd.map, m, Valued(m, j - 1 - 1))
      BY <1>2, <1>7, <2>5 DEF After
    <3>2. b = Names(m)[j - 1]
      BY <1>1, <2>5, <3>1 DEF Before, b
    <3>3. Valued(m, j - 1) = Valued(m, j - 1 - 1)
      BY <1>1, <2>5, <3>1, ValuedMore
    <3>4. hd2.field = b \o has
      BY Zenon, <1>5, <2>2, <2>5, <3>1, <3>2
    <3> QED
      BY Zenon, <2>2, <3>1, <3>3, <3>4 DEF FieldIs, b, has
  <2> QED
    BY <2>3, <2>4, <2>5
<1>8. CASE hd.value # <<>>
  <2>1. hd2 = [hd EXCEPT !.map = With(hd.map, Lower(hd.field), hd.value), !.field = d, !.value = <<>>]
    BY <1>8
  <2>2. /\ hd2.field = d /\ hd2.value = <<>> /\ hd2.url = hd.url
        /\ hd2.map = With(hd.map, Lower(hd.field), hd.value)
    BY <1>3, <2>1
  <2>3. g = 0 /\ After(hd, m, j - 1)
    BY <1>2, <1>8
  <2>4. j - 1 # 0
    BY <1>8, <2>3 DEF After
  <2>5. /\ hd.field = Names(m)[j - 1] /\ hd.value = m.headers[j - 1].value
        /\ IsMap(hd.map, m, Valued(m, j - 1 - 1))
    BY <2>3, <2>4 DEF After
  <2>6. Valued(m, j - 1 - 1) \in SUBSET (1 .. j - 1 - 1)
    BY DEF Valued
  <2>7. IsMap(With(hd.map, Lower(Names(m)[j - 1]), m.headers[j - 1].value),
              m, Valued(m, j - 1 - 1) \cup {j - 1})
    BY <1>1, <2>5, <2>6, WithLine
  <2>8. Valued(m, j - 1) = Valued(m, j - 1 - 1) \cup {j - 1}
    BY <1>1, <1>8, <2>4, <2>5, ValuedMore
  <2>9. IsMap(hd2.map, m, Valued(m, j - 1))
    BY Zenon, <2>2, <2>5, <2>7, <2>8
  <2>10. b = <<>>
    BY <1>8, <2>5 DEF Before, b
  <2>11. hd2.field = b \o has
    <3>1. <<>> \o d = d
      BY ConcatEmptySeq DEF Texts
    <3> QED
      BY Zenon, <1>5, <2>2, <2>3, <2>10, <3>1
  <2> QED
    BY Zenon, <2>2, <2>9, <2>11 DEF FieldIs, b, has
<1> QED
  BY <1>7, <1>8

\* In the middle of a field, and of a value.
LEMMA FieldIsHead ==
    ASSUME NEW m, HN(m) \in Nat, NEW j \in 1 .. HN(m), NEW hd, NEW g \in Nat, g # 0,
           hd.field = Before(m, j) \o SubSeq(m.headers[j].name, 1, g), hd.value = <<>>,
           IsMap(hd.map, m, Valued(m, j - 1))
    PROVE  HeadAt(hd, m, 2 * j, g)
<1>1. 2 * j # 1 /\ 2 * j # 2 * HN(m) + 2
  OBVIOUS
<1>2. ASSUME NEW k \in 1 .. HN(m)
      PROVE  (2 * j = 2 * k => k = j) /\ 2 * j # 2 * k + 1
  OBVIOUS
<1> QED
  BY <1>1, <1>2 DEF HeadAt

LEMMA ValueIsHead ==
    ASSUME NEW m, HN(m) \in Nat, NEW j \in 1 .. HN(m), NEW hd, NEW g \in Nat,
           hd.field = Names(m)[j], hd.value = SubSeq(m.headers[j].value, 1, g),
           IsMap(hd.map, m, Valued(m, j - 1))
    PROVE  HeadAt(hd, m, 2 * j + 1, g)
<1>1. 2 * j + 1 # 1 /\ 2 * j + 1 # 2 * HN(m) + 2
  OBVIOUS
<1>2. ASSUME NEW k \in 1 .. HN(m)
      PROVE  (2 * j + 1 = 2 * k + 1 => k = j) /\ 2 * j + 1 # 2 * k
  OBVIOUS
<1> QED
  BY <1>1, <1>2 DEF HeadAt

LEMMA FieldKeeps ==
    ASSUME ParseInv, NEW n, OnHeaderField(n)
    PROVE  ParseInv'
<1> DEFINE m == message
           text == calls[at].text
<1>1. /\ UNCHANGED <<type, current, list, message, begun, due>>
      /\ Called("field", n) /\ Goes(n)
      /\ head' = IF head.value # <<>>
                   THEN [head EXCEPT !.map = With(@, Lower(head.field), head.value),
                                     !.field = Data(n), !.value = <<>>]
                   ELSE [head EXCEPT !.field = @ \o Data(n)]
  BY DEF OnHeaderField
<1>2. Given(n) /\ Place'
  BY <1>1, CalledMoves DEF ParseInv
<1>3. calls[at].name = "field"
  BY <1>1 DEF Called
<1>4. /\ WellFormed(m) /\ HN(m) \in Nat /\ PN(m) \in Nat /\ at \in 1 .. Len(Callbacks(m))
      /\ calls = Callbacks(m)
  BY <1>2, SizesAre DEF Given
<1>5. \/ \E j \in 1 .. HN(m) : at = 2 * j /\ text = m.headers[j].name
      \/ at > 2 * HN(m) + 2 + PN(m) /\ at < Len(calls)
  <2>1. PlaceOf(m, HN(m), PN(m), TN(m), calls, at) /\ Len(calls) = 2 * HN(m) + PN(m) + 2 * TN(m) + 3
    BY <1>4, SizesAre, Places
  <2> QED
    BY Zenon, <1>3, <2>1 DEF PlaceOf
<1>6. pc # "refused" /\ pc' \in {"read", "decode"}
  BY <1>1, <1>2 DEF Given, Goes
<1>8. TypeOK'
  <2>1. /\ Data(n) \in Texts /\ head.field \in Texts /\ head.value \in Texts /\ Lower(head.field) \in Texts
        /\ \A x \in DOMAIN head.map : x \in Texts /\ head.map[x] \in Texts
        /\ <<>> \in Texts
    BY <1>2, LowerNames, EmptySeq DEF Given, ParseInv, TypeOK, Texts
  <2>2. head.field \o Data(n) \in Texts
    BY <2>1, ConcatProperties DEF Texts
  <2> DEFINE map2 == With(head.map, Lower(head.field), head.value)
  <2>3. \A x \in DOMAIN map2 : x \in Texts /\ map2[x] \in Texts
    BY <2>1 DEF With
  <2> HIDE DEF map2
  <2>4. DOMAIN head = {"url", "status", "field", "value", "map"}
    BY DEF ParseInv, TypeOK, NoHead
  <2>5. /\ DOMAIN head' = DOMAIN head /\ head'.url = head.url /\ head'.status = head.status
        /\ head'.field \in Texts /\ head'.value \in Texts
        /\ head'.map = head.map \/ head'.map = map2
    BY <1>1, <2>1, <2>2, <2>4 DEF map2
  <2>6. \A x \in DOMAIN head'.map : x \in Texts /\ head'.map[x] \in Texts
    BY <2>1, <2>3, <2>5
  <2> QED
    BY <1>1, <1>6, <2>5, <2>6 DEF ParseInv, TypeOK
<1>9. ASSUME NEW j \in 1 .. HN(m), at = 2 * j, text = m.headers[j].name
      PROVE  ParseInv'
  <2>1. /\ at # 1 /\ at \in Nat /\ at <= 2 * HN(m) /\ at <= 2 * HN(m) + 2 /\ ~(at > 2 * HN(m) + 2)
        /\ at \in 1 .. Len(calls)
    BY <1>4, <1>9
  <2>2. at' # 1 /\ ~(at' > 2 * HN(m) + 2) /\ (at' = at \/ at' = at + 1)
    BY <1>2, <1>4, <2>1 DEF Given
  <2>3. UrlAt(head, m, at, given) /\ HeadAt(head, m, at, given)
    BY <1>2, <1>6, <2>1 DEF ParseInv, Heads, Given
  <2>4. head'.url = head.url
    BY <1>1 DEF ParseInv, TypeOK, NoHead
  <2>5. UrlAt(head', m, at', given')
    BY <2>1, <2>2, <2>3, <2>4 DEF UrlAt
  <2>6. /\ head'.field = Before(m, j) \o SubSeq(text, 1, given + n) /\ head'.value = <<>>
        /\ IsMap(head'.map, m, Valued(m, j - 1))
    <3>1. /\ n \in Nat /\ given \in Nat /\ Data(n) \in Texts
          /\ SubSeq(text, 1, given) \o Data(n) = SubSeq(text, 1, given + n)
          /\ SubSeq(text, 1, given) \in Texts
      <4>1. /\ n \in Nat /\ given \in Nat /\ Data(n) \in Texts /\ text \in Seq(Units)
            /\ SubSeq(text, 1, given) \o Data(n) = SubSeq(text, 1, given + n)
            /\ given <= Len(text)
        BY <1>2 DEF Given, Texts
      <4> HIDE DEF text
      <4>2. SubSeq(text, 1, given) \in Seq(Units)
        BY <4>1, SubSeqProperties
      <4> QED
        BY <4>1, <4>2 DEF Texts
    <3>2. HeadAt(head, m, 2 * j, given) /\ DOMAIN head = DOMAIN NoHead /\ head.field \in Texts
      BY <1>9, <2>3 DEF ParseInv, TypeOK
    <3> DEFINE d == Data(n)
               name == m.headers[j].name
               hd2 == head'
    <3>3. hd2 = IF head.value # <<>>
                  THEN [head EXCEPT !.map = With(@, Lower(head.field), head.value),
                                    !.field = d, !.value = <<>>]
                  ELSE [head EXCEPT !.field = @ \o d]
      BY Zenon, <1>1
    <3>4. /\ n \in Nat /\ given \in Nat /\ d \in Texts /\ SubSeq(name, 1, given) \in Texts
          /\ SubSeq(name, 1, given) \o d = SubSeq(name, 1, given + n)
      BY Zenon, <1>9, <3>1
    <3> HIDE DEF d, hd2, m
    <3>5. FieldIs(hd2, head, m, j, given + n)
      BY <1>4, <3>2, <3>3, <3>4, FieldTaken
    <3> QED
      BY Zenon, <1>9, <3>5 DEF FieldIs, hd2, m
  <2>7. HeadAt(head', m, at', given')
    <3>1. CASE given + n = Len(text)
      <4>1. at' = 2 * j + 1 /\ given' = 0 /\ SubSeq(text, 1, given + n) = m.headers[j].name
        BY <1>2, <1>9, <3>1 DEF Given
      <4>2. SubSeq(m.headers[j].value, 1, 0) = <<>>
        BY SubSeqEmpty
      <4>3. head'.field = Names(m)[j]
        <5>1. Names(m)[j] = Before(m, j) \o m.headers[j].name
          BY <1>4, NamesOf
        <5> QED
          BY Zenon, <2>6, <4>1, <5>1
      <4>4. HeadAt(head', m, 2 * j + 1, 0)
        BY <1>4, <2>6, <4>2, <4>3, ValueIsHead
      <4> QED
        BY Zenon, <4>1, <4>4
    <3>2. CASE given + n # Len(text)
      <4>1. at' = 2 * j /\ given' = given + n /\ given' # 0 /\ given' \in Nat
        BY <1>2, <1>9, <3>2 DEF Given
      <4>2. head'.field = Before(m, j) \o SubSeq(m.headers[j].name, 1, given')
        BY Zenon, <1>9, <2>6, <4>1
      <4>3. HeadAt(head', m, 2 * j, given')
        BY <1>4, <2>6, <4>1, <4>2, FieldIsHead
      <4> QED
        BY Zenon, <4>1, <4>3
    <3> QED
      BY <3>1, <3>2
  <2>8. Heads'
    BY <1>1, <2>5, <2>7 DEF Heads
  <2>9. Bodies'
    BY <1>1, <2>2 DEF Bodies
  <2>10. Limits'
    BY <1>1, <1>2, <1>6, <2>1, <2>2 DEF ParseInv, Limits, Given
  <2>11. RefusedIsRefusable'
    BY <1>6 DEF RefusedIsRefusable
  <2>12. Delivered'
    BY <1>1, DeliveredStays DEF ParseInv
  <2> QED
    BY <1>2, <1>8, <2>8, <2>9, <2>10, <2>11, <2>12 DEF ParseInv
<1>10. CASE at > 2 * HN(m) + 2 + PN(m) /\ at < Len(calls)
  BY <1>1, <1>2, <1>6, <1>8, <1>10, TrailerKeeps
<1> QED
  BY <1>5, <1>9, <1>10

LEMMA ValueKeeps ==
    ASSUME ParseInv, NEW n, OnHeaderValue(n)
    PROVE  ParseInv'
<1> DEFINE m == message
           text == calls[at].text
<1>1. /\ UNCHANGED <<type, current, list, message, begun, due>>
      /\ Called("value", n) /\ Goes(n)
      /\ head' = [head EXCEPT !.value = @ \o Data(n)]
  BY DEF OnHeaderValue
<1>2. Given(n) /\ Place'
  BY <1>1, CalledMoves DEF ParseInv
<1>3. calls[at].name = "value"
  BY <1>1 DEF Called
<1>4. /\ WellFormed(m) /\ HN(m) \in Nat /\ PN(m) \in Nat /\ at \in 1 .. Len(Callbacks(m))
      /\ calls = Callbacks(m)
  BY <1>2, SizesAre DEF Given
<1>5. \/ \E j \in 1 .. HN(m) : at = 2 * j + 1 /\ text = m.headers[j].value
      \/ at > 2 * HN(m) + 2 + PN(m) /\ at < Len(calls)
  <2>1. PlaceOf(m, HN(m), PN(m), TN(m), calls, at) /\ Len(calls) = 2 * HN(m) + PN(m) + 2 * TN(m) + 3
    BY <1>4, SizesAre, Places
  <2> QED
    BY Zenon, <1>3, <2>1 DEF PlaceOf
<1>6. pc # "refused" /\ pc' \in {"read", "decode"}
  BY <1>1, <1>2 DEF Given, Goes
<1>7. /\ head'.url = head.url /\ head'.field = head.field /\ head'.map = head.map
      /\ head'.value = head.value \o Data(n)
      /\ head'.status = head.status /\ DOMAIN head' = DOMAIN head
  BY <1>1 DEF ParseInv, TypeOK, NoHead
<1>8. TypeOK'
  <2>1. Data(n) \in Texts /\ head.value \in Texts
    BY <1>2 DEF Given, ParseInv, TypeOK
  <2>2. head.value \o Data(n) \in Texts
    BY <2>1, ConcatProperties DEF Texts
  <2> QED
    BY <1>1, <1>6, <1>7, <2>2 DEF ParseInv, TypeOK
<1>9. ASSUME NEW j \in 1 .. HN(m), at = 2 * j + 1, text = m.headers[j].value
      PROVE  ParseInv'
  <2>1. /\ at # 1 /\ at \in Nat /\ at <= 2 * HN(m) + 1 /\ at <= 2 * HN(m) + 2
        /\ ~(at > 2 * HN(m) + 2) /\ at \in 1 .. Len(calls)
    BY <1>4, <1>9
  <2>2. at' # 1 /\ ~(at' > 2 * HN(m) + 2) /\ (at' = at \/ at' = at + 1)
    BY <1>2, <1>4, <2>1 DEF Given
  <2>3. UrlAt(head, m, at, given) /\ HeadAt(head, m, at, given)
    BY <1>2, <1>6, <2>1 DEF ParseInv, Heads, Given
  <2>5. UrlAt(head', m, at', given')
    BY <1>7, <2>1, <2>2, <2>3 DEF UrlAt
  <2>6. /\ head'.field = Names(m)[j]
        /\ head'.value = SubSeq(text, 1, given + n)
        /\ IsMap(head'.map, m, Valued(m, j - 1))
    <3>1. SubSeq(text, 1, given) \o Data(n) = SubSeq(text, 1, given + n)
      BY <1>2 DEF Given
    <3>2. /\ head.field = Names(m)[j]
          /\ head.value = SubSeq(text, 1, given)
          /\ IsMap(head.map, m, Valued(m, j - 1))
      BY Zenon, <1>9, <2>3 DEF HeadAt
    <3> QED
      BY Zenon, <1>7, <3>1, <3>2
  <2>7. HeadAt(head', m, at', given')
    <3>1. CASE given + n = Len(text)
      <4>1. at' = 2 * j + 2 /\ given' = 0 /\ SubSeq(text, 1, given + n) = m.headers[j].value
        BY <1>2, <1>9, <3>1 DEF Given
      <4>2. j \in 0 .. HN(m) /\ j # 0
        BY <1>4
      <4>3. After(head', m, j)
        BY Zenon, <2>6, <4>1, <4>2 DEF After
      <4>4. HeadAt(head', m, 2 * j + 2, 0)
        BY <1>4, <4>2, <4>3, AfterIsHead
      <4> QED
        BY Zenon, <4>1, <4>4
    <3>2. CASE given + n # Len(text)
      <4>1. at' = 2 * j + 1 /\ given' = given + n /\ given' \in Nat
        BY <1>2, <1>9, <3>2 DEF Given
      <4>2. head'.value = SubSeq(m.headers[j].value, 1, given')
        BY Zenon, <1>9, <2>6, <4>1
      <4>3. HeadAt(head', m, 2 * j + 1, given')
        BY <1>4, <2>6, <4>1, <4>2, ValueIsHead
      <4> QED
        BY Zenon, <4>1, <4>3
    <3> QED
      BY <3>1, <3>2
  <2>8. Heads'
    BY <1>1, <2>5, <2>7 DEF Heads
  <2>9. Bodies'
    BY <1>1, <2>2 DEF Bodies
  <2>10. Limits'
    BY <1>1, <1>2, <1>6, <2>1, <2>2 DEF ParseInv, Limits, Given
  <2>11. RefusedIsRefusable'
    BY <1>6 DEF RefusedIsRefusable
  <2>12. Delivered'
    BY <1>1, DeliveredStays DEF ParseInv
  <2> QED
    BY <1>2, <1>8, <2>8, <2>9, <2>10, <2>11, <2>12 DEF ParseInv
<1>10. CASE at > 2 * HN(m) + 2 + PN(m) /\ at < Len(calls)
  BY <1>1, <1>2, <1>6, <1>8, <1>10, TrailerKeeps
<1> QED
  BY <1>5, <1>9, <1>10

\* The last line is taken with the others.
LEMMA AllLinesTaken ==
    ASSUME NEW m, WellFormed(m), NEW hd, After(hd, m, HN(m)),
           NEW map, map = IF hd.field = <<>> THEN hd.map ELSE With(hd.map, Lower(hd.field), hd.value)
    PROVE  map = StoredMap(m)
<1> DEFINE h == HN(m)
<1>1. h \in Nat /\ DOMAIN m.headers = 1 .. h /\ Len(m.headers) = h
  BY NamesOf
<1> HIDE DEF h
<1>2. IsMap(map, m, Taken(m))
  <2>1. CASE h = 0
    <3>1. hd.field = <<>> /\ IsMap(hd.map, m, Valued(m, 0))
      BY <2>1 DEF After, h
    <3>2. Taken(m) = Valued(m, 0)
      BY <1>1, <2>1 DEF Taken, Valued
    <3> QED
      BY Zenon, <3>1, <3>2
  <2>2. CASE h # 0
    <3>1. /\ hd.field = Names(m)[h] /\ hd.value = m.headers[h].value
          /\ IsMap(hd.map, m, Valued(m, h - 1))
      BY <2>2 DEF After, h
    <3>2. h \in 1 .. h /\ Valued(m, h - 1) \in SUBSET (1 .. h - 1)
      BY <1>1, <2>2 DEF Valued
    <3>3. Names(m)[h] # <<>>
      BY <3>2, NamesOf DEF h
    <3>4. IsMap(With(hd.map, Lower(Names(m)[h]), m.headers[h].value), m, Valued(m, h - 1) \cup {h})
      BY <1>1, <3>1, <3>2, WithLine
    <3>5. map = With(hd.map, Lower(Names(m)[h]), m.headers[h].value)
      BY Zenon, <3>1, <3>3
    <3>6. Taken(m) = Valued(m, h - 1) \cup {h}
      BY <1>1, <2>2 DEF Taken, Valued
    <3> QED
      BY Zenon, <3>4, <3>5, <3>6
  <2> QED
    BY <2>1, <2>2
<1> QED
  BY <1>1, <1>2, MapIsStored

LEMMA HeadersKeeps ==
    ASSUME ParseInv, OnHeadersComplete
    PROVE  ParseInv'
<1> DEFINE m == message
           bad == m.version \notin Versions \/ (type = "HDT_REQUEST" /\ head.url = <<>>)
<1>1. /\ UNCHANGED <<type, list, message, begun, due>>
      /\ Called("headers", 0)
      /\ IF bad THEN Fails /\ UNCHANGED <<head, current>>
         ELSE /\ pc' = pc
              /\ current' = PacketOf(m, head)
              /\ head' = NoHead
  BY DEF OnHeadersComplete
<1>2. Given(0) /\ Place'
  BY <1>1, CalledMoves DEF ParseInv
<1>3. calls[at].name = "headers"
  BY <1>1 DEF Called
<1>4. /\ WellFormed(m) /\ HN(m) \in Nat /\ PN(m) \in Nat /\ at \in 1 .. Len(Callbacks(m))
      /\ calls = Callbacks(m) /\ m.type = type
  BY <1>2, SizesAre DEF Given
<1>5. at = 2 * HN(m) + 2 /\ calls[at].text = <<>>
  <2>1. PlaceOf(m, HN(m), PN(m), TN(m), calls, at)
    BY <1>4, SizesAre, Places
  <2> QED
    BY Zenon, <1>3, <2>1 DEF PlaceOf
<1>6. at' = 2 * HN(m) + 3 /\ given' = 0 /\ calls' = calls /\ pc = "decode" /\ begun > 0
  <2>1. Len(<<>>) = 0 /\ given + 0 = Len(calls[at].text)
    BY <1>2, <1>5 DEF Given
  <2>2. at' = at + 1 /\ given' = 0 /\ calls' = calls /\ pc = "decode" /\ begun > 0
    BY Zenon, <1>2, <2>1 DEF Given
  <2> QED
    BY <1>4, <1>5, <2>2
<1>7. /\ at <= 2 * HN(m) + 2 /\ at # 1 /\ at' # 1 /\ ~(at' <= 2 * HN(m) + 2) /\ at' > 2 * HN(m) + 2
      /\ ~(at > 2 * HN(m) + 2)
  BY <1>4, <1>5, <1>6
<1>8. UrlAt(head, m, at, given) /\ HeadAt(head, m, at, given)
  BY <1>6, <1>7 DEF ParseInv, Heads
<1>9. m.type = "HDT_REQUEST" => head.url = m.line /\ m.line # <<>>
  BY <1>4, <1>7, <1>8 DEF UrlAt, WellFormed
<1>10. bad => m.version \notin Versions
  BY <1>4, <1>9
<1>11. After(head, m, HN(m))
  BY <1>5, <1>8 DEF HeadAt
<1> DEFINE map == IF head.field = <<>> THEN head.map ELSE With(head.map, Lower(head.field), head.value)
           packet == PacketOf(m, head)
<1>12. map = StoredMap(m)
  <2>1. map = IF head.field = <<>> THEN head.map ELSE With(head.map, Lower(head.field), head.value)
    BY Zenon DEF map
  <2> HIDE DEF map, m
  <2> QED
    BY <1>4, <1>11, <2>1, AllLinesTaken
<1>13. /\ packet.version = m.version /\ packet.headers = map /\ packet.body = <<>>
       /\ {"version", "headers", "keepAlive", "body"} \subseteq DOMAIN packet
       /\ IF m.type = "HDT_REQUEST" THEN "uri" \in DOMAIN packet /\ packet.uri = Uri(head.url)
                                    ELSE "code" \in DOMAIN packet /\ packet.code = m.code
  <2> HIDE DEF map
  <2>1. packet = IF type = "HDT_REQUEST"
          THEN [type |-> type, version |-> m.version, keepAlive |-> m.version = "HTTP_1_1",
                headers |-> map, body |-> <<>>,
                uri |-> Uri(head.url), method |-> Method(m.method)]
          ELSE [type |-> type, version |-> m.version, keepAlive |-> m.version = "HTTP_1_1",
                headers |-> map, body |-> <<>>,
                code |-> m.code, status |-> Phrase(m.code)]
    BY Zenon DEF PacketOf, map
  <2> HIDE DEF packet
  <2>2. CASE type = "HDT_REQUEST"
    BY <1>4, <2>1, <2>2
  <2>3. CASE type # "HDT_REQUEST"
    BY <1>4, <2>1, <2>3
  <2> QED
    BY <2>2, <2>3
<1> HIDE DEF map, packet
<1>14. ~bad => PacketIs(packet, m)
  BY <1>9, <1>12, <1>13 DEF PacketIs
<1>15. pc' # "refused" => ~bad /\ current' = packet /\ head' = NoHead /\ pc' = pc
  BY Zenon, <1>1 DEF Fails, packet
<1>16. TypeOK'
  <2>1. <<>> \in Texts
    BY EmptySeq DEF Texts
  <2>2. /\ DOMAIN NoHead = {"url", "status", "field", "value", "map"}
        /\ NoHead.url = <<>> /\ NoHead.status = <<>> /\ NoHead.field = <<>> /\ NoHead.value = <<>>
        /\ DOMAIN NoHead.map = {}
    BY DEF NoHead
  <2>3. head' = head \/ head' = NoHead
    BY <1>1
  <2>4. pc' \in {"read", "decode", "refused", "failed"}
    BY <1>1 DEF ParseInv, TypeOK, Fails
  <2>5. current' # <<>> => current'.body \in Texts /\ current'.version \in Versions
    <3>1. CASE bad
      BY <1>1, <3>1 DEF ParseInv, TypeOK
    <3>2. CASE ~bad
      <4>1. current' = packet
        BY <1>1, <3>2 DEF packet
      <4> QED
        BY <1>13, <2>1, <3>2, <4>1
    <3> QED
      BY <3>1, <3>2
  <2> QED
    BY <1>1, <2>1, <2>2, <2>3, <2>4, <2>5 DEF ParseInv, TypeOK
<1>17. Heads'
  BY <1>1, <1>7 DEF Heads
<1>18. Bodies'
  <2> SUFFICES ASSUME pc' # "refused"
               PROVE  PacketIs(current', m) /\ BodyAt(current'.body, m, at', given')
    BY <1>1 DEF Bodies
  <2>1. PacketIs(current', m) /\ current'.body = <<>>
    BY <1>13, <1>14, <1>15
  <2>2. ASSUME NEW f, Growth(f, Pieces(m), Units)
        PROVE  <<>> = f[0]
    BY <2>2 DEF Growth
  <2>3. 0 \in 0 .. PN(m)
    BY <1>4
  <2>4. BodyAt(<<>>, m, 2 * HN(m) + 3 + 0, 0)
    BY <1>4, <2>2, <2>3, JoinedIsBody
  <2>5. 2 * HN(m) + 3 + 0 = at'
    BY <1>4, <1>6
  <2> QED
    BY <1>6, <2>1, <2>4, <2>5
<1>19. Limits'
  <2> SUFFICES ASSUME pc' # "refused"
               PROVE  /\ (type = "HDT_REQUEST" /\ UrlMaxLen # 0) => Len(m.line) <= UrlMaxLen
                      /\ BodyMaxLen # 0 => Len(current'.body) <= BodyMaxLen
    BY <1>1, <1>7 DEF Limits
  <2>1. current'.body = <<>> /\ Len(<<>>) = 0
    BY <1>13, <1>15
  <2>2. Len(current'.body) <= BodyMaxLen
    BY <2>1, ParserAssumption
  <2> QED
    BY <1>6, <1>7, <2>2 DEF ParseInv, Limits
<1>20. RefusedIsRefusable'
  BY <1>1, <1>6, <1>10 DEF RefusedIsRefusable, Refusable
<1>21. Delivered'
  BY <1>1, DeliveredStays DEF ParseInv
<1> QED
  BY <1>2, <1>16, <1>17, <1>18, <1>19, <1>20, <1>21 DEF ParseInv

\* The pieces of the body, joined one by one to the whole of it.
Grown(f, m) ==
    /\ Growth(f, Pieces(m), Units)
    /\ f[PN(m)] = FlattenSeq(m.chunks) /\ f[PN(m)] \in Texts
    /\ \A i \in 1 .. PN(m) :
          /\ f[i - 1] \in Texts /\ Pieces(m)[i] \in Texts /\ f[i] = f[i - 1] \o Pieces(m)[i]
          /\ Len(f[i - 1]) + Len(Pieces(m)[i]) <= Len(f[PN(m)])

LEMMA PiecesGrow ==
    ASSUME NEW m, WellFormed(m)
    PROVE  \E f : Grown(f, m)
<1> DEFINE s == Pieces(m)
           p == PN(m)
<1>1. s \in Seq(Seq(Units)) /\ p = Len(s) /\ p \in Nat /\ FlattenSeq(s) = FlattenSeq(m.chunks)
  BY PiecesJoin, SizesAre DEF PN, Texts
<1>2. PICK f : Growth(f, s, Units)
  BY <1>1, FlattenGrows
<1> HIDE DEF s, p
<1>3. f[p] = FlattenSeq(m.chunks)
  BY <1>1, <1>2 DEF Growth
<1>4. /\ \A i \in 0 .. p : f[i] \in Seq(Units) /\ Len(f[i]) \in Nat
      /\ \A i \in 1 .. p : s[i] \in Seq(Units) /\ Len(f[i]) = Len(f[i - 1]) + Len(s[i])
      /\ \A i, j \in 0 .. p : i <= j => Len(f[i]) <= Len(f[j])
  BY <1>1, <1>2, GrowthIsMonotone
<1>5. ASSUME NEW i \in 1 .. p
      PROVE  /\ f[i - 1] \in Texts /\ s[i] \in Texts /\ f[i] = f[i - 1] \o s[i]
             /\ Len(f[i - 1]) + Len(s[i]) <= Len(f[p])
  <2>1. i \in 0 .. p /\ i - 1 \in 0 .. p /\ p \in 0 .. p /\ i <= p
    BY <1>1
  <2>2. f[i] = f[i - 1] \o s[i]
    BY <1>1, <1>2 DEF Growth
  <2>3. Len(f[i]) <= Len(f[p]) /\ Len(f[i]) = Len(f[i - 1]) + Len(s[i])
    BY <1>4, <2>1
  <2> QED
    BY <1>4, <2>1, <2>2, <2>3 DEF Texts
<1>6. f[p] \in Texts
  BY <1>1, <1>4 DEF Texts
<1> QED
  BY Zenon, <1>2, <1>3, <1>5, <1>6 DEF Grown, s, p

LEMMA BodyKeeps ==
    ASSUME ParseInv, NEW n, OnBody(n)
    PROVE  ParseInv'
<1> DEFINE m == message
           text == calls[at].text
           h == HN(m)
           p == PN(m)
           fits == BodyMaxLen = 0 \/ ~(BodyMaxLen < n + Len(current.body))
<1>1. /\ UNCHANGED <<type, head, list, message, begun, due>>
      /\ Called("body", n)
      /\ IF ~fits THEN Fails /\ UNCHANGED current
         ELSE Goes(n) /\ current' = [current EXCEPT !.body = @ \o Data(n)]
  BY DEF OnBody
<1>2. Given(n) /\ Place'
  BY <1>1, CalledMoves DEF ParseInv
<1>3. calls[at].name = "body"
  BY <1>1 DEF Called
<1>4. /\ WellFormed(m) /\ h \in Nat /\ p \in Nat /\ TN(m) \in Nat
      /\ at \in 1 .. Len(calls) /\ calls = Callbacks(m) /\ Len(calls) = 2 * h + p + 2 * TN(m) + 3
  BY <1>2, SizesAre DEF Given
<1>5. PICK i \in 1 .. p : at = 2 * h + 2 + i /\ text = Pieces(m)[i]
  <2>1. PlaceOf(m, h, p, TN(m), calls, at)
    BY <1>4, SizesAre, Places
  <2> QED
    BY Zenon, <1>3, <2>1 DEF PlaceOf
<1>6. /\ pc = "decode" /\ begun > 0 /\ given \in Nat /\ n \in Nat /\ given + n <= Len(text)
      /\ Len(text) \in Nat /\ text \in Texts /\ Data(n) \in Texts /\ Len(Data(n)) = n
      /\ SubSeq(text, 1, given) \o Data(n) = SubSeq(text, 1, given + n)
      /\ given + n = Len(text) => /\ SubSeq(text, 1, given + n) = text
                                  /\ at' = at + 1 /\ given' = 0
      /\ given + n # Len(text) => at' = at /\ given' = given + n /\ given' > 0
      /\ calls' = calls
  BY <1>2 DEF Given
<1>7. /\ at > 2 * h + 2 /\ at' > 2 * h + 2 /\ at # 1 /\ at' # 1 /\ ~(at' <= 2 * h + 2)
      /\ at <= Len(calls) /\ at' <= Len(calls)
  <2> DEFINE c == Len(calls)
             t == TN(m)
  <2>1. at' = at \/ at' = at + 1
    BY Zenon, <1>6
  <2>2. /\ h \in Nat /\ p \in Nat /\ t \in Nat /\ c = 2 * h + p + 2 * t + 3
        /\ at = 2 * h + 2 + i
    BY <1>4, <1>5
  <2> HIDE DEF c, t, h, p
  <2>3. /\ at > 2 * h + 2 /\ at' > 2 * h + 2 /\ at # 1 /\ at' # 1 /\ ~(at' <= 2 * h + 2)
        /\ at <= c /\ at' <= c
    BY <2>1, <2>2
  <2> QED
    BY Zenon, <2>3 DEF c, h
<1>8. PacketIs(current, m) /\ BodyAt(current.body, m, at, given)
  BY <1>6, <1>7 DEF ParseInv, Bodies
<1>9. PICK f : Grown(f, m)
  BY <1>4, PiecesGrow
<1>10. ASSUME NEW e, Growth(e, Pieces(m), Units)
       PROVE  current.body = e[i - 1] \o SubSeq(text, 1, given)
  BY Zenon, <1>5, <1>8, <1>10 DEF BodyAt
<1>11. /\ f[i - 1] \in Texts
       /\ current.body = f[i - 1] \o SubSeq(text, 1, given)
       /\ Len(f[i - 1]) + Len(text) <= Len(FlattenSeq(m.chunks))
       /\ FlattenSeq(m.chunks) \in Texts
  BY Zenon, <1>5, <1>9, <1>10 DEF Grown
<1> DEFINE start == SubSeq(text, 1, given)
<1>12. start \in Texts /\ Len(start) = given
  <2> HIDE DEF text
  <2>1. \A k \in 1 .. given : text[k] \in Units
    BY <1>6 DEF Texts
  <2> QED
    BY <1>6, <2>1, SubSeqProperties DEF Texts
<1>13. /\ current.body \in Texts /\ Len(current.body) = Len(f[i - 1]) + given
       /\ Len(f[i - 1]) \in Nat /\ Len(FlattenSeq(m.chunks)) \in Nat
  <2> DEFINE whole == FlattenSeq(m.chunks)
  <2>1. current.body = f[i - 1] \o start
    BY <1>11 DEF start
  <2>2. whole \in Texts
    BY <1>11
  <2> HIDE DEF start, whole
  <2>3. current.body \in Texts /\ Len(current.body) = Len(f[i - 1]) + given /\ Len(f[i - 1]) \in Nat
    BY <1>11, <1>12, <2>1, TextsJoin
  <2>4. Len(whole) \in Nat
    BY <2>2, LenProperties DEF Texts
  <2> QED
    BY Zenon, <2>3, <2>4 DEF whole
<1>14. current.body \o Data(n) \in Texts /\ Len(current.body \o Data(n)) = Len(current.body) + n
  <2> DEFINE d == Data(n)
             b == current.body
  <2>1. d \in Texts /\ Len(d) = n /\ b \in Texts
    BY <1>6, <1>13
  <2> HIDE DEF d, b
  <2>2. b \o d \in Texts /\ Len(b \o d) = Len(b) + n
    BY <2>1, TextsJoin
  <2> QED
    BY Zenon, <2>2 DEF d, b
<1>15. fits => /\ pc' \in {"read", "decode"}
               /\ current' = [current EXCEPT !.body = current.body \o Data(n)]
               /\ current'.body = current.body \o Data(n)
               /\ PacketIs(current', m)
  <2> SUFFICES ASSUME fits
               PROVE  /\ pc' \in {"read", "decode"}
                      /\ current' = [current EXCEPT !.body = current.body \o Data(n)]
                      /\ current'.body = current.body \o Data(n)
                      /\ PacketIs(current', m)
    OBVIOUS
  <2>1. pc' \in {"read", "decode"}
    BY <1>1 DEF Goes
  <2>2. current' = [current EXCEPT !.body = current.body \o Data(n)]
    BY <1>1
  <2>3. {"version", "headers", "keepAlive", "body"} \subseteq DOMAIN current
    BY <1>8 DEF PacketIs
  <2>4. PacketIs(current', m)
    BY <1>8, <2>2 DEF PacketIs
  <2> QED
    BY <2>1, <2>2, <2>3, <2>4
<1>16. ~fits => pc' = "refused" /\ current' = current /\ Refusable(m)
  <2> SUFFICES ASSUME ~fits
               PROVE  pc' = "refused" /\ current' = current /\ Refusable(m)
    OBVIOUS
  <2>1. BodyMaxLen # 0 /\ BodyMaxLen < n + Len(current.body)
    OBVIOUS
  <2>2. Len(FlattenSeq(m.chunks)) > BodyMaxLen
    <3> DEFINE a == Len(f[i - 1])
               b == Len(FlattenSeq(m.chunks))
               t == Len(text)
               l == Len(current.body)
    <3>1. /\ a \in Nat /\ b \in Nat /\ t \in Nat /\ l = a + given /\ a + t <= b
          /\ given + n <= t /\ BodyMaxLen < n + l
      BY <1>6, <1>11, <1>13, <2>1
    <3>2. given \in Nat /\ n \in Nat /\ BodyMaxLen \in Nat
      BY <1>6, ParserAssumption
    <3> HIDE DEF a, b, t, l
    <3>3. b > BodyMaxLen
      BY <3>1, <3>2
    <3> QED
      BY <3>3 DEF b
  <2> QED
    BY <1>1, <2>1, <2>2 DEF Refusable, Fails
<1>17. TypeOK'
  <2>1. pc' \in {"read", "decode", "refused", "failed"}
    BY <1>15, <1>16
  <2>2. current' # <<>> => current'.body \in Texts /\ current'.version \in Versions
    <3>1. CASE fits
      BY <1>14, <1>15, <3>1 DEF PacketIs
    <3>2. CASE ~fits
      BY <1>16, <3>2 DEF ParseInv, TypeOK
    <3> QED
      BY <3>1, <3>2
  <2> QED
    BY <1>1, <2>1, <2>2 DEF ParseInv, TypeOK
<1>18. Heads'
  BY <1>1, <1>7 DEF Heads
<1>19. Bodies'
  <2> SUFFICES ASSUME fits
               PROVE  BodyAt(current'.body, m, at', given')
    BY <1>1, <1>15, <1>16 DEF Bodies
  <2>1. ASSUME NEW e, Growth(e, Pieces(m), Units)
        PROVE  current'.body = e[i - 1] \o SubSeq(text, 1, given + n)
    <3>1. e[i - 1] \in Seq(Units)
      <4>1. i - 1 \in 0 .. p /\ p = Len(Pieces(m))
        BY <1>4 DEF PN
      <4> QED
        BY <2>1, <4>1 DEF Growth
    <3>2. current'.body = (e[i - 1] \o start) \o Data(n)
      BY Zenon, <1>10, <1>15, <2>1
    <3>3. (e[i - 1] \o start) \o Data(n) = e[i - 1] \o (start \o Data(n))
      <4> DEFINE d == Data(n)
      <4>1. d \in Texts /\ start \in Texts /\ e[i - 1] \in Texts
        BY <1>6, <1>12, <3>1 DEF Texts
      <4> HIDE DEF d, start
      <4>2. (e[i - 1] \o start) \o d = e[i - 1] \o (start \o d)
        BY <4>1, TextsJoinInTurn
      <4> QED
        BY Zenon, <4>2 DEF d
    <3>4. start \o Data(n) = SubSeq(text, 1, given + n)
      BY <1>6 DEF start
    <3> QED
      BY Zenon, <3>2, <3>3, <3>4
  <2>2. CASE given + n = Len(text)
    <3>1. at' = at + 1 /\ given' = 0 /\ SubSeq(text, 1, given + n) = text
      BY <1>6, <2>2
    <3>2. ASSUME NEW e, Growth(e, Pieces(m), Units)
          PROVE  current'.body = e[i]
      <4>1. e[i] = e[i - 1] \o Pieces(m)[i]
        BY <3>2 DEF Growth, PN
      <4> QED
        BY Zenon, <1>5, <2>1, <3>1, <3>2, <4>1
    <3>3. BodyAt(current'.body, m, 2 * HN(m) + 3 + i, 0)
      <4> DEFINE body == current'.body
      <4>1. \A e : Growth(e, Pieces(m), Units) => body = e[i]
        BY Zenon, <3>2
      <4>2. i \in 0 .. PN(m)
        BY <1>4
      <4> HIDE DEF body
      <4>3. BodyAt(body, m, 2 * HN(m) + 3 + i, 0)
        BY <1>4, <4>1, <4>2, JoinedIsBody
      <4> QED
        BY Zenon, <4>3 DEF body
    <3>4. at' = 2 * HN(m) + 3 + i
      BY <1>4, <1>5, <3>1
    <3> QED
      BY Zenon, <3>1, <3>3, <3>4
  <2>3. CASE given + n # Len(text)
    <3>1. at' = at /\ given' = given + n
      BY <1>6, <2>3
    <3>2. ASSUME NEW k \in 1 .. p, at' = 2 * h + 2 + k
          PROVE  k = i
      BY <1>4, <1>5, <3>1, <3>2
    <3>3. ~(at' > 2 * h + 2 + p)
      BY <1>4, <1>5, <3>1
    <3>4. ASSUME NEW e, Growth(e, Pieces(m), Units), NEW k \in 1 .. p, at' = 2 * h + 2 + k
          PROVE  current'.body = e[k - 1] \o SubSeq(Pieces(m)[k], 1, given')
      <4>1. k = i
        BY <3>2, <3>4
      <4> QED
        BY Zenon, <1>5, <2>1, <3>1, <3>4, <4>1
    <3> QED
      BY Zenon, <3>3, <3>4 DEF BodyAt
  <2> QED
    BY <2>2, <2>3
<1>20. Limits'
  <2>1. fits /\ BodyMaxLen # 0 => Len(current'.body) <= BodyMaxLen
    <3> SUFFICES ASSUME fits, BodyMaxLen # 0
                 PROVE  Len(current'.body) <= BodyMaxLen
      OBVIOUS
    <3>1. Len(current'.body) = Len(current.body) + n
      BY Zenon, <1>14, <1>15
    <3>2. Len(current.body) \in Nat
      BY <1>6, <1>13
    <3>3. ~(BodyMaxLen < n + Len(current.body))
      OBVIOUS
    <3> HIDE DEF fits
    <3> QED
      BY <1>6, <3>1, <3>2, <3>3, ParserAssumption
  <2>2. pc' # "refused" => fits
    BY <1>16
  <2> QED
    BY <1>1, <1>6, <1>7, <2>1, <2>2 DEF ParseInv, Limits
<1>21. RefusedIsRefusable'
  <2>1. pc' = "refused" => Refusable(m)
    BY <1>15, <1>16
  <2> QED
    BY <1>1, <1>6, <2>1 DEF RefusedIsRefusable, Refusable
<1>22. Delivered'
  BY <1>1, DeliveredStays DEF ParseInv
<1> QED
  BY <1>2, <1>17, <1>18, <1>19, <1>20, <1>21, <1>22 DEF ParseInv

\* A list with one more element, whatever the elements are.
Longer(t, s, e) ==
    /\ \E S : t \in Seq(S)
    /\ Len(s) \in Nat /\ Len(t) = Len(s) + 1
    /\ \A i \in 1 .. Len(s) : t[i] = s[i]
    /\ t[Len(s) + 1] = e

LEMMA OneMore ==
    ASSUME NEW s, \E S : s \in Seq(S), NEW e
    PROVE  Longer(Append(s, e), s, e)
<1>1. PICK S : s \in Seq(S)
  OBVIOUS
<1>2. s \in Seq(S \cup {e}) /\ e \in S \cup {e}
  BY <1>1
<1>3. Append(s, e) \in Seq(S \cup {e})
  BY <1>2, AppendProperties
<1>4. /\ Len(s) \in Nat /\ Len(Append(s, e)) = Len(s) + 1
      /\ \A i \in 1 .. Len(s) : Append(s, e)[i] = s[i]
      /\ Append(s, e)[Len(s) + 1] = e
  BY <1>2, AppendProperties
<1> QED
  BY Zenon, <1>3, <1>4 DEF Longer

\* A list without its first element.
Shorter(t, s) ==
    /\ \E S : t \in Seq(S)
    /\ Len(s) \in Nat \ {0} /\ Len(t) = Len(s) - 1
    /\ \A i \in 1 .. Len(s) - 1 : t[i] = s[i + 1]

LEMMA OneLess ==
    ASSUME NEW s, \E S : s \in Seq(S), s # <<>>
    PROVE  Shorter(Tail(s), s)
<1>1. PICK S : s \in Seq(S)
  OBVIOUS
<1>2. Tail(s) \in Seq(S) /\ Len(Tail(s)) = Len(s) - 1
      /\ \A i \in 1 .. Len(Tail(s)) : Tail(s)[i] = s[i + 1]
  BY <1>1, HeadTailProperties
<1>3. Len(s) \in Nat \ {0}
  BY <1>1, EmptySeq
<1>4. \A i \in 1 .. Len(s) - 1 : Tail(s)[i] = s[i + 1]
  BY Zenon, <1>2
<1> QED
  BY Zenon, <1>2, <1>3, <1>4 DEF Shorter

LEMMA CompleteKeeps ==
    ASSUME ParseInv, OnMessageComplete
    PROVE  ParseInv'
<1> DEFINE m == message
           h == HN(m)
           p == PN(m)
           packet == [current EXCEPT !.keepAlive = ShouldKeepAlive(m)]
<1>1. /\ UNCHANGED <<type, head, message, begun>>
      /\ Called("complete", 0)
      /\ pc' = pc /\ current' = <<>>
      /\ list' = Append(list, packet) /\ due' = Append(due, m)
  BY DEF OnMessageComplete
<1>2. Given(0) /\ Place'
  BY <1>1, CalledMoves DEF ParseInv
<1>3. calls[at].name = "complete"
  BY <1>1 DEF Called
<1>4. /\ WellFormed(m) /\ h \in Nat /\ p \in Nat /\ TN(m) \in Nat /\ m \in Messages /\ m.type = type
      /\ at \in 1 .. Len(calls) /\ calls = Callbacks(m) /\ Len(calls) = 2 * h + p + 2 * TN(m) + 3
  BY <1>2, SizesAre DEF Given
<1>5. at = 2 * h + p + 2 * TN(m) + 3 /\ calls[at].text = <<>>
  <2>1. PlaceOf(m, h, p, TN(m), calls, at)
    BY <1>4, SizesAre, Places
  <2> QED
    BY Zenon, <1>3, <2>1 DEF PlaceOf
<1>6. at' = at + 1 /\ calls' = calls /\ pc = "decode" /\ begun > 0 /\ given = 0
  <2>1. Len(<<>>) = 0 /\ given + 0 = Len(calls[at].text) /\ given = 0
    BY <1>2, <1>5 DEF Given
  <2> QED
    BY Zenon, <1>2, <2>1 DEF Given
<1>7. /\ at > 2 * h + 2 + p /\ at > 2 * h + 2 /\ at # 1 /\ at' # 1 /\ ~(at' <= 2 * h + 2)
      /\ at <= Len(calls) /\ ~(at' <= Len(calls))
  <2> DEFINE c == Len(calls)
             t == TN(m)
  <2>1. /\ h \in Nat /\ p \in Nat /\ t \in Nat /\ c = 2 * h + p + 2 * t + 3 /\ at = c /\ at' = at + 1
    BY <1>4, <1>5, <1>6
  <2> HIDE DEF c, t, h, p
  <2>2. /\ at > 2 * h + 2 + p /\ at > 2 * h + 2 /\ at # 1 /\ at' # 1 /\ ~(at' <= 2 * h + 2)
        /\ at <= c /\ ~(at' <= c)
    BY <2>1
  <2> QED
    BY Zenon, <2>2 DEF c, h, p
<1>8. PacketIs(current, m) /\ BodyAt(current.body, m, at, given)
  BY <1>6, <1>7 DEF ParseInv, Bodies
<1>9. current.body = FlattenSeq(m.chunks)
  <2>1. PICK f : Grown(f, m)
    BY <1>4, PiecesGrow
  <2> QED
    BY Zenon, <1>7, <1>8, <2>1 DEF BodyAt, Grown
<1>10. ~Refusable(m)
  <2>1. (type = "HDT_REQUEST" /\ UrlMaxLen # 0) => Len(m.line) <= UrlMaxLen
    BY <1>6, <1>7 DEF ParseInv, Limits
  <2>2. BodyMaxLen # 0 => Len(FlattenSeq(m.chunks)) <= BodyMaxLen
    BY <1>6, <1>7, <1>9 DEF ParseInv, Limits
  <2>3. m.version \in Versions
    BY <1>8 DEF PacketIs
  <2>4. Len(m.line) \in Nat /\ Len(FlattenSeq(m.chunks)) \in Nat
    <3>1. m.line \in Seq(Units) /\ FlattenSeq(m.chunks) \in Seq(Units)
      BY <1>4, PiecesJoin DEF WellFormed, Texts
    <3> DEFINE a == m.line
               b == FlattenSeq(m.chunks)
    <3> HIDE DEF a, b
    <3>2. Len(a) \in Nat /\ Len(b) \in Nat
      BY <3>1, LenProperties DEF a, b
    <3> QED
      BY Zenon, <3>2 DEF a, b
  <2> DEFINE a == Len(m.line)
             b == Len(FlattenSeq(m.chunks))
  <2>5. /\ (type = "HDT_REQUEST" /\ UrlMaxLen # 0) => ~(a > UrlMaxLen)
        /\ BodyMaxLen # 0 => ~(b > BodyMaxLen)
    <3>1. /\ (type = "HDT_REQUEST" /\ UrlMaxLen # 0) => a <= UrlMaxLen
          /\ BodyMaxLen # 0 => b <= BodyMaxLen
          /\ a \in Nat /\ b \in Nat
      BY Zenon, <2>1, <2>2, <2>4
    <3> HIDE DEF a, b
    <3> QED
      BY <3>1, ParserAssumption
  <2> QED
    BY Zenon, <2>3, <2>5 DEF Refusable
<1>11. Delivers(packet, m)
  <2> DEFINE word == ShouldKeepAlive(m)
  <2> HIDE DEF word
  <2>1. packet = [current EXCEPT !.keepAlive = word]
    BY DEF word
  <2>2. {"version", "headers", "keepAlive", "body"} \subseteq DOMAIN current
    BY <1>8 DEF PacketIs
  <2> HIDE DEF packet
  <2>3. PacketIs(packet, m) /\ packet.body = current.body /\ packet.keepAlive = word
    BY <1>8, <2>1, <2>2 DEF PacketIs
  <2> QED
    BY Zenon, <1>4, <1>9, <1>10, <2>3 DEF Delivers, word
<1> HIDE DEF packet
<1>12. Delivered'
  <2>1. /\ \E S : list \in Seq(S)
        /\ \E S : due \in Seq(S)
        /\ Len(list) = Len(due)
        /\ \A i \in 1 .. Len(list) : Delivers(list[i], due[i])
    BY DEF ParseInv, Delivered
  <2>6. Longer(list', list, packet) /\ Longer(due', due, m)
    BY Zenon, <1>1, <2>1, OneMore DEF packet
  <2>2. /\ \E S : list' \in Seq(S)
        /\ Len(list) \in Nat /\ Len(list') = Len(list) + 1
        /\ \A i \in 1 .. Len(list) : list'[i] = list[i]
        /\ list'[Len(list) + 1] = packet
    BY Zenon, <2>6 DEF Longer
  <2>3. /\ \E S : due' \in Seq(S)
        /\ Len(due') = Len(list) + 1
        /\ \A i \in 1 .. Len(list) : due'[i] = due[i]
        /\ due'[Len(list) + 1] = m
    BY Zenon, <2>1, <2>6 DEF Longer
  <2>4. ASSUME NEW i \in 1 .. Len(list) + 1
        PROVE  Delivers(list'[i], due'[i])
    <3>1. CASE i = Len(list) + 1
      BY <1>11, <2>2, <2>3, <3>1
    <3>2. CASE i # Len(list) + 1
      <4>1. i \in 1 .. Len(list)
        BY <2>2, <3>2
      <4> QED
        BY <2>1, <2>2, <2>3, <4>1
    <3> QED
      BY <3>1, <3>2
  <2>5. \A q, w : Delivers(q, w)' <=> Delivers(q, w)
    BY <1>1 DEF Delivers, Refusable
  <2> QED
    BY <2>2, <2>3, <2>4, <2>5 DEF Delivered
<1>13. TypeOK'
  <2>1. Len(list') = Len(due')
    BY <1>12 DEF Delivered
  <2> QED
    BY <1>1, <2>1 DEF ParseInv, TypeOK
<1>14. Heads' /\ Bodies'
  BY <1>1, <1>6, <1>7 DEF Heads, Bodies
<1>15. Limits'
  BY <1>1, <1>6, <1>7 DEF ParseInv, Limits
<1>16. RefusedIsRefusable'
  BY <1>1, <1>6 DEF RefusedIsRefusable
<1> QED
  BY <1>2, <1>12, <1>13, <1>14, <1>15, <1>16 DEF ParseInv

LEMMA BeginKeeps ==
    ASSUME ParseInv, NEW m \in Messages, OnMessageBegin(m)
    PROVE  ParseInv'
<1>1. /\ pc = "decode" /\ pc' = "decode" /\ begun < MaxMessages /\ begun' = begun + 1
      /\ m.type = type /\ message' = m /\ calls' = Callbacks(m) /\ at' = 1 /\ given' = 0
      /\ head' = NoHead
      /\ UNCHANGED <<type, current, list, due>>
  BY DEF OnMessageBegin
<1>2. begun' \in 0 .. MaxMessages /\ begun' > 0 /\ ~(begun' = 0)
  BY <1>1, ParserAssumption DEF ParseInv, TypeOK
<1>3. WellFormed(m) /\ HN(m) \in Nat /\ PN(m) \in Nat /\ TN(m) \in Nat
      /\ Len(Callbacks(m)) = 2 * HN(m) + PN(m) + 2 * TN(m) + 3
  BY MessagesMade, SizesAre
<1>4. /\ DOMAIN NoHead = {"url", "status", "field", "value", "map"}
      /\ NoHead.url = <<>> /\ NoHead.status = <<>> /\ NoHead.field = <<>> /\ NoHead.value = <<>>
      /\ NoHead.map = [x \in {} |-> <<>>]
  BY DEF NoHead
<1>5. IsMap(NoHead.map, m, Valued(m, 0))
  <2> DEFINE none == [x \in {} |-> <<>>]
  <2>1. DOMAIN none = {} /\ none = [x \in DOMAIN none |-> none[x]]
    OBVIOUS
  <2>2. Valued(m, 0) = {}
    BY DEF Valued
  <2> HIDE DEF none
  <2>3. IsMap(none, m, Valued(m, 0))
    BY <2>1, <2>2 DEF IsMap
  <2> QED
    BY Zenon, <1>4, <2>3 DEF none
<1>6. TypeOK'
  <2>1. <<>> \in Texts
    BY EmptySeq DEF Texts
  <2>2. DOMAIN NoHead.map = {}
    BY <1>4
  <2> QED
    BY <1>1, <1>2, <1>4, <2>1, <2>2 DEF ParseInv, TypeOK
<1>7. Place'
  <2>1. at' \in 1 .. Len(calls') + 1 /\ at' <= Len(calls')
    <3> DEFINE c == Len(Callbacks(m))
               h == HN(m)
               p == PN(m)
               t == TN(m)
    <3>1. h \in Nat /\ p \in Nat /\ t \in Nat /\ c = 2 * h + p + 2 * t + 3
      BY <1>3
    <3> HIDE DEF c, h, p, t
    <3>2. 1 \in 1 .. c + 1 /\ 1 <= c /\ c \in Nat
      BY <3>1
    <3> QED
      BY Zenon, <1>1, <3>2 DEF c
  <2> QED
    BY <1>1, <1>2, <2>1 DEF Place
<1>8. Heads'
  <2>1. UrlAt(head', m, 1, 0)
    <3>1. SubSeq(m.line, 1, 0) = <<>>
      BY SubSeqEmpty
    <3> QED
      BY <1>1, <1>4, <3>1 DEF UrlAt
  <2>2. HeadAt(head', m, 1, 0)
    <3>1. After(head', m, 0)
      BY <1>1, <1>4, <1>5 DEF After
    <3>2. /\ \A j \in 1 .. HN(m) : 1 # 2 * j /\ 1 # 2 * j + 1
          /\ 1 # 2 * HN(m) + 2
      BY <1>3
    <3> QED
      BY <3>1, <3>2 DEF HeadAt
  <2> QED
    BY <1>1, <2>1, <2>2 DEF Heads
<1>9. Bodies'
  <2>1. ~(1 > 2 * HN(m) + 2)
    BY <1>3
  <2> QED
    BY <1>1, <2>1 DEF Bodies
<1>10. Limits'
  <2>1. ~(1 > 2 * HN(m) + 2)
    BY <1>3
  <2> QED
    BY <1>1, <2>1, ParserAssumption DEF Limits
<1>11. RefusedIsRefusable'
  BY <1>1 DEF RefusedIsRefusable
<1>12. Delivered'
  BY <1>1, DeliveredStays DEF ParseInv
<1> QED
  BY <1>6, <1>7, <1>8, <1>9, <1>10, <1>11, <1>12 DEF ParseInv

\* Nothing but the place of DoRead changes.
LEMMA ReadKeeps ==
    ASSUME ParseInv,
           UNCHANGED <<type, head, current, list, message, calls, at, given, begun, due>>,
           pc' = pc \/ (pc # "refused" /\ pc' \in {"read", "decode", "failed"})
    PROVE  ParseInv'
<1>1. TypeOK'
  BY DEF ParseInv, TypeOK
<1>2. pc' # "refused" => pc # "refused"
  BY DEF ParseInv, TypeOK
<1>3. Place' /\ Heads' /\ Bodies' /\ Limits'
  BY <1>2 DEF ParseInv, Place, Heads, Bodies, Limits
<1>4. RefusedIsRefusable'
  BY DEF ParseInv, RefusedIsRefusable, Refusable
<1>5. Delivered'
  BY DeliveredStays DEF ParseInv
<1> QED
  BY <1>1, <1>3, <1>4, <1>5 DEF ParseInv

LEMMA TakenKeeps ==
    ASSUME ParseInv, GetPacket
    PROVE  ParseInv'
<1>1. /\ pc = "read" /\ list # <<>> /\ list' = Tail(list) /\ due' = Tail(due)
      /\ UNCHANGED <<type, head, current, pc, message, calls, at, given, begun>>
  BY DEF GetPacket
<1>2. Delivered'
  <2>1. /\ \E S : list \in Seq(S)
        /\ \E S : due \in Seq(S)
        /\ Len(list) = Len(due)
        /\ \A i \in 1 .. Len(list) : Delivers(list[i], due[i])
    BY DEF ParseInv, Delivered
  <2>2. Shorter(list', list)
    BY Zenon, <1>1, <2>1, OneLess
  <2>3. due # <<>>
    <3>1. Len(list) # 0
      BY <2>2 DEF Shorter
    <3>2. Len(due) # 0
      BY <2>1, <3>1
    <3> QED
      BY <3>2
  <2>4. Shorter(due', due)
    BY Zenon, <1>1, <2>1, <2>3, OneLess
  <2>5. /\ \E S : list' \in Seq(S)
        /\ Len(list) \in Nat \ {0} /\ Len(list') = Len(list) - 1
        /\ \A i \in 1 .. Len(list) - 1 : list'[i] = list[i + 1]
    BY Zenon, <2>2 DEF Shorter
  <2>6. /\ \E S : due' \in Seq(S)
        /\ Len(due') = Len(list) - 1
        /\ \A i \in 1 .. Len(list) - 1 : due'[i] = due[i + 1]
    BY Zenon, <2>1, <2>4 DEF Shorter
  <2>7. ASSUME NEW i \in 1 .. Len(list) - 1
        PROVE  Delivers(list'[i], due'[i])
    <3>1. i + 1 \in 1 .. Len(list)
      BY <2>5
    <3> QED
      BY <2>1, <2>5, <2>6, <3>1
  <2>8. \A q, w : Delivers(q, w)' <=> Delivers(q, w)
    BY <1>1 DEF Delivers, Refusable
  <2> QED
    BY <2>5, <2>6, <2>7, <2>8 DEF Delivered
<1>3. TypeOK'
  <2>1. Len(list') = Len(due')
    BY <1>2 DEF Delivered
  <2> QED
    BY <1>1, <2>1 DEF ParseInv, TypeOK
<1>4. Place' /\ Heads' /\ Bodies' /\ Limits'
  BY <1>1 DEF ParseInv, Place, Heads, Bodies, Limits
<1>5. RefusedIsRefusable'
  BY <1>1 DEF RefusedIsRefusable
<1> QED
  BY <1>2, <1>3, <1>4, <1>5 DEF ParseInv

LEMMA ParseInvInit ==
    ASSUME Init
    PROVE  ParseInv
<1>1. /\ type \in {"HDT_REQUEST", "HDT_RESPONSE"} /\ head = NoHead /\ current = <<>>
      /\ list = <<>> /\ pc = "read" /\ calls = <<>> /\ at = 1 /\ begun = 0 /\ due = <<>>
  BY DEF Init
<1>2. TypeOK
  <2>1. <<>> \in Texts
    BY EmptySeq DEF Texts
  <2>2. /\ NoHead.url = <<>> /\ NoHead.status = <<>> /\ NoHead.field = <<>> /\ NoHead.value = <<>>
        /\ DOMAIN NoHead.map = {}
    BY DEF NoHead
  <2> QED
    BY <1>1, <2>1, <2>2, ParserAssumption DEF TypeOK
<1>3. ~(begun > 0)
  BY <1>1
<1>4. Place /\ Heads /\ Bodies /\ Limits /\ RefusedIsRefusable
  BY <1>1, <1>3 DEF Place, Heads, Bodies, Limits, RefusedIsRefusable
<1>5. Delivered
  <2>1. <<>> \in Seq({}) /\ Len(<<>>) = 0 /\ 1 .. 0 = {}
    BY EmptySeq
  <2> QED
    BY <1>1, <2>1 DEF Delivered
<1> QED
  BY <1>2, <1>4, <1>5 DEF ParseInv

LEMMA ParseInvStep ==
    ASSUME ParseInv, [Next]_vars
    PROVE  ParseInv'
<1>1. CASE \E m \in Messages : OnMessageBegin(m)
  BY <1>1, BeginKeeps
<1>2. CASE \E n \in 0 .. Len(calls[at].text) : Text(n)
  <2>1. PICK n : Text(n)
    BY <1>2
  <2> QED
    BY <2>1, UrlKeeps, StatusKeeps, FieldKeeps, ValueKeeps, BodyKeeps DEF Text
<1>3. CASE OnHeadersComplete
  BY <1>3, HeadersKeeps
<1>4. CASE OnMessageComplete
  BY <1>4, CompleteKeeps
<1>5. CASE Decode
  BY <1>5, ReadKeeps DEF Decode
<1>6. CASE DecodeReturns
  BY <1>6, ReadKeeps DEF DecodeReturns
<1>7. CASE DecodeFails
  BY <1>7, ReadKeeps DEF DecodeFails
<1>8. CASE GetPacket
  BY <1>8, TakenKeeps
<1>9. CASE UNCHANGED vars
  BY <1>9, ReadKeeps DEF vars
<1> QED
  BY <1>1, <1>2, <1>3, <1>4, <1>5, <1>6, <1>7, <1>8, <1>9 DEF Next

\* The packets of the list, and the messages they are due for, in numbers.
LEMMA ListedIsDelivered ==
    ASSUME ParseInv
    PROVE  /\ DOMAIN list = DOMAIN due
           /\ \A i \in DOMAIN list : Delivers(list[i], due[i])
<1>1. DOMAIN list = 1 .. Len(list) /\ DOMAIN due = 1 .. Len(list)
  BY DEF ParseInv, Delivered
<1> QED
  BY <1>1 DEF ParseInv, Delivered

\* What is stored of a message in the list is all of its lines, when none but the last is
\* without a value.
LEMMA AllIsStored ==
    ASSUME NEW p, NEW m, Delivers(p, m), OnlyLastIsEmpty(m)
    PROVE  p.headers = HeaderMap(m)
<1>1. WellFormed(m) /\ p.headers = StoredMap(m)
  BY Zenon, MessagesMade DEF Delivers, PacketIs
<1>2. StoredMap(m) = HeaderMap(m)
  BY <1>1, NamesOf, StoredIsAll
<1> QED
  BY Zenon, <1>1, <1>2

\* However the reads cut the stream into callbacks, what comes of a message depends on
\* the message alone, for every message: a packet has its message's URI or code, its
\* version and its whole body, and the headers that are stored of its lines, which are all
\* of them when none but the last is without a value; and a message is refused only for
\* what is in it (DecodedByContent).
THEOREM PacketsAreTheirMessages == Spec => []DecodedByContent
<1>1. Init => ParseInv
  BY ParseInvInit
<1>2. ParseInv /\ [Next]_vars => ParseInv'
  BY ParseInvStep
<1>3. ParseInv => DecodedByContent
  <2> SUFFICES ASSUME ParseInv
               PROVE  DecodedByContent
    OBVIOUS
  <2>1. PacketsFaithful
    <3> SUFFICES ASSUME NEW i \in DOMAIN list
                 PROVE  /\ list[i].headers = StoredMap(due[i])
                        /\ OnlyLastIsEmpty(due[i]) => list[i].headers = HeaderMap(due[i])
                        /\ list[i].body = FlattenSeq(due[i].chunks)
                        /\ list[i].version = due[i].version
                        /\ IF type = "HDT_REQUEST" THEN list[i].uri = Uri(due[i].line)
                                                   ELSE list[i].code = due[i].code
      BY Zenon DEF PacketsFaithful
    <3>1. Delivers(list[i], due[i])
      BY Zenon, ListedIsDelivered
    <3>2. OnlyLastIsEmpty(due[i]) => list[i].headers = HeaderMap(due[i])
      BY Zenon, <3>1, AllIsStored
    <3> QED
      BY Zenon, <3>1, <3>2 DEF Delivers, PacketIs
  <2>2. RefusedByContent
    <3>1. \A i \in DOMAIN due : ~Refusable(due[i])
      BY Zenon, ListedIsDelivered DEF Delivers
    <3> QED
      BY Zenon, <3>1 DEF ParseInv, RefusedIsRefusable, RefusedByContent
  <2> QED
    BY Zenon, <2>1, <2>2 DEF ParseInv, DecodedByContent
<1> QED
  BY <1>1, <1>2, <1>3, PTL DEF Spec

\* What HttpEncoder wrote is decoded, wherever the reads cut it, to the body it was given,
\* in chunks or not, and to its word on the connection, and to its headers as well when none
\* of the header lines but the last is without a value (DecodesEncoded).
THEOREM DecodedIsEncoded == Spec => []DecodesEncoded
<1>1. Init => ParseInv
  BY ParseInvInit
<1>2. ParseInv /\ [Next]_vars => ParseInv'
  BY ParseInvStep
<1>3. ParseInv => DecodesEncoded
  <2> SUFFICES ASSUME ParseInv, NEW i \in DOMAIN list, NEW e \in Encoded,
                      due[i] = e.message
               PROVE  /\ list[i].body = e.packet.body
                      /\ OnlyLastIsEmpty(e.message) =>
                            \A x \in DOMAIN e.packet.headers :
                                list[i].headers[x] = e.packet.headers[x]
                      /\ Connection \notin DOMAIN e.packet.headers =>
                            list[i].keepAlive = e.packet.keepAlive
    BY Zenon DEF DecodesEncoded
  <2>1. Delivers(list[i], due[i])
    BY Zenon, ListedIsDelivered
  <2>2. WellMade(e.packet) /\ ~Refuses(e.packet) /\ due[i] = Encode(e.packet)
    BY Zenon, MessagesMade
  <2>3. list[i].body = FlattenSeq(due[i].chunks) /\ list[i].keepAlive = ShouldKeepAlive(due[i])
    BY Zenon, <2>1 DEF Delivers
  <2>4. list[i].body = e.packet.body
    BY Zenon, <2>2, <2>3, EncodeIsWellFormed
  <2>5. ASSUME OnlyLastIsEmpty(e.message), NEW x \in DOMAIN e.packet.headers
        PROVE  list[i].headers[x] = e.packet.headers[x]
    <3>1. OnlyLastIsEmpty(due[i])
      BY Zenon, <2>5
    <3>2. list[i].headers = HeaderMap(due[i])
      BY Zenon, <2>1, <3>1, AllIsStored
    <3> QED
      BY Zenon, <2>2, <3>2, HeadersAreKept
  <2>6. Connection \notin DOMAIN e.packet.headers => list[i].keepAlive = e.packet.keepAlive
    BY Zenon, <2>2, <2>3, WordIsKept
  <2> QED
    BY Zenon, <2>4, <2>5, <2>6
<1> QED
  BY <1>1, <1>2, <1>3, PTL DEF Spec
===============================================================================
