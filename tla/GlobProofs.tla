----------------------------- MODULE GlobProofs -----------------------------
(***************************************************************************)
(* Facts about the meaning of wildcard patterns, for patterns and names of *)
(* any length.  From is a recursive function: that it has the rows its     *)
(* equation says, and every fact about a pattern as a whole, comes from    *)
(* the well-foundedness of the natural numbers, in the form of two lemmas  *)
(* about sets and functions that the other proof modules use too.          *)
(***************************************************************************)
EXTENDS Glob, Integers, WellFoundedInduction, TLAPS

-----------------------------------------------------------------------------
(* Induction and recursion, stated of sets and functions *)

\* The natural numbers are well ordered.
LEMMA LeastNat ==
    ASSUME NEW T, T \subseteq Nat, T # {}
    PROVE  \E n \in T : \A k \in T : n <= k
<1> DEFINE R == {ss \in Nat \X Nat : ss[1] < ss[2]}
<1>1. IsWellFoundedOn(R, Nat)
    BY NatLessThanWellFounded DEF OpToRel
<1>2. \A m, n \in Nat : m < n => <<m, n>> \in R
    OBVIOUS
<1>3. PICK n \in T : \A k \in T : ~(<<k, n>> \in R)
  <2> HIDE DEF R
  <2>1. QED
    BY <1>1, WFMin
<1> HIDE DEF R
<1>4. \A k \in T : n <= k
  <2> TAKE k \in T
  <2>1. k \in Nat /\ n \in Nat /\ ~(k < n)
    BY <1>2, <1>3
  <2>2. QED
    BY <2>1
<1>5. QED
    BY <1>4

\* A set of numbers that starts at 0 and goes on up to n holds all of them.
LEMMA UpTo ==
    ASSUME NEW n \in Nat, NEW T, 0 \in T, \A k \in 0..n - 1 : k \in T => k + 1 \in T
    PROVE  \A k \in 0..n : k \in T
<1> DEFINE Missing == {k \in 0..n : k \notin T}
<1>1. SUFFICES ASSUME Missing # {} PROVE FALSE
    OBVIOUS
<1>2. PICK k \in Missing : \A m \in Missing : k <= m
  <2>1. Missing \subseteq Nat
    OBVIOUS
  <2>2. QED
    BY <1>1, <2>1, LeastNat
<1>3. k \in 0..n /\ k # 0 /\ k \notin T
    BY <1>2
<1>4. k - 1 \in 0..n - 1 /\ k - 1 \notin Missing
    BY <1>2, <1>3
<1>5. QED
    BY <1>3, <1>4

\* g goes from a by the steps F[1], F[2], ...
Iteration(g, n, S, a, F) ==
    g \in [0..n -> S] /\ g[0] = a /\ \A k \in 1..n : g[k] = F[k][g[k - 1]]

\* Steps that stay in a set can be taken one after the other.
LEMMA Iterates ==
    ASSUME NEW n \in Nat, NEW S, NEW a \in S, NEW F \in [1..n -> [S -> S]]
    PROVE  \E g : Iteration(g, n, S, a, F)
<1> USE DEF Iteration
<1> DEFINE Steps(k) == {g \in [0..k -> S] : g[0] = a /\ \A i \in 1..k : g[i] = F[i][g[i - 1]]}
           T == {k \in 0..n : Steps(k) # {}}
<1>1. 0 \in T
  <2>1. [i \in 0..0 |-> a] \in Steps(0)
    OBVIOUS
  <2>2. QED
    BY <2>1
<1>2. ASSUME NEW k \in 0..n - 1, k \in T PROVE k + 1 \in T
  <2>1. PICK g \in [0..k -> S] : g[0] = a /\ \A i \in 1..k : g[i] = F[i][g[i - 1]]
    BY <1>2
  <2> DEFINE h == [i \in 0..k + 1 |-> IF i = k + 1 THEN F[k + 1][g[k]] ELSE g[i]]
  <2>2. h \in [0..k + 1 -> S]
    BY <1>2, <2>1
  <2>3. h[0] = a /\ \A i \in 1..k + 1 : h[i] = F[i][h[i - 1]]
    BY <1>2, <2>1
  <2>4. h \in Steps(k + 1)
    BY <2>2, <2>3
  <2>5. k + 1 \in 0..n
    BY <1>2
  <2> HIDE DEF Steps, h
  <2>6. QED
    BY <2>4, <2>5
<1>3. n \in T
  <2> HIDE DEF T
  <2>1. \A k \in 0..n : k \in T
    BY <1>1, <1>2, UpTo
  <2>2. QED
    BY <2>1
<1>4. QED
    BY <1>3
-----------------------------------------------------------------------------
(* The recursion of From *)

\* One step of the recursion, of the n last symbols.
Row(pattern, name, lenient, n, after) ==
    LET c == pattern[Len(pattern) - n + 1]
        N == Len(name)
    IN  IF c = "*" THEN {j \in 0..N : \E k \in after : j <= k}
        ELSE {j \in 0..N : IF j = N THEN c \in lenient ELSE c \in {"?", name[j + 1]} /\ j + 1 \in after}

\* From is what its recursion says: there is such a function.
LEMMA FromRows ==
    ASSUME NEW A, NEW pattern \in Seq(A), NEW B, NEW name \in Seq(B), NEW lenient
    PROVE  LET from == From(pattern, name, lenient)
           IN  /\ from \in [0..Len(pattern) -> SUBSET (0..Len(name))]
               /\ from[0] = {Len(name)}
               /\ \A n \in 1..Len(pattern) : from[n] = Row(pattern, name, lenient, n, from[n - 1])
<1> DEFINE P == Len(pattern)
           N == Len(name)
           S == SUBSET (0..N)
           F == [n \in 1..P |-> [after \in S |-> Row(pattern, name, lenient, n, after)]]
           Rec(f) == [n \in 0..P |-> IF n = 0 THEN {N} ELSE Row(pattern, name, lenient, n, f[n - 1])]
<1>1. P \in Nat /\ N \in Nat /\ {N} \in S
    OBVIOUS
<1>2. F \in [1..P -> [S -> S]]
    BY <1>1 DEF Row
<1>3. PICK g : Iteration(g, P, S, {N}, F)
  <2> HIDE DEF P, S, F
  <2>1. QED
    BY <1>1, <1>2, Iterates
<1>4. g \in [0..P -> S] /\ g[0] = {N} /\ \A k \in 1..P : g[k] = F[k][g[k - 1]]
    BY <1>3 DEF Iteration
<1>5. g = Rec(g)
  <2>1. \A k \in 1..P : g[k] = Row(pattern, name, lenient, k, g[k - 1])
    <3> TAKE k \in 1..P
    <3>1. g[k - 1] \in S
        BY <1>1, <1>4
    <3>2. QED
        BY <1>4, <3>1
  <2>2. \A k \in 0..P : g[k] = Rec(g)[k]
    BY <1>1, <1>4, <2>1
  <2>3. QED
    BY <1>4, <2>2
<1>6. From(pattern, name, lenient) = CHOOSE f : f = Rec(f)
    BY DEF From, Row
<1> DEFINE from == From(pattern, name, lenient)
<1>7. from = Rec(from)
  <2> HIDE DEF Rec
  <2>1. QED
    BY <1>5, <1>6
<1> HIDE DEF from
<1>8. /\ DOMAIN from = 0..P
      /\ from[0] = {N}
      /\ \A n \in 1..P : from[n] = Row(pattern, name, lenient, n, from[n - 1])
  <2>1. DOMAIN from = 0..P /\ \A n \in 0..P : from[n] = Rec(from)[n]
    BY <1>7
  <2>2. 0 \in 0..P /\ \A n \in 1..P : n \in 0..P /\ n # 0
    BY <1>1
  <2>3. QED
    BY <2>1, <2>2
<1>9. \A n \in 0..P : from[n] \in S
  <2>1. \A n \in 1..P : Row(pattern, name, lenient, n, from[n - 1]) \in S
    BY DEF Row
  <2>2. QED
    BY <1>1, <1>8, <2>1
<1>10. from \in [0..P -> S]
    BY <1>7, <1>9
<1>11. QED
    BY <1>8, <1>10 DEF from

\* The places of the name from which the pattern without its first p symbols
\* matches.
After(pattern, name, lenient, p) == From(pattern, name, lenient)[Len(pattern) - p]

\* The whole pattern is matched from the first place of the name.
LEMMA AfterAll ==
    ASSUME NEW A, NEW pattern \in Seq(A), NEW name, NEW lenient
    PROVE  Accepts(pattern, name, lenient) <=> 0 \in After(pattern, name, lenient, 0)
    BY DEF Accepts, After

\* Of a pattern that is used up nothing is left but the end of the name.
LEMMA AfterEnd ==
    ASSUME NEW A, NEW pattern \in Seq(A), NEW B, NEW name \in Seq(B), NEW lenient
    PROVE  After(pattern, name, lenient, Len(pattern)) = {Len(name)}
    BY FromRows DEF After

\* No place is outside of the name.
LEMMA AfterWithin ==
    ASSUME NEW A, NEW pattern \in Seq(A), NEW B, NEW name \in Seq(B), NEW lenient, NEW p \in 0..Len(pattern)
    PROVE  After(pattern, name, lenient, p) \subseteq 0..Len(name)
<1> DEFINE from == From(pattern, name, lenient)
<1>1. Len(pattern) - p \in 0..Len(pattern)
    OBVIOUS
<1>2. from \in [0..Len(pattern) -> SUBSET (0..Len(name))]
    BY FromRows
<1> HIDE DEF from
<1>3. from[Len(pattern) - p] \subseteq 0..Len(name)
    BY <1>1, <1>2
<1>4. QED
    BY <1>3 DEF After, from

\* A star takes any bytes.
LEMMA AfterStar ==
    ASSUME NEW A, NEW pattern \in Seq(A), NEW B, NEW name \in Seq(B), NEW lenient,
           NEW p \in 0..Len(pattern) - 1, pattern[p + 1] = "*", NEW j \in 0..Len(name)
    PROVE  j \in After(pattern, name, lenient, p) <=> \E k \in After(pattern, name, lenient, p + 1) : j <= k
<1> DEFINE n == Len(pattern) - p
           from == From(pattern, name, lenient)
<1>1. n \in 1..Len(pattern) /\ n - 1 = Len(pattern) - (p + 1) /\ Len(pattern) - n + 1 = p + 1
    OBVIOUS
<1>2. from[n] = Row(pattern, name, lenient, n, from[n - 1])
    BY <1>1, FromRows
<1> HIDE DEF from
<1>3. from[n] = {i \in 0..Len(name) : \E k \in from[n - 1] : i <= k}
    BY <1>1, <1>2 DEF Row
<1> HIDE DEF n
<1>4. QED
    BY <1>1, <1>3 DEF After, from, n

\* Any other symbol takes one byte that fits.
LEMMA AfterOther ==
    ASSUME NEW A, NEW pattern \in Seq(A), NEW B, NEW name \in Seq(B), NEW lenient,
           NEW p \in 0..Len(pattern) - 1, pattern[p + 1] # "*", NEW j \in 0..Len(name)
    PROVE  j \in After(pattern, name, lenient, p) <=>
              IF j = Len(name) THEN pattern[p + 1] \in lenient
              ELSE pattern[p + 1] \in {"?", name[j + 1]} /\ j + 1 \in After(pattern, name, lenient, p + 1)
<1> DEFINE n == Len(pattern) - p
           from == From(pattern, name, lenient)
<1>1. n \in 1..Len(pattern) /\ n - 1 = Len(pattern) - (p + 1) /\ Len(pattern) - n + 1 = p + 1
    OBVIOUS
<1>2. from[n] = Row(pattern, name, lenient, n, from[n - 1])
    BY <1>1, FromRows
<1> HIDE DEF from
<1>3. from[n] = {i \in 0..Len(name) : IF i = Len(name) THEN pattern[p + 1] \in lenient
                                      ELSE pattern[p + 1] \in {"?", name[i + 1]} /\ i + 1 \in from[n - 1]}
    BY <1>1, <1>2 DEF Row
<1> HIDE DEF n
<1>4. QED
    BY <1>1, <1>3 DEF After, from, n
-----------------------------------------------------------------------------
(* Segments without a star *)

\* Byte by byte, the symbols from a on fit the name from k on, up to d of them.
Fit(pattern, name, a, k, d) == \A i \in 1..d : pattern[a + i] \in {"?", name[k + i]}

\* What matches from k has a segment without star behind it, or ends before a
\* lenient symbol of it.
LEMMA SegmentWalk ==
    ASSUME NEW A, NEW pattern \in Seq(A), NEW B, NEW name \in Seq(B), NEW lenient,
           NEW a \in 0..Len(pattern), NEW b \in a..Len(pattern), \A i \in a + 1..b : pattern[i] # "*",
           NEW k \in After(pattern, name, lenient, a)
    PROVE  \/ k + (b - a) \in After(pattern, name, lenient, b)
           \/ \E d \in 0..b - a - 1 : k + d = Len(name) /\ pattern[a + d + 1] \in lenient /\ Fit(pattern, name, a, k, d)
<1> DEFINE N == Len(name)
           Falls(d) == k + d = N /\ pattern[a + d + 1] \in lenient /\ Fit(pattern, name, a, k, d)
           T == {d \in 0..b - a : k + d \in After(pattern, name, lenient, a + d) /\ Fit(pattern, name, a, k, d)}
<1>1. N \in Nat /\ Len(pattern) \in Nat /\ a \in Nat /\ b \in Nat /\ a <= b /\ b <= Len(pattern) /\ b - a \in Nat
    OBVIOUS
<1>2. k \in 0..N
    BY AfterWithin
<1>3. SUFFICES ASSUME \A d \in 0..b - a - 1 : ~Falls(d)
               PROVE  k + (b - a) \in After(pattern, name, lenient, b)
    OBVIOUS
<1>4. 0 \in T
    BY <1>1, <1>2 DEF Fit
<1>5. ASSUME NEW d \in 0..b - a - 1, d \in T PROVE d + 1 \in T
  <2>1. a + d \in 0..Len(pattern) - 1 /\ pattern[a + d + 1] # "*" /\ a + d \in 0..Len(pattern) /\ a + d + 1 \in 0..Len(pattern)
    BY <1>1
  <2>2. k + d \in After(pattern, name, lenient, a + d) /\ Fit(pattern, name, a, k, d)
    BY <1>5
  <2>3. k + d \in 0..N
    BY <2>1, <2>2, AfterWithin
  <2>4. IF k + d = N THEN pattern[a + d + 1] \in lenient
        ELSE pattern[a + d + 1] \in {"?", name[k + d + 1]} /\ k + d + 1 \in After(pattern, name, lenient, a + d + 1)
    BY <2>1, <2>2, <2>3, AfterOther
  <2>5. k + d # N
    BY <1>3, <2>2, <2>4
  <2>6. Fit(pattern, name, a, k, d + 1)
    <3> SUFFICES ASSUME NEW i \in 1..d + 1 PROVE pattern[a + i] \in {"?", name[k + i]}
        BY DEF Fit
    <3>1. CASE i \in 1..d
        BY <2>2, <3>1 DEF Fit
    <3>2. CASE i = d + 1
        BY <1>1, <1>2, <2>4, <2>5, <3>2
    <3>3. QED
        BY <3>1, <3>2
  <2>7. k + (d + 1) = k + d + 1 /\ a + (d + 1) = a + d + 1 /\ d + 1 \in 0..b - a
    BY <1>1, <1>2
  <2>8. QED
    BY <2>4, <2>5, <2>6, <2>7
<1>6. b - a \in T
  <2> HIDE DEF T
  <2>1. \A d \in 0..b - a : d \in T
    BY <1>1, <1>4, <1>5, UpTo
  <2>2. QED
    BY <1>1, <2>1
<1>7. a + (b - a) = b
    BY <1>1
<1>8. QED
    BY <1>6, <1>7

\* And back: a segment that fits can be put in front of what matches.
LEMMA WalkBack ==
    ASSUME NEW A, NEW pattern \in Seq(A), NEW B, NEW name \in Seq(B), NEW lenient,
           NEW a \in 0..Len(pattern), NEW b \in a..Len(pattern), \A i \in a + 1..b : pattern[i] # "*",
           NEW k \in Nat, k + (b - a) \in After(pattern, name, lenient, b), Fit(pattern, name, a, k, b - a)
    PROVE  k \in After(pattern, name, lenient, a)
<1> DEFINE N == Len(name)
           T == {d \in 0..b - a : k + (b - a - d) \in After(pattern, name, lenient, b - d)}
<1>1. N \in Nat /\ Len(pattern) \in Nat /\ a \in Nat /\ b \in Nat /\ a <= b /\ b <= Len(pattern) /\ b - a \in Nat
    OBVIOUS
<1>2. k + (b - a) <= N
    BY <1>1, AfterWithin
<1>3. 0 \in T
    BY <1>1
<1>4. ASSUME NEW d \in 0..b - a - 1, d \in T PROVE d + 1 \in T
  <2> DEFINE q == b - d - 1
             j == k + (b - a - d) - 1
  <2>1. /\ q \in 0..Len(pattern) - 1 /\ pattern[q + 1] # "*" /\ q + 1 = b - d
        /\ j \in 0..N /\ j # N /\ j + 1 = k + (b - a - d)
    BY <1>1, <1>2
  <2>2. pattern[q + 1] \in {"?", name[j + 1]}
    <3>1. q + 1 = a + (b - a - d) /\ b - a - d \in 1..b - a
        BY <1>1
    <3>2. QED
        BY <2>1, <3>1 DEF Fit
  <2>3. j + 1 \in After(pattern, name, lenient, q + 1)
    BY <1>4, <2>1
  <2>4. j \in After(pattern, name, lenient, q)
    <3> HIDE DEF q, j
    <3>1. QED
        BY <2>1, <2>2, <2>3, AfterOther
  <2>5. q = b - (d + 1) /\ j = k + (b - a - (d + 1)) /\ d + 1 \in 0..b - a
    BY <1>1
  <2>6. QED
    BY <2>4, <2>5
<1>5. b - a \in T
  <2> HIDE DEF T
  <2>1. \A d \in 0..b - a : d \in T
    BY <1>1, <1>3, <1>4, UpTo
  <2>2. QED
    BY <1>1, <2>1
<1>6. b - (b - a) = a /\ k + (b - a - (b - a)) = k
    BY <1>1
<1>7. QED
    BY <1>5, <1>6
-----------------------------------------------------------------------------
(* The end of the name, and symbols that stand for themselves *)

\* If every symbol is lenient, the name may end anywhere.
LEMMA EndAccepted ==
    ASSUME NEW A, NEW pattern \in Seq(A), NEW B, NEW name \in Seq(B), NEW lenient,
           \A i \in 1..Len(pattern) : pattern[i] \in lenient, NEW q \in 0..Len(pattern)
    PROVE  Len(name) \in After(pattern, name, lenient, q)
<1> DEFINE P == Len(pattern)
           N == Len(name)
           T == {n \in 0..P : N \in After(pattern, name, lenient, P - n)}
<1>1. P \in Nat /\ N \in Nat /\ N \in 0..N
    OBVIOUS
<1>2. 0 \in T
    BY <1>1, AfterEnd
<1>3. ASSUME NEW n \in 0..P - 1, n \in T PROVE n + 1 \in T
  <2>1. P - n - 1 \in 0..P - 1 /\ P - n - 1 + 1 = P - n /\ P - n \in 1..P /\ P - (n + 1) = P - n - 1
    BY <1>1
  <2>2. N \in After(pattern, name, lenient, P - n)
    BY <1>3
  <2>3. N \in After(pattern, name, lenient, P - n - 1)
    <3>1. CASE pattern[P - n - 1 + 1] = "*"
      <4>1. N <= N
        BY <1>1
      <4>2. QED
        BY <1>1, <2>1, <2>2, <3>1, <4>1, AfterStar
    <3>2. CASE pattern[P - n - 1 + 1] # "*"
        BY <1>1, <2>1, <3>2, AfterOther
    <3>3. QED
        BY <3>1, <3>2
  <2>4. n + 1 \in 0..P
    BY <1>1
  <2>5. QED
    BY <2>1, <2>3, <2>4
<1>4. \A n \in 0..P : n \in T
  <2> HIDE DEF T
  <2>1. QED
    BY <1>1, <1>2, <1>3, UpTo
<1>5. P - q \in 0..P /\ P - (P - q) = q
    BY <1>1
<1>6. QED
    BY <1>4, <1>5

\* A symbol that stands for itself has to be in the name.
LEMMA SymbolNeeded ==
    ASSUME NEW A, NEW pattern \in Seq(A), NEW B, NEW name \in Seq(B), NEW c, c \notin {"*", "?"},
           NEW h \in 1..Len(pattern), pattern[h] = c, Matches(pattern, name)
    PROVE  \E i \in 1..Len(name) : name[i] = c
<1> DEFINE P == Len(pattern)
           N == Len(name)
           Has(j) == \E i \in j + 1..N : name[i] = c
           T == {n \in 0..P : h <= P - n \/ \A j \in After(pattern, name, {}, P - n) : Has(j)}
<1>1. P \in Nat /\ N \in Nat /\ h \in Nat /\ h >= 1 /\ h <= P
    OBVIOUS
<1>2. 0 \in T
    BY <1>1
<1>3. ASSUME NEW n \in 0..P - 1, n \in T PROVE n + 1 \in T
  <2> DEFINE q == P - n - 1
  <2>1. q \in 0..P - 1 /\ q \in 0..P /\ q + 1 = P - n /\ P - (n + 1) = q /\ n + 1 \in 0..P /\ q + 1 \in 0..P
    BY <1>1
  <2> HIDE DEF q
  <2>2. CASE h <= q
    BY <2>1, <2>2
  <2>3. CASE h > q
    <3>1. SUFFICES ASSUME NEW j \in After(pattern, name, {}, q) PROVE Has(j)
        BY <2>1
    <3>2. j \in 0..N
        BY <2>1, AfterWithin
    <3>3. CASE pattern[q + 1] = "*"
      <4>1. PICK k \in After(pattern, name, {}, q + 1) : j <= k
        BY <2>1, <3>2, <3>3, AfterStar
      <4>2. k \in 0..N
        BY <2>1, AfterWithin
      <4>3. h # q + 1
        BY <3>3
      <4>4. Has(k)
        BY <1>1, <1>3, <2>1, <2>3, <4>3
      <4>5. QED
        BY <1>1, <3>2, <4>1, <4>2, <4>4
    <3>4. CASE pattern[q + 1] # "*"
      <4>1. j # N /\ pattern[q + 1] \in {"?", name[j + 1]} /\ j + 1 \in After(pattern, name, {}, q + 1)
        BY <2>1, <3>2, <3>4, AfterOther
      <4>2. CASE h = q + 1
        <5>1. name[j + 1] = c
            BY <4>1, <4>2
        <5>2. j + 1 \in j + 1..N
            BY <1>1, <3>2, <4>1
        <5>3. QED
            BY <5>1, <5>2
      <4>3. CASE h # q + 1
        <5>1. Has(j + 1)
            BY <1>1, <1>3, <2>1, <2>3, <4>1, <4>3
        <5>2. QED
            BY <1>1, <3>2, <5>1
      <4>4. QED
        BY <4>2, <4>3
    <3>5. QED
        BY <3>3, <3>4
  <2>4. QED
    BY <1>1, <2>1, <2>2, <2>3
<1>4. P \in T
  <2> HIDE DEF T
  <2>1. \A n \in 0..P : n \in T
    BY <1>1, <1>2, <1>3, UpTo
  <2>2. QED
    BY <1>1, <2>1
<1>5. 0 \in After(pattern, name, {}, 0)
    BY AfterAll DEF Matches
<1>6. QED
    BY <1>1, <1>4, <1>5
=============================================================================
