------------------------------ MODULE DataLemmas ------------------------------
(***************************************************************************)
(* What the proofs need of lists of any length: induction over the natural *)
(* numbers, stated of a set of them, for no prover here can instantiate a  *)
(* theorem about a predicate; functions defined by recursion; the order of *)
(* a set by the number of elements ahead; parts of a list; concatenation.  *)
(***************************************************************************)
EXTENDS Selection, SequencesExt, TLAPS, FiniteSetTheorems, SequenceTheorems

LEMMA SetInduction ==
    ASSUME NEW S, 0 \in S, \A n \in Nat : n \in S => n + 1 \in S
    PROVE  Nat \subseteq S
<1> DEFINE R == OpToRel(<, Nat)
<1>1. IsWellFoundedOn(R, Nat)
  BY NatLessThanWellFounded
<1>2. \A m, n \in Nat : m < n => <<m, n>> \in R
  BY DEF OpToRel
<1>3. SUFFICES ASSUME Nat \ S # {} PROVE FALSE
  OBVIOUS
<1> HIDE DEF R
<1>4. PICK x \in Nat \ S : \A y \in Nat \ S : ~(<<y, x>> \in R)
  BY <1>1, <1>3, WFMin
<1>5. x # 0 /\ x - 1 \in Nat /\ x - 1 < x
  BY <1>4
<1>6. x - 1 \in S
  BY <1>2, <1>4, <1>5
<1>7. (x - 1) + 1 \in S
  BY <1>5, <1>6
<1> QED
  BY <1>4, <1>5, <1>7

LEMMA UpToInduction ==
    ASSUME NEW N \in Nat, NEW S, 0 \in S, \A n \in 0 .. N - 1 : n \in S => n + 1 \in S
    PROVE  0 .. N \subseteq S
<1> DEFINE T == {n \in Nat : n <= N => n \in S}
<1>1. 0 \in T
  OBVIOUS
<1>2. \A n \in Nat : n \in T => n + 1 \in T
  OBVIOUS
<1>3. Nat \subseteq T
  <2> HIDE DEF T
  <2> QED
    BY <1>1, <1>2, SetInduction
<1> QED
  BY <1>3

(* A function on 0 .. N, defined from its value before, exists.            *)
Recursion(N, a, step, f) == f = [n \in 0 .. N |-> IF n = 0 THEN a ELSE step[<<n, f[n - 1]>>]]

LEMMA RecursionExists ==
    ASSUME NEW N \in Nat, NEW S, NEW a \in S, NEW step \in [(1 .. N) \X S -> S]
    PROVE  \E f \in [0 .. N -> S] : Recursion(N, a, step, f)
<1> DEFINE T == {n \in 0 .. N : \E f \in [0 .. n -> S] : Recursion(n, a, step, f)}
<1>1. 0 \in T
  <2> DEFINE f == [n \in 0 .. 0 |-> a]
  <2>1. \A n \in 0 .. 0 : n = 0
    OBVIOUS
  <2>2. f = [n \in 0 .. 0 |-> IF n = 0 THEN a ELSE step[<<n, f[n - 1]>>]]
    BY <2>1
  <2>3. 0 \in 0 .. N /\ f \in [0 .. 0 -> S]
    OBVIOUS
  <2> QED
    BY <2>2, <2>3 DEF Recursion
<1>2. ASSUME NEW n \in 0 .. N - 1, n \in T PROVE n + 1 \in T
  <2>1. PICK f \in [0 .. n -> S] : Recursion(n, a, step, f)
    BY <1>2
  <2> DEFINE g == [m \in 0 .. n + 1 |-> IF m = n + 1 THEN step[<<n + 1, f[n]>>] ELSE f[m]]
  <2>2. n + 1 \in 1 .. N /\ f[n] \in S
    OBVIOUS
  <2>3. step[<<n + 1, f[n]>>] \in S
    BY <2>2
  <2>4. g \in [0 .. n + 1 -> S]
    BY <2>3
  <2>5. \A m \in 0 .. n : f[m] = IF m = 0 THEN a ELSE step[<<m, f[m - 1]>>]
    BY <2>1 DEF Recursion
  <2>6. \A m \in 0 .. n + 1 : g[m] = IF m = 0 THEN a ELSE step[<<m, g[m - 1]>>]
    <3> TAKE m \in 0 .. n + 1
    <3>1. CASE m = 0
      <4>1. 0 \in 0 .. n /\ 0 \in 0 .. n + 1 /\ 0 # n + 1
        OBVIOUS
      <4>2. g[0] = f[0] /\ f[0] = a
        BY <2>5, <4>1
      <4> QED
        BY <3>1, <4>2
    <3>2. CASE m = n + 1
      <4>1. n \in 0 .. n + 1 /\ n # n + 1 /\ m - 1 = n /\ m # 0
        BY <3>2
      <4>2. g[m - 1] = f[n] /\ g[m] = step[<<n + 1, f[n]>>]
        BY <3>2, <4>1
      <4> QED
        BY <3>2, <4>1, <4>2
    <3>3. CASE m # 0 /\ m # n + 1
      <4>1. m \in 0 .. n /\ m - 1 \in 0 .. n + 1 /\ m - 1 # n + 1
        BY <3>3
      <4>2. g[m] = f[m] /\ g[m - 1] = f[m - 1]
        BY <3>3, <4>1
      <4> QED
        BY <2>5, <3>3, <4>1, <4>2
    <3> QED
      BY <3>1, <3>2, <3>3
  <2>7. Recursion(n + 1, a, step, g)
    <3> HIDE DEF g
    <3>1. g = [m \in 0 .. n + 1 |-> g[m]]
      BY <2>4
    <3> QED
      BY <2>6, <3>1 DEF Recursion
  <2> QED
    BY <2>4, <2>7
<1>3. 0 .. N \subseteq T
  <2> HIDE DEF T
  <2> QED
    BY <1>1, <1>2, UpToInduction
<1> QED
  BY <1>3

(* So does one on all natural numbers. *)
NatRecursion(a, step, f) == f = [n \in Nat |-> IF n = 0 THEN a ELSE step[<<n, f[n - 1]>>]]

LEMMA NatRecursionExists ==
    ASSUME NEW S, NEW a \in S, NEW step \in [(Nat \ {0}) \X S -> S]
    PROVE  \E f \in [Nat -> S] : NatRecursion(a, step, f)
<1> DEFINE Is(n, f) == /\ f \in [0 .. n -> S]
                       /\ \A m \in 0 .. n : f[m] = IF m = 0 THEN a ELSE step[<<m, f[m - 1]>>]
           upTo == [n \in Nat |-> CHOOSE f : Is(n, f)]
           g == [n \in Nat |-> upTo[n][n]]
<1>1. ASSUME NEW n \in Nat PROVE Is(n, upTo[n])
  <2> DEFINE part == [p \in (1 .. n) \X S |-> step[p]]
  <2>1. part \in [(1 .. n) \X S -> S]
    OBVIOUS
  <2>2. \A m \in 1 .. n : \A x \in S : part[<<m, x>>] = step[<<m, x>>]
    OBVIOUS
  <2> HIDE DEF part
  <2>3. PICK f \in [0 .. n -> S] : Recursion(n, a, part, f)
    BY <2>1, RecursionExists
  <2>4. \A m \in 0 .. n : f[m] = IF m = 0 THEN a ELSE part[<<m, f[m - 1]>>]
    BY <2>3 DEF Recursion
  <2>5. ASSUME NEW m \in 0 .. n PROVE f[m] = IF m = 0 THEN a ELSE step[<<m, f[m - 1]>>]
    <3>1. m # 0 => m \in 1 .. n /\ m - 1 \in 0 .. n
      OBVIOUS
    <3>2. m # 0 => part[<<m, f[m - 1]>>] = step[<<m, f[m - 1]>>]
      BY <2>2, <3>1
    <3> QED
      BY <2>4, <3>2
  <2>6. Is(n, f)
    BY <2>5
  <2> HIDE DEF Is
  <2> QED
    BY <2>6
<1> HIDE DEF upTo
<1>2. ASSUME NEW n \in Nat PROVE upTo[n] \in [0 .. n -> S] /\ upTo[n][n] \in S
  <2>1. upTo[n] \in [0 .. n -> S]
    BY <1>1
  <2>2. n \in 0 .. n
    OBVIOUS
  <2> QED
    BY <2>1, <2>2
<1>3. ASSUME NEW n \in Nat PROVE upTo[n + 1][n] = upTo[n][n]
  <2> DEFINE f == upTo[n]
             h == upTo[n + 1]
             T == {k \in 0 .. n : f[k] = h[k]}
  <2>1. /\ \A m \in 0 .. n : f[m] = IF m = 0 THEN a ELSE step[<<m, f[m - 1]>>]
        /\ \A m \in 0 .. n + 1 : h[m] = IF m = 0 THEN a ELSE step[<<m, h[m - 1]>>]
    <3>1. Is(n, f) /\ Is(n + 1, h)
      BY <1>1
    <3> HIDE DEF f, h
    <3> QED
      BY <3>1
  <2> HIDE DEF f, h
  <2>2. 0 \in T
    <3>1. 0 \in 0 .. n /\ 0 \in 0 .. n + 1
      OBVIOUS
    <3> QED
      BY <2>1, <3>1
  <2>3. ASSUME NEW k \in 0 .. n - 1, k \in T PROVE k + 1 \in T
    <3>1. k + 1 \in 0 .. n /\ k + 1 \in 0 .. n + 1 /\ k + 1 # 0 /\ (k + 1) - 1 = k /\ f[k] = h[k]
      BY <2>3
    <3>2. f[k + 1] = step[<<k + 1, f[(k + 1) - 1]>>] /\ h[k + 1] = step[<<k + 1, h[(k + 1) - 1]>>]
      BY <2>1, <3>1
    <3> QED
      BY <3>1, <3>2
  <2>4. 0 .. n \subseteq T
    <3> HIDE DEF T
    <3> QED
      BY <2>2, <2>3, UpToInduction
  <2>5. n \in 0 .. n
    OBVIOUS
  <2> QED
    BY <2>4, <2>5 DEF f, h
<1>4. g \in [Nat -> S]
  BY <1>2
<1>5. ASSUME NEW n \in Nat PROVE g[n] = IF n = 0 THEN a ELSE step[<<n, g[n - 1]>>]
  <2>1. n \in 0 .. n /\ g[n] = upTo[n][n]
    OBVIOUS
  <2>2. upTo[n][n] = IF n = 0 THEN a ELSE step[<<n, upTo[n][n - 1]>>]
    BY <1>1, <2>1
  <2>3. CASE n = 0
    BY <2>1, <2>2, <2>3
  <2>4. CASE n # 0
    <3>1. n - 1 \in Nat /\ (n - 1) + 1 = n
      BY <2>4
    <3>2. upTo[(n - 1) + 1][n - 1] = upTo[n - 1][n - 1]
      BY <1>3, <3>1
    <3>3. g[n - 1] = upTo[n - 1][n - 1]
      BY <3>1
    <3> QED
      BY <2>1, <2>2, <2>4, <3>1, <3>2, <3>3
  <2> QED
    BY <2>3, <2>4
<1>6. NatRecursion(a, step, g)
  <2> HIDE DEF g
  <2>1. g = [n \in Nat |-> g[n]]
    BY <1>4
  <2> QED
    BY <1>5, <2>1 DEF NatRecursion
<1> HIDE DEF g
<1> QED
  BY <1>4, <1>6

-----------------------------------------------------------------------------
(* Numbers. *)

LEMMA MinOfTwo ==
    ASSUME NEW a \in Int, NEW b \in Int
    PROVE  Min({a, b}) = IF a <= b THEN a ELSE b
BY DEF Min

LEMMA MaxOfTwo ==
    ASSUME NEW a \in Int, NEW b \in Int
    PROVE  Max({a, b}) = IF a >= b THEN a ELSE b
BY DEF Max

LEMMA ProductGrows ==
    ASSUME NEW a \in Int, NEW b \in Int, NEW c \in Nat, a <= b
    PROVE  a * c <= b * c
OBVIOUS

LEMMA ProductCancels ==
    ASSUME NEW a \in Int, NEW b \in Int, NEW c \in Nat \ {0}, a * c = b * c
    PROVE  a = b
OBVIOUS

-----------------------------------------------------------------------------
(* Orders and parts of a list. *)

Ahead(S, R, i) == {j \in S : <<j, i>> \in R}

(* The elements of a finite set, each at the place that the number of those *)
(* ahead of it gives it; <<j, i>> \in R: j goes before i.                   *)
Ranking(S, R) ==
    [k \in 1 .. Cardinality(S) |-> CHOOSE i \in S : Cardinality(Ahead(S, R, i)) = k - 1]

StrictOrder(R, S) ==
    /\ \A i \in S : <<i, i>> \notin R
    /\ \A i, j, k \in S : <<i, j>> \in R /\ <<j, k>> \in R => <<i, k>> \in R
    /\ \A i, j \in S : i = j \/ <<i, j>> \in R \/ <<j, i>> \in R

LEMMA FewerAhead ==
    ASSUME NEW S, IsFiniteSet(S), NEW R, StrictOrder(R, S), NEW i \in S, NEW j \in S
    PROVE  /\ IsFiniteSet(Ahead(S, R, i))
           /\ Cardinality(Ahead(S, R, i)) \in 0 .. Cardinality(S) - 1
           /\ <<i, j>> \in R <=> Cardinality(Ahead(S, R, i)) < Cardinality(Ahead(S, R, j))
<1>1. ASSUME NEW x \in S
      PROVE  /\ IsFiniteSet(Ahead(S, R, x))
             /\ Cardinality(Ahead(S, R, x)) \in 0 .. Cardinality(S) - 1
  <2>1. Cardinality(S) \in Nat
    BY FS_CardinalityType
  <2>2. IsFiniteSet(S \ {x}) /\ Cardinality(S \ {x}) = Cardinality(S) - 1
    BY FS_RemoveElement
  <2>3. Ahead(S, R, x) \in SUBSET (S \ {x})
    BY DEF Ahead, StrictOrder
  <2>4. IsFiniteSet(Ahead(S, R, x)) /\ Cardinality(Ahead(S, R, x)) <= Cardinality(S) - 1
    BY <2>2, <2>3, FS_Subset
  <2>5. Cardinality(Ahead(S, R, x)) \in Nat
    BY <2>4, FS_CardinalityType
  <2> QED
    BY <2>1, <2>4, <2>5
<1>2. ASSUME NEW x \in S, NEW y \in S, <<x, y>> \in R
      PROVE  Cardinality(Ahead(S, R, x)) < Cardinality(Ahead(S, R, y))
  <2>1. Cardinality(Ahead(S, R, x)) \in Nat /\ Cardinality(Ahead(S, R, y)) \in Nat
    BY <1>1
  <2>2. x \notin Ahead(S, R, x)
    BY DEF Ahead, StrictOrder
  <2>3. IsFiniteSet(Ahead(S, R, x) \cup {x}) /\ Cardinality(Ahead(S, R, x) \cup {x}) = Cardinality(Ahead(S, R, x)) + 1
    BY <1>1, <2>2, FS_AddElement
  <2>4. Ahead(S, R, x) \cup {x} \in SUBSET Ahead(S, R, y)
    BY <1>2 DEF Ahead, StrictOrder
  <2>5. Cardinality(Ahead(S, R, x) \cup {x}) <= Cardinality(Ahead(S, R, y))
    BY <1>1, <2>4, FS_Subset
  <2> QED
    BY <2>1, <2>3, <2>5
<1>3. <<i, j>> \in R \/ <<j, i>> \in R \/ i = j
  BY DEF StrictOrder
<1>4. Cardinality(Ahead(S, R, i)) \in Nat /\ Cardinality(Ahead(S, R, j)) \in Nat
  BY <1>1
<1>5. <<i, j>> \in R <=> Cardinality(Ahead(S, R, i)) < Cardinality(Ahead(S, R, j))
  BY <1>2, <1>3, <1>4
<1> QED
  BY <1>1, <1>5

(* Every element of an ordered set has one place of its own.               *)
LEMMA RankingIsAPermutation ==
    ASSUME NEW S, IsFiniteSet(S), NEW R, StrictOrder(R, S)
    PROVE  /\ Cardinality(S) \in Nat
           /\ Ranking(S, R) \in [1 .. Cardinality(S) -> S]
           /\ \A k \in 1 .. Cardinality(S) : Cardinality(Ahead(S, R, Ranking(S, R)[k])) = k - 1
           /\ \A j, k \in 1 .. Cardinality(S) : j < k <=> <<Ranking(S, R)[j], Ranking(S, R)[k]>> \in R
           /\ \A j, k \in 1 .. Cardinality(S) : Ranking(S, R)[j] = Ranking(S, R)[k] => j = k
           /\ \A i \in S : \E k \in 1 .. Cardinality(S) : Ranking(S, R)[k] = i
<1> DEFINE C == Cardinality(S)
           place == [i \in S |-> Cardinality(Ahead(S, R, i))]
           r == Ranking(S, R)
<1>1. C \in Nat
  BY FS_CardinalityType
<1>2. place \in [S -> 0 .. C - 1]
  BY FewerAhead
<1>3. \A i, j \in S : place[i] = place[j] => i = j
  <2> SUFFICES ASSUME NEW i \in S, NEW j \in S, place[i] = place[j] PROVE i = j
    OBVIOUS
  <2>1. place[i] \in Nat /\ place[j] \in Nat
    BY <1>2
  <2>2. ~(<<i, j>> \in R) /\ ~(<<j, i>> \in R)
    BY <2>1, FewerAhead
  <2> QED
    BY <2>2 DEF StrictOrder
<1>4. IsFiniteSet(0 .. C - 1) /\ Cardinality(0 .. C - 1) = C
  <2>1. 0 \in Int /\ C - 1 \in Int
    BY <1>1
  <2>2. IsFiniteSet(0 .. C - 1) /\ Cardinality(0 .. C - 1) = IF 0 > C - 1 THEN 0 ELSE (C - 1) - 0 + 1
    BY <2>1, FS_Interval
  <2> QED
    BY <1>1, <2>2
<1>5. place \in Injection(S, 0 .. C - 1)
  BY <1>2, <1>3 DEF Injection, IsInjective
<1>6. place \in Surjection(S, 0 .. C - 1)
  BY <1>4, <1>5, FS_Injection
<1>7. \A n \in 0 .. C - 1 : \E i \in S : place[i] = n
  BY <1>6 DEF Surjection
<1>8. r = [k \in 1 .. C |-> CHOOSE i \in S : Cardinality(Ahead(S, R, i)) = k - 1]
  BY DEF Ranking
<1>9. \A k \in 1 .. C : r[k] \in S /\ place[r[k]] = k - 1
  <2> TAKE k \in 1 .. C
  <2>1. \E i \in S : Cardinality(Ahead(S, R, i)) = k - 1
    BY <1>1, <1>7
  <2>2. r[k] \in S /\ Cardinality(Ahead(S, R, r[k])) = k - 1
    BY <1>8, <2>1
  <2> QED
    BY <2>2
<1>10. r \in [1 .. C -> S]
  BY <1>8, <1>9
<1>11. \A k \in 1 .. C : Cardinality(Ahead(S, R, r[k])) = k - 1
  BY <1>9
<1>12. \A j, k \in 1 .. C : j < k <=> <<r[j], r[k]>> \in R
  <2> TAKE j, k \in 1 .. C
  <2>1. r[j] \in S /\ r[k] \in S /\ Cardinality(Ahead(S, R, r[j])) = j - 1 /\ Cardinality(Ahead(S, R, r[k])) = k - 1
    BY <1>9, <1>11
  <2>2. <<r[j], r[k]>> \in R <=> j - 1 < k - 1
    BY <2>1, FewerAhead
  <2> QED
    BY <2>2
<1>13. \A j, k \in 1 .. C : r[j] = r[k] => j = k
  <2> SUFFICES ASSUME NEW j \in 1 .. C, NEW k \in 1 .. C, r[j] = r[k] PROVE j = k
    OBVIOUS
  <2>1. j - 1 = k - 1
    BY <1>11
  <2> QED
    BY <1>1, <2>1
<1>14. \A i \in S : \E k \in 1 .. C : r[k] = i
  <2> TAKE i \in S
  <2>1. place[i] \in 0 .. C - 1
    BY <1>2
  <2>2. place[i] + 1 \in 1 .. C /\ (place[i] + 1) - 1 = place[i]
    BY <1>1, <2>1
  <2>3. r[place[i] + 1] \in S /\ place[r[place[i] + 1]] = place[i]
    BY <1>9, <2>2
  <2> QED
    BY <1>3, <2>2, <2>3
<1> QED
  BY <1>1, <1>10, <1>11, <1>12, <1>13, <1>14

(* The part of a list at some positions: each of them once, in order.      *)
Increasing(at, positions, n) ==
    /\ at \in Seq(positions)
    /\ \A k \in 1 .. Len(at) : at[k] <= n
    /\ \A j, k \in 1 .. Len(at) : j < k => at[j] < at[k]
    /\ \A i \in positions : i <= n => \E k \in 1 .. Len(at) : at[k] = i

IsPart(s, positions, n, part, at) ==
    /\ Increasing(at, positions, n)
    /\ Len(part) = Len(at)
    /\ \A k \in 1 .. Len(at) : part[k] = s[at[k]]

LEMMA KeptByPrefix ==
    ASSUME NEW T, NEW s \in Seq(T), NEW positions
    PROVE  \E f \in [0 .. Len(s) -> Seq(T)] :
              /\ f[0] = <<>>
              /\ \A n \in 1 .. Len(s) : f[n] = IF n \in positions THEN Append(f[n - 1], s[n]) ELSE f[n - 1]
              /\ Kept(s, positions) = f[Len(s)]
<1> DEFINE N == Len(s)
           step == [p \in (1 .. N) \X Seq(T) |-> IF p[1] \in positions THEN Append(p[2], s[p[1]]) ELSE p[2]]
           is(f) == f = [n \in 0 .. N |-> IF n = 0 THEN <<>>
                                          ELSE IF n \in positions THEN Append(f[n - 1], s[n]) ELSE f[n - 1]]
           kept == CHOOSE f : is(f)
<1>1. N \in Nat /\ \A n \in 1 .. N : s[n] \in T
  BY LenProperties, ElementOfSeq
<1>2. step \in [(1 .. N) \X Seq(T) -> Seq(T)]
  BY <1>1, AppendProperties
<1>3. PICK g \in [0 .. N -> Seq(T)] : Recursion(N, <<>>, step, g)
  <2>1. <<>> \in Seq(T)
    BY EmptySeq
  <2> HIDE DEF step
  <2> QED
    BY <1>1, <1>2, <2>1, RecursionExists
<1>4. \A n \in 0 .. N : g[n] = IF n = 0 THEN <<>> ELSE step[<<n, g[n - 1]>>]
  BY <1>3 DEF Recursion
<1>5. \A n \in 1 .. N : g[n] = IF n \in positions THEN Append(g[n - 1], s[n]) ELSE g[n - 1]
  <2> TAKE n \in 1 .. N
  <2>1. n \in 0 .. N /\ n # 0 /\ n - 1 \in 0 .. N
    BY <1>1
  <2>2. g[n] = step[<<n, g[n - 1]>>] /\ <<n, g[n - 1]>> \in (1 .. N) \X Seq(T)
    BY <1>4, <2>1
  <2> QED
    BY <2>2
<1> HIDE DEF step
<1>6. g[0] = <<>>
  <2>1. 0 \in 0 .. N
    BY <1>1
  <2> QED
    BY <1>4, <2>1
<1>7. is(g)
  <2>1. \A n \in 0 .. N : g[n] = IF n = 0 THEN <<>>
                                 ELSE IF n \in positions THEN Append(g[n - 1], s[n]) ELSE g[n - 1]
    <3> TAKE n \in 0 .. N
    <3>1. n = 0 \/ n \in 1 .. N
      BY <1>1
    <3> QED
      BY <1>1, <1>5, <1>6, <3>1
  <2> QED
    BY <2>1
<1>8. is(kept)
  <2> HIDE DEF is
  <2> QED
    BY <1>7
<1>9. Kept(s, positions) = kept[N]
  BY DEF Kept
<1> HIDE DEF kept
<1>10. \A n \in 0 .. N : kept[n] = IF n = 0 THEN <<>>
                                   ELSE IF n \in positions THEN Append(kept[n - 1], s[n]) ELSE kept[n - 1]
  BY <1>8
<1> DEFINE S == {n \in 0 .. N : kept[n] = g[n]}
<1>11. 0 \in S
  BY <1>1, <1>6, <1>10
<1>12. ASSUME NEW n \in 0 .. N - 1, n \in S PROVE n + 1 \in S
  <2>1. n + 1 \in 1 .. N /\ n + 1 \in 0 .. N /\ n + 1 # 0 /\ (n + 1) - 1 = n
    BY <1>1
  <2>2. kept[n + 1] = IF n + 1 \in positions THEN Append(kept[(n + 1) - 1], s[n + 1]) ELSE kept[(n + 1) - 1]
    BY <1>10, <2>1
  <2>3. g[n + 1] = IF n + 1 \in positions THEN Append(g[(n + 1) - 1], s[n + 1]) ELSE g[(n + 1) - 1]
    BY <1>5, <2>1
  <2> QED
    BY <1>12, <2>1, <2>2, <2>3
<1>13. 0 .. N \subseteq S
  <2> HIDE DEF S
  <2> QED
    BY <1>1, <1>11, <1>12, UpToInduction
<1>14. kept[N] = g[N]
  BY <1>1, <1>13
<1> QED
  BY <1>3, <1>5, <1>6, <1>9, <1>14

LEMMA AppendIsPart ==
    ASSUME NEW T, NEW s \in Seq(T), NEW positions \in SUBSET DOMAIN s, NEW n \in Nat, n + 1 \in DOMAIN s,
           NEW part \in Seq(T), NEW at, IsPart(s, positions, n, part, at)
    PROVE  \E at2 : IsPart(s, positions, n + 1, IF n + 1 \in positions THEN Append(part, s[n + 1]) ELSE part, at2)
<1>1. /\ at \in Seq(positions)
      /\ \A k \in 1 .. Len(at) : at[k] <= n
      /\ \A j, k \in 1 .. Len(at) : j < k => at[j] < at[k]
      /\ \A i \in positions : i <= n => \E k \in 1 .. Len(at) : at[k] = i
      /\ Len(part) = Len(at)
      /\ \A k \in 1 .. Len(at) : part[k] = s[at[k]]
  BY DEF IsPart, Increasing
<1>2. positions \subseteq Int /\ Len(at) \in Nat /\ s[n + 1] \in T
  BY <1>1, LenProperties, ElementOfSeq
<1>3. \A k \in 1 .. Len(at) : at[k] \in Int
  BY <1>1, <1>2, ElementOfSeq
<1>4. CASE n + 1 \notin positions
  <2>1. \A k \in 1 .. Len(at) : at[k] <= n + 1
    BY <1>1, <1>3
  <2>2. \A i \in positions : i <= n + 1 => i <= n
    BY <1>2, <1>4
  <2>3. IsPart(s, positions, n + 1, part, at)
    BY <1>1, <2>1, <2>2 DEF IsPart, Increasing
  <2> QED
    BY <1>4, <2>3
<1>5. CASE n + 1 \in positions
  <2> DEFINE at2 == Append(at, n + 1)
             longer == Append(part, s[n + 1])
             la == Len(at)
  <2>1. /\ at2 \in Seq(positions) /\ Len(at2) = la + 1
        /\ \A k \in 1 .. la : at2[k] = at[k]
        /\ at2[la + 1] = n + 1
    BY <1>1, <1>5, AppendProperties
  <2>2. /\ Len(longer) = la + 1
        /\ \A k \in 1 .. la : longer[k] = part[k]
        /\ longer[la + 1] = s[n + 1]
    BY <1>1, <1>2, AppendProperties
  <2> HIDE DEF at2, longer
  <2>3. \A k \in 1 .. la + 1 : k \in 1 .. la \/ k = la + 1
    BY <1>2
  <2>4. \A k \in 1 .. la + 1 : at2[k] <= n + 1
    <3> TAKE k \in 1 .. la + 1
    <3>1. CASE k = la + 1
      BY <2>1, <3>1
    <3>2. CASE k \in 1 .. la
      <4>1. at2[k] = at[k] /\ at[k] <= n /\ at[k] \in Int
        BY <1>1, <1>3, <2>1, <3>2
      <4> QED
        BY <4>1
    <3> QED
      BY <2>3, <3>1, <3>2
  <2>5. ASSUME NEW j \in 1 .. la + 1, NEW k \in 1 .. la + 1, j < k PROVE at2[j] < at2[k]
    <3>1. j \in 1 .. la
      BY <1>2, <2>5
    <3>2. CASE k \in 1 .. la
      BY <1>1, <2>1, <2>5, <3>1, <3>2
    <3>3. CASE k = la + 1
      <4>1. at2[j] = at[j] /\ at[j] <= n /\ at[j] \in Int
        BY <1>1, <1>3, <2>1, <3>1
      <4> QED
        BY <2>1, <3>3, <4>1
    <3> QED
      BY <2>3, <3>2, <3>3
  <2>6. ASSUME NEW i \in positions, i <= n + 1 PROVE \E k \in 1 .. la + 1 : at2[k] = i
    <3>1. CASE i = n + 1
      <4>1. la + 1 \in 1 .. la + 1
        BY <1>2
      <4> QED
        BY <2>1, <3>1, <4>1
    <3>2. CASE i # n + 1
      <4>1. i <= n
        BY <1>2, <2>6, <3>2
      <4>2. PICK k \in 1 .. la : at[k] = i
        BY <1>1, <4>1
      <4>3. k \in 1 .. la + 1
        BY <1>2
      <4> QED
        BY <2>1, <4>2, <4>3
    <3> QED
      BY <3>1, <3>2
  <2>7. \A k \in 1 .. la + 1 : longer[k] = s[at2[k]]
    BY <1>1, <2>1, <2>2, <2>3
  <2>8. IsPart(s, positions, n + 1, longer, at2)
    BY <2>1, <2>2, <2>4, <2>5, <2>6, <2>7 DEF IsPart, Increasing
  <2> QED
    BY <1>5, <2>8 DEF longer
<1> QED
  BY <1>4, <1>5

LEMMA KeptIsAPart ==
    ASSUME NEW T, NEW s \in Seq(T), NEW positions \in SUBSET DOMAIN s
    PROVE  /\ Kept(s, positions) \in Seq(T)
           /\ \E at : IsPart(s, positions, Len(s), Kept(s, positions), at)
<1> DEFINE N == Len(s)
<1>1. N \in Nat /\ DOMAIN s = 1 .. N
  BY LenProperties
<1>2. PICK f \in [0 .. N -> Seq(T)] :
              /\ f[0] = <<>>
              /\ \A n \in 1 .. N : f[n] = IF n \in positions THEN Append(f[n - 1], s[n]) ELSE f[n - 1]
              /\ Kept(s, positions) = f[N]
  BY KeptByPrefix
<1> DEFINE S == {n \in 0 .. N : \E at : IsPart(s, positions, n, f[n], at)}
<1>3. 0 \in S
  <2>1. <<>> \in Seq(positions) /\ Len(<<>>) = 0
    BY EmptySeq
  <2>2. \A i \in positions : ~(i <= 0)
    BY <1>1
  <2>3. \A k : k \notin 1 .. 0
    OBVIOUS
  <2>4. IsPart(s, positions, 0, <<>>, <<>>)
    BY <2>1, <2>2, <2>3 DEF IsPart, Increasing
  <2> QED
    BY <1>1, <1>2, <2>4
<1>4. ASSUME NEW n \in 0 .. N - 1, n \in S PROVE n + 1 \in S
  <2>1. PICK at : IsPart(s, positions, n, f[n], at)
    BY <1>4
  <2>2. n + 1 \in 1 .. N /\ n \in 0 .. N /\ (n + 1) - 1 = n /\ n \in Nat /\ n + 1 \in 0 .. N
    BY <1>1
  <2>3. f[n] \in Seq(T)
    BY <2>2
  <2>4. f[n + 1] = IF n + 1 \in positions THEN Append(f[(n + 1) - 1], s[n + 1]) ELSE f[(n + 1) - 1]
    BY <1>2, <2>2
  <2>5. f[n + 1] = IF n + 1 \in positions THEN Append(f[n], s[n + 1]) ELSE f[n]
    BY <2>2, <2>4
  <2>6. \E at2 : IsPart(s, positions, n + 1, f[n + 1], at2)
    <3> HIDE DEF S
    <3> QED
      BY <1>1, <2>1, <2>2, <2>3, <2>5, AppendIsPart
  <2> QED
    BY <2>2, <2>6
<1>5. 0 .. N \subseteq S
  <2> HIDE DEF S
  <2> QED
    BY <1>1, <1>3, <1>4, UpToInduction
<1>6. N \in 0 .. N
  BY <1>1
<1>7. N \in S /\ f[N] \in Seq(T)
  BY <1>2, <1>5, <1>6
<1> QED
  BY <1>2, <1>7

(* What the proofs about a part of a list most often need.                 *)
LEMMA KeptHasOnlySuch ==
    ASSUME NEW T, NEW s \in Seq(T), NEW positions \in SUBSET DOMAIN s
    PROVE  /\ Kept(s, positions) \in Seq(T)
           /\ \A k \in DOMAIN Kept(s, positions) : \E i \in positions : Kept(s, positions)[k] = s[i]
           /\ \A i \in positions : \E k \in DOMAIN Kept(s, positions) : Kept(s, positions)[k] = s[i]
<1> DEFINE kept == Kept(s, positions)
<1>1. kept \in Seq(T)
  BY KeptIsAPart
<1>2. PICK at : IsPart(s, positions, Len(s), kept, at)
  BY KeptIsAPart
<1>3. DOMAIN kept = 1 .. Len(kept) /\ DOMAIN s = 1 .. Len(s) /\ Len(s) \in Nat
  BY <1>1, LenProperties
<1> HIDE DEF kept
<1>4. /\ at \in Seq(positions) /\ Len(kept) = Len(at)
      /\ \A k \in 1 .. Len(at) : kept[k] = s[at[k]]
      /\ \A i \in positions : i <= Len(s) => \E k \in 1 .. Len(at) : at[k] = i
  BY <1>2 DEF IsPart, Increasing
<1>5. \A k \in 1 .. Len(at) : at[k] \in positions
  BY <1>4, ElementOfSeq
<1>6. \A i \in positions : i <= Len(s)
  BY <1>3
<1>7. \A k \in DOMAIN kept : \E i \in positions : kept[k] = s[i]
  BY <1>3, <1>4, <1>5
<1>8. \A i \in positions : \E k \in DOMAIN kept : kept[k] = s[i]
  BY <1>3, <1>4, <1>6
<1> QED
  BY <1>1, <1>7, <1>8 DEF kept

-----------------------------------------------------------------------------
(* Concatenation of a list of lists. *)

(* FlattenSeq, as what it has put together after each of the lists.        *)
Concatenates(seqs, f) ==
    /\ f[0] = <<>>
    /\ \A n \in 1 .. Len(seqs) : f[n] = f[n - 1] \o seqs[n]
    /\ FlattenSeq(seqs) = f[Len(seqs)]

LEMMA FlattenByPrefix ==
    ASSUME NEW T, NEW seqs \in Seq(Seq(T))
    PROVE  \E f \in [0 .. Len(seqs) -> Seq(T)] : Concatenates(seqs, f)
<1> DEFINE N == Len(seqs)
           step == [p \in (1 .. N) \X Seq(T) |-> p[2] \o seqs[p[1]]]
<1>1. N \in Nat /\ DOMAIN seqs = 1 .. N /\ \A n \in 1 .. N : seqs[n] \in Seq(T)
  BY LenProperties, ElementOfSeq
<1>2. step \in [(1 .. N) \X Seq(T) -> Seq(T)]
  BY <1>1, ConcatProperties
<1>3. PICK g \in [0 .. N -> Seq(T)] : Recursion(N, <<>>, step, g)
  <2>1. <<>> \in Seq(T)
    BY EmptySeq
  <2> HIDE DEF step
  <2> QED
    BY <1>1, <1>2, <2>1, RecursionExists
<1>4. g[0] = <<>> /\ \A n \in 1 .. N : g[n] = g[n - 1] \o seqs[n]
  <2>1. \A n \in 0 .. N : g[n] = IF n = 0 THEN <<>> ELSE step[<<n, g[n - 1]>>]
    BY <1>3 DEF Recursion
  <2>2. 0 \in 0 .. N
    BY <1>1
  <2>3. ASSUME NEW n \in 1 .. N PROVE g[n] = g[n - 1] \o seqs[n]
    <3>1. n \in 0 .. N /\ n # 0 /\ n - 1 \in 0 .. N
      BY <1>1
    <3>2. g[n] = step[<<n, g[n - 1]>>] /\ <<n, g[n - 1]>> \in (1 .. N) \X Seq(T)
      BY <2>1, <3>1
    <3> QED
      BY <3>2
  <2> QED
    BY <2>1, <2>2, <2>3
<1> HIDE DEF step
<1>5. CASE N = 0
  <2>1. FlattenSeq(seqs) = seqs /\ seqs = <<>>
    BY <1>1, <1>5, EmptySeq DEF FlattenSeq
  <2> QED
    BY <1>3, <1>4, <1>5, <2>1 DEF Concatenates
<1>6. CASE N # 0
  <2> DEFINE is(fl) == fl = [i \in 1 .. N |-> IF i = 1 THEN seqs[i] ELSE fl[i - 1] \o seqs[i]]
             h == [n \in 1 .. N |-> g[n]]
             flat == CHOOSE flatten : is(flatten)
  <2>1. is(h)
    <3>1. \A n \in 1 .. N : h[n] = IF n = 1 THEN seqs[n] ELSE h[n - 1] \o seqs[n]
      <4> TAKE n \in 1 .. N
      <4>1. CASE n = 1
        <5>1. g[n] = g[n - 1] \o seqs[n] /\ n - 1 = 0 /\ seqs[n] \in Seq(T)
          BY <1>1, <1>4, <4>1
        <5>2. g[n] = seqs[n]
          BY <1>4, <5>1, ConcatEmptySeq
        <5> QED
          BY <4>1, <5>2
      <4>2. CASE n # 1
        <5>1. n - 1 \in 1 .. N
          BY <1>1, <4>2
        <5>2. g[n] = g[n - 1] \o seqs[n] /\ h[n] = g[n] /\ h[n - 1] = g[n - 1]
          BY <1>4, <5>1
        <5> QED
          BY <4>2, <5>2
      <4> QED
        BY <4>1, <4>2
    <3> QED
      BY <3>1
  <2>2. is(flat)
    <3> HIDE DEF is, h
    <3> QED
      BY <2>1
  <2>3. FlattenSeq(seqs) = flat[N]
    BY <1>6 DEF FlattenSeq
  <2> HIDE DEF flat
  <2>4. \A n \in 1 .. N : flat[n] = IF n = 1 THEN seqs[n] ELSE flat[n - 1] \o seqs[n]
    BY <2>2
  <2> DEFINE S == {n \in 0 .. N : n > 0 => flat[n] = g[n]}
  <2>5. 0 \in S
    BY <1>1
  <2>6. \A n \in 0 .. N - 1 : n \in S => n + 1 \in S
    <3> SUFFICES ASSUME NEW n \in 0 .. N - 1, n \in S PROVE n + 1 \in S
      OBVIOUS
    <3>1. n + 1 \in 1 .. N /\ n + 1 \in 0 .. N /\ (n + 1) - 1 = n
      BY <1>1
    <3>2. g[n + 1] = g[(n + 1) - 1] \o seqs[n + 1] /\ seqs[n + 1] \in Seq(T)
      BY <1>1, <1>4, <3>1
    <3>3. flat[n + 1] = IF n + 1 = 1 THEN seqs[n + 1] ELSE flat[(n + 1) - 1] \o seqs[n + 1]
      BY <2>4, <3>1
    <3>4. flat[n + 1] = g[n + 1]
      <4>1. CASE n = 0
        <5>1. g[n + 1] = seqs[n + 1]
          BY <1>4, <3>1, <3>2, <4>1, ConcatEmptySeq
        <5> QED
          BY <3>3, <4>1, <5>1
      <4>2. CASE n # 0
        <5>1. n + 1 # 1 /\ flat[n] = g[n]
          BY <4>2
        <5> QED
          BY <3>1, <3>2, <3>3, <5>1
      <4> QED
        BY <4>1, <4>2
    <3> QED
      BY <3>1, <3>4
  <2>7. 0 .. N \subseteq S
    <3> HIDE DEF S
    <3> QED
      BY <1>1, <2>5, <2>6, UpToInduction
  <2>8. flat[N] = g[N]
    BY <1>1, <1>6, <2>7
  <2> QED
    BY <1>3, <1>4, <2>3, <2>8 DEF Concatenates
<1> QED
  BY <1>5, <1>6

(* Every element of a concatenation stands at a place of its own in one of *)
(* the lists.                                                              *)
At(seqs, x, p) == p[1] \in DOMAIN seqs /\ p[2] \in DOMAIN seqs[p[1]] /\ x = seqs[p[1]][p[2]]

Located(seqs, n, s, at) ==
    /\ at \in [DOMAIN s -> Nat \X Nat]
    /\ \A k \in DOMAIN s : At(seqs, s[k], at[k]) /\ at[k][1] <= n
    /\ \A j, k \in DOMAIN s : at[j] = at[k] => j = k

LEMMA ConcatIsLocated ==
    ASSUME NEW T, NEW seqs \in Seq(Seq(T)), NEW n \in Nat, n + 1 \in DOMAIN seqs,
           NEW a \in Seq(T), NEW at, Located(seqs, n, a, at)
    PROVE  \E at2 : Located(seqs, n + 1, a \o seqs[n + 1], at2)
<1> DEFINE b == seqs[n + 1]
           c == a \o b
           la == Len(a)
           at2 == [k \in DOMAIN c |-> IF k <= la THEN at[k] ELSE <<n + 1, k - la>>]
<1>1. b \in Seq(T)
  BY LenProperties, ElementOfSeq
<1>2. /\ la \in Nat /\ Len(b) \in Nat
      /\ DOMAIN a = 1 .. la /\ DOMAIN b = 1 .. Len(b)
  BY <1>1, LenProperties
<1>3. /\ c \in Seq(T) /\ DOMAIN c = 1 .. la + Len(b)
      /\ \A k \in 1 .. la + Len(b) : c[k] = IF k <= la THEN a[k] ELSE b[k - la]
  BY <1>1, ConcatProperties, LenProperties
<1> HIDE DEF b, c, la
<1>4. \A m \in DOMAIN c : m <= la => m \in DOMAIN a /\ c[m] = a[m] /\ at2[m] = at[m]
  BY <1>2, <1>3
<1>5. \A m \in DOMAIN c : m > la => m - la \in DOMAIN b /\ c[m] = b[m - la] /\ at2[m] = <<n + 1, m - la>>
  BY <1>2, <1>3
<1>6. DOMAIN at2 = DOMAIN c /\ at2 = [k \in DOMAIN c |-> at2[k]]
  OBVIOUS
<1>7. DOMAIN c \subseteq Int /\ DOMAIN b \subseteq Nat
  BY <1>2, <1>3
<1> HIDE DEF at2
<1>8. ASSUME NEW k \in DOMAIN c
      PROVE  at2[k] \in Nat \X Nat /\ At(seqs, c[k], at2[k]) /\ at2[k][1] <= n + 1
  <2>1. CASE k <= la
    <3>1. k \in DOMAIN a /\ at2[k] = at[k] /\ c[k] = a[k]
      BY <1>4, <2>1
    <3>2. at[k] \in Nat \X Nat /\ At(seqs, a[k], at[k]) /\ at[k][1] <= n
      BY <3>1 DEF Located
    <3> QED
      BY <3>1, <3>2
  <2>2. CASE k > la
    <3>1. k - la \in DOMAIN b /\ c[k] = b[k - la] /\ at2[k] = <<n + 1, k - la>>
      BY <1>5, <2>2
    <3>2. k - la \in Nat /\ n + 1 \in Nat
      BY <1>7, <3>1
    <3> QED
      BY <3>1, <3>2 DEF At, b
  <2> QED
    BY <1>2, <1>7, <2>1, <2>2
<1>9. ASSUME NEW j \in DOMAIN c, NEW k \in DOMAIN c, at2[j] = at2[k] PROVE j = k
  <2>1. \A m \in DOMAIN c : m <= la => at2[m][1] <= n /\ at2[m][1] \in Nat
    BY <1>4, <1>8 DEF Located
  <2>2. \A m \in DOMAIN c : m > la => at2[m][1] = n + 1 /\ at2[m][2] = m - la
    BY <1>5
  <2>3. j \in Int /\ k \in Int /\ la \in Int
    BY <1>2, <1>7
  <2>4. CASE j <= la /\ k <= la
    BY <1>4, <1>9, <2>4 DEF Located
  <2>5. CASE j > la /\ k > la
    <3>1. j - la = k - la
      BY <1>9, <2>2, <2>5
    <3> QED
      BY <2>3, <3>1
  <2>6. ~(j <= la /\ k > la) /\ ~(j > la /\ k <= la)
    <3>1. ASSUME NEW x \in DOMAIN c, NEW y \in DOMAIN c, x <= la, y > la, at2[x] = at2[y] PROVE FALSE
      <4>1. at2[x][1] <= n /\ at2[y][1] = n + 1
        BY <2>1, <2>2, <3>1
      <4>2. n + 1 <= n
        BY <3>1, <4>1
      <4> QED
        BY <4>2
    <3> QED
      BY <1>9, <3>1
  <2> QED
    BY <2>3, <2>4, <2>5, <2>6
<1>10. at2 \in [DOMAIN c -> Nat \X Nat]
  BY <1>6, <1>8
<1>11. Located(seqs, n + 1, c, at2)
  BY <1>8, <1>9, <1>10 DEF Located
<1> QED
  BY <1>11 DEF c, b

LEMMA FlattenLocates ==
    ASSUME NEW T, NEW seqs \in Seq(Seq(T))
    PROVE  /\ FlattenSeq(seqs) \in Seq(T)
           /\ \E at : Located(seqs, Len(seqs), FlattenSeq(seqs), at)
<1> DEFINE N == Len(seqs)
<1>1. N \in Nat /\ DOMAIN seqs = 1 .. N
  BY LenProperties
<1>2. PICK f \in [0 .. N -> Seq(T)] : Concatenates(seqs, f)
  BY FlattenByPrefix
<1> DEFINE S == {n \in 0 .. N : \E at : Located(seqs, n, f[n], at)}
<1>3. 0 \in S
  <2>1. f[0] = <<>>
    BY <1>2 DEF Concatenates
  <2>2. DOMAIN f[0] = {}
    BY <2>1
  <2>3. Located(seqs, 0, f[0], [k \in {} |-> <<0, 0>>])
    BY <2>2 DEF Located
  <2> QED
    BY <1>1, <2>3
<1>4. ASSUME NEW n \in 0 .. N - 1, n \in S PROVE n + 1 \in S
  <2>1. PICK at : Located(seqs, n, f[n], at)
    BY <1>4
  <2>2. n + 1 \in 1 .. N /\ n \in 0 .. N /\ (n + 1) - 1 = n /\ n \in Nat /\ n + 1 \in 0 .. N
    BY <1>1
  <2>3. f[n] \in Seq(T) /\ f[n + 1] = f[n] \o seqs[n + 1]
    BY <1>2, <2>2 DEF Concatenates
  <2>4. \E at2 : Located(seqs, n + 1, f[n + 1], at2)
    BY <1>1, <2>1, <2>2, <2>3, ConcatIsLocated
  <2> QED
    BY <2>2, <2>4
<1>5. 0 .. N \subseteq S
  <2> HIDE DEF S
  <2> QED
    BY <1>1, <1>3, <1>4, UpToInduction
<1>6. N \in 0 .. N
  BY <1>1
<1>7. N \in S /\ f[N] = FlattenSeq(seqs) /\ f[N] \in Seq(T)
  BY <1>2, <1>5, <1>6 DEF Concatenates
<1> QED
  BY <1>7
-----------------------------------------------------------------------------
(* Finite sets. *)

LEMMA ImageIsFinite ==
    ASSUME NEW S, IsFiniteSet(S), NEW f
    PROVE  IsFiniteSet({f[x] : x \in S})
<1> DEFINE T == {f[x] : x \in S}
           g == [x \in S |-> f[x]]
<1>1. g \in [S -> T] /\ \A y \in T : \E x \in S : g[x] = y
  OBVIOUS
<1> HIDE DEF T, g
<1>2. g \in Surjection(S, T)
  BY <1>1 DEF Surjection
<1>3. IsFiniteSet(T)
  BY <1>2, FS_Surjection
<1> QED
  BY <1>3 DEF T

LEMMA LeastExists ==
    ASSUME NEW S \in SUBSET Nat, S # {}
    PROVE  \E i \in S : \A j \in S : i <= j
<1> DEFINE R == OpToRel(<, Nat)
<1>1. IsWellFoundedOn(R, Nat)
  BY NatLessThanWellFounded
<1>2. \A m, n \in Nat : m < n => <<m, n>> \in R
  BY DEF OpToRel
<1> HIDE DEF R
<1>3. PICK i \in S : \A j \in S : ~(<<j, i>> \in R)
  BY <1>1, WFMin
<1>4. ASSUME NEW j \in S PROVE i <= j
  <2>1. i \in Nat /\ j \in Nat
    OBVIOUS
  <2>2. j < i => <<j, i>> \in R
    BY <1>2, <2>1
  <2>3. ~(j < i)
    BY <1>3, <2>2
  <2> QED
    BY <2>1, <2>3
<1> QED
  BY <1>4

-----------------------------------------------------------------------------
(* Lists, whatever they hold. *)

LEMMA ListShape ==
    ASSUME NEW s, IsList(s)
    PROVE  /\ Len(s) \in Nat
           /\ DOMAIN s = 1 .. Len(s)
           /\ s = [k \in 1 .. Len(s) |-> s[k]]
           /\ \A k \in DOMAIN s : s[k] \in ToSet(s)
           /\ IsFiniteSet(DOMAIN s)
<1>1. s \in Seq(ToSet(s))
  BY DEF IsList
<1>2. Len(s) \in Nat /\ DOMAIN s = 1 .. Len(s) /\ s \in [1 .. Len(s) -> ToSet(s)]
  BY <1>1, LenProperties
<1>3. IsFiniteSet(1 .. Len(s))
  BY <1>2, FS_Interval
<1> QED
  BY <1>2, <1>3

LEMMA ListOfLength ==
    ASSUME NEW n \in Nat, NEW s, DOMAIN s = 1 .. n, s = [k \in 1 .. n |-> s[k]]
    PROVE  IsList(s) /\ Len(s) = n
<1>1. \A k \in 1 .. n : s[k] \in ToSet(s)
  BY DEF ToSet
<1>2. s \in [1 .. n -> ToSet(s)]
  BY <1>1
<1>3. s \in Seq(ToSet(s))
  BY <1>2, SeqDef
<1>4. Len(s) = n
  BY <1>3, LenProperties
<1> QED
  BY <1>3, <1>4 DEF IsList

LEMMA SeqIsList ==
    ASSUME NEW T, NEW s \in Seq(T)
    PROVE  IsList(s) /\ ToSet(s) \subseteq T
<1>1. Len(s) \in Nat /\ DOMAIN s = 1 .. Len(s) /\ s \in [1 .. Len(s) -> T]
  BY LenProperties
<1>2. IsList(s)
  <2>1. s = [k \in 1 .. Len(s) |-> s[k]]
    BY <1>1
  <2> QED
    BY <1>1, <2>1, ListOfLength
<1>3. ToSet(s) \subseteq T
  BY <1>1 DEF ToSet
<1> QED
  BY <1>2, <1>3

LEMMA ListHasFinitely ==
    ASSUME NEW s, IsList(s)
    PROVE  IsFiniteSet(ToSet(s))
<1>1. IsFiniteSet(DOMAIN s)
  BY ListShape
<1>2. ToSet(s) = {s[x] : x \in DOMAIN s}
  BY DEF ToSet
<1> QED
  BY <1>1, <1>2, ImageIsFinite

(* A list made of another place by place.                                  *)
LEMMA SamePlacesIsList ==
    ASSUME NEW s, IsList(s), NEW t, t = [k \in DOMAIN s |-> t[k]]
    PROVE  IsList(t) /\ Len(t) = Len(s) /\ DOMAIN t = DOMAIN s
<1>1. Len(s) \in Nat /\ DOMAIN s = 1 .. Len(s)
  BY ListShape
<1>2. DOMAIN t = 1 .. Len(s) /\ t = [k \in 1 .. Len(s) |-> t[k]]
  BY <1>1
<1> QED
  BY <1>1, <1>2, ListOfLength

LEMMA AppendIsList ==
    ASSUME NEW s, IsList(s), NEW x
    PROVE  IsList(Append(s, x)) /\ ToSet(Append(s, x)) \subseteq ToSet(s) \cup {x}
<1>1. s \in Seq(ToSet(s) \cup {x})
  <2>1. Len(s) \in Nat /\ s \in [1 .. Len(s) -> ToSet(s)]
    BY LenProperties DEF IsList
  <2>2. s \in [1 .. Len(s) -> ToSet(s) \cup {x}]
    BY <2>1
  <2> QED
    BY <2>1, <2>2, SeqDef
<1>2. Append(s, x) \in Seq(ToSet(s) \cup {x})
  BY <1>1, AppendProperties
<1> QED
  BY <1>2, SeqIsList

LEMMA KeptIsList ==
    ASSUME NEW s, IsList(s), NEW positions \in SUBSET DOMAIN s
    PROVE  /\ IsList(Kept(s, positions))
           /\ ToSet(Kept(s, positions)) = {s[i] : i \in positions}
<1>1. /\ Kept(s, positions) \in Seq(ToSet(s))
      /\ \A k \in DOMAIN Kept(s, positions) : \E i \in positions : Kept(s, positions)[k] = s[i]
      /\ \A i \in positions : \E k \in DOMAIN Kept(s, positions) : Kept(s, positions)[k] = s[i]
  BY KeptHasOnlySuch DEF IsList
<1>2. IsList(Kept(s, positions))
  BY <1>1, SeqIsList
<1> QED
  BY <1>1, <1>2 DEF ToSet

LEMMA PrefixIsList ==
    ASSUME NEW s, IsList(s), NEW n \in 0 .. Len(s)
    PROVE  IsList(SubSeq(s, 1, n)) /\ ToSet(SubSeq(s, 1, n)) \subseteq ToSet(s)
<1>1. s \in Seq(ToSet(s)) /\ Len(s) \in Nat
  BY ListShape DEF IsList
<1>2. SubSeq(s, 1, n) \in Seq(ToSet(s))
  BY <1>1, SubSeqProperties
<1> QED
  BY <1>2, SeqIsList

LEMMA ConcatIsList ==
    ASSUME NEW s, IsList(s), NEW t, IsList(t)
    PROVE  IsList(s \o t) /\ ToSet(s \o t) = ToSet(s) \cup ToSet(t)
<1> DEFINE T == ToSet(s) \cup ToSet(t)
           a == Len(s)
           b == Len(t)
<1>1. a \in Nat /\ b \in Nat /\ DOMAIN s = 1 .. a /\ DOMAIN t = 1 .. b
  BY ListShape
<1>2. s \in Seq(T) /\ t \in Seq(T)
  <2>1. s = [k \in 1 .. a |-> s[k]] /\ t = [k \in 1 .. b |-> t[k]]
    BY ListShape
  <2>2. s \in [1 .. a -> T] /\ t \in [1 .. b -> T]
    BY <2>1, ListShape
  <2> QED
    BY <1>1, <2>2, SeqDef
<1>3. /\ s \o t \in Seq(T) /\ DOMAIN (s \o t) = 1 .. a + b
      /\ \A i \in 1 .. a + b : (s \o t)[i] = IF i <= a THEN s[i] ELSE t[i - a]
  <2> HIDE DEF T
  <2>1. s \o t \in Seq(T) /\ Len(s \o t) = a + b
    BY <1>2, ConcatProperties
  <2>2. DOMAIN (s \o t) = 1 .. a + b
    BY <2>1, LenProperties
  <2> QED
    BY <1>2, <2>1, <2>2, ConcatProperties
<1>4. IsList(s \o t) /\ ToSet(s \o t) \subseteq T
  <2> HIDE DEF T
  <2> QED
    BY <1>3, SeqIsList
<1> DEFINE c == s \o t
<1> HIDE DEF c
<1>5. \A i \in 1 .. a : i \in DOMAIN c /\ c[i] = s[i]
  BY <1>1, <1>3 DEF c
<1>6. ASSUME NEW i \in 1 .. b PROVE i + a \in DOMAIN c /\ c[i + a] = t[i]
  <2>1. i + a \in 1 .. a + b /\ ~(i + a <= a) /\ (i + a) - a = i
    BY <1>1
  <2> QED
    BY <1>3, <2>1 DEF c
<1>7. T \subseteq ToSet(c)
  <2>1. \A i \in DOMAIN s : s[i] \in ToSet(c)
    BY <1>1, <1>5 DEF ToSet
  <2>2. \A i \in DOMAIN t : t[i] \in ToSet(c)
    BY <1>1, <1>6 DEF ToSet
  <2> QED
    BY <2>1, <2>2 DEF ToSet
<1> QED
  BY <1>4, <1>7 DEF c

LEMMA FlattenIsList ==
    ASSUME NEW seqs, IsList(seqs), \A x \in ToSet(seqs) : IsList(x)
    PROVE  IsList(FlattenSeq(seqs)) /\ ToSet(FlattenSeq(seqs)) = UNION {ToSet(x) : x \in ToSet(seqs)}
<1> DEFINE T == UNION {ToSet(x) : x \in ToSet(seqs)}
           N == Len(seqs)
<1>1. N \in Nat /\ DOMAIN seqs = 1 .. N
  BY ListShape
<1>2. ASSUME NEW x \in ToSet(seqs) PROVE x \in Seq(T)
  <2>1. IsList(x)
    OBVIOUS
  <2>2. ToSet(x) \subseteq T
    OBVIOUS
  <2>3. Len(x) \in Nat /\ x = [k \in 1 .. Len(x) |-> x[k]] /\ \A k \in 1 .. Len(x) : x[k] \in ToSet(x)
    BY <2>1, ListShape
  <2> HIDE DEF T
  <2>4. x \in [1 .. Len(x) -> T]
    BY <2>2, <2>3
  <2> QED
    BY <2>3, <2>4, SeqDef
<1> HIDE DEF T
<1>3. seqs \in Seq(Seq(T))
  <2>1. seqs = [k \in 1 .. N |-> seqs[k]] /\ \A k \in 1 .. N : seqs[k] \in ToSet(seqs)
    BY <1>1, ListShape
  <2>2. seqs \in [1 .. N -> Seq(T)]
    BY <1>2, <2>1
  <2> QED
    BY <1>1, <2>2, SeqDef
<1>4. PICK f \in [0 .. N -> Seq(T)] : Concatenates(seqs, f)
  BY <1>3, FlattenByPrefix
<1> DEFINE S == {n \in 0 .. N : \A i \in 1 .. n : ToSet(seqs[i]) \subseteq ToSet(f[n])}
<1>5. 0 \in S
  BY <1>1
<1>6. ASSUME NEW n \in 0 .. N - 1, n \in S PROVE n + 1 \in S
  <2>1. n + 1 \in 1 .. N /\ (n + 1) - 1 = n /\ n \in 0 .. N
    BY <1>1
  <2>2. f[n + 1] = f[(n + 1) - 1] \o seqs[n + 1]
    BY <1>4, <2>1 DEF Concatenates
  <2>3. IsList(f[n]) /\ IsList(seqs[n + 1])
    <3>1. f[n] \in Seq(T) /\ seqs[n + 1] \in ToSet(seqs)
      BY <1>1, <2>1, ListShape
    <3> QED
      BY <3>1, SeqIsList
  <2>4. ToSet(f[n + 1]) = ToSet(f[n]) \cup ToSet(seqs[n + 1])
    BY <2>1, <2>2, <2>3, ConcatIsList
  <2>5. \A i \in 1 .. n + 1 : i \in 1 .. n \/ i = n + 1
    OBVIOUS
  <2> QED
    BY <1>6, <2>1, <2>4, <2>5
<1>7. 0 .. N \subseteq S
  <2> HIDE DEF S
  <2> QED
    BY <1>1, <1>5, <1>6, UpToInduction
<1>8. \A i \in 1 .. N : ToSet(seqs[i]) \subseteq ToSet(FlattenSeq(seqs))
  <2>1. N \in 0 .. N
    BY <1>1
  <2> QED
    BY <1>4, <1>7, <2>1 DEF Concatenates
<1>9. T \subseteq ToSet(FlattenSeq(seqs))
  BY <1>1, <1>8 DEF T, ToSet
<1>10. FlattenSeq(seqs) \in Seq(T)
  BY <1>3, FlattenLocates
<1> QED
  BY <1>9, <1>10, SeqIsList DEF T

(* A finite set has a first element by a strict order, and so numbers a    *)
(* greatest.                                                               *)
LEMMA FirstExists ==
    ASSUME NEW S, IsFiniteSet(S), S # {}, NEW R, StrictOrder(R, S)
    PROVE  \E i \in S : \A j \in S : j = i \/ <<i, j>> \in R
<1> DEFINE N == Cardinality(S)
           r == Ranking(S, R)
<1>1. /\ N \in Nat /\ r \in [1 .. N -> S]
      /\ \A j, k \in 1 .. N : j < k <=> <<r[j], r[k]>> \in R
      /\ \A i \in S : \E k \in 1 .. N : r[k] = i
  BY RankingIsAPermutation
<1> HIDE DEF N, r
<1>2. 1 \in 1 .. N
  BY <1>1
<1>3. ASSUME NEW j \in S PROVE j = r[1] \/ <<r[1], j>> \in R
  <2>1. PICK k \in 1 .. N : r[k] = j
    BY <1>1
  <2>2. k = 1 \/ 1 < k
    BY <1>1
  <2> QED
    BY <1>1, <1>2, <2>1, <2>2
<1> QED
  BY <1>1, <1>2, <1>3

LEMMA GreatestExists ==
    ASSUME NEW S \in SUBSET Int, IsFiniteSet(S), S # {}
    PROVE  \E i \in S : \A j \in S : j <= i
<1> DEFINE R == {p \in S \X S : p[1] > p[2]}
<1>1. \A i, j \in S : <<i, j>> \in R <=> i > j
  OBVIOUS
<1> HIDE DEF R
<1>2. StrictOrder(R, S)
  BY <1>1 DEF StrictOrder
<1>3. PICK i \in S : \A j \in S : j = i \/ <<i, j>> \in R
  BY <1>2, FirstExists
<1>4. ASSUME NEW j \in S PROVE j <= i
  <2>1. i \in Int /\ j \in Int /\ (j = i \/ i > j)
    BY <1>1, <1>3
  <2> QED
    BY <2>1
<1> QED
  BY <1>4

(* A part has as many elements as there are positions, one for each.       *)
LEMMA KeptByPlaces ==
    ASSUME NEW s, IsList(s), NEW positions \in SUBSET DOMAIN s
    PROVE  /\ IsFiniteSet(positions) /\ Cardinality(positions) \in 0 .. Len(s)
           /\ Len(Kept(s, positions)) = Cardinality(positions)
           /\ DOMAIN Kept(s, positions) = 1 .. Cardinality(positions)
           /\ \E at \in [1 .. Cardinality(positions) -> positions] :
                 /\ \A k \in 1 .. Cardinality(positions) : Kept(s, positions)[k] = s[at[k]]
                 /\ \A j, k \in 1 .. Cardinality(positions) : at[j] = at[k] => j = k
                 /\ \A i \in positions : \E k \in 1 .. Cardinality(positions) : at[k] = i
<1> DEFINE kept == Kept(s, positions)
           n == Len(kept)
<1>1. s \in Seq(ToSet(s)) /\ Len(s) \in Nat /\ DOMAIN s = 1 .. Len(s) /\ IsFiniteSet(DOMAIN s)
  BY ListShape DEF IsList
<1>2. kept \in Seq(ToSet(s)) /\ \E at : IsPart(s, positions, Len(s), kept, at)
  BY <1>1, KeptIsAPart
<1>3. PICK at : IsPart(s, positions, Len(s), kept, at)
  BY <1>2
<1>4. n \in Nat /\ DOMAIN kept = 1 .. n
  BY <1>2, LenProperties
<1> HIDE DEF kept, n
<1>5. /\ at \in Seq(positions) /\ Len(at) = n
      /\ \A k \in 1 .. n : kept[k] = s[at[k]]
      /\ \A j, k \in 1 .. n : j < k => at[j] < at[k]
      /\ \A i \in positions : i <= Len(s) => \E k \in 1 .. n : at[k] = i
  BY <1>3 DEF IsPart, Increasing, n
<1>6. at \in [1 .. n -> positions]
  BY <1>5, LenProperties
<1>7. \A i \in positions : i \in Nat /\ i <= Len(s)
  BY <1>1
<1>8. \A j, k \in 1 .. n : at[j] = at[k] => j = k
  <2> SUFFICES ASSUME NEW j \in 1 .. n, NEW k \in 1 .. n, at[j] = at[k], j # k PROVE FALSE
    OBVIOUS
  <2>1. at[j] \in Nat /\ at[k] \in Nat
    BY <1>6, <1>7
  <2>2. j < k \/ k < j
    BY <1>4
  <2>3. at[j] < at[k] \/ at[k] < at[j]
    BY <1>5, <2>2
  <2> QED
    BY <2>1, <2>3
<1>9. \A i \in positions : \E k \in 1 .. n : at[k] = i
  BY <1>5, <1>7
<1>10. ExistsBijection(1 .. n, positions)
  <2>1. at \in Bijection(1 .. n, positions)
    BY <1>6, <1>8, <1>9 DEF Bijection, Injection, Surjection, IsInjective
  <2> QED
    BY <2>1 DEF ExistsBijection
<1>11. IsFiniteSet(1 .. n) /\ Cardinality(1 .. n) = n
  BY <1>4, FS_Interval
<1>12. IsFiniteSet(positions) /\ Cardinality(positions) = n
  BY <1>10, <1>11, FS_Bijection
<1>13. n <= Len(s)
  <2>1. Cardinality(DOMAIN s) = Len(s)
    <3> DEFINE m == Len(s)
    <3>1. m \in Nat /\ DOMAIN s = 1 .. m
      BY <1>1
    <3> HIDE DEF m
    <3>2. Cardinality(1 .. m) = m
      BY <3>1, FS_Interval
    <3> QED
      BY <3>1, <3>2 DEF m
  <2>2. Cardinality(positions) <= Cardinality(DOMAIN s)
    BY <1>1, FS_Subset
  <2> QED
    BY <1>12, <2>1, <2>2
<1> HIDE DEF IsList
<1> QED
  BY <1>1, <1>4, <1>5, <1>6, <1>8, <1>9, <1>12, <1>13 DEF kept, n

-----------------------------------------------------------------------------
(* Division. *)

LEMMA DivisionRounds ==
    ASSUME NEW a \in Int, NEW n \in Nat \ {0}
    PROVE  /\ a \div n \in Int /\ a % n \in 0 .. n - 1
           /\ a = n * (a \div n) + (a % n)
OBVIOUS

LEMMA MultiplesGrow ==
    ASSUME NEW n \in Nat \ {0}, NEW p \in Int, NEW q \in Int
    PROVE  /\ n * p \in Int /\ n * q \in Int
           /\ p <= q => n * p <= n * q
           /\ p < q => n * p + n <= n * q
<1>1. n * p \in Int /\ n * q \in Int /\ n * (q - p) = n * q - n * p
  OBVIOUS
<1>2. q - p >= 0 => n * (q - p) >= 0
  OBVIOUS
<1>3. q - p >= 1 => n * (q - p) >= n
  OBVIOUS
<1> QED
  BY <1>1, <1>2, <1>3

(* A number is one place in one of the rows of n. *)
LEMMA RowsAreApart ==
    ASSUME NEW n \in Nat \ {0}, NEW p \in Int, NEW q \in Int, NEW i \in 1 .. n, NEW j \in 1 .. n,
           n * p + i = n * q + j
    PROVE  p = q /\ i = j
<1>1. n * p \in Int /\ n * q \in Int /\ (p < q => n * p + n <= n * q) /\ (q < p => n * q + n <= n * p)
  BY MultiplesGrow
<1>2. ~(p < q) /\ ~(q < p)
  BY <1>1
<1>3. p = q
  BY <1>2
<1> QED
  BY <1>1, <1>3

-----------------------------------------------------------------------------
(* Counting. *)

LEMMA AsManyElements ==
    ASSUME NEW S, NEW T, IsFiniteSet(S), NEW g \in [S -> T],
           \A a, b \in S : g[a] = g[b] => a = b,
           \A t \in T : \E a \in S : g[a] = t
    PROVE  IsFiniteSet(T) /\ Cardinality(T) = Cardinality(S)
<1>1. g \in Bijection(S, T)
  BY DEF Bijection, Injection, Surjection, IsInjective
<1>2. ExistsBijection(S, T)
  BY <1>1 DEF ExistsBijection
<1> QED
  BY <1>2, FS_Bijection

(* What has a place of its own among n has at most n elements.             *)
LEMMA NoMoreThanPlaces ==
    ASSUME NEW S, NEW n \in Nat, NEW place \in [S -> 1 .. n],
           \A a, b \in S : place[a] = place[b] => a = b
    PROVE  IsFiniteSet(S) /\ Cardinality(S) <= n
<1>1. place \in Injection(S, 1 .. n)
  BY DEF Injection, IsInjective
<1>2. IsFiniteSet(1 .. n) /\ Cardinality(1 .. n) = n
  BY FS_Interval
<1> QED
  BY <1>1, <1>2, FS_Injection


LEMMA ListOfElements ==
    ASSUME NEW s, IsList(s), NEW T, ToSet(s) \subseteq T
    PROVE  s \in Seq(T)
<1>1. Len(s) \in Nat /\ s = [k \in 1 .. Len(s) |-> s[k]] /\ \A k \in 1 .. Len(s) : s[k] \in ToSet(s)
  BY ListShape
<1>2. s \in [1 .. Len(s) -> T]
  BY <1>1
<1> QED
  BY <1>1, <1>2, SeqDef
=============================================================================
