------------------------------ MODULE Numbers ------------------------------
(* Induction over the natural numbers, as the existence of a least           *)
(* counterexample.                                                           *)
EXTENDS Integers, Functions, FiniteSetTheorems, TLAPS

(* The sets 0..(n - 1) are ordered by inclusion as the numbers n are by size.*)
LEMMA LeastNumber ==
  ASSUME NEW C \in SUBSET Nat, C # {}
  PROVE  \E m \in C : \A n \in C : m <= n
<1> DEFINE T == {0..(n - 1) : n \in C}
<1>1. T \subseteq FiniteSubsetsOf(Nat) /\ T # {}
  <2>1. ASSUME NEW n \in C PROVE 0..(n - 1) \in FiniteSubsetsOf(Nat)
    BY FS_Interval DEF FiniteSubsetsOf
  <2> QED BY <2>1
<1>2. PICK X \in T : \A Y \in T : <<Y, X>> \notin StrictSubsetOrdering(Nat)
  <2> HIDE DEF T
  <2> QED BY <1>1, FS_StrictSubsetOrderingWellFounded, WFMin
<1>3. PICK m \in C : X = 0..(m - 1) OBVIOUS
<1>4. ASSUME NEW n \in C, n < m PROVE FALSE
  <2>1. 0..(n - 1) \subseteq 0..(m - 1) /\ 0..(n - 1) # 0..(m - 1)
    <3>1. n \in 0..(m-1) /\ n \notin 0..(n-1) BY <1>4
    <3> QED BY <3>1, <1>4
  <2>2. 0..(n - 1) \in SUBSET Nat /\ 0..(m - 1) \in SUBSET Nat OBVIOUS
  <2>3. <<0..(n - 1), X>> \in StrictSubsetOrdering(Nat)
    BY <2>1, <2>2, <1>3 DEF StrictSubsetOrdering
  <2> QED BY <1>2, <2>3, <1>4
<1> QED BY <1>4


(* A finite, non-empty set of natural numbers has a greatest element: its    *)
(* numbers are not greater than its least upper bound.                       *)
LEMMA GreatestNumber ==
  ASSUME NEW S \in SUBSET Nat, IsFiniteSet(S), S # {}
  PROVE  \E m \in S : \A n \in S : n <= m
<1> DEFINE Bad == {n \in Nat : \E T \in SUBSET S : /\ T # {} /\ Cardinality(T) = n
                                                  /\ ~\E m \in T : \A k \in T : k <= m}
<1>1. SUFFICES Bad = {}
  <2>1. Cardinality(S) \in Nat BY FS_CardinalityType
  <2> QED BY <2>1
<1>2. SUFFICES ASSUME Bad # {} PROVE FALSE
  OBVIOUS
<1>3. PICK c \in Bad : \A n \in Bad : c <= n
  <2> HIDE DEF Bad
  <2>1. Bad \in SUBSET Nat BY DEF Bad
  <2> QED BY <1>2, <2>1, LeastNumber
<1>4. PICK T \in SUBSET S : T # {} /\ Cardinality(T) = c /\ ~\E m \in T : \A k \in T : k <= m
  OBVIOUS
<1>5. PICK x \in T : TRUE BY <1>4
<1>6. IsFiniteSet(T) BY FS_Subset
<1>7. Cardinality(T \ {x}) = c - 1 BY <1>4, <1>5, <1>6, FS_RemoveElement
<1>8. T \ {x} # {}
  <2> SUFFICES ASSUME T = {x} PROVE FALSE BY <1>5
  <2> QED BY <1>4
<1>9. c - 1 \in Nat
  <2>1. IsFiniteSet(T \ {x}) BY <1>6, FS_RemoveElement
  <2> QED BY <1>7, <2>1, FS_CardinalityType
<1>10. c - 1 \notin Bad BY <1>3, <1>9
<1>11. PICK m \in T \ {x} : \A k \in T \ {x} : k <= m
  BY <1>7, <1>8, <1>9, <1>10
<1>12. CASE x <= m
  BY <1>4, <1>11, <1>12
<1>13. CASE m <= x
  <2>1. \A k \in T : k <= x BY <1>11, <1>13
  <2> QED BY <1>4, <1>5, <2>1
<1> QED BY <1>5, <1>11, <1>12, <1>13

-----------------------------------------------------------------------------
(* Sums of functions: the library's fold, which adds the values in an        *)
(* unspecified order.                                                        *)

(* g[s] is the sum of the values of f on s, for the sets s of at most n      *)
(* elements.                                                                 *)
AddsUp(f, S, g, n) ==
  \A s \in SUBSET S : Cardinality(s) <= n =>
    g[s] = IF s = {} THEN 0 ELSE f[CHOOSE x \in s : TRUE] + g[s \ {CHOOSE x \in s : TRUE}]

LEMMA Smaller ==
  ASSUME NEW S, IsFiniteSet(S), NEW s \in SUBSET S
  PROVE  /\ IsFiniteSet(s) /\ Cardinality(s) \in Nat /\ Cardinality(s) <= Cardinality(S)
         /\ Cardinality(s) = 0 <=> s = {}
         /\ s # {} => /\ (CHOOSE x \in s : TRUE) \in s
                      /\ Cardinality(s \ {CHOOSE x \in s : TRUE}) = Cardinality(s) - 1
<1>1. IsFiniteSet(s) /\ Cardinality(s) <= Cardinality(S) BY FS_Subset
<1>2. Cardinality(s) \in Nat /\ (Cardinality(s) = 0 <=> s = {}) BY <1>1, FS_CardinalityType, FS_EmptySet
<1>3. s # {} => (CHOOSE x \in s : TRUE) \in s OBVIOUS
<1> QED BY <1>1, <1>2, <1>3, FS_RemoveElement

LEMMA SumsExist ==
  ASSUME NEW S, IsFiniteSet(S), NEW f \in [S -> Nat], NEW n \in Nat
  PROVE  \E g \in [SUBSET S -> Nat] : AddsUp(f, S, g, n)
<1> DEFINE Bad == {m \in Nat : ~\E g \in [SUBSET S -> Nat] : AddsUp(f, S, g, m)}
<1> SUFFICES ASSUME Bad # {} PROVE FALSE OBVIOUS
<1>1. PICK m \in Bad : \A k \in Bad : m <= k
  <2> HIDE DEF Bad
  <2>1. Bad \in SUBSET Nat BY DEF Bad
  <2> QED BY <2>1, LeastNumber
<1>2. m \in Nat /\ ~\E g \in [SUBSET S -> Nat] : AddsUp(f, S, g, m) OBVIOUS
<1>3. m # 0
  <2> SUFFICES ASSUME m = 0 PROVE FALSE OBVIOUS
  <2>1. PICK g \in [SUBSET S -> Nat] : \A s \in SUBSET S : g[s] = 0
    <3>1. [s \in SUBSET S |-> 0] \in [SUBSET S -> Nat] OBVIOUS
    <3> QED BY <3>1
  <2>2. ASSUME NEW s \in SUBSET S, Cardinality(s) <= 0 PROVE s = {}
    <3>1. Cardinality(s) \in Nat /\ (Cardinality(s) = 0 <=> s = {}) BY Smaller
    <3> QED BY <2>2, <3>1
  <2>3. AddsUp(f, S, g, 0) BY <2>1, <2>2 DEF AddsUp
  <2> QED BY <1>2, <2>3
<1>4. m - 1 \in Nat /\ m - 1 \notin Bad
  <2> HIDE DEF Bad
  <2> QED BY <1>1, <1>2, <1>3
<1>5. PICK g \in [SUBSET S -> Nat] : AddsUp(f, S, g, m - 1) BY <1>4
<1> HIDE DEF Bad
<1> DEFINE h == [s \in SUBSET S |-> IF s = {} THEN 0
                                    ELSE f[CHOOSE x \in s : TRUE] + g[s \ {CHOOSE x \in s : TRUE}]]
<1>6. h \in [SUBSET S -> Nat]
  <2>1. ASSUME NEW s \in SUBSET S, s # {}
        PROVE  f[CHOOSE x \in s : TRUE] + g[s \ {CHOOSE x \in s : TRUE}] \in Nat
    <3>1. (CHOOSE x \in s : TRUE) \in S BY <2>1, Smaller
    <3>2. s \ {CHOOSE x \in s : TRUE} \in SUBSET S OBVIOUS
    <3> QED BY <3>1, <3>2
  <2> QED BY <2>1
<1>7. \A s \in SUBSET S : h[s] = IF s = {} THEN 0
                                 ELSE f[CHOOSE x \in s : TRUE] + g[s \ {CHOOSE x \in s : TRUE}]
  OBVIOUS
<1> HIDE DEF h
<1>8. ASSUME NEW s \in SUBSET S, Cardinality(s) <= m - 1 PROVE h[s] = g[s]
  BY <1>5, <1>7, <1>8 DEF AddsUp
<1>9. AddsUp(f, S, h, m)
  <2> SUFFICES ASSUME NEW s \in SUBSET S, Cardinality(s) <= m, s # {}
               PROVE  h[s] = f[CHOOSE x \in s : TRUE] + h[s \ {CHOOSE x \in s : TRUE}]
    BY <1>7 DEF AddsUp
  <2>1. s \ {CHOOSE x \in s : TRUE} \in SUBSET S /\ Cardinality(s \ {CHOOSE x \in s : TRUE}) <= m - 1
    BY <1>2, Smaller
  <2>2. h[s \ {CHOOSE x \in s : TRUE}] = g[s \ {CHOOSE x \in s : TRUE}] BY <1>8, <2>1
  <2> QED BY <1>7, <2>2
<1> QED BY <1>2, <1>6, <1>9

(* The sum of f, as the recursion computes it.                               *)
TotalOf(f) == FoldFunction(+, 0, f)

Sums(f, S, g) ==
  /\ g \in [SUBSET S -> Nat] /\ TotalOf(f) = g[S]
  /\ \A s \in SUBSET S :
       g[s] = IF s = {} THEN 0 ELSE f[CHOOSE x \in s : TRUE] + g[s \ {CHOOSE x \in s : TRUE}]

LEMMA SumOf ==
  ASSUME NEW S, IsFiniteSet(S), NEW f \in [S -> Nat]
  PROVE  \E g : Sums(f, S, g)
<1> DEFINE Is(g) == g = [s \in SUBSET S |-> IF s = {} THEN 0
                           ELSE f[CHOOSE x \in s : TRUE] + g[s \ {CHOOSE x \in s : TRUE}]]
           iter == CHOOSE g : Is(g)
<1>1. Cardinality(S) \in Nat BY FS_CardinalityType
<1>2. PICK g \in [SUBSET S -> Nat] : AddsUp(f, S, g, Cardinality(S)) BY <1>1, SumsExist
<1>3. \A s \in SUBSET S : Cardinality(s) <= Cardinality(S) BY Smaller
<1>4. \A s \in SUBSET S : g[s] = IF s = {} THEN 0
                                 ELSE f[CHOOSE x \in s : TRUE] + g[s \ {CHOOSE x \in s : TRUE}]
  BY <1>2, <1>3 DEF AddsUp
<1>5. Is(g) BY <1>2, <1>4
<1> HIDE DEF Is
<1>6. Is(iter) BY <1>5
<1>7. DOMAIN f = S OBVIOUS
<1>8. TotalOf(f) = iter[S]
  BY <1>7 DEF TotalOf, FoldFunction, FoldFunctionOnSet, MapThenFoldSet, Is
<1>9. \A s \in SUBSET S : iter[s] = IF s = {} THEN 0
                                    ELSE f[CHOOSE x \in s : TRUE] + iter[s \ {CHOOSE x \in s : TRUE}]
  <2> HIDE DEF iter
  <2>1. PICK j : j = iter OBVIOUS
  <2>2. \A s \in SUBSET S : j[s] = IF s = {} THEN 0
                                   ELSE f[CHOOSE x \in s : TRUE] + j[s \ {CHOOSE x \in s : TRUE}]
    BY <1>6, <2>1 DEF Is
  <2> QED BY <2>1, <2>2
<1> HIDE DEF iter
<1>10. \A s \in SUBSET S : iter[s] = g[s]
  <2> DEFINE Bad == {n \in Nat : \E s \in SUBSET S : Cardinality(s) = n /\ iter[s] # g[s]}
  <2>1. SUFFICES ASSUME Bad # {} PROVE FALSE BY Smaller
  <2>2. PICK n \in Bad : \A k \in Bad : n <= k
    <3> HIDE DEF Bad
    <3>1. Bad \in SUBSET Nat BY DEF Bad
    <3> QED BY <2>1, <3>1, LeastNumber
  <2>3. PICK s \in SUBSET S : Cardinality(s) = n /\ iter[s] # g[s] OBVIOUS
  <2>4. s # {} BY <1>4, <1>9, <2>3
  <2> DEFINE r == s \ {CHOOSE x \in s : TRUE}
  <2>5. r \in SUBSET S /\ Cardinality(r) = n - 1 /\ Cardinality(r) \in Nat BY <2>3, <2>4, Smaller
  <2>6. iter[r] = g[r]
    <3>1. n - 1 \notin Bad
      <4> HIDE DEF Bad
      <4>1. n \in Nat BY DEF Bad
      <4> QED BY <2>2, <4>1
    <3> QED BY <2>5, <3>1
  <2> QED BY <1>4, <1>9, <2>3, <2>4, <2>6
<1>11. TotalOf(f) = g[S] BY <1>8, <1>10
<1> QED BY <1>4, <1>11 DEF Sums

LEMMA TotalZero ==
  ASSUME NEW S, IsFiniteSet(S), NEW f \in [S -> Nat], \A x \in S : f[x] = 0
  PROVE  TotalOf(f) = 0
<1>1. PICK g : Sums(f, S, g) BY SumOf
<1>2. \A s \in SUBSET S : g[s] = 0
  <2> DEFINE Bad == {n \in Nat : \E s \in SUBSET S : Cardinality(s) = n /\ g[s] # 0}
  <2>1. SUFFICES ASSUME Bad # {} PROVE FALSE BY Smaller
  <2>2. PICK n \in Bad : \A k \in Bad : n <= k
    <3> HIDE DEF Bad
    <3>1. Bad \in SUBSET Nat BY DEF Bad
    <3> QED BY <2>1, <3>1, LeastNumber
  <2>3. PICK s \in SUBSET S : Cardinality(s) = n /\ g[s] # 0 OBVIOUS
  <2>4. s # {} BY <1>1, <2>3 DEF Sums
  <2> DEFINE r == s \ {CHOOSE x \in s : TRUE}
  <2>5. r \in SUBSET S /\ Cardinality(r) = n - 1 /\ Cardinality(r) \in Nat /\ (CHOOSE x \in s : TRUE) \in S
    BY <2>3, <2>4, Smaller
  <2>6. g[r] = 0
    <3>1. n - 1 \notin Bad
      <4> HIDE DEF Bad
      <4>1. n \in Nat BY DEF Bad
      <4> QED BY <2>2, <4>1
    <3> QED BY <2>5, <3>1
  <2>7. g[s] = f[CHOOSE x \in s : TRUE] + g[r] BY <1>1, <2>4 DEF Sums
  <2> QED BY <2>3, <2>5, <2>6, <2>7
<1> QED BY <1>1, <1>2 DEF Sums

(* One more in one place.                                                    *)
LEMMA TotalPlusOne ==
  ASSUME NEW S, IsFiniteSet(S), NEW f \in [S -> Nat], NEW i \in S, NEW f1 \in [S -> Nat],
         \A x \in S : f1[x] = IF x = i THEN f[x] + 1 ELSE f[x]
  PROVE  TotalOf(f1) = TotalOf(f) + 1
<1>1. PICK g : Sums(f, S, g) BY SumOf
<1>2. PICK h : Sums(f1, S, h) BY SumOf
<1> DEFINE Right(s) == h[s] = IF i \in s THEN g[s] + 1 ELSE g[s]
<1>3. \A s \in SUBSET S : Right(s)
  <2> DEFINE Bad == {n \in Nat : \E s \in SUBSET S : Cardinality(s) = n /\ ~Right(s)}
  <2>1. SUFFICES ASSUME Bad # {} PROVE FALSE BY Smaller
  <2>2. PICK n \in Bad : \A k \in Bad : n <= k
    <3> HIDE DEF Bad
    <3>1. Bad \in SUBSET Nat BY DEF Bad
    <3> QED BY <2>1, <3>1, LeastNumber
  <2>3. PICK s \in SUBSET S : Cardinality(s) = n /\ ~Right(s) OBVIOUS
  <2>4. s # {} BY <1>1, <1>2, <2>3 DEF Sums
  <2> DEFINE c == CHOOSE x \in s : TRUE  r == s \ {c}
  <2>5. r \in SUBSET S /\ Cardinality(r) = n - 1 /\ Cardinality(r) \in Nat /\ c \in s
    BY <2>3, <2>4, Smaller
  <2>6. Right(r)
    <3>1. n - 1 \notin Bad
      <4> HIDE DEF Bad
      <4>1. n \in Nat BY DEF Bad
      <4> QED BY <2>2, <4>1
    <3> QED BY <2>5, <3>1
  <2>7. g[s] = f[c] + g[r] /\ h[s] = f1[c] + h[r] BY <1>1, <1>2, <2>4 DEF Sums
  <2>8. f[c] \in Nat /\ f1[c] = (IF c = i THEN f[c] + 1 ELSE f[c]) /\ g[r] \in Nat BY <1>1, <2>3, <2>5 DEF Sums
  <2>9. i \in s <=> c = i \/ i \in r BY <2>5
  <2>10. ~(c = i /\ i \in r) OBVIOUS
  <2> HIDE DEF c, r
  <2>11. Right(s)
    <3>1. CASE c = i BY <2>6, <2>7, <2>8, <2>9, <2>10, <3>1
    <3>2. CASE c # i BY <2>6, <2>7, <2>8, <2>9, <3>2
    <3> QED BY <3>1, <3>2
  <2> QED BY <2>3, <2>11
<1>4. Right(S) BY <1>3
<1> QED BY <1>1, <1>2, <1>4 DEF Sums

-----------------------------------------------------------------------------
(* Sequences that are defined by what follows what: each element by the one  *)
(* before it.                                                                *)
Follows(f, a, F, n) == \A k \in Nat : k <= n => f[k] = IF k = 0 THEN a ELSE F[f[k - 1]]

LEMMA FollowsUpTo ==
  ASSUME NEW S, NEW a \in S, NEW F \in [S -> S], NEW n \in Nat
  PROVE  \E f \in [Nat -> S] : Follows(f, a, F, n)
<1> DEFINE Bad == {m \in Nat : ~\E f \in [Nat -> S] : Follows(f, a, F, m)}
<1> SUFFICES ASSUME Bad # {} PROVE FALSE OBVIOUS
<1>1. PICK m \in Bad : \A k \in Bad : m <= k
  <2> HIDE DEF Bad
  <2>1. Bad \in SUBSET Nat BY DEF Bad
  <2> QED BY <2>1, LeastNumber
<1>2. m \in Nat /\ ~\E f \in [Nat -> S] : Follows(f, a, F, m) OBVIOUS
<1>3. m # 0
  <2> DEFINE c == [k \in Nat |-> a]
  <2>1. c \in [Nat -> S] /\ Follows(c, a, F, 0) BY DEF Follows
  <2> QED BY <1>2, <2>1
<1>4. m - 1 \in Nat /\ m - 1 \notin Bad
  <2> HIDE DEF Bad
  <2> QED BY <1>1, <1>2, <1>3
<1>5. PICK f \in [Nat -> S] : Follows(f, a, F, m - 1) BY <1>4
<1> HIDE DEF Bad
<1> DEFINE h == [f EXCEPT ![m] = F[f[m - 1]]]
<1>6. h \in [Nat -> S] BY <1>2, <1>4
<1>7. Follows(h, a, F, m) BY <1>2, <1>3, <1>4, <1>5 DEF Follows
<1> QED BY <1>2, <1>6, <1>7

LEMMA FollowsUnique ==
  ASSUME NEW a, NEW F, NEW f, NEW g, NEW n \in Nat, Follows(f, a, F, n), Follows(g, a, F, n)
  PROVE  f[n] = g[n]
<1> DEFINE Bad == {k \in Nat : k <= n /\ f[k] # g[k]}
<1> SUFFICES ASSUME Bad # {} PROVE FALSE OBVIOUS
<1>1. PICK m \in Bad : \A k \in Bad : m <= k
  <2> HIDE DEF Bad
  <2>1. Bad \in SUBSET Nat BY DEF Bad
  <2> QED BY <2>1, LeastNumber
<1>2. m \in Nat /\ m <= n /\ f[m] # g[m] OBVIOUS
<1>3. m # 0 BY <1>2 DEF Follows
<1>4. f[m] = F[f[m - 1]] /\ g[m] = F[g[m - 1]] BY <1>2, <1>3 DEF Follows
<1>5. m - 1 \in Nat /\ m - 1 \notin Bad
  <2> HIDE DEF Bad
  <2> QED BY <1>1, <1>2, <1>3
<1>6. f[m - 1] = g[m - 1] BY <1>2, <1>5
<1> QED BY <1>2, <1>4, <1>6

LEMMA Sequence ==
  ASSUME NEW S, NEW a \in S, NEW F \in [S -> S]
  PROVE  \E f \in [Nat -> S] : \A n \in Nat : Follows(f, a, F, n)
<1> DEFINE U(f, n) == f \in [Nat -> S] /\ Follows(f, a, F, n)
           c(n) == CHOOSE f : U(f, n)
           f == [n \in Nat |-> c(n)[n]]
<1>1. \A n \in Nat : U(c(n), n)
  <2> TAKE n \in Nat
  <2>1. \E g : U(g, n) BY FollowsUpTo
  <2> HIDE DEF U
  <2> QED BY <2>1
<1>2. f \in [Nat -> S] BY <1>1
<1>3. ASSUME NEW n \in Nat PROVE f[n] = IF n = 0 THEN a ELSE F[f[n - 1]]
  <2> HIDE DEF c
  <2>1. CASE n = 0 BY <1>1, <2>1 DEF Follows
  <2>2. CASE n # 0
    <3>1. n - 1 \in Nat BY <2>2
    <3>2. Follows(c(n), a, F, n) /\ Follows(c(n - 1), a, F, n - 1) BY <1>1, <3>1
    <3>3. Follows(c(n), a, F, n - 1) BY <3>2 DEF Follows
    <3>4. c(n)[n - 1] = c(n - 1)[n - 1] BY <3>1, <3>2, <3>3, FollowsUnique
    <3>5. c(n)[n] = F[c(n)[n - 1]] BY <2>2, <3>2 DEF Follows
    <3> QED BY <2>2, <3>1, <3>4, <3>5
  <2> QED BY <2>1, <2>2
<1> HIDE DEF f
<1> QED BY <1>2, <1>3 DEF Follows
=============================================================================
