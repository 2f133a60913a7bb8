------------------------------ MODULE Induction ------------------------------
(***************************************************************************)
(* Induction in a form that needs no predicate: a set of numbers that has  *)
(* 0 and every successor is all of them; a set of subsets that has the     *)
(* empty one and every extension by an element is all of them.  With it,   *)
(* what recursion along 1 .. n, the sum over a finite set, flattening and  *)
(* a fold from the left compute, and where backpointers lead.              *)
(***************************************************************************)
EXTENDS Integers, FiniteSetTheorems, Folds, SequencesExt, TLAPS

\* Every non-empty set of natural numbers has a least one.
LEMMA Least ==
    ASSUME NEW T, T \subseteq Nat, T # {}
    PROVE  \E x \in T : \A y \in T : x <= y
<1> DEFINE R == OpToRel(<, Nat)
<1>1. IsWellFoundedOn(R, Nat)
  BY NatLessThanWellFounded
<1>2. \A i, j \in Nat : i < j => <<i, j>> \in R
  BY DEF OpToRel
<1> HIDE DEF R
<1>3. PICK x \in T : \A y \in T : ~ (<<y, x>> \in R)
  BY <1>1, WFMin, Zenon
<1>4. ASSUME NEW y \in T PROVE x <= y
  <2>1. x \in Nat /\ y \in Nat
    OBVIOUS
  <2>2. y < x => <<y, x>> \in R
    BY <1>2, <2>1, Zenon
  <2>3. ~ (y < x)
    BY <1>3, <2>2, Zenon
  <2> QED
    BY <2>1, <2>3, SMT
<1> QED
  BY <1>3, <1>4

\* Induction: the least number left out would have a predecessor in the set.
LEMMA Induct ==
    ASSUME NEW T, T \subseteq Nat, 0 \in T, \A n \in T : n + 1 \in T
    PROVE  T = Nat
<1>1. SUFFICES ASSUME Nat \ T # {} PROVE FALSE
  OBVIOUS
<1>2. PICK x \in Nat \ T : \A y \in Nat \ T : x <= y
  BY <1>1, Least
<1>3. x - 1 \in Nat
  BY <1>2
<1> QED BY <1>2, <1>3

\* Induction up to a bound.
LEMMA InductUpTo ==
    ASSUME NEW n \in Nat, NEW T, n >= 1 => 1 \in T,
           \A i \in 1 .. n - 1 : i \in T => i + 1 \in T
    PROVE  1 .. n \subseteq T
<1> DEFINE U == {i \in Nat : i + 1 \in 1 .. n => i + 1 \in T}
<1>1. 0 \in U
  OBVIOUS
<1>2. ASSUME NEW i \in U PROVE i + 1 \in U
  <2>1. i + 2 \in 1 .. n => i + 1 \in 1 .. n - 1 /\ i + 1 \in 1 .. n
    OBVIOUS
  <2> QED
    BY <2>1
<1>3. U = Nat
  <2> HIDE DEF U
  <2>1. U \subseteq Nat
    BY DEF U
  <2> QED
    BY <1>1, <1>2, <2>1, Induct
<1>4. ASSUME NEW i \in 1 .. n PROVE i \in T
  <2>1. i - 1 \in Nat
    OBVIOUS
  <2>2. i - 1 \in U
    BY <1>3, <2>1, Zenon
  <2> QED
    BY <2>2
<1> QED
  BY <1>4

\* ... and down from it.
LEMMA InductDown ==
    ASSUME NEW n \in Nat, NEW T, n >= 1 => n \in T,
           \A i \in 1 .. n - 1 : i + 1 \in T => i \in T
    PROVE  1 .. n \subseteq T
<1> DEFINE U == {i \in 1 .. n : n + 1 - i \in T}
<1>1. n >= 1 => 1 \in U
  <2>1. n + 1 - 1 = n
    OBVIOUS
  <2> QED
    BY <2>1
<1>2. ASSUME NEW i \in 1 .. n - 1, i \in U PROVE i + 1 \in U
  <2>1. n - i \in 1 .. n - 1 /\ (n - i) + 1 = n + 1 - i /\ n + 1 - (i + 1) = n - i /\ i + 1 \in 1 .. n
    OBVIOUS
  <2>2. n + 1 - i \in T
    BY <1>2
  <2> QED
    BY <2>1, <2>2
<1>3. 1 .. n \subseteq U
  <2> HIDE DEF U
  <2> QED
    BY <1>1, <1>2, InductUpTo
<1>4. ASSUME NEW i \in 1 .. n PROVE i \in T
  <2>1. n + 1 - i \in 1 .. n /\ n + 1 - (n + 1 - i) = i
    OBVIOUS
  <2>2. n + 1 - (n + 1 - i) \in T
    BY <1>3, <2>1
  <2> QED
    BY <2>1, <2>2
<1> QED
  BY <1>4

\* f is what the recursion along 1 .. n computes.
Follows(f, n, first, step) ==
    \A i \in 1 .. n : f[i] = IF i = 1 THEN first ELSE step[<<i, f[i - 1]>>]

\* Recursion along 1 .. n: there is a function whose every value follows from
\* the value before it.  A recursive definition is the choice of such a one.
LEMMA Recursion ==
    ASSUME NEW n \in Nat, NEW V, NEW first \in V, NEW step \in [Nat \X V -> V]
    PROVE  \E f \in [1 .. n -> V] : Follows(f, n, first, step)
<1> USE DEF Follows
<1> DEFINE T == {k \in Nat : \E f \in [1 .. k -> V] : Follows(f, k, first, step)}
<1>1. 0 \in T
  <2> DEFINE none == [i \in 1 .. 0 |-> first]
  <2>1. none \in [1 .. 0 -> V]
    OBVIOUS
  <2>2. Follows(none, 0, first, step)
    OBVIOUS
  <2> HIDE DEF none
  <2> QED
    BY <2>1, <2>2
<1>2. ASSUME NEW k \in T PROVE k + 1 \in T
  <2>1. PICK f \in [1 .. k -> V] : Follows(f, k, first, step)
    OBVIOUS
  <2> DEFINE last == IF k = 0 THEN first ELSE step[<<k + 1, f[k]>>]
             g == [i \in 1 .. k + 1 |-> IF i = k + 1 THEN last ELSE f[i]]
  <2>2. last \in V
    <3>1. k # 0 => f[k] \in V
      BY <2>1
    <3>2. k # 0 => <<k + 1, f[k]>> \in Nat \X V
      BY <3>1
    <3>3. k # 0 => step[<<k + 1, f[k]>>] \in V
      BY <3>2
    <3> QED
      BY <3>3
  <2>3. g \in [1 .. k + 1 -> V]
    BY <2>2
  <2>4. ASSUME NEW i \in 1 .. k + 1
        PROVE  g[i] = IF i = 1 THEN first ELSE step[<<i, g[i - 1]>>]
    <3>1. CASE i = k + 1
      <4>1. g[i] = last /\ (i # 1 => g[i - 1] = f[k] /\ k # 0) /\ (i = 1 => k = 0)
        BY <3>1
      <4> QED
        BY <3>1, <4>1
    <3>2. CASE i # k + 1
      <4>1. i \in 1 .. k /\ g[i] = f[i]
        BY <3>2
      <4>2. i # 1 => i - 1 \in 1 .. k + 1 /\ i - 1 # k + 1
        BY <4>1
      <4>3. i # 1 => g[i - 1] = f[i - 1]
        BY <4>2
      <4> QED
        BY <2>1, <4>1, <4>3
    <3> QED
      BY <3>1, <3>2
  <2> HIDE DEF g, last
  <2>5. Follows(g, k + 1, first, step)
    BY <2>4
  <2> QED
    BY <2>3, <2>5
<1>3. T = Nat
  <2> HIDE DEF T
  <2>1. T \subseteq Nat
    BY DEF T
  <2> QED
    BY <1>1, <1>2, <2>1, Induct
<1> QED
  BY <1>3
-----------------------------------------------------------------------------
\* Induction on finite sets: a set of subsets of S that has the empty one and
\* stays closed when an element is added has them all.
LEMMA InductFinite ==
    ASSUME NEW S, IsFiniteSet(S), NEW P, P \subseteq SUBSET S, {} \in P,
           \A s \in P : \A x \in S \ s : s \cup {x} \in P
    PROVE  P = SUBSET S
<1> DEFINE T == {n \in Nat : \A s \in SUBSET S : Cardinality(s) = n => s \in P}
<1>1. \A s \in SUBSET S : IsFiniteSet(s) /\ Cardinality(s) \in Nat
  BY FS_Subset, FS_CardinalityType
<1>2. 0 \in T
  BY <1>1, FS_EmptySet
<1>3. ASSUME NEW n \in T PROVE n + 1 \in T
  <2>1. SUFFICES ASSUME NEW s \in SUBSET S, Cardinality(s) = n + 1 PROVE s \in P
    OBVIOUS
  <2>2. IsFiniteSet(s) /\ s # {}
    BY <1>1, <2>1, FS_EmptySet
  <2>3. PICK x \in s : TRUE
    BY <2>2
  <2>4. Cardinality(s \ {x}) = n
    <3>1. n \in Nat
      OBVIOUS
    <3>2. Cardinality(s \ {x}) = Cardinality(s) - 1
      BY <2>2, FS_RemoveElement
    <3> HIDE DEF T
    <3> QED
      BY <2>1, <3>1, <3>2
  <2>5. s \ {x} \in P
    BY <2>4
  <2>6. (s \ {x}) \cup {x} = s /\ x \in S \ (s \ {x})
    OBVIOUS
  <2>7. (s \ {x}) \cup {x} \in P
    BY <2>5, <2>6
  <2> QED
    BY <2>6, <2>7
<1>4. T = Nat
  <2> HIDE DEF T
  <2>1. T \subseteq Nat
    BY DEF T
  <2> QED
    BY <1>2, <1>3, <2>1, Induct
<1> QED
  BY <1>1, <1>4

\* The sum of f over a set, as a fold takes it: one chosen element at a time.
SumOver(f, S) == MapThenFoldSet(+, 0, LAMBDA i : f[i], LAMBDA s : CHOOSE x \in s : TRUE, S)

Chosen(s) == CHOOSE x \in s : TRUE

\* g is the sum of f over every subset of S.
Adds(g, f, S) ==
    g = [s \in SUBSET S |-> IF s = {} THEN 0 ELSE f[Chosen(s)] + g[s \ {Chosen(s)}]]

IntegersOn(f, S) == \A i \in S : f[i] \in Int

LEMMA SumUnfolds == ASSUME NEW f, NEW S PROVE SumOver(f, S) = (CHOOSE g : Adds(g, f, S))[S]
BY Zenon DEF SumOver, MapThenFoldSet, Adds, Chosen

\* The fold is defined: its values are found by the size of the subset.
LEMMA AddsExists ==
    ASSUME NEW S, IsFiniteSet(S), NEW f, IntegersOn(f, S)
    PROVE  \E g : Adds(g, f, S)
<1> DEFINE Small(n) == {s \in SUBSET S : Cardinality(s) <= n}
           Fits(g, n) == \A s \in Small(n) :
               g[s] = IF s = {} THEN 0 ELSE f[Chosen(s)] + g[s \ {Chosen(s)}]
           T == {n \in Nat : \E g \in [Small(n) -> Int] : Fits(g, n)}
<1>1. \A s \in SUBSET S : IsFiniteSet(s) /\ Cardinality(s) \in Nat /\ Cardinality(s) <= Cardinality(S)
  BY FS_Subset, FS_CardinalityType
<1>2. \A s \in SUBSET S : s # {} => Chosen(s) \in s
  BY DEF Chosen
<1>3. ASSUME NEW s \in SUBSET S, s # {}
      PROVE  /\ s \ {Chosen(s)} \in SUBSET S
             /\ Cardinality(s \ {Chosen(s)}) = Cardinality(s) - 1
  BY <1>1, <1>2, <1>3, FS_RemoveElement
<1>4. 0 \in T
  <2> DEFINE g == [s \in Small(0) |-> 0]
  <2>1. \A s \in Small(0) : s = {}
    BY <1>1, FS_EmptySet
  <2>2. g \in [Small(0) -> Int] /\ Fits(g, 0)
    BY <2>1
  <2> HIDE DEF g
  <2> QED
    BY <2>2
<1>5. ASSUME NEW n \in T PROVE n + 1 \in T
  <2>1. PICK g \in [Small(n) -> Int] : Fits(g, n)
    OBVIOUS
  <2> DEFINE h == [s \in Small(n + 1) |->
                     IF s = {} THEN 0 ELSE f[Chosen(s)] + g[s \ {Chosen(s)}]]
  <2>2. ASSUME NEW s \in Small(n + 1), s # {}
        PROVE  s \ {Chosen(s)} \in Small(n)
    BY <1>1, <1>3, <2>2
  <2>3. h \in [Small(n + 1) -> Int]
    <3>1. ASSUME NEW s \in Small(n + 1) PROVE h[s] \in Int
      <4>1. CASE s = {}
        BY <4>1
      <4>2. CASE s # {}
        <5>1. Chosen(s) \in S
          BY <1>2, <4>2
        <5>2. f[Chosen(s)] \in Int
          BY <5>1 DEF IntegersOn
        <5>3. g[s \ {Chosen(s)}] \in Int
          BY <2>2, <4>2
        <5> HIDE DEF Small
        <5>4. h[s] = f[Chosen(s)] + g[s \ {Chosen(s)}]
          BY <4>2
        <5> QED
          BY <5>2, <5>3, <5>4
      <4> QED
        BY <4>1, <4>2
    <3> QED
      BY <3>1
  <2>4. ASSUME NEW s \in Small(n) PROVE s \in Small(n + 1) /\ h[s] = g[s]
    <3>1. s \in Small(n + 1)
      BY <1>1
    <3>2. g[s] = IF s = {} THEN 0 ELSE f[Chosen(s)] + g[s \ {Chosen(s)}]
      BY <2>1
    <3> HIDE DEF Small
    <3> QED
      BY <3>1, <3>2
  <2>5. Fits(h, n + 1)
    <3>1. ASSUME NEW s \in Small(n + 1)
          PROVE  h[s] = IF s = {} THEN 0 ELSE f[Chosen(s)] + h[s \ {Chosen(s)}]
      <4>1. s # {} => h[s \ {Chosen(s)}] = g[s \ {Chosen(s)}]
        BY <2>2, <2>4
      <4> HIDE DEF Small
      <4>2. h[s] = IF s = {} THEN 0 ELSE f[Chosen(s)] + g[s \ {Chosen(s)}]
        OBVIOUS
      <4> HIDE DEF h
      <4> QED
        BY <4>1, <4>2
    <3> QED
      BY <3>1
  <2>6. n + 1 \in Nat
    OBVIOUS
  <2> HIDE DEF h, Small, Fits
  <2> QED
    BY <2>3, <2>5, <2>6
<1>6. T = Nat
  <2> HIDE DEF T
  <2>1. T \subseteq Nat
    BY DEF T
  <2> QED
    BY <1>4, <1>5, <2>1, Induct
<1>7. PICK g \in [Small(Cardinality(S)) -> Int] : Fits(g, Cardinality(S))
  BY <1>6, FS_CardinalityType
<1>8. Small(Cardinality(S)) = SUBSET S
  BY <1>1
<1>9. Adds(g, f, S)
  BY <1>7, <1>8 DEF Adds
<1> QED
  BY <1>9

\* What the fold computes: integers, and the same whichever element is taken
\* first.
Sums(g, f, S) ==
    /\ g \in [SUBSET S -> Int] /\ g[{}] = 0
    /\ \A s \in SUBSET S : \A y \in s : g[s] = f[y] + g[s \ {y}]

LEMMA AddsSums ==
    ASSUME NEW S, IsFiniteSet(S), NEW f, IntegersOn(f, S), NEW g, Adds(g, f, S)
    PROVE  Sums(g, f, S)
<1>1. \A s \in SUBSET S : IsFiniteSet(s) /\ Cardinality(s) \in Nat
  BY FS_Subset, FS_CardinalityType
<1>2. \A s \in SUBSET S : s # {} => Chosen(s) \in s /\ f[Chosen(s)] \in Int
  BY DEF Chosen, IntegersOn
<1>3. \A s \in SUBSET S : \A y \in s :
         s \ {y} \in SUBSET S /\ Cardinality(s \ {y}) = Cardinality(s) - 1
  BY <1>1, FS_RemoveElement
<1>4. /\ g = [s \in SUBSET S |-> g[s]] /\ g[{}] = 0
      /\ \A s \in SUBSET S : s # {} => g[s] = f[Chosen(s)] + g[s \ {Chosen(s)}]
  BY DEF Adds
<1> DEFINE Good(s) == g[s] \in Int /\ \A y \in s : g[s] = f[y] + g[s \ {y}]
           T == {n \in Nat : \A s \in SUBSET S : Cardinality(s) <= n => Good(s)}
<1>5. 0 \in T
  <2>1. Good({})
    BY <1>4
  <2>2. \A s \in SUBSET S : Cardinality(s) <= 0 => s = {}
    BY <1>1, FS_EmptySet
  <2> HIDE DEF Good
  <2> QED
    BY <2>1, <2>2
<1>6. ASSUME NEW n \in T PROVE n + 1 \in T
  <2>1. \A t \in SUBSET S : Cardinality(t) <= n => Good(t)
    OBVIOUS
  <2>2. ASSUME NEW s \in SUBSET S, Cardinality(s) = n + 1 PROVE Good(s)
    <3> DEFINE c == Chosen(s)
    <3>1. s # {}
      <4>1. n \in Nat
        OBVIOUS
      <4> HIDE DEF T
      <4> QED
        BY <2>2, <4>1, FS_EmptySet
    <3>2. c \in s /\ f[c] \in Int /\ g[s] = f[c] + g[s \ {c}]
      BY <1>2, <1>4, <3>1
    <3> HIDE DEF c
    <3>3. ASSUME NEW y \in s PROVE Good(s \ {y})
      <4> HIDE DEF Good
      <4>1. s \ {y} \in SUBSET S /\ Cardinality(s \ {y}) <= n
        BY <1>3, <2>2
      <4> QED
        BY <2>1, <4>1, Zenon
    <3>4. ASSUME NEW y \in s PROVE g[s] = f[y] + g[s \ {y}]
      <4>1. CASE y = c
        BY <3>2, <4>1
      <4>2. CASE y # c
        <5> DEFINE r == (s \ {c}) \ {y}
        <5>1. y \in s \ {c} /\ c \in s \ {y} /\ r = (s \ {y}) \ {c}
          BY <3>2, <4>2
        <5>2. r \in SUBSET S /\ Cardinality(r) <= n
          <6>1. s \ {c} \in SUBSET S /\ Cardinality(s \ {c}) = n
            BY <1>3, <2>2, <3>2
          <6> QED
            BY <1>3, <5>1, <6>1
        <5>3. Good(r)
          <6> HIDE DEF Good, r
          <6> QED
            BY <2>1, <5>2, Zenon
        <5> HIDE DEF r
        <5>4. Good(s \ {c}) /\ Good(s \ {y})
          <6> HIDE DEF Good
          <6> QED
            BY <3>2, <3>3
        <5>5. g[s \ {c}] = f[y] + g[r]
          BY <5>1, <5>4 DEF r
        <5>6. g[s \ {y}] = f[c] + g[r]
          BY <5>1, <5>4
        <5>7. f[y] \in Int
          BY DEF IntegersOn
        <5> QED
          BY <3>2, <5>3, <5>5, <5>6, <5>7
      <4> QED
        BY <4>1, <4>2
    <3>5. g[s] \in Int
      BY <3>2, <3>3
    <3> QED
      BY <3>4, <3>5
  <2>3. \A s \in SUBSET S : Cardinality(s) <= n + 1 => Cardinality(s) <= n \/ Cardinality(s) = n + 1
    BY <1>1
  <2> HIDE DEF Good
  <2> QED
    BY <2>1, <2>2, <2>3
<1>7. T = Nat
  <2> HIDE DEF T
  <2>1. T \subseteq Nat
    BY DEF T
  <2> QED
    BY <1>5, <1>6, <2>1, Induct
<1>8. \A s \in SUBSET S : Good(s)
  <2>1. ASSUME NEW s \in SUBSET S PROVE Good(s)
    <3>1. Cardinality(s) \in T /\ Cardinality(s) <= Cardinality(s)
      BY <1>1, <1>7
    <3> HIDE DEF Good
    <3> QED
      BY <3>1
  <2> QED
    BY <2>1
<1> QED
  BY <1>4, <1>8 DEF Sums

\* Two tables of sums agree where both are defined.
LEMMA SumsAgree ==
    ASSUME NEW S, IsFiniteSet(S), NEW f, IntegersOn(f, S), NEW R \in SUBSET S,
           NEW g, Sums(g, f, S), NEW h, Sums(h, f, R)
    PROVE  \A s \in SUBSET R : h[s] = g[s]
<1> DEFINE P == {s \in SUBSET R : h[s] = g[s]}
<1>1. IsFiniteSet(R) /\ P \subseteq SUBSET R
  BY FS_Subset
<1>2. {} \in P
  BY DEF Sums
<1>3. ASSUME NEW s \in P, NEW x \in R \ s PROVE s \cup {x} \in P
  <2>1. s \cup {x} \in SUBSET R /\ s \cup {x} \in SUBSET S /\ (s \cup {x}) \ {x} = s
    OBVIOUS
  <2>2. x \in s \cup {x} /\ h[s] = g[s]
    OBVIOUS
  <2> HIDE DEF P
  <2>3. h[s \cup {x}] = f[x] + h[(s \cup {x}) \ {x}]
    BY <2>1, <2>2, Zenon DEF Sums
  <2>4. g[s \cup {x}] = f[x] + g[(s \cup {x}) \ {x}]
    BY <2>1, <2>2, Zenon DEF Sums
  <2> QED
    BY <2>1, <2>2, <2>3, <2>4 DEF P
<1>4. P = SUBSET R
  <2> HIDE DEF P
  <2> QED
    BY <1>1, <1>2, <1>3, InductFinite
<1> QED
  BY <1>4

LEMMA SumEmpty == ASSUME NEW f PROVE SumOver(f, {}) = 0
<1> DEFINE S == {}
<1>1. IsFiniteSet(S) /\ IntegersOn(f, S)
  BY FS_EmptySet DEF IntegersOn
<1> HIDE DEF S
<1>2. PICK g : Adds(g, f, S)
  BY <1>1, AddsExists
<1>3. Adds((CHOOSE c : Adds(c, f, S)), f, S)
  BY <1>2
<1>4. Sums((CHOOSE c : Adds(c, f, S)), f, S)
  BY <1>1, <1>3, AddsSums
<1>5. SumOver(f, S) = 0
  BY <1>4, SumUnfolds DEF Sums, S
<1> QED
  BY <1>5 DEF S

\* A sum is an integer, and any element may be taken out first.
LEMMA SumStep ==
    ASSUME NEW S, IsFiniteSet(S), NEW f, IntegersOn(f, S)
    PROVE  /\ SumOver(f, S) \in Int
           /\ \A y \in S : SumOver(f, S) = f[y] + SumOver(f, S \ {y})
<1> DEFINE C(R) == CHOOSE c : Adds(c, f, R)
<1>1. ASSUME NEW R \in SUBSET S
      PROVE  Sums(C(R), f, R) /\ SumOver(f, R) = C(R)[R]
  <2>1. IsFiniteSet(R) /\ IntegersOn(f, R)
    BY FS_Subset DEF IntegersOn
  <2>2. PICK g : Adds(g, f, R)
    BY <2>1, AddsExists
  <2>3. Adds(C(R), f, R)
    BY <2>2
  <2>4. Sums(C(R), f, R)
    <3> HIDE DEF C
    <3> QED
      BY <2>1, <2>3, AddsSums
  <2> QED
    BY <2>4, SumUnfolds
<1> HIDE DEF C
<1>2. SumOver(f, S) \in Int
  <2>1. S \in SUBSET S
    OBVIOUS
  <2>2. C(S) \in [SUBSET S -> Int] /\ SumOver(f, S) = C(S)[S]
    BY <1>1, <2>1, Zenon DEF Sums
  <2> QED
    BY <2>1, <2>2
<1>3. ASSUME NEW y \in S PROVE SumOver(f, S) = f[y] + SumOver(f, S \ {y})
  <2> DEFINE R == S \ {y}
  <2>1. R \in SUBSET S
    OBVIOUS
  <2>2. C(S)[S] = f[y] + C(S)[R]
    <3>1. S \in SUBSET S
      OBVIOUS
    <3> QED
      BY <1>1, <3>1, Zenon DEF Sums
  <2> HIDE DEF R
  <2>3. Sums(C(R), f, R) /\ Sums(C(S), f, S)
    BY <1>1, <2>1
  <2>4. \A s \in SUBSET R : C(R)[s] = C(S)[s]
    BY <2>1, <2>3, SumsAgree
  <2>5. C(R)[R] = C(S)[R]
    BY <2>4
  <2>6. SumOver(f, R) = C(R)[R] /\ SumOver(f, S) = C(S)[S]
    BY <1>1, <2>1
  <2>7. SumOver(f, S) = f[y] + SumOver(f, R)
    BY <2>2, <2>5, <2>6
  <2> QED
    BY <2>7 DEF R
<1> QED
  BY <1>2, <1>3

\* ... the form that adds an element.
LEMMA SumAdds ==
    ASSUME NEW S, IsFiniteSet(S), NEW f, IntegersOn(f, S), NEW s \in SUBSET S, NEW y \in S \ s
    PROVE  /\ SumOver(f, s) \in Int /\ f[y] \in Int
           /\ SumOver(f, s \cup {y}) = f[y] + SumOver(f, s)
<1>1. IsFiniteSet(s) /\ IsFiniteSet(s \cup {y}) /\ IntegersOn(f, s) /\ IntegersOn(f, s \cup {y})
  BY FS_Subset, FS_AddElement DEF IntegersOn
<1>2. y \in s \cup {y} /\ (s \cup {y}) \ {y} = s
  OBVIOUS
<1>3. SumOver(f, s) \in Int
  BY <1>1, SumStep
<1>4. SumOver(f, s \cup {y}) = f[y] + SumOver(f, (s \cup {y}) \ {y})
  BY <1>1, <1>2, SumStep, Zenon
<1> QED
  BY <1>2, <1>3, <1>4 DEF IntegersOn

\* The sum of a combination.
Combines(h, f, a, g, S) == \A i \in S : h[i] = f[i] + a * g[i]

LEMMA SumLinear ==
    ASSUME NEW S, IsFiniteSet(S), NEW f, IntegersOn(f, S), NEW g, IntegersOn(g, S), NEW a \in Int,
           NEW h, Combines(h, f, a, g, S)
    PROVE  SumOver(h, S) = SumOver(f, S) + a * SumOver(g, S)
<1>1. IntegersOn(h, S)
  BY DEF IntegersOn, Combines
<1> DEFINE P == {s \in SUBSET S : SumOver(h, s) = SumOver(f, s) + a * SumOver(g, s)}
<1>2. {} \in P
  BY SumEmpty
<1>3. ASSUME NEW s \in P, NEW y \in S \ s PROVE s \cup {y} \in P
  <2>1. s \in SUBSET S /\ IsFiniteSet(S)
    OBVIOUS
  <2>9. SumOver(h, s) = SumOver(f, s) + a * SumOver(g, s)
    OBVIOUS
  <2> HIDE DEF P
  <2>2. /\ SumOver(f, s) \in Int /\ f[y] \in Int
        /\ SumOver(f, s \cup {y}) = f[y] + SumOver(f, s)
    <3>1. IntegersOn(f, S)
      OBVIOUS
    <3>2. SumOver(f, s) \in Int /\ f[y] \in Int
      BY <2>1, <3>1, SumAdds
    <3>3. SumOver(f, s \cup {y}) = f[y] + SumOver(f, s)
      BY <2>1, <3>1, SumAdds
    <3> QED
      BY <3>2, <3>3
  <2>3. /\ SumOver(g, s) \in Int /\ g[y] \in Int
        /\ SumOver(g, s \cup {y}) = g[y] + SumOver(g, s)
    <3>1. IntegersOn(g, S)
      OBVIOUS
    <3>2. SumOver(g, s) \in Int /\ g[y] \in Int
      BY <2>1, <3>1, SumAdds
    <3>3. SumOver(g, s \cup {y}) = g[y] + SumOver(g, s)
      BY <2>1, <3>1, SumAdds
    <3> QED
      BY <3>2, <3>3
  <2>4. SumOver(h, s \cup {y}) = h[y] + SumOver(h, s)
    BY <1>1, <2>1, SumAdds
  <2>5. a * (g[y] + SumOver(g, s)) = a * g[y] + a * SumOver(g, s)
    BY <2>3
  <2>6. a * g[y] \in Int /\ a * SumOver(g, s) \in Int
    BY <2>3
  <2>7. h[y] = f[y] + a * g[y]
    BY DEF Combines
  <2>8. SumOver(h, s \cup {y}) = SumOver(f, s \cup {y}) + a * SumOver(g, s \cup {y})
    BY <2>9, <2>2, <2>3, <2>4, <2>5, <2>6, <2>7
  <2> QED
    BY <2>1, <2>8 DEF P
<1>4. P = SUBSET S
  <2> HIDE DEF P
  <2>1. P \subseteq SUBSET S
    BY DEF P
  <2> QED
    BY <1>2, <1>3, <2>1, InductFinite
<1> QED
  BY <1>4

\* The sum of a multiple.
LEMMA SumScaled ==
    ASSUME NEW S, IsFiniteSet(S), NEW f, IntegersOn(f, S), NEW a \in Int,
           NEW h, \A i \in S : h[i] = a * f[i]
    PROVE  SumOver(h, S) = a * SumOver(f, S)
<1>1. Combines(h, f, a - 1, f, S)
  <2> SUFFICES ASSUME NEW i \in S PROVE h[i] = f[i] + (a - 1) * f[i]
    BY DEF Combines
  <2>1. f[i] \in Int /\ h[i] = a * f[i]
    BY DEF IntegersOn
  <2>2. \A y \in Int : a * y = y + (a - 1) * y
    OBVIOUS
  <2> QED
    BY <2>1, <2>2
<1>2. SumOver(h, S) = SumOver(f, S) + (a - 1) * SumOver(f, S)
  <2>1. a - 1 \in Int
    OBVIOUS
  <2> QED
    BY <1>1, <2>1, SumLinear
<1>3. SumOver(f, S) \in Int
  BY SumStep
<1>4. \A y \in Int : a * y = y + (a - 1) * y
  OBVIOUS
<1> QED
  BY <1>2, <1>3, <1>4

LEMMA SumSame ==
    ASSUME NEW S, IsFiniteSet(S), NEW f, IntegersOn(f, S), NEW h, \A i \in S : h[i] = f[i]
    PROVE  SumOver(h, S) = SumOver(f, S)
<1>1. \A i \in S : h[i] = f[i] + 0 * f[i]
  BY DEF IntegersOn
<1>2. SumOver(h, S) = SumOver(f, S) + 0 * SumOver(f, S)
  BY <1>1, SumLinear DEF Combines
<1> QED
  BY <1>2, SumStep

\* The sum of what is nowhere more.
LEMMA SumAtMost ==
    ASSUME NEW S, IsFiniteSet(S), NEW f, IntegersOn(f, S), NEW g, IntegersOn(g, S),
           \A i \in S : f[i] <= g[i]
    PROVE  SumOver(f, S) <= SumOver(g, S)
<1> DEFINE P == {s \in SUBSET S : SumOver(f, s) <= SumOver(g, s)}
<1>1. {} \in P
  BY SumEmpty
<1>2. ASSUME NEW s \in P, NEW y \in S \ s PROVE s \cup {y} \in P
  <2>1. s \in SUBSET S /\ SumOver(f, s) <= SumOver(g, s)
    OBVIOUS
  <2>2. /\ SumOver(f, s) \in Int /\ f[y] \in Int
        /\ SumOver(f, s \cup {y}) = f[y] + SumOver(f, s)
    BY <2>1, SumAdds
  <2>3. /\ SumOver(g, s) \in Int /\ g[y] \in Int
        /\ SumOver(g, s \cup {y}) = g[y] + SumOver(g, s)
    BY <2>1, SumAdds
  <2>4. f[y] <= g[y]
    OBVIOUS
  <2>5. SumOver(f, s \cup {y}) <= SumOver(g, s \cup {y})
    BY <2>1, <2>2, <2>3, <2>4
  <2> QED
    BY <2>5
<1>3. P = SUBSET S
  <2> HIDE DEF P
  <2>1. P \subseteq SUBSET S
    BY DEF P
  <2> QED
    BY <1>1, <1>2, <2>1, InductFinite
<1> QED
  BY <1>3

\* The sum along 1 .. n, its last term first.
LEMMA SumLast ==
    ASSUME NEW n \in Nat, NEW f, IntegersOn(f, 1 .. n + 1)
    PROVE  /\ SumOver(f, 1 .. n) \in Int
           /\ SumOver(f, 1 .. n + 1) = f[n + 1] + SumOver(f, 1 .. n)
<1>1. IsFiniteSet(1 .. n + 1) /\ IsFiniteSet(1 .. n) /\ IntegersOn(f, 1 .. n)
  BY FS_Interval DEF IntegersOn
<1>2. n + 1 \in 1 .. n + 1 /\ (1 .. n + 1) \ {n + 1} = 1 .. n
  OBVIOUS
<1>3. SumOver(f, 1 .. n) \in Int
  BY <1>1, SumStep
<1>4. SumOver(f, 1 .. n + 1) = f[n + 1] + SumOver(f, (1 .. n + 1) \ {n + 1})
  BY <1>1, <1>2, SumStep, Zenon
<1> QED
  BY <1>2, <1>3, <1>4

\* What is zero adds nothing.
LEMMA SumOfRest ==
    ASSUME NEW S, IsFiniteSet(S), NEW f, IntegersOn(f, S), NEW s \in SUBSET S,
           \A i \in S \ s : f[i] = 0
    PROVE  SumOver(f, S) = SumOver(f, s)
<1> DEFINE P == {r \in SUBSET (S \ s) : SumOver(f, s \cup r) = SumOver(f, s)}
<1>1. {} \in P
  <2>1. s \cup {} = s
    OBVIOUS
  <2> QED
    BY <2>1
<1>2. ASSUME NEW r \in P, NEW y \in (S \ s) \ r PROVE r \cup {y} \in P
  <2>1. r \in SUBSET (S \ s) /\ SumOver(f, s \cup r) = SumOver(f, s)
    OBVIOUS
  <2> HIDE DEF P
  <2>2. s \cup r \in SUBSET S /\ y \in S \ (s \cup r) /\ s \cup (r \cup {y}) = (s \cup r) \cup {y}
    BY <2>1
  <2>3. /\ SumOver(f, s \cup r) \in Int
        /\ SumOver(f, (s \cup r) \cup {y}) = f[y] + SumOver(f, s \cup r)
    BY <2>2, SumAdds
  <2>4. SumOver(f, (s \cup r) \cup {y}) = SumOver(f, s)
    BY <2>1, <2>3
  <2>5. SumOver(f, s \cup (r \cup {y})) = SumOver(f, s)
    BY <2>2, <2>4, Zenon
  <2> QED
    BY <2>1, <2>5 DEF P
<1>3. P = SUBSET (S \ s)
  <2> HIDE DEF P
  <2>1. P \subseteq SUBSET (S \ s) /\ IsFiniteSet(S \ s)
    BY FS_Subset DEF P
  <2> QED
    BY <1>1, <1>2, <2>1, InductFinite
<1>4. S \ s \in P /\ s \cup (S \ s) = S
  BY <1>3
<1>5. SumOver(f, s \cup (S \ s)) = SumOver(f, s)
  BY <1>4
<1> QED
  BY <1>4, <1>5, Zenon

\* The sum of natural numbers, and of one number n times.
LEMMA SumNaturals ==
    ASSUME NEW S, IsFiniteSet(S), NEW f, \A i \in S : f[i] \in Nat
    PROVE  SumOver(f, S) \in Nat /\ \A y \in S : f[y] <= SumOver(f, S)
<1>1. ASSUME NEW R \in SUBSET S PROVE SumOver(f, R) \in Int /\ 0 <= SumOver(f, R)
  <2> DEFINE none == [i \in R |-> 0]
  <2>1. IsFiniteSet(R)
    BY FS_Subset
  <2>2. IntegersOn(f, R) /\ IntegersOn(none, R) /\ \A i \in R : none[i] <= f[i]
    BY DEF IntegersOn
  <2>3. Combines(none, f, -1, f, R)
    BY DEF Combines
  <2> HIDE DEF none
  <2>4. SumOver(f, R) \in Int
    BY <2>1, <2>2, SumStep
  <2>5. SumOver(none, R) = SumOver(f, R) + (-1) * SumOver(f, R)
    <3>1. -1 \in Int
      OBVIOUS
    <3> QED
      BY <2>1, <2>2, <2>3, <3>1, SumLinear
  <2>6. SumOver(none, R) <= SumOver(f, R)
    BY <2>1, <2>2, SumAtMost
  <2> QED
    BY <2>4, <2>5, <2>6
<1>2. ASSUME NEW y \in S PROVE f[y] <= SumOver(f, S)
  <2>1. IntegersOn(f, S)
    BY DEF IntegersOn
  <2>2. SumOver(f, S) = f[y] + SumOver(f, S \ {y})
    BY <2>1, SumStep
  <2>3. SumOver(f, S \ {y}) \in Int /\ 0 <= SumOver(f, S \ {y}) /\ f[y] \in Nat
    BY <1>1
  <2> QED
    BY <2>2, <2>3
<1> QED
  BY <1>1, <1>2

LEMMA SumConstant ==
    ASSUME NEW n \in Nat, NEW c \in Int, NEW f, \A i \in 1 .. n : f[i] = c
    PROVE  SumOver(f, 1 .. n) = n * c
<1> DEFINE T == {k \in Nat : k <= n => SumOver(f, 1 .. k) = k * c}
<1>1. 0 \in T
  <2>1. 1 .. 0 = {} /\ 0 * c = 0
    OBVIOUS
  <2> QED
    BY <2>1, SumEmpty
<1>2. ASSUME NEW k \in T PROVE k + 1 \in T
  <2>1. k \in Nat /\ (k <= n => SumOver(f, 1 .. k) = k * c)
    OBVIOUS
  <2>2. ASSUME k + 1 <= n PROVE SumOver(f, 1 .. k + 1) = (k + 1) * c
    <3>1. IntegersOn(f, 1 .. k + 1) /\ f[k + 1] = c
      BY <2>1, <2>2 DEF IntegersOn
    <3>2. SumOver(f, 1 .. k + 1) = f[k + 1] + SumOver(f, 1 .. k)
      BY <2>1, <3>1, SumLast
    <3>3. (k + 1) * c = c + k * c
      BY <2>1
    <3> HIDE DEF T
    <3> QED
      BY <2>1, <2>2, <3>1, <3>2, <3>3
  <2> QED
    BY <2>1, <2>2
<1>3. T = Nat
  <2> HIDE DEF T
  <2>1. T \subseteq Nat
    BY DEF T
  <2> QED
    BY <1>1, <1>2, <2>1, Induct
<1> QED
  BY <1>3

\* The recursion of FlattenSeq: f[i] is the first i sequences joined.
Concats(f, seqs) ==
    f = [i \in 1 .. Len(seqs) |-> IF i = 1 THEN seqs[i] ELSE f[i - 1] \o seqs[i]]

LEMMA FlattenUnfolds ==
    ASSUME NEW seqs, Len(seqs) # 0
    PROVE  FlattenSeq(seqs) = (CHOOSE f : Concats(f, seqs))[Len(seqs)]
BY Zenon DEF FlattenSeq, Concats

\* There are such joined sequences, and flattening gives the last of them.
Concatenated(f, seqs, n) ==
    \A i \in 1 .. n : f[i] = IF i = 1 THEN seqs[i] ELSE f[i - 1] \o seqs[i]

LEMMA Flattens ==
    ASSUME NEW S, NEW n \in Nat \ {0}, NEW seqs \in [1 .. n -> Seq(S)]
    PROVE  \E f \in [1 .. n -> Seq(S)] : Concatenated(f, seqs, n) /\ FlattenSeq(seqs) = f[n]
<1> DEFINE step == [x \in Nat \X Seq(S) |->
                      IF x[1] \in 1 .. n THEN x[2] \o seqs[x[1]] ELSE <<>>]
<1>1. Len(seqs) = n /\ n \in 1 .. n /\ 1 \in 1 .. n /\ seqs[1] \in Seq(S)
  <2>1. seqs \in Seq(Seq(S)) /\ DOMAIN seqs = 1 .. n
    OBVIOUS
  <2> QED
    BY <2>1
<1>2. step \in [Nat \X Seq(S) -> Seq(S)]
  <2>1. ASSUME NEW x \in Nat \X Seq(S)
        PROVE  (IF x[1] \in 1 .. n THEN x[2] \o seqs[x[1]] ELSE <<>>) \in Seq(S)
    <3>1. x[2] \in Seq(S)
      OBVIOUS
    <3>2. ASSUME x[1] \in 1 .. n PROVE x[2] \o seqs[x[1]] \in Seq(S)
      <4>1. seqs[x[1]] \in Seq(S)
        BY <3>2
      <4> QED
        BY <3>1, <4>1
    <3> QED
      BY <3>2
  <2> QED
    BY <2>1
<1>3. \A i \in 1 .. n : \A t \in Seq(S) : step[<<i, t>>] = t \o seqs[i]
  <2>1. ASSUME NEW i \in 1 .. n, NEW t \in Seq(S) PROVE step[<<i, t>>] = t \o seqs[i]
    <3>1. <<i, t>> \in Nat \X Seq(S) /\ <<i, t>>[1] = i /\ <<i, t>>[2] = t
      OBVIOUS
    <3> QED
      BY <3>1
  <2> QED
    BY <2>1
<1> HIDE DEF step
<1>4. \E f \in [1 .. n -> Seq(S)] : Follows(f, n, seqs[1], step)
  BY <1>1, <1>2, Recursion
<1>5. PICK g \in [1 .. n -> Seq(S)] : Follows(g, n, seqs[1], step)
  BY <1>4
<1>6. ASSUME NEW i \in 1 .. n PROVE g[i] = IF i = 1 THEN seqs[i] ELSE g[i - 1] \o seqs[i]
  <2>1. g[i] = IF i = 1 THEN seqs[1] ELSE step[<<i, g[i - 1]>>]
    BY <1>5 DEF Follows
  <2>2. i # 1 => g[i - 1] \in Seq(S)
    <3>1. i # 1 => i - 1 \in 1 .. n
      OBVIOUS
    <3> QED
      BY <3>1
  <2>3. i # 1 => step[<<i, g[i - 1]>>] = g[i - 1] \o seqs[i]
    BY <1>3, <2>2
  <2> QED
    BY <2>1, <2>3
<1>7. Concats(g, seqs)
  <2>1. g = [i \in 1 .. n |-> g[i]]
    OBVIOUS
  <2>2. [i \in 1 .. n |-> g[i]] = [i \in 1 .. n |-> IF i = 1 THEN seqs[i] ELSE g[i - 1] \o seqs[i]]
    BY <1>6, Zenon
  <2> QED
    BY <1>1, <2>1, <2>2, Zenon DEF Concats
<1> DEFINE h == CHOOSE f : Concats(f, seqs)
<1>8. Concats(h, seqs) /\ FlattenSeq(seqs) = h[n]
  BY <1>1, <1>7, FlattenUnfolds
<1> HIDE DEF h
<1>9. \A i \in 1 .. n : h[i] = IF i = 1 THEN seqs[i] ELSE h[i - 1] \o seqs[i]
  <2>1. h = [i \in 1 .. n |-> IF i = 1 THEN seqs[i] ELSE h[i - 1] \o seqs[i]]
    BY <1>1, <1>8 DEF Concats
  <2> QED
    BY <2>1, Zenon
<1>10. DOMAIN h = 1 .. n /\ h = [i \in 1 .. n |-> h[i]]
  BY <1>1, <1>8 DEF Concats
<1> DEFINE T == {i \in 1 .. n : h[i] \in Seq(S)}
<1>11. 1 .. n \subseteq T
  <2>1. 1 \in T
    BY <1>1, <1>9
  <2>2. ASSUME NEW i \in 1 .. n - 1, i \in T PROVE i + 1 \in T
    <3>1. i + 1 \in 1 .. n /\ i + 1 # 1 /\ (i + 1) - 1 = i
      OBVIOUS
    <3>2. h[i + 1] = h[i] \o seqs[i + 1]
      BY <1>9, <3>1
    <3>3. h[i] \in Seq(S) /\ seqs[i + 1] \in Seq(S)
      BY <2>2, <3>1
    <3>4. h[i] \o seqs[i + 1] \in Seq(S)
      BY <3>3
    <3> QED
      BY <3>1, <3>2, <3>4
  <2> HIDE DEF T
  <2> QED
    BY <2>1, <2>2, InductUpTo
<1>12. h \in [1 .. n -> Seq(S)]
  BY <1>10, <1>11
<1> QED
  BY <1>8, <1>9, <1>12 DEF Concatenated

\* Recursion along 0 .. n.
FollowsFromZero(f, n, first, step) ==
    f[0] = first /\ \A i \in 1 .. n : f[i] = step[<<i, f[i - 1]>>]

LEMMA RecursionFromZero ==
    ASSUME NEW n \in Nat, NEW V, NEW first \in V, NEW step \in [Nat \X V -> V]
    PROVE  \E f \in [0 .. n -> V] : FollowsFromZero(f, n, first, step)
<1> DEFINE later == [p \in Nat \X V |-> IF p[1] = 0 THEN first ELSE step[<<p[1] - 1, p[2]>>]]
<1>1. later \in [Nat \X V -> V] /\ n + 1 \in Nat
  <2>1. ASSUME NEW p \in Nat \X V, p[1] # 0 PROVE step[<<p[1] - 1, p[2]>>] \in V
    <3>1. <<p[1] - 1, p[2]>> \in Nat \X V
      BY <2>1
    <3> QED
      BY <3>1
  <2> QED
    BY <2>1
<1>2. \A i \in Nat, y \in V : later[<<i + 1, y>>] = step[<<i, y>>]
  OBVIOUS
<1> HIDE DEF later
<1>3. PICK g \in [1 .. n + 1 -> V] : Follows(g, n + 1, first, later)
  BY <1>1, Recursion
<1> DEFINE f == [i \in 0 .. n |-> g[i + 1]]
<1>4. \A i \in 0 .. n : f[i] = g[i + 1] /\ i + 1 \in 1 .. n + 1
  OBVIOUS
<1>5. f \in [0 .. n -> V]
  BY <1>4
<1>6. ASSUME NEW i \in 0 .. n PROVE f[i] = IF i = 0 THEN first ELSE step[<<i, f[i - 1]>>]
  <2>1. i = 0 => f[i] = first
    <3>1. 1 \in 1 .. n + 1 /\ 0 + 1 = 1
      OBVIOUS
    <3> HIDE DEF f
    <3> QED
      BY <1>3, <1>4, <3>1 DEF Follows
  <2>2. ASSUME i # 0 PROVE f[i] = step[<<i, f[i - 1]>>]
    <3>1. i - 1 \in 0 .. n /\ (i - 1) + 1 = i /\ (i + 1) - 1 = i /\ i + 1 # 1
      BY <2>2
    <3>2. f[i] = later[<<i + 1, g[i]>>]
      BY <1>3, <1>4, <3>1 DEF Follows
    <3>3. f[i - 1] = g[i] /\ g[i] \in V
      BY <1>3, <1>4, <3>1
    <3>4. later[<<i + 1, g[i]>>] = step[<<i, g[i]>>]
      <4>1. i \in Nat
        OBVIOUS
      <4> QED
        BY <1>2, <3>3, <4>1
    <3> HIDE DEF f
    <3> QED
      BY <3>2, <3>3, <3>4
  <2> QED
    BY <2>1, <2>2
<1> HIDE DEF f
<1>7. FollowsFromZero(f, n, first, step)
  <2>1. 0 \in 0 .. n /\ \A i \in 1 .. n : i \in 0 .. n /\ i # 0
    OBVIOUS
  <2> QED
    BY <1>6, <2>1 DEF FollowsFromZero
<1> QED
  BY <1>5, <1>7

\* A chain of backpointers down from the last of m stages.
Chain(m, last, good, ref, end) ==
    /\ end[m] = last
    /\ \A s \in 1 .. m : <<s, end[s]>> \in good
    /\ \A s \in 1 .. m - 1 : end[s] = ref[<<s + 1, end[s + 1]>>]

LEMMA BackpointersLead ==
    ASSUME NEW m \in Nat, m >= 1, NEW V, NEW last \in V, NEW good, <<m, last>> \in good, NEW ref,
           \A s \in 2 .. m : \A j \in V :
              <<s, j>> \in good => ref[<<s, j>>] \in V /\ <<s - 1, ref[<<s, j>>]>> \in good
    PROVE  \E end \in [1 .. m -> V] : Chain(m, last, good, ref, end)
<1> DEFINE at(d) == m + 1 - d
           step == [p \in Nat \X V |-> IF p[1] \in 1 .. m - 1 /\ ref[<<at(p[1]), p[2]>>] \in V
                                       THEN ref[<<at(p[1]), p[2]>>] ELSE last]
<1>1. step \in [Nat \X V -> V]
  OBVIOUS
<1>2. \A d \in 1 .. m - 1, j \in V : ref[<<at(d), j>>] \in V => step[<<d, j>>] = ref[<<at(d), j>>]
  OBVIOUS
<1> HIDE DEF step
<1>3. PICK g \in [0 .. m - 1 -> V] : FollowsFromZero(g, m - 1, last, step)
  <2>1. m - 1 \in Nat
    OBVIOUS
  <2> QED
    BY <1>1, <2>1, RecursionFromZero
<1> DEFINE end == [s \in 1 .. m |-> g[m - s]]
<1>4. end \in [1 .. m -> V] /\ \A s \in 1 .. m : end[s] = g[m - s] /\ g[m - s] \in V /\ m - s \in 0 .. m - 1
  <2>1. \A s \in 1 .. m : m - s \in 0 .. m - 1
    OBVIOUS
  <2> QED
    BY <2>1
<1>5. end[m] = last
  <2>1. m \in 1 .. m /\ m - m = 0
    OBVIOUS
  <2> HIDE DEF end
  <2> QED
    BY <1>3, <1>4, <2>1 DEF FollowsFromZero
<1> HIDE DEF end
<1>6. ASSUME NEW s \in 1 .. m - 1, <<s + 1, end[s + 1]>> \in good
      PROVE  end[s] = ref[<<s + 1, end[s + 1]>>] /\ <<s, end[s]>> \in good
  <2>1. /\ s + 1 \in 2 .. m /\ s + 1 \in 1 .. m /\ s \in 1 .. m /\ (s + 1) - 1 = s
        /\ m - s \in 1 .. m - 1 /\ (m - s) - 1 = m - (s + 1) /\ at(m - s) = s + 1
    OBVIOUS
  <2>2. end[s + 1] \in V /\ end[s] = g[m - s] /\ end[s + 1] = g[(m - s) - 1]
    BY <1>4, <2>1
  <2>3. ref[<<s + 1, end[s + 1]>>] \in V /\ <<(s + 1) - 1, ref[<<s + 1, end[s + 1]>>]>> \in good
    BY <1>6, <2>1, <2>2
  <2>4. g[m - s] = step[<<m - s, g[(m - s) - 1]>>]
    BY <1>3, <2>1 DEF FollowsFromZero
  <2>5. g[m - s] = step[<<m - s, end[s + 1]>>]
    BY <2>2, <2>4
  <2>6. step[<<m - s, end[s + 1]>>] = ref[<<s + 1, end[s + 1]>>]
    <3>1. ref[<<at(m - s), end[s + 1]>>] \in V
      BY <2>1, <2>3
    <3> HIDE DEF at
    <3>2. step[<<m - s, end[s + 1]>>] = ref[<<at(m - s), end[s + 1]>>]
      BY <1>2, <2>1, <2>2, <3>1
    <3> QED
      BY <2>1, <3>2
  <2> QED
    BY <2>1, <2>2, <2>3, <2>5, <2>6
<1> DEFINE T == {s \in 1 .. m : <<s, end[s]>> \in good}
<1>7. 1 .. m \subseteq T
  <2>1. m \in T
    BY <1>5
  <2>2. ASSUME NEW s \in 1 .. m - 1, s + 1 \in T PROVE s \in T
    BY <1>6, <2>2
  <2> HIDE DEF T
  <2> QED
    BY <2>1, <2>2, InductDown
<1>8. \A s \in 1 .. m : <<s, end[s]>> \in good
  BY <1>7
<1>9. \A s \in 1 .. m - 1 : end[s] = ref[<<s + 1, end[s + 1]>>]
  <2> TAKE s \in 1 .. m - 1
  <2>1. s + 1 \in 1 .. m
    OBVIOUS
  <2> QED
    BY <1>6, <1>8, <2>1
<1> QED
  BY <1>4, <1>5, <1>8, <1>9 DEF Chain

\* The greatest element of a set.
LEMMA MaxThere ==
    ASSUME NEW m \in Nat, NEW s \in SUBSET (1 .. m), s # {}
    PROVE  Max(s) \in s
<1> DEFINE below == {m - x : x \in s}
<1>1. below \subseteq Nat /\ below # {}
  <2>1. \A x \in s : x \in 1 .. m /\ m - x \in Nat
    OBVIOUS
  <2> QED
    BY <2>1
<1>2. PICK least \in below : \A y \in below : least <= y
  BY <1>1, Least
<1>3. PICK x \in s : least = m - x
  OBVIOUS
<1>4. \A y \in s : x >= y
  <2> TAKE y \in s
  <2>1. m - y \in below /\ x \in 1 .. m /\ y \in 1 .. m
    OBVIOUS
  <2>2. m - x <= m - y
    BY <1>2, <1>3, <2>1
  <2> QED
    BY <2>1, <2>2
<1>5. Max(s) = CHOOSE z \in s : \A y \in s : z >= y
  BY Zenon DEF Max
<1> QED
  BY <1>4, <1>5, Zenon

\* The recursion of a fold from the left over q, on each set of indices.
FoldsOn(g, m, base, step, q) ==
    \A s \in SUBSET (1 .. m) :
        g[s] = IF s = {} THEN base ELSE step[<<g[s \ {Max(s)}], q[Max(s)]>>]

LEMMA LastIsMax ==
    ASSUME NEW k \in Nat, NEW s \in SUBSET (1 .. k), k \in s
    PROVE  Max(s) = k
<1>1. k \in s /\ \A y \in s : k >= y
  OBVIOUS
<1>2. \A x \in s : (\A y \in s : x >= y) => x = k
  OBVIOUS
<1>3. Max(s) = CHOOSE x \in s : \A y \in s : x >= y
  BY Zenon DEF Max
<1> QED
  BY <1>1, <1>2, <1>3, Zenon

LEMMA FoldExists ==
    ASSUME NEW m \in Nat, NEW V, NEW C, NEW base \in V, NEW step \in [V \X C -> V], NEW q \in [1 .. m -> C]
    PROVE  \E g \in [SUBSET (1 .. m) -> V] : FoldsOn(g, m, base, step, q)
<1> DEFINE D == SUBSET (1 .. m)
           W == [D -> V]
           first == [s \in D |-> base]
           later(k, w) == [s \in D |-> IF k \in s THEN step[<<w[s \ {k}], q[k]>>] ELSE w[s]]
           next == [p \in Nat \X W |-> IF p[1] \in 1 .. m THEN later(p[1], p[2]) ELSE first]
<1>1. first \in W
  OBVIOUS
<1>2. ASSUME NEW k \in 1 .. m, NEW w \in W PROVE later(k, w) \in W
  <2>1. ASSUME NEW s \in D, k \in s PROVE step[<<w[s \ {k}], q[k]>>] \in V
    <3>1. s \ {k} \in D
      OBVIOUS
    <3>2. w[s \ {k}] \in V /\ q[k] \in C
      BY <3>1
    <3> QED
      BY <3>2
  <2>2. ASSUME NEW s \in D PROVE w[s] \in V
    OBVIOUS
  <2> HIDE DEF D
  <2> QED
    BY <2>1, <2>2
<1> HIDE DEF later, first
<1>3. next \in [Nat \X W -> W]
  BY <1>1, <1>2
<1>4. \A k \in 1 .. m, w \in W : next[<<k, w>>] = later(k, w)
  OBVIOUS
<1> HIDE DEF next, W
<1>5. PICK f \in [0 .. m -> W] : FollowsFromZero(f, m, first, next)
  BY <1>1, <1>3, RecursionFromZero
<1>6. f[0] = first /\ \A k \in 1 .. m : f[k] = later(k, f[k - 1]) /\ f[k - 1] \in W
  <2> SUFFICES ASSUME NEW k \in 1 .. m PROVE f[k] = later(k, f[k - 1]) /\ f[k - 1] \in W
    BY <1>5 DEF FollowsFromZero
  <2>1. k - 1 \in 0 .. m
    OBVIOUS
  <2>2. f[k] = next[<<k, f[k - 1]>>] /\ f[k - 1] \in W
    BY <1>5, <2>1 DEF FollowsFromZero
  <2> QED
    BY <1>4, <2>2
<1> DEFINE right(k) == \A s \in SUBSET (1 .. k) :
              f[k][s] = IF s = {} THEN base ELSE step[<<f[k][s \ {Max(s)}], q[Max(s)]>>]
           T == {k \in 1 .. m + 1 : right(k - 1)}
<1>7. right(0)
  <2>1. f[0][{}] = base /\ SUBSET (1 .. 0) = {{}}
    BY <1>6 DEF first
  <2> QED
    BY <2>1
<1>8. ASSUME NEW k \in 1 .. m, right(k - 1) PROVE right(k)
  <2>0. k \in 1 .. m /\ k - 1 \in 0 .. m /\ 1 .. k - 1 \subseteq 1 .. k /\ 1 .. k \subseteq 1 .. m
    OBVIOUS
  <2>1. \A s \in D : f[k][s] = IF k \in s THEN step[<<f[k - 1][s \ {k}], q[k]>>] ELSE f[k - 1][s]
    <3>1. f[k] = later(k, f[k - 1])
      BY <1>6
    <3> HIDE DEF D, right
    <3> QED
      BY <3>1 DEF later
  <2> HIDE DEF right
  <2> SUFFICES ASSUME NEW s \in SUBSET (1 .. k)
               PROVE  f[k][s] = IF s = {} THEN base ELSE step[<<f[k][s \ {Max(s)}], q[Max(s)]>>]
    BY DEF right
  <2>2. s \in D
    BY <2>0
  <2>3. CASE k \in s
    <3>1. Max(s) = k
      BY <2>3, LastIsMax
    <3>2. s \ {k} \in D /\ k \notin s \ {k}
      BY <2>2
    <3>3. f[k][s \ {k}] = f[k - 1][s \ {k}]
      BY <2>1, <3>2
    <3>4. f[k][s] = step[<<f[k - 1][s \ {k}], q[k]>>] /\ s # {}
      BY <2>1, <2>2, <2>3
    <3> QED
      BY <3>1, <3>3, <3>4
  <2>4. CASE k \notin s
    <3>1. s \in SUBSET (1 .. k - 1)
      BY <2>4
    <3>2. f[k][s] = f[k - 1][s]
      BY <2>1, <2>2, <2>4
    <3>3. f[k - 1][s] = IF s = {} THEN base ELSE step[<<f[k - 1][s \ {Max(s)}], q[Max(s)]>>]
      BY <1>8, <3>1 DEF right
    <3>4. s \ {Max(s)} \in D /\ k \notin s \ {Max(s)}
      BY <2>2, <2>4
    <3>5. f[k][s \ {Max(s)}] = f[k - 1][s \ {Max(s)}]
      BY <2>1, <3>4
    <3> QED
      BY <3>2, <3>3, <3>5
  <2> QED
    BY <2>3, <2>4
<1>9. right(m)
  <2> HIDE DEF right
  <2>1. m + 1 >= 1 => 1 \in T
    BY <1>7
  <2>2. ASSUME NEW k \in 1 .. (m + 1) - 1, k \in T PROVE k + 1 \in T
    <3>1. k \in 1 .. m /\ (k + 1) - 1 = k /\ k + 1 \in 1 .. m + 1
      OBVIOUS
    <3>2. right(k)
      BY <1>8, <2>2, <3>1
    <3> QED
      BY <3>1, <3>2
  <2>3. 1 .. m + 1 \subseteq T
    <3>1. m + 1 \in Nat
      OBVIOUS
    <3> HIDE DEF T
    <3> QED
      BY <2>1, <2>2, <3>1, InductUpTo
  <2>4. m + 1 \in 1 .. m + 1 /\ (m + 1) - 1 = m
    OBVIOUS
  <2> QED
    BY <2>3, <2>4
<1>10. f[m] \in [SUBSET (1 .. m) -> V]
  <2>1. m \in 0 .. m
    OBVIOUS
  <2> QED
    BY <2>1 DEF W
<1> QED
  BY <1>9, <1>10 DEF FoldsOn

\* Where the elements of a concatenation come from.
LEMMA TwoParts ==
    ASSUME NEW S, NEW a \in Seq(S), NEW b \in Seq(S)
    PROVE  /\ Len(a \o b) = Len(a) + Len(b) /\ Len(a) \in Nat /\ Len(b) \in Nat
           /\ \A k \in 1 .. Len(a) : (a \o b)[k] = a[k]
           /\ \A k \in Len(a) + 1 .. Len(a) + Len(b) : (a \o b)[k] = b[k - Len(a)]
OBVIOUS

\* A flattened sequence has the elements of its pieces.
HasPieces(S, n, seqs) ==
    /\ FlattenSeq(seqs) \in Seq(S)
    /\ \A k \in 1 .. Len(FlattenSeq(seqs)) :
          \E i \in 1 .. n : \E x \in 1 .. Len(seqs[i]) : FlattenSeq(seqs)[k] = seqs[i][x]
    /\ \A i \in 1 .. n : \A x \in 1 .. Len(seqs[i]) :
          \E k \in 1 .. Len(FlattenSeq(seqs)) : FlattenSeq(seqs)[k] = seqs[i][x]

LEMMA FlattenHas ==
    ASSUME NEW S, NEW n \in Nat, NEW seqs \in [1 .. n -> Seq(S)]
    PROVE  HasPieces(S, n, seqs)
<1> SUFFICES /\ FlattenSeq(seqs) \in Seq(S)
             /\ \A k \in 1 .. Len(FlattenSeq(seqs)) :
                   \E i \in 1 .. n : \E x \in 1 .. Len(seqs[i]) : FlattenSeq(seqs)[k] = seqs[i][x]
             /\ \A i \in 1 .. n : \A x \in 1 .. Len(seqs[i]) :
                   \E k \in 1 .. Len(FlattenSeq(seqs)) : FlattenSeq(seqs)[k] = seqs[i][x]
  BY Zenon DEF HasPieces
<1> DEFINE all == FlattenSeq(seqs)
<1>1. CASE n = 0
  <2>1. seqs = <<>>
    BY <1>1
  <2>2. all = seqs
    BY <2>1 DEF FlattenSeq
  <2>3. all = <<>> /\ Len(<<>>) = 0
    BY <2>1, <2>2
  <2> HIDE DEF all
  <2>4. all \in Seq(S) /\ 1 .. Len(all) = {} /\ 1 .. n = {}
    BY <1>1, <2>3
  <2> QED
    BY <2>4 DEF all
<1>2. CASE n # 0
  <2>1. n \in Nat \ {0}
    BY <1>2
  <2>2. PICK f \in [1 .. n -> Seq(S)] : Concatenated(f, seqs, n) /\ all = f[n]
    BY <2>1, Flattens
  <2> DEFINE from(m) == \A k \in 1 .. Len(f[m]) : \E i \in 1 .. m : \E x \in 1 .. Len(seqs[i]) : f[m][k] = seqs[i][x]
             has(m) == \A i \in 1 .. m : \A x \in 1 .. Len(seqs[i]) : \E k \in 1 .. Len(f[m]) : f[m][k] = seqs[i][x]
             T == {m \in 1 .. n : from(m) /\ has(m)}
  <2>3. n >= 1 => 1 \in T
    <3>1. f[1] = seqs[1] /\ 1 \in 1 .. n /\ 1 .. 1 = {1}
      BY <2>1, <2>2 DEF Concatenated
    <3>2. from(1)
      BY <3>1
    <3>3. has(1)
      <4> SUFFICES ASSUME NEW x \in 1 .. Len(seqs[1]) PROVE \E k \in 1 .. Len(f[1]) : f[1][k] = seqs[1][x]
        BY <3>1
      <4> QED
        BY <3>1
    <3> HIDE DEF from, has
    <3> QED
      BY <3>1, <3>2, <3>3
  <2>4. ASSUME NEW m \in 1 .. n - 1, m \in T PROVE m + 1 \in T
    <3>1. m \in 1 .. n /\ m + 1 \in 1 .. n /\ m + 1 # 1 /\ (m + 1) - 1 = m
      OBVIOUS
    <3> DEFINE a == f[m]
               b == seqs[m + 1]
    <3>2. f[m + 1] = a \o b /\ a \in Seq(S) /\ b \in Seq(S)
      BY <2>2, <3>1 DEF Concatenated
    <3> HIDE DEF a, b
    <3>3. /\ Len(a \o b) = Len(a) + Len(b) /\ Len(a) \in Nat /\ Len(b) \in Nat
          /\ \A k \in 1 .. Len(a) : (a \o b)[k] = a[k]
          /\ \A k \in Len(a) + 1 .. Len(a) + Len(b) : (a \o b)[k] = b[k - Len(a)]
      BY <3>2, TwoParts
    <3>4. from(m) /\ has(m)
      BY <2>4
    <3>5. from(m + 1)
      <4> SUFFICES ASSUME NEW k \in 1 .. Len(f[m + 1])
                   PROVE  \E i \in 1 .. m + 1 : \E x \in 1 .. Len(seqs[i]) : f[m + 1][k] = seqs[i][x]
        OBVIOUS
      <4>1. k \in 1 .. Len(a) + Len(b)
        BY <3>2, <3>3
      <4>2. CASE k \in 1 .. Len(a)
        <5>1. f[m + 1][k] = f[m][k]
          BY <3>2, <3>3, <4>2 DEF a
        <5>2. PICK i \in 1 .. m : \E x \in 1 .. Len(seqs[i]) : f[m][k] = seqs[i][x]
          BY <3>4, <4>2 DEF a
        <5>3. i \in 1 .. m + 1
          OBVIOUS
        <5> QED
          BY <5>1, <5>2, <5>3
      <4>3. CASE k \notin 1 .. Len(a)
        <5>1. k - Len(a) \in 1 .. Len(b) /\ k \in Len(a) + 1 .. Len(a) + Len(b)
          BY <3>3, <4>1, <4>3
        <5>2. f[m + 1][k] = seqs[m + 1][k - Len(a)] /\ k - Len(a) \in 1 .. Len(seqs[m + 1])
          BY <3>2, <3>3, <5>1 DEF b
        <5>3. m + 1 \in 1 .. m + 1
          OBVIOUS
        <5> QED
          BY <5>2, <5>3
      <4> QED
        BY <4>2, <4>3
    <3>6. has(m + 1)
      <4> SUFFICES ASSUME NEW i \in 1 .. m + 1, NEW x \in 1 .. Len(seqs[i])
                   PROVE  \E k \in 1 .. Len(f[m + 1]) : f[m + 1][k] = seqs[i][x]
        OBVIOUS
      <4>1. CASE i = m + 1
        <5>1. x \in 1 .. Len(b)
          BY <4>1 DEF b
        <5>2. Len(a) + x \in 1 .. Len(a \o b) /\ (a \o b)[Len(a) + x] = b[x]
          BY <3>2, <3>3, <5>1
        <5> QED
          BY <3>2, <4>1, <5>2 DEF b
      <4>2. CASE i # m + 1
        <5>1. i \in 1 .. m
          BY <4>2
        <5>2. PICK k \in 1 .. Len(a) : a[k] = seqs[i][x]
          BY <3>4, <5>1 DEF a
        <5>3. k \in 1 .. Len(a \o b) /\ (a \o b)[k] = a[k]
          BY <3>3
        <5> QED
          BY <3>2, <5>2, <5>3
      <4> QED
        BY <4>1, <4>2
    <3> HIDE DEF from, has
    <3> QED
      BY <3>1, <3>5, <3>6
  <2>5. 1 .. n \subseteq T
    <3> HIDE DEF T
    <3> QED
      BY <2>1, <2>3, <2>4, InductUpTo
  <2>6. n \in 1 .. n
    BY <2>1
  <2>7. from(n) /\ has(n) /\ f[n] \in Seq(S)
    BY <2>5, <2>6
  <2> HIDE DEF all
  <2> QED
    BY <2>2, <2>7 DEF all
<1> QED
  BY <1>1, <1>2
=============================================================================
