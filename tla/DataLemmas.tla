------------------------------- MODULE DataLemmas -------------------------------
(***************************************************************************)
(* What the folds of the community modules compute, in the form that the   *)
(* proofs about sums and lists cite.  A fold is a recursive function on    *)
(* the subsets of its domain, which takes an element out at each step: the *)
(* first lemmas say that there is one, the next what its steps add up to.  *)
(* The next are about values that are read at an index of their order, and *)
(* the last about loops, which are recursive functions of their rounds.    *)
(***************************************************************************)
EXTENDS Integers, Sequences, FiniteSets, FiniteSetTheorems, WellFoundedInduction,
        SequencesExt, OrderStatistics, TLAPS

\* Every set of natural numbers has a smallest element.
LEMMA SmallestOf ==
  ASSUME NEW S, S \subseteq Nat, S # {}
  PROVE  \E x \in S : \A y \in S : x <= y
<1> DEFINE less == {p \in Nat \X Nat : p[1] < p[2]}
<1>1. IsWellFoundedOn(less, Nat)
  BY NatLessThanWellFounded DEF OpToRel
<1>2. \E x \in S : \A y \in S : <<y, x>> \notin less
  <2> HIDE DEF less
  <2> QED BY <1>1, WFMin
<1>3. \A x, y \in Nat : <<y, x>> \notin less => x <= y
  OBVIOUS
<1> HIDE DEF less
<1> QED BY <1>2, <1>3

\* Max finds the largest element of a set of indices.
LEMMA MaxIs ==
  ASSUME NEW S, NEW n \in Nat, S \subseteq 0 .. n, S # {}
  PROVE  Max(S) \in S /\ \A y \in S : Max(S) >= y
<1> DEFINE below == {n - x : x \in S}
<1>1. \A x \in S : x \in Nat /\ n - x \in Nat
  OBVIOUS
<1>2. below \subseteq Nat /\ below # {}
  BY <1>1
<1>3. PICK d \in below : \A e \in below : d <= e
  <2> HIDE DEF below
  <2> QED BY <1>2, SmallestOf
<1>4. PICK m \in S : d = n - m
  BY <1>3
<1>5. ASSUME NEW y \in S
      PROVE  m >= y
  <2>1. d <= n - y
    BY <1>3
  <2> QED BY <1>1, <1>4, <2>1
<1> QED BY <1>5 DEF Max

(***************************************************************************)
(* Existence                                                               *)
(***************************************************************************)

\* c takes an element out of every set.
Takes(c, S) == \A s \in SUBSET S : s # {} => c[s] \in s

\* f folds g over the subsets of S from base, taking elements out as c says.
Folds(f, c, g, base, S) ==
  f = [s \in SUBSET S |-> IF s = {} THEN base ELSE g[<<c[s], f[s \ {c[s]}]>>]]

\* A set is folded up to any size: up to k is enough for one more.
LEMMA FoldExists ==
  ASSUME NEW S, IsFiniteSet(S), NEW V, NEW base \in V, NEW c, Takes(c, S),
         NEW g \in [S \X V -> V]
  PROVE  \E f \in [SUBSET S -> V] : Folds(f, c, g, base, S)
<1> DEFINE next(f, s) == IF s = {} THEN base ELSE g[<<c[s], f[s \ {c[s]}]>>]
           upTo(f, k) == \A s \in SUBSET S : Cardinality(s) <= k => f[s] = next(f, s)
           missing == {k \in Nat : ~ \E f \in [SUBSET S -> V] : upTo(f, k)}
<1>1. \A f \in [SUBSET S -> V], s \in SUBSET S : next(f, s) \in V
  BY DEF Takes
<1>2. \A s \in SUBSET S : /\ IsFiniteSet(s) /\ Cardinality(s) \in Nat
                          /\ Cardinality(s) <= Cardinality(S)
                          /\ Cardinality(s) = 0 <=> s = {}
  BY FS_Subset, FS_CardinalityType, FS_EmptySet
<1>3. missing = {}
  <2> SUFFICES ASSUME missing # {} PROVE FALSE
    OBVIOUS
  <2>1. PICK k \in missing : \A j \in missing : k <= j
    <3>1. missing \subseteq Nat
      OBVIOUS
    <3> HIDE DEF missing
    <3> QED BY <3>1, SmallestOf
  <2>2. k \in Nat /\ ~ \E f \in [SUBSET S -> V] : upTo(f, k)
    OBVIOUS
  <2>3. PICK f \in [SUBSET S -> V] : k > 0 => upTo(f, k - 1)
    <3>1. CASE k = 0
      <4> DEFINE f == [s \in SUBSET S |-> base]
      <4>1. f \in [SUBSET S -> V]
        OBVIOUS
      <4>2. ~(k > 0)
        BY <3>1
      <4> HIDE DEF upTo, f
      <4> QED BY <4>1, <4>2
    <3>2. CASE k > 0
      <4>1. k - 1 \in Nat /\ ~(k <= k - 1)
        BY <2>2, <3>2
      <4>2. k - 1 \notin missing
        BY <2>1, <4>1
      <4>3. \E f \in [SUBSET S -> V] : upTo(f, k - 1)
        BY <4>1, <4>2
      <4> HIDE DEF upTo
      <4> QED BY <4>3
    <3>3. k = 0 \/ k > 0
      BY <2>2
    <3> HIDE DEF upTo, missing
    <3> QED BY <3>1, <3>2, <3>3
  <2> DEFINE h == [s \in SUBSET S |-> next(f, s)]
  <2>4. h \in [SUBSET S -> V]
    BY <1>1
  <2>5. upTo(h, k)
    <3> SUFFICES ASSUME NEW s \in SUBSET S, Cardinality(s) <= k
                 PROVE  h[s] = next(h, s)
      OBVIOUS
    <3>1. CASE s = {}
      BY <3>1
    <3>2. CASE s # {}
      <4> DEFINE u == s \ {c[s]}
      <4>1. c[s] \in s /\ u \in SUBSET S
        BY <3>2 DEF Takes
      <4>2. Cardinality(u) = Cardinality(s) - 1
        BY <1>2, <4>1, FS_RemoveElement, SMTT(60)
      <4>3. k > 0 /\ Cardinality(u) <= k - 1
        BY <1>2, <2>2, <3>2, <4>1, <4>2
      <4>4. f[u] = next(f, u)
        BY <2>3, <4>1, <4>3
      <4>5. h[u] = f[u]
        BY <4>1, <4>4
      <4> QED BY <3>2, <4>5
    <3> QED BY <3>1, <3>2
  <2> QED BY <2>2, <2>4, <2>5
<1>4. PICK f \in [SUBSET S -> V] : upTo(f, Cardinality(S))
  BY <1>2, <1>3
<1>5. f = [s \in SUBSET S |-> next(f, s)]
  BY <1>2, <1>4
<1> QED BY <1>5 DEF Folds

\* A function on the subsets of S that goes from values in V to values in V has
\* its values there.
Keeps(f, c, V, S) ==
  /\ f = [s \in SUBSET S |-> f[s]] /\ f[{}] \in V
  /\ \A s \in SUBSET S : s # {} /\ f[s \ {c[s]}] \in V => f[s] \in V

LEMMA FoldTyped ==
  ASSUME NEW S, IsFiniteSet(S), NEW V, NEW c, Takes(c, S),
         NEW f, Keeps(f, c, V, S)
  PROVE  f \in [SUBSET S -> V]
<1>1. \A s \in SUBSET S : IsFiniteSet(s) /\ Cardinality(s) \in Nat
  BY FS_Subset, FS_CardinalityType
<1> DEFINE bad == {s \in SUBSET S : f[s] \notin V}
           sizes == {Cardinality(s) : s \in bad}
<1>2. bad = {}
  <2> SUFFICES ASSUME bad # {} PROVE FALSE
    OBVIOUS
  <2>0. bad \subseteq SUBSET S
    OBVIOUS
  <2>1. PICK k \in sizes : \A j \in sizes : k <= j
    <3>1. sizes \subseteq Nat /\ sizes # {}
      <4> HIDE DEF bad
      <4> QED BY <1>1, <2>0
    <3> HIDE DEF sizes
    <3> QED BY <3>1, SmallestOf
  <2>2. PICK s \in bad : Cardinality(s) = k
    OBVIOUS
  <2>3. s # {} /\ s \in SUBSET S
    BY <2>2 DEF Keeps
  <2> DEFINE u == s \ {c[s]}
  <2>4. c[s] \in s /\ u \in SUBSET S
    BY <2>3 DEF Takes
  <2>5. Cardinality(u) = Cardinality(s) - 1
    BY <1>1, <2>3, <2>4, FS_RemoveElement
  <2>6. ~(k <= Cardinality(u))
    BY <1>1, <2>2, <2>3, <2>5
  <2>7. f[u] \in V
    BY <2>1, <2>4, <2>6
  <2>8. f[s] \in V
    BY <2>3, <2>4, <2>7 DEF Keeps
  <2> QED BY <2>2, <2>8
<1>3. \A s \in SUBSET S : f[s] \in V
  BY <1>2
<1> HIDE DEF bad, sizes
<1> QED BY <1>3 DEF Keeps

(***************************************************************************)
(* Sums                                                                    *)
(***************************************************************************)

\* The recursion of a sum of w, and what it adds up to whatever is taken out first.
Sums(f, c, w, S) ==
  f = [s \in SUBSET S |-> IF s = {} THEN 0 ELSE w[c[s]] + f[s \ {c[s]}]]
IsSum(f, w, S) ==
  /\ f \in [SUBSET S -> Int] /\ f[{}] = 0
  /\ \A s \in SUBSET S : \A x \in s : f[s] = w[x] + f[s \ {x}]

LEMMA SumIsFold ==
  ASSUME NEW S, NEW c, Takes(c, S), NEW w \in [S -> Int]
  PROVE  /\ [p \in S \X Int |-> w[p[1]] + p[2]] \in [S \X Int -> Int]
         /\ \A f \in [SUBSET S -> Int] :
              Folds(f, c, [p \in S \X Int |-> w[p[1]] + p[2]], 0, S) <=> Sums(f, c, w, S)
<1> DEFINE g == [p \in S \X Int |-> w[p[1]] + p[2]]
<1>1. g \in [S \X Int -> Int]
  OBVIOUS
<1>2. \A x \in S, y \in Int : g[<<x, y>>] = w[x] + y
  OBVIOUS
<1> HIDE DEF g
<1>3. ASSUME NEW f \in [SUBSET S -> Int]
      PROVE  Folds(f, c, g, 0, S) <=> Sums(f, c, w, S)
  <2>1. \A s \in SUBSET S : s # {} => c[s] \in S /\ f[s \ {c[s]}] \in Int
    BY DEF Takes
  <2>2. \A s \in SUBSET S : s # {} => g[<<c[s], f[s \ {c[s]}]>>] = w[c[s]] + f[s \ {c[s]}]
    BY <1>2, <2>1
  <2>3. [s \in SUBSET S |-> IF s = {} THEN 0 ELSE g[<<c[s], f[s \ {c[s]}]>>]]
          = [s \in SUBSET S |-> IF s = {} THEN 0 ELSE w[c[s]] + f[s \ {c[s]}]]
    BY <2>2
  <2> QED BY <2>3 DEF Folds, Sums
<1> QED BY <1>1, <1>3 DEF g

LEMMA SumExists ==
  ASSUME NEW S, IsFiniteSet(S), NEW c, Takes(c, S), NEW w \in [S -> Int]
  PROVE  \E f \in [SUBSET S -> Int] : Sums(f, c, w, S)
<1> DEFINE g == [p \in S \X Int |-> w[p[1]] + p[2]]
<1>1. g \in [S \X Int -> Int] /\ \A f \in [SUBSET S -> Int] : Folds(f, c, g, 0, S) <=> Sums(f, c, w, S)
  BY SumIsFold
<1> HIDE DEF g
<1>2. PICK f \in [SUBSET S -> Int] : Folds(f, c, g, 0, S)
  BY <1>1, 0 \in Int, FoldExists
<1> QED BY <1>1, <1>2

\* However the recursion takes elements out, each of them counts once.
LEMMA SumAddsUp ==
  ASSUME NEW S, IsFiniteSet(S), NEW c, Takes(c, S), NEW w \in [S -> Int],
         NEW f \in [SUBSET S -> Int], Sums(f, c, w, S)
  PROVE  IsSum(f, w, S)
<1>1. \A s \in SUBSET S : IsFiniteSet(s) /\ Cardinality(s) \in Nat
  BY FS_Subset, FS_CardinalityType
<1>2. \A s \in SUBSET S : f[s] = IF s = {} THEN 0 ELSE w[c[s]] + f[s \ {c[s]}]
  BY DEF Sums
<1>3. f[{}] = 0
  BY <1>2
<1> DEFINE good(s) == \A x \in s : f[s] = w[x] + f[s \ {x}]
           bad == {s \in SUBSET S : ~good(s)}
           sizes == {Cardinality(s) : s \in bad}
<1>4. bad = {}
  <2> SUFFICES ASSUME bad # {} PROVE FALSE
    OBVIOUS
  <2>1. PICK k \in sizes : \A j \in sizes : k <= j
    <3>1. sizes \subseteq Nat /\ sizes # {}
      BY <1>1
    <3> HIDE DEF sizes
    <3> QED BY <3>1, SmallestOf
  <2>2. PICK s \in bad : Cardinality(s) = k
    OBVIOUS
  <2>3. PICK x \in s : f[s] # w[x] + f[s \ {x}]
    BY <2>2
  <2>4. s \in SUBSET S /\ s # {} /\ c[s] \in s
    BY <2>2, <2>3 DEF Takes
  <2>5. \A y \in s : good(s \ {y})
    <3> SUFFICES ASSUME NEW y \in s PROVE good(s \ {y})
      OBVIOUS
    <3>1. Cardinality(s \ {y}) = Cardinality(s) - 1 /\ s \ {y} \in SUBSET S
      BY <1>1, <2>4, FS_RemoveElement
    <3>2. ~(k <= Cardinality(s \ {y}))
      BY <1>1, <2>2, <2>4, <3>1
    <3>3. s \ {y} \notin bad
      <4>1. \A u \in bad : k <= Cardinality(u)
        BY <2>1
      <4> HIDE DEF bad, sizes
      <4> QED BY <3>2, <4>1
    <3> QED BY <3>1, <3>3
  <2>6. f[s] = w[c[s]] + f[s \ {c[s]}]
    BY <1>2, <2>4
  <2>7. x # c[s]
    BY <2>3, <2>6
  <2> DEFINE u == s \ {c[s]}
             v == s \ {x}
             rest == (s \ {x}) \ {c[s]}
  <2>8. f[u] = w[x] + f[rest]
    <3>1. x \in u /\ u \ {x} = rest
      BY <2>7
    <3>2. good(u)
      BY <2>4, <2>5
    <3> QED BY <3>1, <3>2
  <2>9. f[v] = w[c[s]] + f[rest]
    <3>1. c[s] \in v
      BY <2>4, <2>7
    <3>2. good(v)
      BY <2>5
    <3> QED BY <3>1, <3>2
  <2>10. w[x] \in Int /\ w[c[s]] \in Int /\ f[rest] \in Int
    <3>1. rest \in SUBSET S /\ x \in S /\ c[s] \in S
      BY <2>3, <2>4
    <3> QED BY <3>1
  <2>11. f[s] = w[c[s]] + f[u]
    BY <2>6
  <2>12. f[s] = w[x] + f[v]
    <3> HIDE DEF u, v, rest
    <3> QED BY <2>8, <2>9, <2>10, <2>11
  <2> QED BY <2>3, <2>12
<1>5. \A s \in SUBSET S : good(s)
  BY <1>4
<1> HIDE DEF bad, sizes
<1> QED BY <1>3, <1>5 DEF IsSum

\* Two sums agree on a set on which their weights do.
LEMMA SumsAgree ==
  ASSUME NEW S, NEW w \in [S -> Int], NEW f, IsSum(f, w, S),
         NEW T, NEW v \in [T -> Int], NEW h, IsSum(h, v, T),
         NEW A, IsFiniteSet(A), A \subseteq S, A \subseteq T, \A x \in A : w[x] = v[x]
  PROVE  f[A] = h[A]
<1>1. \A s \in SUBSET A : IsFiniteSet(s) /\ Cardinality(s) \in Nat
  BY FS_Subset, FS_CardinalityType
<1> DEFINE bad == {s \in SUBSET A : f[s] # h[s]}
           sizes == {Cardinality(s) : s \in bad}
<1>2. bad = {}
  <2> SUFFICES ASSUME bad # {} PROVE FALSE
    OBVIOUS
  <2>1. PICK k \in sizes : \A j \in sizes : k <= j
    <3>1. sizes \subseteq Nat /\ sizes # {}
      BY <1>1
    <3> HIDE DEF sizes
    <3> QED BY <3>1, SmallestOf
  <2>2. PICK s \in bad : Cardinality(s) = k
    OBVIOUS
  <2>3. s \in SUBSET A /\ f[s] # h[s]
    BY <2>2
  <2>4. PICK x \in s : TRUE
    BY <2>3 DEF IsSum
  <2> DEFINE u == s \ {x}
  <2>5. Cardinality(u) = Cardinality(s) - 1 /\ u \in SUBSET A
    BY <1>1, <2>3, <2>4, FS_RemoveElement
  <2>6. ~(k <= Cardinality(u))
    BY <1>1, <2>2, <2>3, <2>5
  <2>7. f[u] = h[u]
    BY <2>1, <2>5, <2>6
  <2>8. f[s] = w[x] + f[u] /\ h[s] = v[x] + h[u] /\ w[x] = v[x]
    BY <2>3, <2>4 DEF IsSum
  <2> QED BY <2>3, <2>7, <2>8
<1>3. A \notin bad
  BY <1>2
<1> HIDE DEF bad, sizes
<1> QED BY <1>3 DEF bad

\* What does not take away only adds.
LEMMA SumGrows ==
  ASSUME NEW S, IsFiniteSet(S), NEW w \in [S -> Nat], NEW f, IsSum(f, w, S),
         NEW B \in SUBSET S, NEW A \in SUBSET B
  PROVE  f[A] <= f[B]
<1> DEFINE mid == {C \in SUBSET B : A \subseteq C}
           bad == {C \in mid : ~(f[A] <= f[C])}
           sizes == {Cardinality(C) : C \in bad}
<1>1. \A C \in SUBSET S : IsFiniteSet(C) /\ Cardinality(C) \in Nat /\ f[C] \in Int
  BY FS_Subset, FS_CardinalityType DEF IsSum
<1>2. bad = {}
  <2> SUFFICES ASSUME bad # {} PROVE FALSE
    OBVIOUS
  <2>1. PICK k \in sizes : \A j \in sizes : k <= j
    <3>1. sizes \subseteq Nat /\ sizes # {}
      BY <1>1
    <3> HIDE DEF sizes
    <3> QED BY <3>1, SmallestOf
  <2>2. PICK C \in bad : Cardinality(C) = k
    OBVIOUS
  <2>3. C \in SUBSET S /\ A \subseteq C /\ C \subseteq B /\ ~(f[A] <= f[C]) /\ A \in SUBSET S
    BY <2>2
  <2>4. PICK x \in C : x \notin A
    <3>1. C # A
      BY <1>1, <2>3
    <3> QED BY <2>3, <3>1
  <2> DEFINE u == C \ {x}
  <2>5. Cardinality(u) = Cardinality(C) - 1 /\ u \in mid
    BY <1>1, <2>3, <2>4, FS_RemoveElement
  <2>6. ~(k <= Cardinality(u))
    BY <1>1, <2>2, <2>3, <2>5
  <2>7. f[A] <= f[u]
    BY <2>1, <2>5, <2>6
  <2>8. f[C] = w[x] + f[u] /\ w[x] \in Nat
    BY <2>3, <2>4 DEF IsSum
  <2>9. u \in SUBSET S
    BY <2>3
  <2> HIDE DEF u, mid, bad, sizes
  <2> QED BY <1>1, <2>3, <2>7, <2>8, <2>9
<1>3. B \in mid
  OBVIOUS
<1> HIDE DEF mid, sizes
<1> QED BY <1>2, <1>3

LEMMA SumTyped ==
  ASSUME NEW S, IsFiniteSet(S), NEW c, Takes(c, S), NEW w \in [S -> Int],
         NEW f, Sums(f, c, w, S)
  PROVE  f \in [SUBSET S -> Int]
<1>1. f[{}] \in Int /\ f = [s \in SUBSET S |-> f[s]]
  BY DEF Sums
<1>2. ASSUME NEW s \in SUBSET S, s # {}, f[s \ {c[s]}] \in Int
      PROVE  f[s] \in Int
  <2>1. f[s] = w[c[s]] + f[s \ {c[s]}]
    BY <1>2 DEF Sums
  <2>2. w[c[s]] \in Int
    BY <1>2 DEF Takes
  <2> QED BY <1>2, <2>1, <2>2
<1>3. Keeps(f, c, Int, S)
  BY <1>1, <1>2 DEF Keeps
<1> QED BY <1>3, FoldTyped

\* What MapThenSumSet computes of a set of indices with integer weights.
ByChoice(f, w, S) ==
  f = [s \in SUBSET S |-> IF s = {} THEN 0
                          ELSE w[CHOOSE x \in s : TRUE] + f[s \ {CHOOSE x \in s : TRUE}]]

LEMMA SumByChoice ==
  ASSUME NEW S, IsFiniteSet(S), NEW w \in [S -> Int]
  PROVE  /\ \E f : ByChoice(f, w, S)
         /\ \A f : ByChoice(f, w, S) => IsSum(f, w, S)
<1> DEFINE c == [s \in SUBSET S |-> CHOOSE x \in s : TRUE]
<1>1. Takes(c, S)
  BY DEF Takes
<1>2. \A f : ByChoice(f, w, S) <=> Sums(f, c, w, S)
  BY DEF ByChoice, Sums
<1> HIDE DEF c
<1>3. \E f : ByChoice(f, w, S)
  BY <1>1, <1>2, SumExists
<1>4. \A f : Sums(f, c, w, S) => f \in [SUBSET S -> Int]
  BY <1>1, SumTyped
<1> QED BY <1>1, <1>2, <1>3, <1>4, SumAddsUp

(***************************************************************************)
(* Folds of sequences, from the left                                       *)
(***************************************************************************)

\* The recursion of FoldLeft over a sequence of n: the last element comes last.
FromLeft(f, g, base, n) ==
  f = [s \in SUBSET (1 .. n) |-> IF s = {} THEN base ELSE g[<<Max(s), f[s \ {Max(s)}]>>]]

LEMMA MaxTaken ==
  ASSUME NEW n \in Nat
  PROVE  /\ Takes([s \in SUBSET (1 .. n) |-> Max(s)], 1 .. n)
         /\ \A k \in 1 .. n : Max(1 .. k) = k
<1>1. \A s \in SUBSET (1 .. n) : s # {} => Max(s) \in s /\ \A y \in s : Max(s) >= y
  BY MaxIs, \A s \in SUBSET (1 .. n) : s \subseteq 0 .. n
<1>2. ASSUME NEW k \in 1 .. n
      PROVE  Max(1 .. k) = k
  <2>1. 1 .. k \in SUBSET (1 .. n) /\ 1 .. k # {} /\ k \in 1 .. k
    OBVIOUS
  <2>2. Max(1 .. k) \in 1 .. k /\ Max(1 .. k) >= k
    BY <1>1, <2>1
  <2> QED BY <2>2
<1> QED BY <1>1, <1>2 DEF Takes

LEMMA LeftIsFold ==
  ASSUME NEW n \in Nat, NEW g, NEW base, NEW f
  PROVE  FromLeft(f, g, base, n) <=>
           Folds(f, [s \in SUBSET (1 .. n) |-> Max(s)], g, base, 1 .. n)
BY DEF FromLeft, Folds

LEMMA FromLeftExists ==
  ASSUME NEW n \in Nat, NEW V, NEW base \in V, NEW g \in [(1 .. n) \X V -> V]
  PROVE  \E f \in [SUBSET (1 .. n) -> V] : FromLeft(f, g, base, n)
<1> DEFINE c == [s \in SUBSET (1 .. n) |-> Max(s)]
<1>1. IsFiniteSet(1 .. n)
  BY FS_Interval
<1>2. Takes(c, 1 .. n)
  BY MaxTaken
<1>3. \A f : FromLeft(f, g, base, n) <=> Folds(f, c, g, base, 1 .. n)
  BY LeftIsFold
<1> HIDE DEF c
<1> QED BY <1>1, <1>2, <1>3, FoldExists

\* It goes from each element to the next.
LEMMA FromLeftSteps ==
  ASSUME NEW n \in Nat, NEW base, NEW g, NEW f, FromLeft(f, g, base, n)
  PROVE  /\ f[1 .. 0] = base
         /\ \A k \in 1 .. n : f[1 .. k] = g[<<k, f[1 .. (k - 1)]>>]
<1>1. \A s \in SUBSET (1 .. n) : f[s] = IF s = {} THEN base ELSE g[<<Max(s), f[s \ {Max(s)}]>>]
  BY DEF FromLeft
<1>2. f[1 .. 0] = base
  BY <1>1, 1 .. 0 = {}
<1>3. ASSUME NEW k \in 1 .. n
      PROVE  f[1 .. k] = g[<<k, f[1 .. (k - 1)]>>]
  <2>1. 1 .. k \in SUBSET (1 .. n) /\ 1 .. k # {} /\ (1 .. k) \ {k} = 1 .. (k - 1)
    OBVIOUS
  <2>2. Max(1 .. k) = k
    BY MaxTaken
  <2>3. f[1 .. k] = g[<<Max(1 .. k), f[(1 .. k) \ {Max(1 .. k)}]>>]
    BY <1>1, <2>1
  <2> QED BY <2>1, <2>2, <2>3
<1> QED BY <1>2, <1>3

\* The sum of a sequence of numbers.
SumOf(w) == FoldLeft(LAMBDA a, b : a + b, 0, w)

LEMMA TotalIsFold ==
  ASSUME NEW n \in Nat, NEW w \in [1 .. n -> Int]
  PROVE  \E h \in [0 .. n -> Int] :
           /\ SumOf(w) = h[n] /\ h[0] = 0
           /\ \A k \in 1 .. n : h[k] = h[k - 1] + w[k]
<1> DEFINE S == 1 .. n
           g == [p \in S \X Int |-> p[2] + w[p[1]]]
           adds(f) == f = [s \in SUBSET DOMAIN w |->
                             IF s = {} THEN 0 ELSE f[s \ {Max(s)}] + w[Max(s)]]
           f == CHOOSE f : adds(f)
<1>1. g \in [S \X Int -> Int] /\ \A k \in S, y \in Int : g[<<k, y>>] = y + w[k]
  OBVIOUS
<1>2. SumOf(w) = f[DOMAIN w]
  BY DEF SumOf, FoldLeft, MapThenFoldSet
<1>3. DOMAIN w = S /\ IsFiniteSet(S)
  BY FS_Interval
<1>4. \A s \in SUBSET S : s # {} => Max(s) \in S
  BY MaxIs, \A s \in SUBSET S : s \subseteq 0 .. n
<1>5. ASSUME NEW e \in [SUBSET S -> Int]
      PROVE  adds(e) <=> FromLeft(e, g, 0, n)
  <2>1. \A s \in SUBSET S : s # {} =>
          g[<<Max(s), e[s \ {Max(s)}]>>] = e[s \ {Max(s)}] + w[Max(s)]
    <3> HIDE DEF g
    <3> QED BY <1>1, <1>4
  <2>2. [s \in SUBSET S |-> IF s = {} THEN 0 ELSE g[<<Max(s), e[s \ {Max(s)}]>>]]
          = [s \in SUBSET S |-> IF s = {} THEN 0 ELSE e[s \ {Max(s)}] + w[Max(s)]]
    <3> HIDE DEF g
    <3> QED BY <2>1
  <2> HIDE DEF g
  <2> QED BY <1>3, <2>2 DEF FromLeft
<1>6. PICK e \in [SUBSET S -> Int] : FromLeft(e, g, 0, n)
  <2> HIDE DEF g
  <2> QED BY <1>1, 0 \in Int, FromLeftExists
<1>8. adds(f)
  <2>1. adds(e)
    BY <1>5, <1>6
  <2> HIDE DEF adds
  <2> QED BY <2>1
<1>9. f \in [SUBSET S -> Int]
  <2> DEFINE c == [s \in SUBSET S |-> Max(s)]
  <2>1. Takes(c, S)
    BY MaxIs, \A s \in SUBSET S : s \subseteq 0 .. n DEF Takes
  <2> HIDE DEF f
  <2>2. f = [s \in SUBSET S |-> IF s = {} THEN 0 ELSE f[s \ {Max(s)}] + w[Max(s)]]
    BY <1>3, <1>8
  <2>3. f = [s \in SUBSET S |-> f[s]] /\ f[{}] \in Int
    BY <2>2
  <2>4. ASSUME NEW s \in SUBSET S, s # {}, f[s \ {c[s]}] \in Int
        PROVE  f[s] \in Int
    <3>1. f[s] = f[s \ {Max(s)}] + w[Max(s)] /\ c[s] = Max(s)
      BY <2>2, <2>4
    <3>2. w[Max(s)] \in Int
      BY <1>4, <2>4
    <3> HIDE DEF c
    <3> QED BY <2>4, <3>1, <3>2
  <2> HIDE DEF c
  <2>5. Keeps(f, c, Int, S)
    BY <2>3, <2>4 DEF Keeps
  <2> QED BY <1>3, <2>1, <2>5, FoldTyped
<1> HIDE DEF f, g
<1>10. FromLeft(f, g, 0, n)
  BY <1>5, <1>8, <1>9
<1>11. f[1 .. 0] = 0 /\ \A k \in S : f[1 .. k] = g[<<k, f[1 .. (k - 1)]>>]
  BY <1>10, FromLeftSteps
<1> DEFINE h == [k \in 0 .. n |-> f[1 .. k]]
<1>12. \A k \in 0 .. n : 1 .. k \in SUBSET S
  OBVIOUS
<1>13. h \in [0 .. n -> Int] /\ h[n] = SumOf(w) /\ h[0] = 0
  BY <1>2, <1>3, <1>9, <1>11, <1>12
<1>14. ASSUME NEW k \in 1 .. n
       PROVE  h[k] = h[k - 1] + w[k]
  <2>1. k - 1 \in 0 .. n /\ k \in 0 .. n
    OBVIOUS
  <2>2. f[1 .. (k - 1)] \in Int /\ f[1 .. k] = g[<<k, f[1 .. (k - 1)]>>]
    BY <1>9, <1>11, <1>12, <2>1
  <2>3. f[1 .. k] = f[1 .. (k - 1)] + w[k]
    BY <1>1, <2>2
  <2> QED BY <2>1, <2>3
<1> HIDE DEF h
<1> QED BY <1>13, <1>14

\* The first n elements of a sequence of numbers.
First(w, n) == [i \in 1 .. n |-> w[i]]

LEMMA TotalEmpty ==
  ASSUME NEW w
  PROVE  SumOf(First(w, 0)) = 0
<1>1. First(w, 0) \in [1 .. 0 -> Int]
  BY DEF First
<1>2. PICK h \in [0 .. 0 -> Int] : SumOf(First(w, 0)) = h[0] /\ h[0] = 0
  BY <1>1, TotalIsFold
<1> QED BY <1>2

LEMMA TotalTyped ==
  ASSUME NEW n \in Nat, NEW w \in [1 .. n -> Int]
  PROVE  SumOf(w) \in Int
<1>1. PICK h \in [0 .. n -> Int] : SumOf(w) = h[n]
  BY TotalIsFold
<1> QED BY <1>1

\* One element more adds itself.
LEMMA TotalAppends ==
  ASSUME NEW n \in Nat, NEW w \in [1 .. n + 1 -> Int]
  PROVE  SumOf(w) = SumOf(First(w, n)) + w[n + 1]
<1> DEFINE v == First(w, n)
<1>1. v \in [1 .. n -> Int] /\ \A k \in 1 .. n : v[k] = w[k]
  BY DEF First
<1> HIDE DEF v
<1>2. PICK h \in [0 .. n + 1 -> Int] :
           /\ SumOf(w) = h[n + 1] /\ h[0] = 0
           /\ \A k \in 1 .. n + 1 : h[k] = h[k - 1] + w[k]
  BY n + 1 \in Nat, TotalIsFold
<1>3. PICK e \in [0 .. n -> Int] :
           /\ SumOf(v) = e[n] /\ e[0] = 0
           /\ \A k \in 1 .. n : e[k] = e[k - 1] + v[k]
  BY <1>1, TotalIsFold
<1> DEFINE bad == {k \in 0 .. n : h[k] # e[k]}
<1>4. bad = {}
  <2> SUFFICES ASSUME bad # {} PROVE FALSE
    OBVIOUS
  <2>1. bad \subseteq Nat
    OBVIOUS
  <2>2. PICK k \in bad : \A j \in bad : k <= j
    <3> HIDE DEF bad
    <3> QED BY <2>1, SmallestOf
  <2>3. k \in 1 .. n /\ k \in 1 .. n + 1 /\ k - 1 \in 0 .. n /\ ~(k <= k - 1)
    BY <1>2, <1>3, <2>2
  <2>4. h[k - 1] = e[k - 1]
    BY <2>2, <2>3
  <2>5. h[k] = e[k]
    BY <1>1, <1>2, <1>3, <2>3, <2>4
  <2> QED BY <2>2, <2>5
<1>5. h[n] = e[n]
  BY <1>4, SMTT(60)
<1> HIDE DEF bad
<1>6. n + 1 \in 1 .. n + 1 /\ (n + 1) - 1 = n
  OBVIOUS
<1>7. h[n + 1] = h[n] + w[n + 1]
  BY <1>2, <1>6
<1> QED BY <1>2, <1>3, <1>5, <1>7 DEF v

\* A sum of natural numbers grows with its sequence.
LEMMA TotalGrows ==
  ASSUME NEW n \in Nat, NEW w \in [1 .. n -> Nat], NEW m \in 0 .. n
  PROVE  SumOf(First(w, m)) <= SumOf(w) /\ SumOf(First(w, m)) \in Nat
<1> DEFINE t(k) == SumOf(First(w, k))
<1>1. \A k \in 0 .. n : First(w, k) \in [1 .. k -> Int] /\ t(k) \in Int
  <2> SUFFICES ASSUME NEW k \in 0 .. n
               PROVE  First(w, k) \in [1 .. k -> Int] /\ t(k) \in Int
    OBVIOUS
  <2>1. First(w, k) \in [1 .. k -> Int]
    BY DEF First
  <2> QED BY <2>1, TotalTyped
<1>2. \A k \in 1 .. n : t(k) = t(k - 1) + w[k]
  <2> SUFFICES ASSUME NEW k \in 1 .. n PROVE t(k) = t(k - 1) + w[k]
    OBVIOUS
  <2> DEFINE j == k - 1
             v == First(w, k)
  <2>1. j \in Nat /\ j + 1 = k
    OBVIOUS
  <2>2. v \in [1 .. j + 1 -> Int]
    BY <1>1, <2>1
  <2>3. First(v, j) = First(w, j) /\ v[j + 1] = w[k]
    BY <2>1 DEF First
  <2>4. SumOf(v) = SumOf(First(v, j)) + v[j + 1]
    <3> HIDE DEF v, j
    <3> QED BY <2>1, <2>2, TotalAppends
  <2> QED BY <2>3, <2>4
<1>3. t(0) = 0
  BY TotalEmpty
<1>4. First(w, n) = w
  BY DEF First
<1> HIDE DEF t
<1> DEFINE bad == {k \in 0 .. n : t(k) < 0 \/ (k >= m /\ t(k) < t(m))}
<1>5. bad = {}
  <2> SUFFICES ASSUME bad # {} PROVE FALSE
    OBVIOUS
  <2>1. bad \subseteq Nat
    OBVIOUS
  <2>2. PICK k \in bad : \A j \in bad : k <= j
    <3> HIDE DEF bad
    <3> QED BY <2>1, SmallestOf
  <2>3. k \in 1 .. n /\ k - 1 \in 0 .. n /\ ~(k <= k - 1) /\ k # m
    <3>1. k # 0
      BY <1>1, <1>3, <2>2
    <3>2. CASE k = m
      <4>1. k \in 1 .. n /\ k - 1 \in 0 .. n /\ ~(k <= k - 1)
        BY <2>2, <3>1
      <4>2. ~(t(k - 1) < 0)
        BY <2>2, <4>1
      <4> QED BY <1>1, <1>2, <2>2, <3>2, <4>1, <4>2
    <3> QED BY <2>2, <3>1, <3>2
  <2>4. k - 1 \notin bad
    BY <2>2, <2>3
  <2>5. ~(t(k - 1) < 0) /\ (k - 1 >= m => ~(t(k - 1) < t(m)))
    BY <2>3, <2>4
  <2>6. t(k) = t(k - 1) + w[k] /\ w[k] \in Nat
    BY <1>2, <2>3
  <2>7. t(k) \in Int /\ t(k - 1) \in Int /\ t(m) \in Int
    BY <1>1, <2>3
  <2>8. ~(t(k) < 0) /\ (k >= m => ~(t(k) < t(m)))
    BY <2>3, <2>5, <2>6, <2>7
  <2> QED BY <2>2, <2>8
<1>6. ~(t(m) < 0) /\ ~(t(n) < t(m))
  BY <1>5
<1> HIDE DEF bad
<1> QED BY <1>1, <1>4, <1>6 DEF t

(***************************************************************************)
(* Order statistics                                                        *)
(***************************************************************************)

Below(v, n, x) == {j \in 1 .. n : v[j] < x}
UpTo(v, n, x) == {j \in 1 .. n : v[j] <= x}

\* A subset of a set of indices has no more of them, and a proper one fewer.
LEMMA SubsetCounted ==
  ASSUME NEW n \in Nat, NEW A \in SUBSET (1 .. n), NEW B \in SUBSET A
  PROVE  /\ IsFiniteSet(A) /\ IsFiniteSet(B)
         /\ Cardinality(A) \in Nat /\ Cardinality(B) \in Nat
         /\ Cardinality(A) <= n /\ Cardinality(B) <= Cardinality(A)
         /\ B # A => Cardinality(B) < Cardinality(A)
<1>1. IsFiniteSet(1 .. n) /\ Cardinality(1 .. n) = n
  <2>1. Cardinality(1 .. n) = IF 1 > n THEN 0 ELSE n - 1 + 1
    BY 1 \in Int, n \in Int, FS_Interval
  <2>2. IsFiniteSet(1 .. n)
    BY 1 \in Int, n \in Int, FS_Interval
  <2> QED BY <2>1, <2>2
<1>2. IsFiniteSet(A) /\ Cardinality(A) <= Cardinality(1 .. n)
  BY <1>1, FS_Subset
<1>3. IsFiniteSet(B) /\ Cardinality(B) <= Cardinality(A) /\ (Cardinality(A) = Cardinality(B) => A = B)
  BY <1>2, FS_Subset
<1>4. Cardinality(A) \in Nat /\ Cardinality(B) \in Nat
  BY <1>2, <1>3, FS_CardinalityType
<1> QED BY <1>1, <1>2, <1>3, <1>4

\* Of the values that some indices have, one is the smallest and one the largest.
LEMMA Extremes ==
  ASSUME NEW n \in Nat, NEW v \in [1 .. n -> Int], NEW I \in SUBSET (1 .. n), I # {}
  PROVE  /\ \E i \in I : \A j \in I : v[i] <= v[j]
         /\ \E i \in I : \A j \in I : v[j] <= v[i]
<1> DEFINE down(i) == {j \in I : v[j] <= v[i]}
           up(i) == {j \in I : v[j] >= v[i]}
           downs == {Cardinality(down(i)) : i \in I}
           ups == {Cardinality(up(i)) : i \in I}
<1>1. \A i \in I : down(i) \in SUBSET (1 .. n) /\ up(i) \in SUBSET (1 .. n) /\ v[i] \in Int
  OBVIOUS
<1>2. \A i \in I : Cardinality(down(i)) \in Nat /\ Cardinality(up(i)) \in Nat
  <2> HIDE DEF down, up
  <2> QED BY <1>1, SubsetCounted
<1>3. \E i \in I : \A j \in I : v[i] <= v[j]
  <2>1. PICK c \in downs : \A d \in downs : c <= d
    <3>1. downs \subseteq Nat /\ downs # {}
      BY <1>2
    <3> HIDE DEF downs
    <3> QED BY <3>1, SmallestOf
  <2>2. PICK i \in I : c = Cardinality(down(i))
    BY <2>1
  <2>3. ASSUME NEW j \in I, v[j] < v[i]
        PROVE  FALSE
    <3>1. down(j) \in SUBSET down(i) /\ i \in down(i) /\ i \notin down(j)
      BY <1>1, <2>3
    <3>2. Cardinality(down(j)) < Cardinality(down(i))
      <4>1. down(j) # down(i) /\ down(i) \in SUBSET (1 .. n)
        BY <1>1, <3>1
      <4> HIDE DEF down
      <4> QED BY <3>1, <4>1, SubsetCounted
    <3>3. c <= Cardinality(down(j))
      BY <2>1
    <3>4. Cardinality(down(i)) \in Nat /\ Cardinality(down(j)) \in Nat
      BY <1>2, <2>2, <2>3
    <3> HIDE DEF down, downs
    <3> QED BY <2>2, <3>2, <3>3, <3>4
  <2> QED BY <1>1, <2>3
<1>4. \E i \in I : \A j \in I : v[j] <= v[i]
  <2>1. PICK c \in ups : \A d \in ups : c <= d
    <3>1. ups \subseteq Nat /\ ups # {}
      BY <1>2
    <3> HIDE DEF ups
    <3> QED BY <3>1, SmallestOf
  <2>2. PICK i \in I : c = Cardinality(up(i))
    BY <2>1
  <2>3. ASSUME NEW j \in I, v[j] > v[i]
        PROVE  FALSE
    <3>1. up(j) \in SUBSET up(i) /\ i \in up(i) /\ i \notin up(j)
      BY <1>1, <2>3
    <3>2. Cardinality(up(j)) < Cardinality(up(i))
      <4>1. up(j) # up(i) /\ up(i) \in SUBSET (1 .. n)
        BY <1>1, <3>1
      <4> HIDE DEF up
      <4> QED BY <3>1, <4>1, SubsetCounted
    <3>3. c <= Cardinality(up(j))
      BY <2>1
    <3>4. Cardinality(up(i)) \in Nat /\ Cardinality(up(j)) \in Nat
      BY <1>2, <2>2, <2>3
    <3> HIDE DEF up, ups
    <3> QED BY <2>2, <3>2, <3>3, <3>4
  <2> QED BY <1>1, <2>3
<1> QED BY <1>3, <1>4

\* The value at an index of the sorted values exists: at most that many are below
\* it, and more are not above it.
LEMMA AtIndexIs ==
  ASSUME NEW n \in Nat, NEW v \in [1 .. n -> Int], NEW i \in 0 .. n - 1
  PROVE  /\ AtIndex(v, i) \in Int /\ \E j \in 1 .. n : AtIndex(v, i) = v[j]
         /\ Cardinality(Below(v, n, AtIndex(v, i))) <= i
         /\ Cardinality(UpTo(v, n, AtIndex(v, i))) > i
<1> DEFINE W == {j \in 1 .. n : Cardinality(UpTo(v, n, v[j])) > i}
<1>1. W # {}
  <2>1. PICK m \in 1 .. n : \A j \in 1 .. n : v[j] <= v[m]
    <3>1. 1 .. n # {}
      OBVIOUS
    <3> QED BY <3>1, Extremes
  <2>2. UpTo(v, n, v[m]) = 1 .. n
    BY <2>1 DEF UpTo
  <2>3. Cardinality(1 .. n) = n
    <3>1. Cardinality(1 .. n) = IF 1 > n THEN 0 ELSE n - 1 + 1
      BY 1 \in Int, n \in Int, FS_Interval
    <3> QED BY <3>1
  <2> QED BY <2>2, <2>3
<1>2. PICK m \in W : \A j \in W : v[m] <= v[j]
  BY <1>1, Extremes
<1>3. m \in 1 .. n /\ v[m] \in Int /\ Cardinality(UpTo(v, n, v[m])) > i
  BY <1>2
<1>4. Cardinality(Below(v, n, v[m])) <= i
  <2> SUFFICES ASSUME ~(Cardinality(Below(v, n, v[m])) <= i) PROVE FALSE
    OBVIOUS
  <2> DEFINE B == Below(v, n, v[m])
  <2>1. B \in SUBSET (1 .. n)
    BY DEF Below
  <2>2. Cardinality(B) \in Nat /\ Cardinality(B) > i
    <3>1. Cardinality(B) \in Nat
      BY <2>1, SubsetCounted
    <3> QED BY <3>1
  <2>3. B # {}
    <3>1. Cardinality({}) = 0
      BY FS_EmptySet
    <3> HIDE DEF B
    <3>2. B = {} => Cardinality(B) = 0
      BY <3>1
    <3> QED BY <2>2, <3>2
  <2>4. PICK y \in B : \A j \in B : v[j] <= v[y]
    BY <2>1, <2>3, Extremes
  <2>5. y \in 1 .. n /\ v[y] < v[m] /\ v[y] \in Int
    BY DEF Below
  <2>6. B \in SUBSET UpTo(v, n, v[y]) /\ UpTo(v, n, v[y]) \in SUBSET (1 .. n)
    BY <2>1, <2>4 DEF UpTo
  <2>7. Cardinality(UpTo(v, n, v[y])) \in Nat /\ Cardinality(B) <= Cardinality(UpTo(v, n, v[y]))
    BY <2>6, SubsetCounted
  <2>8. Cardinality(UpTo(v, n, v[y])) > i
    BY <2>2, <2>7
  <2>9. y \in W
    BY <2>5, <2>8
  <2>10. v[m] <= v[y]
    BY <1>2, <2>9
  <2> QED BY <1>3, <2>5, <2>10
<1> DEFINE values == {v[j] : j \in DOMAIN v}
<1>5. v[m] \in values /\ \A x \in values : x \in Int /\ \E j \in 1 .. n : x = v[j]
  BY <1>3
<1>6. AtIndex(v, i) = CHOOSE x \in values : /\ Cardinality(Below(v, n, x)) <= i
                                            /\ Cardinality(UpTo(v, n, x)) > i
  BY DEF AtIndex, Below, UpTo
<1> HIDE DEF values, W
<1>7. /\ AtIndex(v, i) \in values
      /\ Cardinality(Below(v, n, AtIndex(v, i))) <= i
      /\ Cardinality(UpTo(v, n, AtIndex(v, i))) > i
  BY <1>3, <1>4, <1>5, <1>6
<1> QED BY <1>5, <1>7

\* The values at later indices are no smaller.
LEMMA AtIndexGrows ==
  ASSUME NEW n \in Nat, NEW v \in [1 .. n -> Int], NEW i \in 0 .. n - 1, NEW j \in i .. n - 1
  PROVE  AtIndex(v, i) <= AtIndex(v, j)
<1> DEFINE x == AtIndex(v, i)
           y == AtIndex(v, j)
<1>1. x \in Int /\ y \in Int /\ Cardinality(Below(v, n, x)) <= i /\ Cardinality(UpTo(v, n, y)) > j
  BY AtIndexIs
<1>2. SUFFICES ASSUME y < x PROVE FALSE
  BY <1>1
<1>3. UpTo(v, n, y) \in SUBSET Below(v, n, x) /\ Below(v, n, x) \in SUBSET (1 .. n)
  BY <1>1, <1>2 DEF UpTo, Below
<1>4. /\ Cardinality(UpTo(v, n, y)) \in Nat /\ Cardinality(Below(v, n, x)) \in Nat
      /\ Cardinality(UpTo(v, n, y)) <= Cardinality(Below(v, n, x))
  BY <1>3, SubsetCounted
<1> HIDE DEF x, y
<1> QED BY <1>1, <1>4

\* Two sets of indices that have none in common have together no more than there are.
LEMMA ApartCounted ==
  ASSUME NEW n \in Nat, NEW A \in SUBSET (1 .. n), NEW B \in SUBSET (1 .. n), A \cap B = {}
  PROVE  Cardinality(A) \in Nat /\ Cardinality(B) \in Nat /\ Cardinality(A) + Cardinality(B) <= n
<1>1. /\ IsFiniteSet(A) /\ IsFiniteSet(B) /\ Cardinality(A) \in Nat /\ Cardinality(B) \in Nat
      /\ Cardinality(A \cup B) <= n
  BY A \cup B \in SUBSET (1 .. n), A \in SUBSET A, B \in SUBSET B, SubsetCounted
<1>2. Cardinality(A \cap B) = 0
  BY FS_EmptySet
<1>3. Cardinality(A \cup B) = Cardinality(A) + Cardinality(B) - Cardinality(A \cap B)
  BY <1>1, FS_Union
<1> QED BY <1>1, <1>2, <1>3

(***************************************************************************)
(* Loops                                                                   *)
(***************************************************************************)

\* What holds at 0 and goes on from each number to the next holds up to n.
LEMMA StepByStep ==
  ASSUME NEW n \in Nat, NEW S, 0 \in S, \A k \in 0 .. n - 1 : k \in S => k + 1 \in S
  PROVE  0 .. n \subseteq S
<1> SUFFICES ASSUME NEW k \in 0 .. n, k \notin S
             PROVE  FALSE
  OBVIOUS
<1> DEFINE out == {i \in 0 .. n : i \notin S}
<1>1. PICK i \in out : \A j \in out : i <= j
  <2>1. out \subseteq Nat /\ out # {}
    OBVIOUS
  <2> HIDE DEF out
  <2> QED BY <2>1, SmallestOf
<1>2. i \in 0 .. n /\ i \notin S /\ i # 0
  BY <1>1
<1>3. i - 1 \in 0 .. n - 1 /\ i - 1 \notin out
  <2>1. i - 1 \in 0 .. n - 1
    BY <1>2
  <2>2. ~(i <= i - 1)
    BY <1>2
  <2> HIDE DEF out
  <2> QED BY <2>1, <2>2, <1>1
<1>4. i - 1 \in S
  BY <1>3
<1>5. (i - 1) + 1 \in S /\ (i - 1) + 1 = i
  BY <1>2, <1>3, <1>4
<1> QED BY <1>2, <1>5

\* h is what a loop with the body g has computed after each of its n rounds.
Runs(h, g, base, n) ==
  h = [k \in 0 .. n |-> IF k = 0 THEN base ELSE g[<<h[k - 1], k>>]]

LEMMA RunExists ==
  ASSUME NEW n \in Nat, NEW V, NEW base \in V, NEW g \in [V \X (1 .. n) -> V]
  PROVE  \E h \in [0 .. n -> V] : Runs(h, g, base, n)
<1> DEFINE S == {m \in 0 .. n : \E h \in [0 .. m -> V] : Runs(h, g, base, m)}
<1>1. 0 \in S
  <2> DEFINE h == [k \in 0 .. 0 |-> base]
  <2>1. h \in [0 .. 0 -> V] /\ \A k \in 0 .. 0 : k = 0
    OBVIOUS
  <2>2. Runs(h, g, base, 0)
    BY <2>1 DEF Runs
  <2> QED BY <2>1, <2>2
<1>2. ASSUME NEW m \in 0 .. n - 1, m \in S
      PROVE  m + 1 \in S
  <2>1. PICK h \in [0 .. m -> V] : Runs(h, g, base, m)
    BY <1>2
  <2> DEFINE e == [k \in 0 .. m + 1 |-> IF k = m + 1 THEN g[<<h[m], m + 1>>] ELSE h[k]]
  <2>2. h[m] \in V /\ m + 1 \in 1 .. n /\ g[<<h[m], m + 1>>] \in V
    BY <2>1
  <2>3. e \in [0 .. m + 1 -> V]
    BY <2>2
  <2>4. ASSUME NEW k \in 0 .. m + 1
        PROVE  e[k] = IF k = 0 THEN base ELSE g[<<e[k - 1], k>>]
    <3>1. CASE k = m + 1
      <4>1. k # 0 /\ k - 1 = m /\ m \in 0 .. m + 1 /\ m # m + 1
        BY <3>1
      <4> QED BY <3>1, <4>1
    <3>2. CASE k # m + 1
      <4>1. k \in 0 .. m /\ e[k] = h[k]
        BY <3>2
      <4>2. h[k] = IF k = 0 THEN base ELSE g[<<h[k - 1], k>>]
        <5>1. \A f, x : f = [y \in 0 .. m |-> x[y]] => f[k] = x[k]
          BY <4>1
        <5> QED BY <4>1, <2>1 DEF Runs
      <4>3. k # 0 => k - 1 \in 0 .. m + 1 /\ k - 1 # m + 1 /\ e[k - 1] = h[k - 1]
        BY <4>1
      <4> HIDE DEF e
      <4> QED BY <4>1, <4>2, <4>3
    <3> QED BY <3>1, <3>2
  <2>5. Runs(e, g, base, m + 1)
    <3>1. DOMAIN e = 0 .. m + 1 /\ e = [k \in DOMAIN e |-> e[k]]
      OBVIOUS
    <3> HIDE DEF e
    <3> QED BY <2>4, <3>1 DEF Runs
  <2>6. m + 1 \in 0 .. n
    OBVIOUS
  <2> HIDE DEF e
  <2> QED BY <2>3, <2>5, <2>6
<1>3. n \in S
  <2> HIDE DEF S
  <2>1. 0 .. n \subseteq S
    BY <1>1, <1>2, StepByStep
  <2> QED BY <2>1
<1> QED BY <1>3

=================================================================================
