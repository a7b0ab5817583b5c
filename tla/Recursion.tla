----------------------------- MODULE Recursion -----------------------------
(***************************************************************************)
(* Recursive functions exist.  In TLA+ a recursive function is a CHOOSE of *)
(* a function that satisfies its definition, and says nothing unless there *)
(* is one.  A proof takes an instance of this module for each definition.  *)
(***************************************************************************)
EXTENDS Integers, TLAPS, WellFoundedInduction

CONSTANT Step(_, _, _)   \* Step(given, f, x): the definition of f[x]

\* f is the recursive function on S that Step defines.
Solves(given, S, f) == f = [x \in S |-> Step(given, f, x)]

\* The definition of f[x] looks at f at places of lower rank only.
Descends(given, S, rank) ==
    \A x \in S : \A f : \A g :
        (\A y \in S : rank[y] < rank[x] => f[y] = g[y])
            => Step(given, f, x) = Step(given, g, x)

\* Of a set that is not empty, some element has the lowest rank.
LEMMA LowestRank ==
    ASSUME NEW S, NEW rank \in [S -> Nat], NEW T \in SUBSET S, T # {}
    PROVE  \E x \in T : \A y \in T : rank[x] <= rank[y]
<1> DEFINE R == {rank[x] : x \in T}
<1>1. \E j \in R : \A l \in R : ~ (<<l, j>> \in OpToRel(<, Nat))
  <2>1. R \in SUBSET Nat /\ R # {} OBVIOUS
  <2> HIDE DEF R
  <2> QED BY <2>1, NatLessThanWellFounded, WFMin, Zenon
<1>2. PICK j \in R : \A l \in R : ~ (<<l, j>> \in OpToRel(<, Nat)) BY <1>1
<1>3. PICK x \in T : rank[x] = j OBVIOUS
<1>4. ASSUME NEW y \in T PROVE rank[x] <= rank[y]
  <2>1. ~ (<<rank[y], j>> \in {ss \in Nat \X Nat : ss[1] < ss[2]})
    BY <1>2 DEF OpToRel
  <2>2. rank[x] \in Nat /\ rank[y] \in Nat OBVIOUS
  <2> QED BY <1>3, <2>1, <2>2, SMT
<1> QED BY <1>4

\* A set of natural numbers that is not empty has a smallest element.
LEMMA SmallestNat ==
    ASSUME NEW T \in SUBSET Nat, T # {}
    PROVE  \E j \in T : \A l \in T : j <= l
<1> DEFINE id == [k \in Nat |-> k]
<1>1. id \in [Nat -> Nat] OBVIOUS
<1>2. \E j \in T : \A l \in T : id[j] <= id[l]
  <2> HIDE DEF id
  <2> QED BY <1>1, LowestRank
<1> QED BY <1>2

\* A set that has zero, and with every number the next, has them all.
LEMMA Induct ==
    ASSUME NEW P, 0 \in P, \A k \in Nat : k \in P => k + 1 \in P
    PROVE  \A n \in Nat : n \in P
<1> DEFINE T == Nat \ P
<1>1. SUFFICES ASSUME T # {} PROVE FALSE OBVIOUS
<1>2. PICK j \in T : \A l \in T : j <= l BY <1>1, SmallestNat
<1>3. j \in Nat /\ j # 0 /\ j \notin P OBVIOUS
<1>4. j - 1 \in Nat /\ (j - 1) + 1 = j /\ ~(j <= j - 1) BY <1>3, SMT
<1>5. j - 1 \in P BY <1>2, <1>4
<1> QED BY <1>3, <1>4, <1>5

\* A function whose definition descends exists: the ones that are right up to
\* some rank agree with each other, and together they are the function.
THEOREM RecursiveFunction ==
    ASSUME NEW given, NEW S, NEW rank \in [S -> Nat], Descends(given, S, rank)
    PROVE  \E f : Solves(given, S, f)
<1> DEFINE Right(n, f) == \A x \in S : rank[x] <= n => f[x] = Step(given, f, x)
           first == [n \in Nat |-> CHOOSE f : Right(n, f)]
           F == [x \in S |-> first[rank[x]][x]]
<1>1. ASSUME NEW n \in Nat, NEW k \in 0..n, NEW f, NEW g, Right(n, f), Right(k, g)
      PROVE  \A x \in S : rank[x] <= k => f[x] = g[x]
  <2> DEFINE T == {x \in S : rank[x] <= k /\ f[x] # g[x]}
  <2>1. SUFFICES ASSUME T # {} PROVE FALSE OBVIOUS
  <2>2. PICK x \in T : \A y \in T : rank[x] <= rank[y]
    <3>1. T \in SUBSET S OBVIOUS
    <3> HIDE DEF T
    <3> QED BY <2>1, <3>1, LowestRank
  <2>3. x \in S /\ rank[x] \in Nat /\ rank[x] <= k /\ rank[x] <= n /\ f[x] # g[x] BY SMT
  <2>4. \A y \in S : rank[y] < rank[x] => f[y] = g[y]
    <3>1. ASSUME NEW y \in S, rank[y] < rank[x] PROVE f[y] = g[y]
      <4>1. ~(rank[x] <= rank[y]) /\ rank[y] <= k BY <2>3, <3>1, SMT
      <4> QED BY <2>2, <4>1
    <3> QED BY <3>1
  <2>5. Step(given, f, x) = Step(given, g, x) BY <2>3, <2>4 DEF Descends
  <2> QED BY <1>1, <2>3, <2>5
<1>2. ASSUME NEW n \in Nat PROVE \E f : Right(n, f)
  <2> DEFINE T == {m \in Nat : ~ \E f : Right(m, f)}
             id == [m \in Nat |-> m]
  <2>1. SUFFICES ASSUME T # {} PROVE FALSE OBVIOUS
  <2>2. PICK j \in T : \A l \in T : id[j] <= id[l]
    <3>1. T \in SUBSET Nat /\ id \in [Nat -> Nat] OBVIOUS
    <3> HIDE DEF T, id
    <3> QED BY <2>1, <3>1, LowestRank
  <2>3. \E g : \A x \in S : rank[x] < j => g[x] = Step(given, g, x)
    <3>1. CASE j = 0 BY <3>1, SMT
    <3>2. CASE j # 0
      <4>1. j \in Nat /\ j - 1 \in Nat /\ ~(j <= j - 1) BY <3>2, SMT
      <4>2. j - 1 \notin T BY <2>2, <4>1
      <4>3. PICK g : Right(j - 1, g) BY <4>1, <4>2
      <4>4. \A x \in S : rank[x] < j => rank[x] <= j - 1 BY <4>1, SMT
      <4> QED BY <4>3, <4>4
    <3> QED BY <3>1, <3>2
  <2>4. PICK g : \A x \in S : rank[x] < j => g[x] = Step(given, g, x) BY <2>3
  <2> DEFINE h == [x \in S |-> Step(given, g, x)]
  <2>5. \A x \in S : rank[x] < j => h[x] = g[x] BY <2>4
  <2>6. ASSUME NEW x \in S, rank[x] <= j PROVE h[x] = Step(given, h, x)
    <3>1. \A y \in S : rank[y] < rank[x] => rank[y] < j BY <2>6, SMT
    <3>2. \A y \in S : rank[y] < rank[x] => h[y] = g[y] BY <2>5, <3>1
    <3>3. Step(given, h, x) = Step(given, g, x)
      <4> HIDE DEF h
      <4> QED BY <3>2 DEF Descends
    <3> QED BY <3>3
  <2>7. Right(j, h) BY <2>6
  <2>8. \E f : Right(j, f) BY <2>7
  <2> QED BY <2>8
<1>3. ASSUME NEW n \in Nat PROVE Right(n, first[n])
  <2>1. first[n] = CHOOSE f : Right(n, f) OBVIOUS
  <2>2. \E f : Right(n, f) BY <1>2
  <2> HIDE DEF Right, first
  <2> QED BY <2>1, <2>2
<1>4. ASSUME NEW x \in S PROVE F[x] = Step(given, F, x)
  <2> DEFINE r == rank[x]
  <2>1. r \in Nat /\ r <= r BY SMT
  <2>2. F[x] = first[r][x] OBVIOUS
  <2>3. first[r][x] = Step(given, first[r], x) BY <1>3, <2>1
  <2>4. ASSUME NEW y \in S, rank[y] < rank[x] PROVE F[y] = first[r][y]
    <3> DEFINE q == rank[y]
    <3>1. q \in Nat /\ q \in 0..r /\ q <= q BY <2>4, SMT
    <3>2. Right(r, first[r]) /\ Right(q, first[q]) BY <1>3, <2>1, <3>1
    <3>3. first[r][y] = first[q][y]
      <4> HIDE DEF first, Right, r
      <4> QED BY <1>1, <2>1, <3>1, <3>2
    <3> QED BY <3>3
  <2>5. Step(given, F, x) = Step(given, first[r], x)
    <3> HIDE DEF F, first
    <3> QED BY <2>4 DEF Descends
  <2> QED BY <2>2, <2>3, <2>5
<1>5. F = [x \in S |-> Step(given, F, x)]
  <2>1. F = [x \in S |-> F[x]] OBVIOUS
  <2> HIDE DEF F
  <2> QED BY <1>4, <2>1
<1>6. Solves(given, S, F) BY <1>5 DEF Solves
<1> HIDE DEF F
<1> QED BY <1>6
=============================================================================
