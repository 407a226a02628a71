----------------------------- MODULE Induction -----------------------------
(***************************************************************************)
(* Induction and recursion over the naturals, induction over finite sets,  *)
(* and what sums over finite sets come to, stated with sets and functions  *)
(* in the place of predicates and operators, so that a proof can cite them *)
(* by name.                                                                *)
(***************************************************************************)
EXTENDS Integers, Functions, FiniteSets, FiniteSetTheorems, WellFoundedInduction, TLAPS

\* The order of the naturals, as a relation.
LEMMA Below == IsWellFoundedOn({p \in Nat \X Nat : p[1] < p[2]}, Nat)
<1>1. OpToRel(<, Nat) = {p \in Nat \X Nat : p[1] < p[2]}
  BY Zenon DEF OpToRel
<1>2. QED
  BY <1>1, NatLessThanWellFounded, Zenon

\* Induction: a set with zero and the successor of every member has them all.
LEMMA SetInduction ==
  ASSUME NEW S, 0 \in S, \A n \in Nat : n \in S => n + 1 \in S
  PROVE  Nat \subseteq S
<1> DEFINE T == Nat \ S
           R == {p \in Nat \X Nat : p[1] < p[2]}
<1> SUFFICES ASSUME T # {} PROVE FALSE
  OBVIOUS
<1>1. PICK x \in T : \A y \in T : ~(<<y, x>> \in R)
  BY Below, WFMin
<1>2. x - 1 \in Nat
  BY <1>1
<1>3. <<x - 1, x>> \in R
  BY <1>2
<1>4. x - 1 \in S
  BY <1>1, <1>2, <1>3
<1>5. QED
  BY <1>1, <1>2, <1>4

\* Every set of naturals with a member has a least one.
LEMMA LeastExists ==
  ASSUME NEW S \in SUBSET Nat, S # {}
  PROVE  \E x \in S : \A y \in S : x <= y
<1>1. PICK x \in S : \A y \in S : ~(<<y, x>> \in {p \in Nat \X Nat : p[1] < p[2]})
  BY Below, WFMin
<1>2. ASSUME NEW y \in S PROVE x <= y
  <2>1. x \in Nat /\ y \in Nat
    OBVIOUS
  <2>2. ~(x > y)
    BY <1>1, <2>1
  <2>3. QED
    BY <2>1, <2>2
<1>3. QED
  BY <1>2

\* The first n + 1 values of the recursion that starts with start.
Follows(g, n, start, next) ==
    g[0] = start /\ \A k \in 0..(n - 1) : g[k + 1] = next[<<k, g[k]>>]

\* Two beginnings of one recursion agree as far as both go.
LEMMA BeginningsAgree ==
  ASSUME NEW start, NEW next, NEW m \in Nat, NEW n \in Nat, NEW g, NEW h,
         Follows(g, m, start, next), Follows(h, n, start, next)
  PROVE  \A k \in Nat : k <= m /\ k <= n => g[k] = h[k]
<1> DEFINE S == {k \in Nat : k <= m /\ k <= n => g[k] = h[k]}
<1>1. 0 \in S
  BY DEF Follows
<1>2. ASSUME NEW k \in Nat, k \in S PROVE k + 1 \in S
  <2> SUFFICES ASSUME k + 1 <= m, k + 1 <= n PROVE g[k + 1] = h[k + 1]
    OBVIOUS
  <2>1. k \in 0..(m - 1) /\ k \in 0..(n - 1) /\ g[k] = h[k]
    BY <1>2
  <2>2. QED
    BY <2>1 DEF Follows
<1> HIDE DEF S
<1>3. Nat \subseteq S
  BY <1>1, <1>2, SetInduction
<1>4. QED
  BY <1>3 DEF S

\* The values stay in A, if they start there.
Stays(A, start, next) ==
    start \in A /\ \A k \in Nat, a \in A : next[<<k, a>>] \in A

\* Recursion: the values exist, as one function of the naturals.
LEMMA Recursion ==
  ASSUME NEW A, NEW start, NEW next, Stays(A, start, next)
  PROVE  \E g \in [Nat -> A] : g[0] = start /\ \A k \in Nat : g[k + 1] = next[<<k, g[k]>>]
<1>0. start \in A /\ \A k \in Nat, a \in A : next[<<k, a>>] \in A
  BY DEF Stays
<1> DEFINE Begins(g, n) == g \in [0..n -> A] /\ Follows(g, n, start, next)
           S == {n \in Nat : \E g : Begins(g, n)}
<1>1. 0 \in S
  <2> DEFINE g == [k \in 0..0 |-> start]
  <2>1. Begins(g, 0)
    BY <1>0 DEF Follows
  <2>2. QED
    BY <2>1
<1>2. ASSUME NEW n \in Nat, n \in S PROVE n + 1 \in S
  <2>1. PICK g : Begins(g, n)
    BY <1>2
  <2> DEFINE h == [k \in 0..(n + 1) |-> IF k = n + 1 THEN next[<<n, g[n]>>] ELSE g[k]]
  <2>2. h \in [0..(n + 1) -> A]
    <3>1. g[n] \in A
      BY <2>1
    <3>2. next[<<n, g[n]>>] \in A
      BY <1>0, <3>1
    <3>3. \A k \in 0..(n + 1) : k # n + 1 => g[k] \in A
      BY <2>1
    <3>4. QED
      BY <3>2, <3>3
  <2>3. Follows(h, n + 1, start, next)
    <3>1. h[0] = start
      BY <2>1 DEF Follows
    <3>2. ASSUME NEW k \in 0..n PROVE h[k + 1] = next[<<k, h[k]>>]
      <4>1. CASE k = n
        <5>1. n \in 0..(n + 1) /\ n + 1 \in 0..(n + 1) /\ n # n + 1
          OBVIOUS
        <5>2. h[n + 1] = next[<<n, g[n]>>] /\ h[n] = g[n]
          BY <5>1
        <5>3. QED
          BY <4>1, <5>2
      <4>2. CASE k # n
        <5>1. k \in 0..(n - 1)
          BY <4>2
        <5>2. g[k + 1] = next[<<k, g[k]>>]
          BY <2>1, <5>1 DEF Follows
        <5>3. k \in 0..(n + 1) /\ k + 1 \in 0..(n + 1) /\ k # n + 1 /\ k + 1 # n + 1
          BY <5>1
        <5>4. h[k + 1] = g[k + 1] /\ h[k] = g[k]
          BY <5>3
        <5>5. QED
          BY <5>2, <5>4
      <4>3. QED
        BY <4>1, <4>2
    <3>3. (n + 1) - 1 = n
      OBVIOUS
    <3>4. QED
      BY <3>1, <3>2, <3>3 DEF Follows
  <2>4. QED
    BY <2>2, <2>3
<1>3. ASSUME NEW n \in Nat PROVE \E g : Begins(g, n)
  <2> HIDE DEF Begins
  <2>1. n \in S
    <3> HIDE DEF S
    <3>1. QED
      BY <1>1, <1>2, SetInduction
  <2>2. QED
    BY <2>1
<1> DEFINE b == [n \in Nat |-> CHOOSE g : Begins(g, n)]
           f == [n \in Nat |-> b[n][n]]
<1>4. ASSUME NEW n \in Nat PROVE Begins(b[n], n)
  <2> HIDE DEF Begins
  <2>1. QED
    BY <1>3
<1> HIDE DEF b
<1>5. f \in [Nat -> A]
  BY <1>4
<1>6. f[0] = start
  BY <1>4 DEF Follows
<1>7. ASSUME NEW k \in Nat PROVE f[k + 1] = next[<<k, f[k]>>]
  <2>1. Follows(b[k], k, start, next) /\ Follows(b[k + 1], k + 1, start, next)
    BY <1>4
  <2>2. b[k][k] = b[k + 1][k]
    <3>1. k + 1 \in Nat /\ k <= k /\ k <= k + 1
      OBVIOUS
    <3>2. ASSUME NEW g, NEW h, Follows(g, k, start, next), Follows(h, k + 1, start, next)
          PROVE  g[k] = h[k]
      BY <3>1, <3>2, BeginningsAgree
    <3>3. QED
      BY <2>1, <3>2
  <2>3. b[k + 1][k + 1] = next[<<k, b[k + 1][k]>>]
    <3>1. k \in 0..((k + 1) - 1)
      OBVIOUS
    <3>2. QED
      BY <2>1, <3>1 DEF Follows
  <2>4. QED
    BY <2>2, <2>3
<1>8. QED
  BY <1>5, <1>6, <1>7

-----------------------------------------------------------------------------
\* Induction over a finite set: a family of its subsets with the empty one, and
\* with every subset also that subset and one element more, has them all.
LEMMA FiniteInduction ==
  ASSUME NEW U, IsFiniteSet(U), NEW P, {} \in P,
         \A s \in SUBSET U, x \in U : s \in P /\ x \notin s => s \cup {x} \in P
  PROVE  U \in P
<1> DEFINE S == {n \in Nat : \A s \in SUBSET U : Cardinality(s) = n => s \in P}
<1>1. \A s \in SUBSET U : IsFiniteSet(s) /\ Cardinality(s) \in Nat
  BY FS_Subset, FS_CardinalityType
<1>2. 0 \in S
  BY <1>1, FS_EmptySet
<1>3. ASSUME NEW n \in Nat, n \in S PROVE n + 1 \in S
  <2> SUFFICES ASSUME NEW s \in SUBSET U, Cardinality(s) = n + 1 PROVE s \in P
    BY DEF S
  <2>1. s # {}
    BY FS_EmptySet
  <2>2. PICK x \in s : TRUE
    BY <2>1
  <2>3. Cardinality(s \ {x}) = n
    <3>1. IsFiniteSet(s) /\ x \in s
      BY <1>1, <2>2
    <3>2. Cardinality(s \ {x}) = Cardinality(s) - 1
      BY <3>1, FS_RemoveElement
    <3>3. QED
      BY <3>2
  <2>4. s \ {x} \in P
    BY <1>3, <2>3
  <2>5. s = (s \ {x}) \cup {x}
    BY <2>2
  <2>6. QED
    BY <2>2, <2>4, <2>5
<1>4. Nat \subseteq S
  <2> HIDE DEF S
  <2>1. QED
    BY <1>2, <1>3, SetInduction
<1>5. Cardinality(U) \in Nat
  BY <1>1
<1>6. QED
  BY <1>4, <1>5

\* The recursion by which the community modules add up f over a finite set.
FirstOf(s) == CHOOSE x \in s : TRUE
AddsUp(g, f, S) ==
    g = [s \in SUBSET S |-> IF s = {} THEN 0 ELSE f[FirstOf(s)] + g[s \ {FirstOf(s)}]]

\* A sum is the value of that recursion at the whole set.
LEMMA SumUnfolds ==
  ASSUME NEW f, NEW S
  PROVE  SumFunctionOnSet(f, S) = (CHOOSE g : AddsUp(g, f, S))[S]
  BY DEF SumFunctionOnSet, FoldFunctionOnSet, MapThenFoldSet, AddsUp, FirstOf

\* Numbers for every element of a finite set.
Numbers(f, S) == IsFiniteSet(S) /\ \A x \in S : f[x] \in Int

\* The element the recursion takes out is one of the set.
LEMMA FirstIn == \A s : s # {} => FirstOf(s) \in s
  BY DEF FirstOf

\* The recursion has a solution.
LEMMA SumExists ==
  ASSUME NEW f, NEW S, Numbers(f, S)
  PROVE  \E g \in [SUBSET S -> Int] : AddsUp(g, f, S)
<1> DEFINE A == [SUBSET S -> Int]
           start == [s \in SUBSET S |-> 0]
           More(h) == [s \in SUBSET S |-> IF s = {} THEN 0 ELSE f[FirstOf(s)] + h[s \ {FirstOf(s)}]]
           next == [q \in Nat \X A |-> More(q[2])]
<1>1. ASSUME NEW h \in A PROVE More(h) \in A
  <2> SUFFICES ASSUME NEW s \in SUBSET S, s # {} PROVE f[FirstOf(s)] + h[s \ {FirstOf(s)}] \in Int
    OBVIOUS
  <2>1. FirstOf(s) \in S /\ s \ {FirstOf(s)} \in SUBSET S
    BY FirstIn
  <2>2. f[FirstOf(s)] \in Int /\ h[s \ {FirstOf(s)}] \in Int
    BY <2>1 DEF Numbers
  <2>3. QED
    BY <2>2
<1>2. \A k \in Nat, h \in A : next[<<k, h>>] = More(h)
  <2> HIDE DEF A, More
  <2>1. QED
    OBVIOUS
<1>3. Stays(A, start, next)
  <2>1. start \in A
    OBVIOUS
  <2> HIDE DEF A, start, next, More
  <2>2. QED
    BY <1>1, <1>2, <2>1 DEF Stays
<1>4. \E G \in [Nat -> A] : G[0] = start /\ \A k \in Nat : G[k + 1] = next[<<k, G[k]>>]
  <2> HIDE DEF A, start, next, More
  <2>1. QED
    BY <1>3, Recursion
<1>5. PICK G \in [Nat -> A] : G[0] = start /\ \A k \in Nat : G[k + 1] = next[<<k, G[k]>>]
  BY <1>4
<1>6. \A k \in Nat : G[k + 1] = More(G[k])
  <2> HIDE DEF A, start, next, More
  <2>1. QED
    BY <1>2, <1>5
<1>7. \A k \in Nat : G[k] \in A
  <2> HIDE DEF A
  <2>1. QED
    BY <1>5
<1> DEFINE g == [s \in SUBSET S |-> G[Cardinality(s)][s]]
<1>8. \A s \in SUBSET S : IsFiniteSet(s) /\ Cardinality(s) \in Nat
  BY FS_Subset, FS_CardinalityType DEF Numbers
<1>9. g \in A
  BY <1>7, <1>8
<1>10. ASSUME NEW s \in SUBSET S, s = {} PROVE g[s] = 0
  BY <1>5, <1>10, FS_EmptySet
<1>11. ASSUME NEW s \in SUBSET S, s # {} PROVE g[s] = f[FirstOf(s)] + g[s \ {FirstOf(s)}]
  <2> DEFINE t == s \ {FirstOf(s)}
             m == Cardinality(t)
  <2>1. FirstOf(s) \in s /\ t \in SUBSET S
    BY <1>11, FirstIn
  <2>2. m \in Nat /\ Cardinality(s) = m + 1
    BY <1>8, <2>1, FS_RemoveElement
  <2>3. G[m + 1][s] = f[FirstOf(s)] + G[m][t]
    <3> HIDE DEF m
    <3>1. G[m + 1] = More(G[m])
      BY <1>6, <2>2
    <3>2. QED
      BY <1>11, <3>1
  <2> HIDE DEF t
  <2>4. g[t] = G[m][t] /\ g[s] = G[Cardinality(s)][s]
    BY <2>1
  <2> HIDE DEF m, g
  <2>5. QED
    BY <2>2, <2>3, <2>4 DEF t
<1> HIDE DEF g
<1>12. AddsUp(g, f, S)
  <2> DEFINE h == [s \in SUBSET S |-> IF s = {} THEN 0 ELSE f[FirstOf(s)] + g[s \ {FirstOf(s)}]]
  <2>1. g = [s \in SUBSET S |-> g[s]]
    BY <1>9
  <2>2. \A s \in SUBSET S : g[s] = h[s]
    BY <1>10, <1>11
  <2>3. g = h
    BY <2>1, <2>2
  <2>4. QED
    BY <2>3 DEF AddsUp
<1>13. QED
  BY <1>9, <1>12

\* ... and only one, whatever larger set it is taken from.
LEMMA SumsUnique ==
  ASSUME NEW f, NEW S, IsFiniteSet(S), NEW T, NEW g, NEW h, AddsUp(g, f, S), AddsUp(h, f, T)
  PROVE  \A s : s \subseteq S /\ s \subseteq T => g[s] = h[s]
<1> DEFINE N == {n \in Nat : \A s \in SUBSET S : s \subseteq T /\ Cardinality(s) = n => g[s] = h[s]}
<1>1. \A s \in SUBSET S : IsFiniteSet(s) /\ Cardinality(s) \in Nat
  BY FS_Subset, FS_CardinalityType
<1>2. 0 \in N
  <2>1. g[{}] = 0 /\ h[{}] = 0
    BY DEF AddsUp
  <2>2. QED
    BY <1>1, <2>1, FS_EmptySet
<1>3. ASSUME NEW n \in Nat, n \in N PROVE n + 1 \in N
  <2> SUFFICES ASSUME NEW s \in SUBSET S, s \subseteq T, Cardinality(s) = n + 1 PROVE g[s] = h[s]
    OBVIOUS
  <2> DEFINE c == FirstOf(s)
  <2>1. s # {} /\ IsFiniteSet(s)
    BY <1>1, FS_EmptySet
  <2>2. c \in s
    BY <2>1, FirstIn
  <2>3. Cardinality(s \ {c}) = Cardinality(s) - 1
    BY <2>1, <2>2, FS_RemoveElement
  <2> HIDE DEF c
  <2>4. Cardinality(s \ {c}) = n /\ s \ {c} \in SUBSET S /\ s \ {c} \subseteq T
    BY <2>3
  <2>5. g[s \ {c}] = h[s \ {c}]
    BY <1>3, <2>4
  <2>6. g[s] = f[c] + g[s \ {c}]
    BY <2>1 DEF AddsUp, c
  <2>7. h[s] = f[c] + h[s \ {c}]
    BY <2>1 DEF AddsUp, c
  <2>8. QED
    BY <2>5, <2>6, <2>7
<1>4. Nat \subseteq N
  <2> HIDE DEF N
  <2>1. QED
    BY <1>2, <1>3, SetInduction
<1>5. QED
  BY <1>1, <1>4

\* The first element of a set is added to the sum of the others.
LEMMA SumFirst ==
  ASSUME NEW f, NEW S, Numbers(f, S)
  PROVE  /\ SumFunctionOnSet(f, S) \in Int
         /\ SumFunctionOnSet(f, {}) = 0
         /\ S # {} => SumFunctionOnSet(f, S) = f[FirstOf(S)] + SumFunctionOnSet(f, S \ {FirstOf(S)})
<1>1. PICK g \in [SUBSET S -> Int] : AddsUp(g, f, S)
  BY SumExists
<1>2. ASSUME NEW T \in SUBSET S PROVE SumFunctionOnSet(f, T) = g[T]
  <2>1. Numbers(f, T)
    BY FS_Subset DEF Numbers
  <2>2. \E h : AddsUp(h, f, T)
    BY <2>1, SumExists
  <2> DEFINE k == CHOOSE h : AddsUp(h, f, T)
  <2>3. AddsUp(k, f, T)
    BY <2>2
  <2>4. SumFunctionOnSet(f, T) = k[T]
    BY SumUnfolds
  <2> HIDE DEF k
  <2>5. k[T] = g[T]
    BY <1>1, <2>1, <2>3, SumsUnique DEF Numbers
  <2>6. QED
    BY <2>4, <2>5
<1>3. g[{}] = 0 /\ (S # {} => g[S] = f[FirstOf(S)] + g[S \ {FirstOf(S)}])
  BY <1>1 DEF AddsUp
<1>4. S \in SUBSET S /\ {} \in SUBSET S /\ S \ {FirstOf(S)} \in SUBSET S
  OBVIOUS
<1>5. g[S] \in Int
  BY <1>1, <1>4
<1>6. QED
  BY <1>2, <1>3, <1>4, <1>5

\* So may be any other one.
LEMMA SumTakeOut ==
  ASSUME NEW f, NEW S, Numbers(f, S), NEW x \in S
  PROVE  SumFunctionOnSet(f, S) = f[x] + SumFunctionOnSet(f, S \ {x})
<1> DEFINE Sum(s) == SumFunctionOnSet(f, s)
           N == {n \in Nat : \A s \in SUBSET S : Cardinality(s) = n => \A y \in s : Sum(s) = f[y] + Sum(s \ {y})}
<1>1. \A s \in SUBSET S : IsFiniteSet(s) /\ Cardinality(s) \in Nat /\ Numbers(f, s)
  BY FS_Subset, FS_CardinalityType DEF Numbers
<1>2. \A s \in SUBSET S : Sum(s) \in Int /\ (s # {} => Sum(s) = f[FirstOf(s)] + Sum(s \ {FirstOf(s)}))
  BY <1>1, SumFirst
<1> HIDE DEF Sum
<1>3. 0 \in N
  BY <1>1, FS_EmptySet
<1>4. ASSUME NEW n \in Nat, n \in N PROVE n + 1 \in N
  <2> SUFFICES ASSUME NEW s \in SUBSET S, Cardinality(s) = n + 1, NEW y \in s
               PROVE  Sum(s) = f[y] + Sum(s \ {y})
    OBVIOUS
  <2> DEFINE c == FirstOf(s)
  <2>1. c \in s /\ IsFiniteSet(s)
    BY <1>1, FirstIn
  <2> HIDE DEF c
  <2>2. Sum(s) = f[c] + Sum(s \ {c})
    BY <1>2 DEF c
  <2>3. CASE c = y
    BY <2>2, <2>3
  <2>4. CASE c # y
    <3>1. Cardinality(s \ {c}) = Cardinality(s) - 1 /\ Cardinality(s \ {y}) = Cardinality(s) - 1
      BY <2>1, FS_RemoveElement
    <3>2. Cardinality(s \ {c}) = n /\ Cardinality(s \ {y}) = n
      BY <3>1
    <3>3. y \in s \ {c} /\ c \in s \ {y} /\ s \ {c} \in SUBSET S /\ s \ {y} \in SUBSET S
      BY <2>1, <2>4
    <3>4. Sum(s \ {c}) = f[y] + Sum((s \ {c}) \ {y}) /\ Sum(s \ {y}) = f[c] + Sum((s \ {y}) \ {c})
      BY <1>4, <3>2, <3>3
    <3> DEFINE r == s \ {c, y}
    <3>5. (s \ {c}) \ {y} = r /\ (s \ {y}) \ {c} = r /\ r \in SUBSET S
      OBVIOUS
    <3> HIDE DEF r
    <3>6. f[c] \in Int /\ f[y] \in Int /\ Sum(r) \in Int
      BY <1>2, <2>1, <3>5 DEF Numbers
    <3>7. Sum(s \ {c}) = f[y] + Sum(r) /\ Sum(s \ {y}) = f[c] + Sum(r)
      BY <3>4, <3>5
    <3>8. QED
      BY <2>2, <3>6, <3>7
  <2>5. QED
    BY <2>3, <2>4
<1> HIDE DEF N
<1>5. Nat \subseteq N
  BY <1>3, <1>4, SetInduction
<1>6. Cardinality(S) \in Nat /\ S \in SUBSET S
  BY <1>1
<1>7. QED
  BY <1>5, <1>6 DEF N, Sum

\* One element more adds its number.
LEMMA SumAdd ==
  ASSUME NEW f, NEW S, NEW x, x \notin S, Numbers(f, S \cup {x})
  PROVE  SumFunctionOnSet(f, S \cup {x}) = f[x] + SumFunctionOnSet(f, S)
<1>1. x \in S \cup {x} /\ (S \cup {x}) \ {x} = S
  OBVIOUS
<1>2. QED
  BY <1>1, SumTakeOut

\* Sums of numbers of two disjoint sets.
LEMMA SumUnion ==
  ASSUME NEW f, NEW S, NEW T, S \cap T = {}, Numbers(f, S \cup T)
  PROVE  SumFunctionOnSet(f, S \cup T) = SumFunctionOnSet(f, S) + SumFunctionOnSet(f, T)
<1> DEFINE Sum(s) == SumFunctionOnSet(f, s)
           P == {s \in SUBSET T : Sum(S \cup s) = Sum(S) + Sum(s)}
<1>1. \A s \in SUBSET (S \cup T) : Numbers(f, s) /\ Sum(s) \in Int
  <2>1. \A s \in SUBSET (S \cup T) : Numbers(f, s)
    BY FS_Subset DEF Numbers
  <2>2. QED
    BY <2>1, SumFirst
<1>2. Sum({}) = 0
  BY SumFirst
<1>3. \A s \in SUBSET (S \cup T), x \in S \cup T : x \notin s => Sum(s \cup {x}) = f[x] + Sum(s)
  <2> SUFFICES ASSUME NEW s \in SUBSET (S \cup T), NEW x \in S \cup T, x \notin s
               PROVE  Sum(s \cup {x}) = f[x] + Sum(s)
    OBVIOUS
  <2>1. s \cup {x} \in SUBSET (S \cup T)
    OBVIOUS
  <2>2. QED
    BY <1>1, <2>1, SumAdd
<1> HIDE DEF Sum
<1>4. {} \in P
  <2>1. S \cup {} = S
    OBVIOUS
  <2>2. QED
    BY <1>1, <1>2, <2>1
<1>5. ASSUME NEW s \in SUBSET T, NEW x \in T, s \in P, x \notin s PROVE s \cup {x} \in P
  <2>1. S \cup (s \cup {x}) = (S \cup s) \cup {x} /\ x \notin S \cup s /\ S \cup s \in SUBSET (S \cup T)
    BY <1>5
  <2>2. Sum(S \cup (s \cup {x})) = f[x] + Sum(S \cup s) /\ Sum(s \cup {x}) = f[x] + Sum(s)
    BY <1>3, <1>5, <2>1
  <2>3. f[x] \in Int /\ Sum(S) \in Int /\ Sum(s) \in Int
    BY <1>1 DEF Numbers
  <2>4. QED
    BY <1>5, <2>2, <2>3
<1>6. IsFiniteSet(T)
  BY FS_Subset DEF Numbers
<1>7. T \in P
  <2> HIDE DEF P
  <2>1. QED
    BY <1>4, <1>5, <1>6, FiniteInduction
<1>8. QED
  BY <1>7 DEF Sum

\* A sum is at most k times another if every term is.
LEMMA SumBounded ==
  ASSUME NEW f, NEW g, NEW S, Numbers(f, S), Numbers(g, S), NEW k \in Int,
         \A x \in S : f[x] <= k * g[x]
  PROVE  SumFunctionOnSet(f, S) <= k * SumFunctionOnSet(g, S)
<1> DEFINE F(s) == SumFunctionOnSet(f, s)
           G(s) == SumFunctionOnSet(g, s)
           P == {s \in SUBSET S : F(s) <= k * G(s)}
<1>1. \A s \in SUBSET S : Numbers(f, s) /\ Numbers(g, s) /\ F(s) \in Int /\ G(s) \in Int
  <2>1. \A s \in SUBSET S : Numbers(f, s) /\ Numbers(g, s)
    BY FS_Subset DEF Numbers
  <2>2. QED
    BY <2>1, SumFirst
<1>2. {} \in P
  <2>1. F({}) = 0 /\ G({}) = 0
    BY SumFirst
  <2>2. QED
    BY <2>1
<1>3. ASSUME NEW s \in SUBSET S, NEW x \in S, s \in P, x \notin s PROVE s \cup {x} \in P
  <2>1. s \cup {x} \in SUBSET S
    OBVIOUS
  <2>2. F(s \cup {x}) = f[x] + F(s) /\ G(s \cup {x}) = g[x] + G(s)
    BY <1>1, <1>3, <2>1, SumAdd
  <2> HIDE DEF F, G
  <2>3. F(s) \in Int /\ G(s) \in Int /\ f[x] \in Int /\ g[x] \in Int /\ f[x] <= k * g[x] /\ F(s) <= k * G(s)
    BY <1>1, <1>3 DEF Numbers
  <2>4. k * (g[x] + G(s)) = k * g[x] + k * G(s)
    BY <2>3
  <2>5. QED
    BY <2>1, <2>2, <2>3, <2>4
<1>4. S \in P
  <2> HIDE DEF P
  <2>1. IsFiniteSet(S)
    BY DEF Numbers
  <2>2. QED
    BY <1>2, <1>3, <2>1, FiniteInduction
<1>5. QED
  BY <1>4

\* A sum depends on its terms only.
LEMMA SumSame ==
  ASSUME NEW f, NEW g, NEW S, Numbers(f, S), \A x \in S : f[x] = g[x]
  PROVE  SumFunctionOnSet(f, S) = SumFunctionOnSet(g, S)
<1>1. Numbers(g, S) /\ \A x \in S : f[x] <= 1 * g[x] /\ g[x] <= 1 * f[x]
  BY DEF Numbers
<1>2. /\ SumFunctionOnSet(f, S) <= 1 * SumFunctionOnSet(g, S)
      /\ SumFunctionOnSet(g, S) <= 1 * SumFunctionOnSet(f, S)
  BY <1>1, SumBounded
<1>3. SumFunctionOnSet(f, S) \in Int /\ SumFunctionOnSet(g, S) \in Int
  BY <1>1, SumFirst
<1>4. QED
  BY <1>2, <1>3

\* A sum of naturals is one, and at least each of its terms.
LEMMA SumNat ==
  ASSUME NEW f, NEW S, Numbers(f, S), \A x \in S : f[x] >= 0
  PROVE  SumFunctionOnSet(f, S) \in Nat /\ \A x \in S : SumFunctionOnSet(f, S) >= f[x]
<1> DEFINE Sum(s) == SumFunctionOnSet(f, s)
<1>1. ASSUME NEW s \in SUBSET S PROVE Sum(s) \in Nat
  <2> DEFINE z == [x \in s |-> 0]
             Z == SumFunctionOnSet(z, s)
  <2>1. Numbers(f, s) /\ \A x \in s : f[x] \in Int /\ f[x] >= 0
    BY FS_Subset DEF Numbers
  <2>2. Numbers(z, s) /\ \A x \in s : z[x] = 0
    BY <2>1 DEF Numbers
  <2> HIDE DEF z
  <2>3. (\A x \in s : z[x] <= 0 * z[x]) /\ (\A x \in s : z[x] <= 2 * z[x]) /\ (\A x \in s : z[x] <= 1 * f[x])
    BY <2>1, <2>2
  <2>4. Z <= 0 * Z
    BY <2>2, <2>3, SumBounded
  <2>5. Z <= 2 * Z
    BY <2>2, <2>3, SumBounded
  <2>6. Z <= 1 * Sum(s)
    BY <2>1, <2>2, <2>3, SumBounded
  <2>7. Z \in Int /\ Sum(s) \in Int
    BY <2>1, <2>2, SumFirst
  <2> HIDE DEF Z, Sum
  <2>8. QED
    BY <2>4, <2>5, <2>6, <2>7
<1>2. ASSUME NEW x \in S PROVE Sum(S) >= f[x]
  <2>1. Sum(S) = f[x] + Sum(S \ {x})
    BY SumTakeOut
  <2>2. Sum(S \ {x}) \in Nat /\ f[x] \in Int
    BY <1>1 DEF Numbers
  <2> HIDE DEF Sum
  <2>3. QED
    BY <2>1, <2>2
<1>3. QED
  BY <1>1, <1>2

\* A sum is at least k times another if every term is.
LEMMA SumAtLeast ==
  ASSUME NEW f, NEW g, NEW S, Numbers(f, S), Numbers(g, S), NEW k \in Int,
         \A x \in S : k * g[x] <= f[x]
  PROVE  k * SumFunctionOnSet(g, S) <= SumFunctionOnSet(f, S)
<1> DEFINE F(s) == SumFunctionOnSet(f, s)
           G(s) == SumFunctionOnSet(g, s)
           P == {s \in SUBSET S : k * G(s) <= F(s)}
<1>1. \A s \in SUBSET S : Numbers(f, s) /\ Numbers(g, s) /\ F(s) \in Int /\ G(s) \in Int
  <2>1. \A s \in SUBSET S : Numbers(f, s) /\ Numbers(g, s)
    BY FS_Subset DEF Numbers
  <2>2. QED
    BY <2>1, SumFirst
<1>2. {} \in P
  <2>1. F({}) = 0 /\ G({}) = 0
    BY SumFirst
  <2>2. QED
    BY <2>1
<1>3. ASSUME NEW s \in SUBSET S, NEW x \in S, s \in P, x \notin s PROVE s \cup {x} \in P
  <2>1. s \cup {x} \in SUBSET S
    OBVIOUS
  <2>2. F(s \cup {x}) = f[x] + F(s) /\ G(s \cup {x}) = g[x] + G(s)
    BY <1>1, <1>3, <2>1, SumAdd
  <2> HIDE DEF F, G
  <2>3. F(s) \in Int /\ G(s) \in Int /\ f[x] \in Int /\ g[x] \in Int /\ k * g[x] <= f[x] /\ k * G(s) <= F(s)
    BY <1>1, <1>3 DEF Numbers
  <2>4. k * (g[x] + G(s)) = k * g[x] + k * G(s)
    BY <2>3
  <2>5. QED
    BY <2>1, <2>2, <2>3, <2>4
<1>4. S \in P
  <2> HIDE DEF P
  <2>1. IsFiniteSet(S)
    BY DEF Numbers
  <2>2. QED
    BY <1>2, <1>3, <2>1, FiniteInduction
<1>5. QED
  BY <1>4

\* T are the values of f at S, each at one place.
Injects(f, S, T) == T = {f[x] : x \in S} /\ \A x, y \in S : f[x] = f[y] => x = y

\* The sum over the values of an injection is the sum over their places.
LEMMA SumImage ==
  ASSUME NEW S, IsFiniteSet(S), NEW f, NEW T, Injects(f, S, T), NEW b, Numbers(b, T),
         NEW a, \A x \in S : a[x] = b[f[x]]
  PROVE  SumFunctionOnSet(b, T) = SumFunctionOnSet(a, S)
<1> DEFINE Image(s) == {f[x] : x \in s}
           A(s) == SumFunctionOnSet(a, s)
           B(s) == SumFunctionOnSet(b, s)
           P == {s \in SUBSET S : B(Image(s)) = A(s)}
<1>1. \A s \in SUBSET S : Image(s) \subseteq T
  BY DEF Injects
<1>2. \A s \in SUBSET S : Numbers(b, Image(s))
  BY <1>1, FS_Subset DEF Numbers
<1>3. \A s \in SUBSET S : Numbers(a, s)
  <2>1. \A x \in S : f[x] \in T
    BY DEF Injects
  <2>2. \A x \in S : a[x] \in Int
    BY <2>1 DEF Numbers
  <2>3. QED
    BY <2>2, FS_Subset DEF Numbers
<1>4. {} \in P
  <2>1. Image({}) = {}
    OBVIOUS
  <2>2. A({}) = 0
    BY <1>3, SumFirst
  <2>3. B({}) = 0
    BY <1>2, <2>1, SumFirst
  <2>4. QED
    BY <2>1, <2>2, <2>3
<1>5. ASSUME NEW s \in SUBSET S, NEW x \in S, s \in P, x \notin s PROVE s \cup {x} \in P
  <2>1. s \cup {x} \in SUBSET S /\ Image(s \cup {x}) = Image(s) \cup {f[x]}
    OBVIOUS
  <2>2. f[x] \notin Image(s)
    BY <1>5 DEF Injects
  <2>3. B(Image(s)) = A(s)
    BY <1>5
  <2>4. Numbers(b, Image(s) \cup {f[x]}) /\ Numbers(a, s \cup {x})
    BY <1>2, <1>3, <2>1
  <2> HIDE DEF Image
  <2>5. B(Image(s) \cup {f[x]}) = b[f[x]] + B(Image(s))
    BY <2>2, <2>4, SumAdd
  <2>6. A(s \cup {x}) = a[x] + A(s)
    BY <1>5, <2>4, SumAdd
  <2>7. QED
    BY <2>1, <2>3, <2>5, <2>6
<1>6. S \in P
  <2> HIDE DEF P
  <2>1. QED
    BY <1>4, <1>5, FiniteInduction
<1>7. Image(S) = T
  BY DEF Injects
<1>8. QED
  BY <1>6, <1>7

\* A quotient that is at least another is so after the integer divisions.
LEMMA QuotientMonotone ==
  ASSUME NEW a \in Nat, NEW m \in Nat, m > 0, NEW b \in Nat, NEW n \in Nat, n > 0, a * n <= b * m
  PROVE  a \div m <= b \div n
<1> DEFINE q == a \div m
           r == b \div n
<1>1. q \in Int /\ q * m <= a /\ r \in Int /\ b < (r + 1) * n
  OBVIOUS
<1> HIDE DEF q, r
<1> SUFFICES ASSUME q >= r + 1 PROVE FALSE
  BY <1>1 DEF q, r
<1>2. (q * m) * n <= a * n
  BY <1>1
<1>3. b * m < ((r + 1) * n) * m
  BY <1>1
<1> DEFINE k == m * n
<1>4. k \in Nat /\ (q * m) * n = q * k /\ ((r + 1) * n) * m = (r + 1) * k
  BY <1>1
<1> HIDE DEF k
<1>5. (r + 1) * k <= q * k
  BY <1>1, <1>4
<1>6. a * n \in Int /\ b * m \in Int /\ q * k \in Int /\ (r + 1) * k \in Int
  BY <1>1, <1>4
<1>7. QED
  BY <1>2, <1>3, <1>4, <1>5, <1>6
=============================================================================
