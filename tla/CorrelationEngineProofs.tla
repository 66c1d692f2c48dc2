---------------------- MODULE CorrelationEngineProofs ----------------------
(* Proofs about CorrelationEngine, for every set of chains and events:     *)
(* first what events tell of parents (AttackChains) and what the loop of   *)
(* _match_step visits, then the engine's invariants and its refinement of  *)
(* AttackDetection.                                                        *)
EXTENDS CorrelationEngine, NaturalsInduction, WellFoundedInduction, FiniteSetTheorems, TLAPS

----------------------------------------------------------------------------
(* Induction over the natural numbers, stated about sets: the theorems of  *)
(* NaturalsInduction take an operator, for which the provers used here     *)
(* find no instance.                                                       *)

\* < on the natural numbers, as a relation that is a set.
LEMMA NatOrder ==
  \E R : /\ IsWellFoundedOn(R, Nat)
         /\ \A x, y \in Nat : <<y, x>> \in R <=> y < x
<1> DEFINE R == OpToRel(<, Nat)
<1>1. IsWellFoundedOn(R, Nat)
  BY NatLessThanWellFounded
<1>2. \A x, y \in Nat : <<y, x>> \in R <=> y < x
  BY DEF OpToRel
<1> HIDE DEF R
<1> QED
  BY <1>1, <1>2

\* Every set of natural numbers that is not empty has a least element.
LEMMA Least ==
  ASSUME NEW T \in SUBSET Nat, T # {}
  PROVE \E x \in T : \A y \in T : x <= y
<1>1. PICK R : /\ IsWellFoundedOn(R, Nat)
               /\ \A x, y \in Nat : <<y, x>> \in R <=> y < x
  BY NatOrder
<1>2. PICK x \in T : \A y \in T : ~ (<<y, x>> \in R)
  BY <1>1, WFMin
<1>3. \A y \in T : x \in Nat /\ y \in Nat /\ ~ (y < x)
  BY <1>1, <1>2
<1>4. \A y \in T : x <= y
  BY <1>3
<1> QED
  BY <1>4

\* A set that holds 0, and n + 1 with every n, holds every natural number.
LEMMA Induction ==
  ASSUME NEW S, 0 \in S, \A n \in Nat : n \in S => n + 1 \in S
  PROVE  Nat \subseteq S
<1> SUFFICES ASSUME Nat \ S # {} PROVE FALSE
  OBVIOUS
<1>1. PICK x \in Nat \ S : \A y \in Nat \ S : x <= y
  BY Least
<1>2. x - 1 \in Nat /\ x = (x - 1) + 1 /\ ~ (x <= x - 1)
  <2>1. x # 0
    OBVIOUS
  <2> QED
    BY <2>1
<1> QED
  BY <1>1, <1>2

\* One with an upper bound has a greatest.
LEMMA Greatest ==
  ASSUME NEW n \in Nat, NEW T \in SUBSET (0 .. n), T # {}
  PROVE  \E x \in T : \A y \in T : y <= x
<1> DEFINE U == {n - x : x \in T}
<1>1. U \in SUBSET Nat /\ U # {}
  <2>1. \A x \in T : n - x \in Nat
    OBVIOUS
  <2> QED
    BY <2>1
<1> HIDE DEF U
<1>2. PICK u \in U : \A v \in U : u <= v
  BY <1>1, Least
<1>3. PICK x \in T : u = n - x
  BY DEF U
<1>4. ASSUME NEW y \in T
      PROVE  y <= x
  <2>1. n - y \in U
    BY DEF U
  <2>2. n - x <= n - y
    BY <1>2, <1>3, <2>1
  <2> QED
    BY <2>2
<1> QED
  BY <1>4

\* Repeated application of a function is a function of the number of times.
LEMMA Iterates ==
  ASSUME NEW V, NEW a \in V, NEW s \in [V -> V]
  PROVE  \E f \in [Nat -> V] : f[0] = a /\ \A n \in Nat : f[n + 1] = s[f[n]]
<1> DEFINE Runs(n, f) == /\ f \in [0 .. n -> V] /\ f[0] = a
                         /\ \A i \in 0 .. n - 1 : f[i + 1] = s[f[i]]
           S == {n \in Nat : \E f : Runs(n, f)}
           c(n) == CHOOSE f : Runs(n, f)
           F == [n \in Nat |-> c(n)[n]]
<1>1. Nat \subseteq S
  <2>1. 0 \in S
    <3>1. Runs(0, [i \in 0 .. 0 |-> a])
      OBVIOUS
    <3> QED
      BY <3>1
  <2>2. ASSUME NEW n \in Nat, n \in S
        PROVE  n + 1 \in S
    <3>1. PICK f : Runs(n, f)
      BY <2>2
    <3> DEFINE g == [i \in 0 .. n + 1 |-> IF i = n + 1 THEN s[f[n]] ELSE f[i]]
    <3>2. \A i \in 0 .. n + 1 : i # n + 1 => i \in 0 .. n
      OBVIOUS
    <3>3. g \in [0 .. n + 1 -> V] /\ g[0] = a
      BY <3>1, <3>2
    <3>4. ASSUME NEW i \in 0 .. (n + 1) - 1
          PROVE  g[i + 1] = s[g[i]]
      <4>1. i \in 0 .. n /\ i + 1 \in 0 .. n + 1 /\ i # n + 1 /\ i \in 0 .. n + 1
        OBVIOUS
      <4>2. g[i] = f[i]
        BY <4>1
      <4>3. CASE i = n
        BY <4>1, <4>2, <4>3
      <4>4. CASE i # n
        <5>1. i \in 0 .. n - 1 /\ i + 1 # n + 1
          BY <4>1, <4>4
        <5> QED
          BY <3>1, <4>1, <4>2, <5>1
      <4> QED
        BY <4>3, <4>4
    <3> HIDE DEF g
    <3>5. Runs(n + 1, g)
      BY <3>3, <3>4
    <3> QED
      BY <3>5
  <2> HIDE DEF S
  <2> QED
    BY <2>1, <2>2, Induction
<1>2. ASSUME NEW n \in Nat, NEW m \in Nat, n <= m, NEW f, NEW g, Runs(n, f), Runs(m, g)
      PROVE  \A i \in 0 .. n : f[i] = g[i]
  <2> DEFINE E == {i \in Nat : i <= n => f[i] = g[i]}
  <2>1. 0 \in E
    BY <1>2
  <2>2. ASSUME NEW i \in Nat, i \in E
        PROVE  i + 1 \in E
    <3> SUFFICES ASSUME i + 1 <= n PROVE f[i + 1] = g[i + 1]
      OBVIOUS
    <3>1. i \in 0 .. n - 1 /\ i \in 0 .. m - 1 /\ i <= n
      BY <1>2
    <3> QED
      BY <1>2, <2>2, <3>1
  <2>3. Nat \subseteq E
    <3> HIDE DEF E
    <3> QED
      BY <2>1, <2>2, Induction
  <2> QED
    BY <2>3
<1>3. \A n \in Nat : Runs(n, c(n))
  <2> HIDE DEF Runs
  <2> QED
    BY <1>1
<1> HIDE DEF c
<1>4. F \in [Nat -> V] /\ F[0] = a
  BY <1>3
<1>5. ASSUME NEW n \in Nat
      PROVE  F[n + 1] = s[F[n]]
  <2>1. Runs(n, c(n)) /\ Runs(n + 1, c(n + 1)) /\ n <= n + 1 /\ n \in 0 .. n /\ n + 1 \in Nat
    BY <1>3
  <2>2. c(n)[n] = c(n + 1)[n]
    <3> HIDE DEF Runs, F
    <3> QED
      BY <1>2, <2>1
  <2>3. c(n + 1)[n + 1] = s[c(n + 1)[n]]
    BY <2>1
  <2> QED
    BY <2>1, <2>2, <2>3
<1> HIDE DEF F
<1> QED
  BY <1>4, <1>5

----------------------------------------------------------------------------
(* What events tell of parents *)

\* The last event to name a parent of p decides what TreeAfter says of it.
LEMMA LatestName ==
  ASSUME NEW evs, NEW n \in Nat, NEW p, NEW i \in 1 .. n, Names(evs, i, p),
         \A j \in i + 1 .. n : ~ Names(evs, j, p)
  PROVE  p \in DOMAIN TreeAfter(evs, n) /\ TreeAfter(evs, n)[p] = evs[i].ppid
<1> DEFINE Last(k) == k \in 1 .. n /\ Names(evs, k, p) /\ \A j \in k + 1 .. n : ~ Names(evs, j, p)
<1>1. evs[i].pid = p
  BY DEF Names
<1>2. p \in DOMAIN TreeAfter(evs, n)
  BY <1>1 DEF TreeAfter
<1>3. \A k : Last(k) => k = i
  <2>1. ASSUME NEW k, Last(k)
        PROVE  k = i
    <3>1. ~ (k \in i + 1 .. n) /\ ~ (i \in k + 1 .. n)
      BY <2>1
    <3> QED
      BY <2>1, <3>1
  <2> QED
    BY <2>1
<1>4. (CHOOSE k \in 1 .. n : Names(evs, k, p) /\ \A j \in k + 1 .. n : ~ Names(evs, j, p)) = i
  BY <1>3
<1> QED
  BY <1>2, <1>4 DEF TreeAfter

LEMMA NamedPids ==
  ASSUME NEW evs, NEW n \in Nat, NEW p
  PROVE  p \in DOMAIN TreeAfter(evs, n) <=> \E i \in 1 .. n : Names(evs, i, p)
BY DEF TreeAfter, Names

\* Of the events that name a parent of p one is the last.
LEMMA LastNames ==
  ASSUME NEW evs, NEW n \in Nat, NEW p \in DOMAIN TreeAfter(evs, n)
  PROVE  \E i \in 1 .. n : Names(evs, i, p) /\ \A j \in i + 1 .. n : ~ Names(evs, j, p)
<1> DEFINE T == {i \in 1 .. n : Names(evs, i, p)}
<1>1. T \in SUBSET (0 .. n) /\ T # {}
  BY NamedPids
<1>2. PICK i \in T : \A j \in T : j <= i
  BY <1>1, Greatest
<1>3. \A j \in i + 1 .. n : ~ (j <= i) /\ j \in 1 .. n
  BY <1>2
<1> QED
  BY <1>2, <1>3

\* What was known after n events does not change with later ones.
LEMMA TreeOfPrefix ==
  ASSUME NEW evs, NEW more, NEW n \in Nat, \A i \in 1 .. n : more[i] = evs[i]
  PROVE  TreeAfter(more, n) = TreeAfter(evs, n)
<1>1. \A p : \A i \in 1 .. n : Names(more, i, p) <=> Names(evs, i, p)
  BY DEF Names
<1>2. DOMAIN TreeAfter(more, n) = DOMAIN TreeAfter(evs, n)
  BY <1>1, NamedPids
<1>3. ASSUME NEW p \in DOMAIN TreeAfter(evs, n)
      PROVE  TreeAfter(more, n)[p] = TreeAfter(evs, n)[p]
  <2>1. PICK i \in 1 .. n : Names(evs, i, p) /\ \A j \in i + 1 .. n : ~ Names(evs, j, p)
    BY LastNames
  <2>2. \A j \in i + 1 .. n : j \in 1 .. n
    BY <2>1
  <2>3. Names(more, i, p) /\ \A j \in i + 1 .. n : ~ Names(more, j, p)
    BY <1>1, <2>1, <2>2
  <2> QED
    BY <2>1, <2>3, LatestName
<1>4. /\ TreeAfter(more, n) = [p \in DOMAIN TreeAfter(more, n) |-> TreeAfter(more, n)[p]]
      /\ TreeAfter(evs, n) = [p \in DOMAIN TreeAfter(evs, n) |-> TreeAfter(evs, n)[p]]
  BY DEF TreeAfter
<1> QED
  BY <1>2, <1>3, <1>4

LEMMA LineageOfPrefix ==
  ASSUME NEW evs, NEW more, NEW l \in Nat, NEW n \in 1 .. l, NEW m \in SUBSET (1 .. l),
         \A i \in 1 .. l : more[i] = evs[i]
  PROVE  InLineage(more, n, m) <=> InLineage(evs, n, m)
<1>1. TreeAfter(more, n) = TreeAfter(evs, n)
  <2>1. \A i \in 1 .. n : i \in 1 .. l
    OBVIOUS
  <2> QED
    BY <2>1, TreeOfPrefix
<1>2. more[n] = evs[n] /\ \A i \in m : more[i].pid = evs[i].pid
  OBVIOUS
<1> QED
  BY <1>1, <1>2 DEF InLineage

\* A tree that forgets nothing and mixes nothing up is the one TreeAfter means.
LEMMA KnownTree ==
  ASSUME NEW evs, NEW n \in Nat, NEW tree, tree = [p \in DOMAIN tree |-> tree[p]],
         \A i \in 1 .. n : Names(evs, i, evs[i].pid) => evs[i].pid \in DOMAIN tree,
         \A p \in DOMAIN tree : \E i \in 1 .. n :
           /\ Names(evs, i, p) /\ tree[p] = evs[i].ppid
           /\ \A j \in 1 .. n : j > i => ~ Names(evs, j, p)
  PROVE  tree = TreeAfter(evs, n)
<1> DEFINE known == TreeAfter(evs, n)
<1>1. \A p : p \in DOMAIN tree <=> p \in DOMAIN known
  <2>1. \A p : p \in DOMAIN tree => \E i \in 1 .. n : Names(evs, i, p)
    OBVIOUS
  <2>2. \A p : \A i \in 1 .. n : Names(evs, i, p) => p \in DOMAIN tree
    BY DEF Names
  <2> QED
    BY <2>1, <2>2, NamedPids
<1>2. ASSUME NEW p \in DOMAIN tree
      PROVE  tree[p] = known[p]
  <2>1. PICK i \in 1 .. n : /\ Names(evs, i, p) /\ tree[p] = evs[i].ppid
                            /\ \A j \in 1 .. n : j > i => ~ Names(evs, j, p)
    OBVIOUS
  <2>2. \A j \in i + 1 .. n : j \in 1 .. n /\ j > i
    BY <2>1
  <2> QED
    BY <2>1, <2>2, LatestName
<1>3. known = [p \in DOMAIN known |-> known[p]]
  BY DEF TreeAfter
<1> SUFFICES tree = known
  OBVIOUS
<1> HIDE DEF known
<1>4. DOMAIN tree = DOMAIN known
  BY <1>1
<1> QED
  BY <1>2, <1>3, <1>4

----------------------------------------------------------------------------
(* What the loop of _match_step visits *)

First(tree, e) == IF IsPid(e.ppid) THEN e.ppid ELSE Parent(tree, e.pid)

\* A tree of pids, and an event, such as process_tree and events are.
IsTree(tree) == DOMAIN tree \subseteq Nat /\ \A p \in DOMAIN tree : tree[p] \in Nat

IsEvent(e) == e.pid \in Nat \ {0} /\ e.ppid \in Nat \cup {None}

\* The recursion of CurrPpid has the solution that the loop computes.
LEMMA WalkUp ==
  ASSUME NEW tree, IsTree(tree), NEW e, IsEvent(e)
  PROVE  /\ CurrPpid(tree, e) \in [Nat -> Nat \cup {None}]
         /\ CurrPpid(tree, e)[0] = First(tree, e)
         /\ \A n \in Nat : CurrPpid(tree, e)[n + 1] = Parent(tree, CurrPpid(tree, e)[n])
<1> DEFINE V == Nat \cup {None}
           s == [v \in V |-> Parent(tree, v)]
           W(g) == g = [n \in Nat |-> IF n = 0 THEN First(tree, e) ELSE Parent(tree, g[n - 1])]
<1>1. \A v \in V : Parent(tree, v) \in V
  BY DEF Parent, IsTree
<1>2. First(tree, e) \in V /\ s \in [V -> V]
  BY <1>1 DEF First, IsEvent, Parent, IsTree
<1>3. PICK f \in [Nat -> V] : f[0] = First(tree, e) /\ \A n \in Nat : f[n + 1] = s[f[n]]
  <2> HIDE DEF V, s
  <2> QED
    BY <1>2, Iterates
<1>4. W(f)
  <2>1. ASSUME NEW n \in Nat, n # 0
        PROVE  f[n] = Parent(tree, f[n - 1])
    <3>1. n - 1 \in Nat /\ (n - 1) + 1 = n
      BY <2>1
    <3>2. f[n - 1] \in V
      BY <1>3, <3>1
    <3> QED
      BY <1>3, <3>1, <3>2
  <2> HIDE DEF V
  <2> QED
    BY <1>3, <2>1
<1>5. CurrPpid(tree, e) = CHOOSE g : W(g)
  BY DEF CurrPpid, First
<1> DEFINE w == CurrPpid(tree, e)
<1>6. W(w)
  <2> HIDE DEF W
  <2> QED
    BY <1>4, <1>5
<1> HIDE DEF w
<1>7. w[0] = First(tree, e) /\ \A n \in Nat : w[n + 1] = Parent(tree, w[n])
  <2>1. \A n \in Nat : n + 1 \in Nat /\ n + 1 # 0 /\ (n + 1) - 1 = n
    OBVIOUS
  <2> QED
    BY <1>6, <2>1
<1>8. w \in [Nat -> V]
  <2>1. w = f
    <3> DEFINE E == {n \in Nat : w[n] = f[n]}
    <3>1. 0 \in E
      BY <1>3, <1>7
    <3>2. ASSUME NEW n \in Nat, n \in E
          PROVE  n + 1 \in E
      <4>1. f[n] \in V /\ n + 1 \in Nat
        BY <1>3
      <4>2. f[n + 1] = Parent(tree, f[n])
        BY <1>3, <4>1
      <4>3. w[n + 1] = Parent(tree, w[n]) /\ w[n] = f[n]
        BY <1>7, <3>2
      <4> QED
        BY <4>1, <4>2, <4>3
    <3>3. Nat \subseteq E
      <4> HIDE DEF E
      <4> QED
        BY <3>1, <3>2, Induction
    <3>4. w = [n \in Nat |-> w[n]] /\ f = [n \in Nat |-> f[n]]
      BY <1>3, <1>6
    <3> QED
      BY <3>3, <3>4
  <2> QED
    BY <1>3, <2>1
<1> QED
  BY <1>7, <1>8 DEF w

\* Every pid the loop visits lies on the way up from the first.
LEMMA AncestorsAreAncestors ==
  ASSUME NEW tree, IsTree(tree), NEW e, IsEvent(e), NEW p \in Ancestors(tree, e)
  PROVE  OnTheWayUp(tree, First(tree, e), p)
<1> DEFINE w == CurrPpid(tree, e)
           first == First(tree, e)
<1>1. /\ w \in [Nat -> Nat \cup {None}] /\ w[0] = first
      /\ \A n \in Nat : w[n + 1] = Parent(tree, w[n])
  BY WalkUp
<1> HIDE DEF w, first
<1>2. PICK k \in Nat : p = w[k] /\ p # None
  BY DEF Ancestors, w
<1>3. SUFFICES ASSUME NEW S \in SUBSET (DOMAIN tree \cup Range(tree) \cup {first}),
                      first \in S, \A q \in S \cap DOMAIN tree : tree[q] \in S
               PROVE  p \in S
  BY DEF OnTheWayUp, first
<1> DEFINE E == {n \in Nat : w[n] \in S \cup {None}}
<1>4. 0 \in E
  BY <1>1, <1>3
<1>5. ASSUME NEW n \in Nat, n \in E
      PROVE  n + 1 \in E
  <2>1. None \notin DOMAIN tree
    BY NoneAssumption DEF IsTree
  <2>2. w[n + 1] = IF w[n] \in DOMAIN tree THEN tree[w[n]] ELSE None
    BY <1>1 DEF Parent
  <2> QED
    BY <1>3, <1>5, <2>1, <2>2
<1>6. Nat \subseteq E
  <2> HIDE DEF E
  <2> QED
    BY <1>4, <1>5, Induction
<1> QED
  BY <1>2, <1>6

\* So what _match_step takes for lineage is lineage.
LEMMA RelatedIsLineage ==
  ASSUME NEW evs, NEW n \in Nat, NEW m, IsTree(TreeAfter(evs, n)), IsEvent(evs[n]),
         Related(TreeAfter(evs, n), evs[n], {evs[i].pid : i \in m})
  PROVE  InLineage(evs, n, m)
<1> DEFINE tree == TreeAfter(evs, n)
           e == evs[n]
<1>1. PICK i \in m : evs[i].pid = e.pid \/ evs[i].pid \in Ancestors(tree, e)
  BY DEF Related
<1>2. evs[i].pid = e.pid \/ OnTheWayUp(tree, First(tree, e), evs[i].pid)
  BY <1>1, AncestorsAreAncestors
<1> QED
  BY <1>2 DEF InLineage, First, Parent

----------------------------------------------------------------------------
(* The way up *)

Closed(tree, S) == \A p \in S \cap DOMAIN tree : tree[p] \in S

LEMMA UpStep ==
  ASSUME NEW tree, NEW p \in DOMAIN tree, NEW q, OnTheWayUp(tree, tree[p], q)
  PROVE  OnTheWayUp(tree, p, q)
<1> SUFFICES ASSUME NEW S \in SUBSET (DOMAIN tree \cup Range(tree) \cup {p}), p \in S, Closed(tree, S)
             PROVE  q \in S
  BY DEF OnTheWayUp, Closed
<1> DEFINE T == S \cap (DOMAIN tree \cup Range(tree) \cup {tree[p]})
<1>1. \A r \in DOMAIN tree : tree[r] \in Range(tree)
  BY DEF Range
<1>2. tree[p] \in T /\ Closed(tree, T)
  BY <1>1 DEF Closed
<1> QED
  BY <1>2 DEF OnTheWayUp, Closed

LEMMA UpRest ==
  ASSUME NEW tree, NEW p \in DOMAIN tree, NEW q, OnTheWayUp(tree, p, q), p # q
  PROVE  OnTheWayUp(tree, tree[p], q)
<1> SUFFICES ASSUME NEW S \in SUBSET (DOMAIN tree \cup Range(tree) \cup {tree[p]}), tree[p] \in S, Closed(tree, S)
             PROVE  q \in S
  BY DEF OnTheWayUp, Closed
<1> DEFINE T == S \cup {p}
<1>1. tree[p] \in Range(tree)
  BY DEF Range
<1>2. T \in SUBSET (DOMAIN tree \cup Range(tree) \cup {p}) /\ p \in T /\ Closed(tree, T)
  BY <1>1 DEF Closed
<1>3. q \in T
  <2> HIDE DEF T
  <2> QED
    BY <1>2 DEF OnTheWayUp, Closed
<1> QED
  BY <1>3

LEMMA UpEnds ==
  ASSUME NEW tree, NEW p, p \notin DOMAIN tree, NEW q, OnTheWayUp(tree, p, q)
  PROVE  q = p
<1>1. {p} \in SUBSET (DOMAIN tree \cup Range(tree) \cup {p}) /\ Closed(tree, {p})
  BY DEF Closed
<1> QED
  BY <1>1 DEF OnTheWayUp, Closed

LEMMA UpTransitive ==
  ASSUME NEW tree, NEW p, NEW q, NEW r, OnTheWayUp(tree, p, q), OnTheWayUp(tree, q, r)
  PROVE  OnTheWayUp(tree, p, r)
<1> SUFFICES ASSUME NEW S \in SUBSET (DOMAIN tree \cup Range(tree) \cup {p}), p \in S, Closed(tree, S)
             PROVE  r \in S
  BY DEF OnTheWayUp, Closed
<1>1. q \in S
  BY DEF OnTheWayUp, Closed
<1> DEFINE T == S \cap (DOMAIN tree \cup Range(tree) \cup {q})
<1>2. \A u \in DOMAIN tree : tree[u] \in Range(tree)
  BY DEF Range
<1>3. q \in T /\ Closed(tree, T)
  BY <1>1, <1>2 DEF Closed
<1> QED
  BY <1>3 DEF OnTheWayUp, Closed

LEMMA UpMonotone ==
  ASSUME NEW tree, NEW more, DOMAIN tree \subseteq DOMAIN more,
         \A p \in DOMAIN tree : more[p] = tree[p], NEW p, NEW q, OnTheWayUp(tree, p, q)
  PROVE  OnTheWayUp(more, p, q)
<1> SUFFICES ASSUME NEW S \in SUBSET (DOMAIN more \cup Range(more) \cup {p}), p \in S, Closed(more, S)
             PROVE  q \in S
  BY DEF OnTheWayUp, Closed
<1> DEFINE T == S \cap (DOMAIN tree \cup Range(tree) \cup {p})
<1>1. \A u \in DOMAIN tree : tree[u] \in Range(tree)
  BY DEF Range
<1>2. p \in T /\ Closed(tree, T)
  BY <1>1 DEF Closed
<1> QED
  BY <1>2 DEF OnTheWayUp, Closed

----------------------------------------------------------------------------
(* The loop sees all of the way up *)

LEMMA FinitelyManyKnown ==
  ASSUME NEW evs, NEW n \in Nat
  PROVE  IsFiniteSet(DOMAIN TreeAfter(evs, n))
<1> DEFINE f == [i \in 1 .. n |-> evs[i].pid]
           T == {evs[i].pid : i \in 1 .. n}
<1>1. f \in Surjection(1 .. n, T)
  BY DEF Surjection
<1>2. IsFiniteSet(1 .. n)
  BY FS_Interval
<1>3. IsFiniteSet(T)
  <2> HIDE DEF T, f
  <2> QED
    BY <1>1, <1>2, FS_Surjection
<1>4. DOMAIN TreeAfter(evs, n) \in SUBSET T
  BY DEF TreeAfter
<1> QED
  BY <1>3, <1>4, FS_Subset

\* While the walk stays in the tree it cannot go on without coming back.
LEMMA WalkRepeats ==
  ASSUME NEW tree, IsTree(tree), IsFiniteSet(DOMAIN tree), NEW e, IsEvent(e),
         CurrPpid(tree, e)[Cardinality(DOMAIN tree)] \in DOMAIN tree
  PROVE  LET w == CurrPpid(tree, e)
             N == Cardinality(DOMAIN tree)
         IN  /\ N \in Nat /\ \A n \in 0 .. N : w[n] \in DOMAIN tree /\ w[n + 1] = tree[w[n]]
             /\ \E i, j \in 0 .. N : i < j /\ w[i] = w[j]
<1> DEFINE w == CurrPpid(tree, e)
           N == Cardinality(DOMAIN tree)
<1>1. N \in Nat
  BY FS_CardinalityType
<1>2. /\ w \in [Nat -> Nat \cup {None}]
      /\ \A n \in Nat : w[n + 1] = Parent(tree, w[n])
      /\ w[N] \in DOMAIN tree /\ None \notin DOMAIN tree
  BY WalkUp, NoneAssumption DEF IsTree
<1> HIDE DEF w, N
<1>3. ASSUME NEW m \in 0 .. N, w[m] \notin DOMAIN tree
      PROVE  FALSE
  <2> DEFINE E == {k \in Nat : w[m + k] \notin DOMAIN tree}
  <2>1. 0 \in E
    BY <1>3
  <2>2. ASSUME NEW k \in Nat, k \in E
        PROVE  k + 1 \in E
    <3>1. m + k \in Nat /\ (m + k) + 1 = m + (k + 1)
      OBVIOUS
    <3>2. w[(m + k) + 1] = None
      BY <1>2, <2>2, <3>1 DEF Parent
    <3> QED
      BY <1>2, <3>1, <3>2
  <2>3. Nat \subseteq E
    <3> HIDE DEF E
    <3> QED
      BY <2>1, <2>2, Induction
  <2>4. N - m \in Nat /\ m + (N - m) = N
    BY <1>1
  <2> QED
    BY <1>2, <2>3, <2>4
<1>4. \A n \in 0 .. N : w[n] \in DOMAIN tree /\ w[n + 1] = tree[w[n]]
  BY <1>1, <1>2, <1>3 DEF Parent
<1>5. \E i, j \in 0 .. N : i < j /\ w[i] = w[j]
  <2> DEFINE f == [n \in 0 .. N |-> w[n]]
  <2>1. f \in [0 .. N -> DOMAIN tree]
    BY <1>4
  <2>2. IsFiniteSet(0 .. N) /\ Cardinality(0 .. N) = N + 1
    BY <1>1, FS_Interval
  <2>3. Cardinality(DOMAIN tree) < Cardinality(0 .. N)
    BY <1>1, <2>2 DEF N
  <2>4. PICK x \in 0 .. N, y \in 0 .. N : x # y /\ f[x] = f[y]
    <3> HIDE DEF f
    <3> QED
      BY <2>1, <2>2, <2>3, FS_PigeonHole
  <2>5. x < y \/ y < x
    BY <2>4
  <2> QED
    BY <2>4, <2>5
<1> QED
  BY <1>1, <1>4, <1>5 DEF w, N

\* From where the walk first comes back it goes round.
LEMMA EndlessIsCyclic ==
  ASSUME NEW tree, IsTree(tree), IsFiniteSet(DOMAIN tree), NEW e, IsEvent(e), Endless(tree, e)
  PROVE  \E p \in DOMAIN tree : OnTheWayUp(tree, tree[p], p)
<1> DEFINE w == CurrPpid(tree, e)
           N == Cardinality(DOMAIN tree)
<1>1. N \in Nat
  BY FS_CardinalityType
<1>2. w[N] \in DOMAIN tree
  <2>1. w[N + 1] = Parent(tree, w[N]) /\ w[N + 1] # None
    BY <1>1, WalkUp DEF Endless, IsPid
  <2> QED
    BY <2>1 DEF Parent
<1>3. /\ \A n \in 0 .. N : w[n] \in DOMAIN tree /\ w[n + 1] = tree[w[n]]
      /\ \E i, j \in 0 .. N : i < j /\ w[i] = w[j]
  BY <1>2, WalkRepeats
<1> HIDE DEF w, N
<1>4. PICK i \in 0 .. N, j \in 0 .. N : i < j /\ w[i] = w[j]
  BY <1>3
<1>5. ASSUME NEW S \in SUBSET (DOMAIN tree \cup Range(tree) \cup {tree[w[i]]}),
             tree[w[i]] \in S, Closed(tree, S)
      PROVE  w[i] \in S
  <2> DEFINE E == {k \in Nat : i + 1 + k <= N => w[i + 1 + k] \in S}
  <2>1. 0 \in E
    BY <1>1, <1>3, <1>5
  <2>2. ASSUME NEW k \in Nat, k \in E
        PROVE  k + 1 \in E
    <3> SUFFICES ASSUME i + 1 + (k + 1) <= N PROVE w[i + 1 + (k + 1)] \in S
      OBVIOUS
    <3>1. i + 1 + k \in 0 .. N /\ i + 1 + k <= N /\ i + 1 + (k + 1) = (i + 1 + k) + 1
      BY <1>1
    <3>2. w[i + 1 + k] \in S \cap DOMAIN tree
      BY <1>3, <2>2, <3>1
    <3> QED
      BY <1>3, <1>5, <3>1, <3>2 DEF Closed
  <2>3. Nat \subseteq E
    <3> HIDE DEF E
    <3> QED
      BY <2>1, <2>2, Induction
  <2>4. j - (i + 1) \in Nat /\ i + 1 + (j - (i + 1)) = j /\ j <= N
    BY <1>1, <1>4
  <2> QED
    BY <1>4, <2>3, <2>4
<1>6. OnTheWayUp(tree, tree[w[i]], w[i])
  BY <1>5 DEF OnTheWayUp, Closed
<1> QED
  BY <1>3, <1>6

\* The loop visits every pid on the way up.
LEMMA AncestorsAreAll ==
  ASSUME NEW tree, IsTree(tree), IsFiniteSet(DOMAIN tree), NEW e, IsEvent(e),
         NEW q \in Nat \ {0}, OnTheWayUp(tree, First(tree, e), q)
  PROVE  q \in Ancestors(tree, e)
<1> DEFINE w == CurrPpid(tree, e)
           N == Cardinality(DOMAIN tree)
<1>1. N \in Nat
  BY FS_CardinalityType
<1>2. w \in [Nat -> Nat \cup {None}] /\ w[0] = First(tree, e) /\ \A n \in Nat : w[n + 1] = Parent(tree, w[n])
  BY WalkUp
<1>3. w[N] \in DOMAIN tree =>
        /\ \A n \in 0 .. N : w[n] \in DOMAIN tree /\ w[n + 1] = tree[w[n]]
        /\ \E i, j \in 0 .. N : i < j /\ w[i] = w[j]
  BY WalkRepeats
<1>4. SUFFICES q \in {w[n] : n \in 0 .. N}
  BY NoneAssumption DEF Ancestors
<1> HIDE DEF w, N
<1> DEFINE S == {w[n] : n \in 0 .. N} \cap (DOMAIN tree \cup Range(tree) \cup {First(tree, e)})
<1>5. First(tree, e) \in S
  BY <1>1, <1>2
<1>6. ASSUME w[N] \in DOMAIN tree
      PROVE  \E k \in 0 .. N : w[N + 1] = w[k]
  <2>1. PICK i \in 0 .. N, j \in 0 .. N : i < j /\ w[i] = w[j]
    BY <1>3, <1>6
  <2> DEFINE E == {d \in Nat : j + d <= N + 1 => w[i + d] = w[j + d]}
  <2>2. 0 \in E
    BY <2>1
  <2>3. ASSUME NEW d \in Nat, d \in E
        PROVE  d + 1 \in E
    <3> SUFFICES ASSUME j + (d + 1) <= N + 1 PROVE w[i + (d + 1)] = w[j + (d + 1)]
      OBVIOUS
    <3>1. i + d \in Nat /\ j + d \in Nat /\ j + d <= N + 1
          /\ i + (d + 1) = (i + d) + 1 /\ j + (d + 1) = (j + d) + 1
      BY <1>1, <2>1
    <3> QED
      BY <1>2, <2>3, <3>1
  <2>4. Nat \subseteq E
    <3> HIDE DEF E
    <3> QED
      BY <2>2, <2>3, Induction
  <2>5. N + 1 - j \in Nat /\ j + (N + 1 - j) = N + 1 /\ i + (N + 1 - j) \in 0 .. N
    BY <1>1, <2>1
  <2> QED
    BY <2>4, <2>5
<1>7. Closed(tree, S)
  <2> SUFFICES ASSUME NEW p \in S \cap DOMAIN tree PROVE tree[p] \in S
    BY DEF Closed
  <2>1. PICK n \in 0 .. N : p = w[n]
    OBVIOUS
  <2>2. tree[p] \in Range(tree) /\ w[n + 1] = tree[p]
    BY <1>1, <1>2, <2>1 DEF Range, Parent
  <2>3. CASE n + 1 \in 0 .. N
    BY <2>2, <2>3
  <2>4. CASE n = N
    BY <1>6, <2>1, <2>2, <2>4
  <2> QED
    BY <1>1, <2>3, <2>4
<1>8. q \in S
  <2>1. S \in SUBSET (DOMAIN tree \cup Range(tree) \cup {First(tree, e)})
    OBVIOUS
  <2> HIDE DEF S
  <2> QED
    BY <1>5, <1>7, <2>1 DEF OnTheWayUp, Closed
<1> QED
  BY <1>8

----------------------------------------------------------------------------
(* Lineage while parents are stable *)

AreEvents(evs) == evs \in Seq({e \in EventSpace : IsEvent(e)})

\* Each event at pos after the first is in lineage with one before it.
InLine(evs, pos) ==
  \A i \in 2 .. Len(pos) : InLineage(evs, pos[i], {pos[j] : j \in 1 .. i - 1})

LEMMA KnownParents ==
  ASSUME NEW evs, AreEvents(evs), NEW n \in 0 .. Len(evs)
  PROVE  IsTree(TreeAfter(evs, n)) /\ IsFiniteSet(DOMAIN TreeAfter(evs, n))
         /\ 0 \notin DOMAIN TreeAfter(evs, n)
<1>0. n \in Nat /\ \A i \in 1 .. n : IsEvent(evs[i])
  BY DEF AreEvents
<1>1. IsFiniteSet(DOMAIN TreeAfter(evs, n))
  BY <1>0, FinitelyManyKnown
<1>2. \A p \in DOMAIN TreeAfter(evs, n) : p \in Nat \ {0} /\ TreeAfter(evs, n)[p] \in Nat
  <2>1. ASSUME NEW p \in DOMAIN TreeAfter(evs, n)
        PROVE  p \in Nat \ {0} /\ TreeAfter(evs, n)[p] \in Nat
    <3>1. PICK i \in 1 .. n : Names(evs, i, p) /\ \A j \in i + 1 .. n : ~ Names(evs, j, p)
      BY <1>0, LastNames
    <3>2. TreeAfter(evs, n)[p] = evs[i].ppid
      BY <1>0, <3>1, LatestName
    <3> QED
      BY <1>0, <3>1, <3>2 DEF Names, IsEvent
  <2> QED
    BY <2>1
<1> QED
  BY <1>1, <1>2 DEF IsTree

\* While parents are stable, what is known stays known.
LEMMA KnowledgeGrows ==
  ASSUME NEW evs, AreEvents(evs), StableParents(evs), NEW n \in 0 .. Len(evs), NEW m \in n .. Len(evs)
  PROVE  /\ DOMAIN TreeAfter(evs, n) \subseteq DOMAIN TreeAfter(evs, m)
         /\ \A p \in DOMAIN TreeAfter(evs, n) : TreeAfter(evs, m)[p] = TreeAfter(evs, n)[p]
<1>1. Len(evs) \in Nat /\ DOMAIN evs = 1 .. Len(evs)
  BY DEF AreEvents
<1>2. ASSUME NEW p \in DOMAIN TreeAfter(evs, n)
      PROVE  p \in DOMAIN TreeAfter(evs, m) /\ TreeAfter(evs, m)[p] = TreeAfter(evs, n)[p]
  <2>1. PICK i \in 1 .. n : Names(evs, i, p)
    BY NamedPids
  <2>2. i \in DOMAIN evs /\ n \in i .. Len(evs) /\ m \in i .. Len(evs) /\ evs[i].pid = p /\ evs[i].ppid # None
    BY <1>1, <2>1 DEF Names
  <2> QED
    BY <2>2 DEF StableParents
<1> QED
  BY <1>2

\* While parents are stable, an event's own ppid says what the tree says.
LEMMA FirstIsParent ==
  ASSUME NEW evs, AreEvents(evs), StableParents(evs), NEW n \in DOMAIN evs
  PROVE  First(TreeAfter(evs, n), evs[n]) = Parent(TreeAfter(evs, n), evs[n].pid)
<1>1. n \in n .. Len(evs)
  BY DEF AreEvents
<1>2. IsPid(evs[n].ppid) => evs[n].ppid # None
  BY DEF IsPid
<1> QED
  BY <1>1, <1>2 DEF StableParents, First, Parent

\* Lineage is then the way up from the event's process.
LEMMA LineageIsUp ==
  ASSUME NEW evs, AreEvents(evs), StableParents(evs), NEW n \in DOMAIN evs,
         NEW m \in SUBSET DOMAIN evs, InLineage(evs, n, m)
  PROVE  \E i \in m : OnTheWayUp(TreeAfter(evs, n), evs[n].pid, evs[i].pid)
<1> DEFINE tree == TreeAfter(evs, n)
           p == evs[n].pid
<1>0. n \in 0 .. Len(evs) /\ IsEvent(evs[n]) /\ \A i \in m : IsEvent(evs[i])
  BY DEF AreEvents
<1>1. None \notin DOMAIN tree
  BY <1>0, KnownParents, NoneAssumption DEF IsTree
<1>2. PICK i \in m : evs[i].pid = p \/ OnTheWayUp(tree, Parent(tree, p), evs[i].pid)
  BY FirstIsParent DEF InLineage, First, Parent
<1>3. CASE evs[i].pid = p
  BY <1>3 DEF OnTheWayUp
<1>4. CASE OnTheWayUp(tree, Parent(tree, p), evs[i].pid)
  <2>1. evs[i].pid \in Nat
    BY <1>0 DEF IsEvent
  <2>2. CASE p \in DOMAIN tree
    BY <1>4, <2>2, UpStep DEF Parent
  <2>3. CASE p \notin DOMAIN tree
    <3>1. OnTheWayUp(tree, None, evs[i].pid)
      BY <1>4, <2>3 DEF Parent
    <3>2. evs[i].pid = None
      BY <1>1, <3>1, UpEnds
    <3> QED
      BY <2>1, <3>2, NoneAssumption
  <2> QED
    BY <2>2, <2>3
<1> QED
  BY <1>2, <1>3, <1>4

\* And the engine finds whoever is on that way.
LEMMA UpIsRelated ==
  ASSUME NEW evs, AreEvents(evs), StableParents(evs), NEW n \in DOMAIN evs,
         NEW q \in Nat \ {0}, OnTheWayUp(TreeAfter(evs, n), evs[n].pid, q), NEW pids, q \in pids
  PROVE  Related(TreeAfter(evs, n), evs[n], pids)
<1> DEFINE tree == TreeAfter(evs, n)
           p == evs[n].pid
<1>0. n \in 0 .. Len(evs) /\ IsEvent(evs[n])
  BY DEF AreEvents
<1>1. IsTree(tree) /\ IsFiniteSet(DOMAIN tree)
  BY <1>0, KnownParents
<1>2. CASE p = q
  BY <1>2 DEF Related
<1>3. CASE p # q
  <2>1. p \in DOMAIN tree
    BY <1>3, UpEnds
  <2>2. OnTheWayUp(tree, tree[p], q) /\ First(tree, evs[n]) = tree[p]
    BY <1>3, <2>1, UpRest, FirstIsParent DEF Parent
  <2>3. q \in Ancestors(tree, evs[n])
    BY <1>0, <1>1, <2>2, AncestorsAreAll
  <2> QED
    BY <2>3 DEF Related
<1> QED
  BY <1>2, <1>3

Ascending(pos) == \A i \in DOMAIN pos : i > 1 => pos[i - 1] < pos[i]

LEMMA AscendingAll ==
  ASSUME NEW l \in Nat, NEW pos \in Seq(1 .. l), Ascending(pos), NEW i \in DOMAIN pos
  PROVE  \A j \in 1 .. i - 1 : pos[j] < pos[i]
<1>1. DOMAIN pos = 1 .. Len(pos) /\ Len(pos) \in Nat /\ \A k \in DOMAIN pos : pos[k] \in Nat
  OBVIOUS
<1> SUFFICES ASSUME NEW j \in 1 .. i - 1 PROVE pos[j] < pos[i]
  OBVIOUS
<1> DEFINE E == {d \in Nat : j + 1 + d <= i => pos[j] < pos[j + 1 + d]}
<1>2. 0 \in E
  <2>1. j + 1 \in DOMAIN pos /\ j \in DOMAIN pos /\ j + 1 > 1 /\ (j + 1) - 1 = j
    BY <1>1
  <2> QED
    BY <2>1 DEF Ascending
<1>3. ASSUME NEW d \in Nat, d \in E
      PROVE  d + 1 \in E
  <2> SUFFICES ASSUME j + 1 + (d + 1) <= i PROVE pos[j] < pos[j + 1 + (d + 1)]
    OBVIOUS
  <2> DEFINE k == j + 1 + (d + 1)
  <2>1. k \in DOMAIN pos /\ k > 1 /\ k - 1 = j + 1 + d /\ k - 1 \in DOMAIN pos /\ j + 1 + d <= i
        /\ j \in DOMAIN pos
    BY <1>1
  <2>2. pos[k - 1] < pos[k]
    BY <2>1 DEF Ascending
  <2>3. pos[j] < pos[k - 1]
    BY <1>3, <2>1
  <2>4. pos[j] \in Nat /\ pos[k - 1] \in Nat /\ pos[k] \in Nat
    BY <1>1, <2>1
  <2>5. \A x, y, z \in Nat : x < y /\ y < z => x < z
    OBVIOUS
  <2> HIDE DEF k
  <2>6. pos[j] < pos[k]
    BY <2>2, <2>3, <2>4, <2>5
  <2> QED
    BY <2>6 DEF k
<1>4. Nat \subseteq E
  <2> HIDE DEF E
  <2> QED
    BY <1>2, <1>3, Induction
<1>5. PICK d \in Nat : j + 1 + d = i /\ i <= i
  <2>1. i - (j + 1) \in Nat /\ j + 1 + (i - (j + 1)) = i /\ i <= i
    BY <1>1
  <2> QED
    BY <2>1
<1>6. d \in E
  BY <1>4
<1> QED
  BY <1>5, <1>6

\* Each process of an occurrence descends from the process of its first event.
LEMMA AllFromFirst ==
  ASSUME NEW evs, AreEvents(evs), StableParents(evs), NEW pos \in Seq(DOMAIN evs),
         Ascending(pos), InLine(evs, pos), NEW i \in DOMAIN pos
  PROVE  OnTheWayUp(TreeAfter(evs, pos[i]), evs[pos[i]].pid, evs[pos[1]].pid)
<1> DEFINE Up(k) == OnTheWayUp(TreeAfter(evs, pos[k]), evs[pos[k]].pid, evs[pos[1]].pid)
           E == {k \in Nat : \A h \in 1 .. k : h \in DOMAIN pos => Up(h)}
<1>1. /\ DOMAIN pos = 1 .. Len(pos) /\ Len(pos) \in Nat /\ Len(evs) \in Nat
      /\ DOMAIN evs = 1 .. Len(evs) /\ pos \in Seq(1 .. Len(evs))
  BY DEF AreEvents
<1>2. 0 \in E
  OBVIOUS
<1>3. ASSUME NEW k \in Nat, k \in E
      PROVE  k + 1 \in E
  <2>1. ASSUME k + 1 \in DOMAIN pos
        PROVE  Up(k + 1)
    <3> DEFINE n == pos[k + 1]
    <3>1. CASE k = 0
      BY <3>1 DEF OnTheWayUp
    <3>2. CASE k # 0
      <4> DEFINE m == {pos[j] : j \in 1 .. (k + 1) - 1}
      <4>1. k + 1 \in 2 .. Len(pos) /\ n \in DOMAIN evs
        BY <1>1, <2>1, <3>2
      <4>2. InLineage(evs, n, m) /\ m \in SUBSET DOMAIN evs
        <5>1. \A j \in 1 .. (k + 1) - 1 : j \in DOMAIN pos /\ pos[j] \in DOMAIN evs
          BY <1>1, <2>1
        <5>2. InLineage(evs, pos[k + 1], {pos[j] : j \in 1 .. (k + 1) - 1})
          BY <4>1 DEF InLine
        <5> QED
          BY <5>1, <5>2
      <4>3. PICK x \in m : OnTheWayUp(TreeAfter(evs, n), evs[n].pid, evs[x].pid)
        <5> HIDE DEF m, n
        <5> QED
          BY <4>1, <4>2, LineageIsUp
      <4>4. PICK j \in 1 .. (k + 1) - 1 : x = pos[j]
        OBVIOUS
      <4>5. j \in 1 .. k /\ j \in DOMAIN pos /\ pos[j] \in 1 .. Len(evs) /\ pos[j] < n
        <5>1. \A h \in 1 .. (k + 1) - 1 : pos[h] < pos[k + 1]
          BY <1>1, <2>1, AscendingAll
        <5>2. j \in 1 .. k /\ j \in DOMAIN pos
          BY <1>1, <2>1
        <5> QED
          BY <1>1, <5>1, <5>2
      <4>6. Up(j)
        BY <1>3, <4>5
      <4>7. pos[j] \in 0 .. Len(evs) /\ n \in pos[j] .. Len(evs)
        BY <1>1, <4>1, <4>5
      <4>8. OnTheWayUp(TreeAfter(evs, n), evs[x].pid, evs[pos[1]].pid)
        <5>1. /\ DOMAIN TreeAfter(evs, x) \subseteq DOMAIN TreeAfter(evs, n)
              /\ \A p \in DOMAIN TreeAfter(evs, x) : TreeAfter(evs, n)[p] = TreeAfter(evs, x)[p]
          <6> HIDE DEF n
          <6> QED
            BY <4>4, <4>7, KnowledgeGrows
        <5>2. OnTheWayUp(TreeAfter(evs, x), evs[x].pid, evs[pos[1]].pid)
          BY <4>4, <4>6
        <5> HIDE DEF n
        <5> QED
          BY <5>1, <5>2, UpMonotone
      <4> QED
        BY <4>3, <4>8, UpTransitive
    <3> QED
      BY <3>1, <3>2
  <2>2. \A h \in 1 .. k + 1 : h \in 1 .. k \/ h = k + 1
    OBVIOUS
  <2> HIDE DEF Up
  <2> QED
    BY <1>3, <2>1, <2>2
<1>4. Nat \subseteq E
  <2> HIDE DEF E
  <2> QED
    BY <1>2, <1>3, Induction
<1>5. i \in Nat /\ i \in 1 .. i
  BY <1>1
<1> QED
  BY <1>4, <1>5

----------------------------------------------------------------------------
(* The inductive invariant.  Types alone are not inductive: that a track   *)
(* may move on needs it not to be complete, and that two tracks stay apart *)
(* needs finished ones to differ from active ones.                         *)

IInv == TypeOK /\ AlertsAreComplete /\ OneTrackPerStart /\ StepsInOrder

Now == Len(history) + 1

LEMMA IInvInit == Init => IInv
BY DEF Init, IInv, TypeOK, Tracks, TrackType, AlertsAreComplete,
       OneTrackPerStart, StepsInOrder

\* What the invariant says of one track.
LEMMA TrackFacts ==
  ASSUME IInv, NEW t \in Tracks
  PROVE  /\ t \in TrackType
         /\ t.chain \in DOMAIN Chains
         /\ t.matched_events \in Seq(1 .. Len(history))
         /\ Len(t.matched_events) \in Nat \ {0}
         /\ t.current_step_index = Len(t.matched_events)
         /\ t.current_step_index \in 1 .. Len(StepsOf(t))
         /\ Start(t) \in 1 .. Len(history)
         /\ Len(StepsOf(t)) \in Nat
         /\ Len(history) \in Nat
<1>1. t \in TrackType
  BY DEF IInv, TypeOK, Tracks
<1>2. Len(history) \in Nat /\ DOMAIN history = 1 .. Len(history)
  BY DEF IInv, TypeOK
<1>3. t.chain \in DOMAIN Chains /\ t.matched_events \in Seq(1 .. Len(history))
  BY <1>1, <1>2 DEF TrackType
<1>4. Len(StepsOf(t)) \in Nat
  BY <1>3, ChainAssumption DEF StepsOf
<1>5. /\ t.current_step_index = Len(t.matched_events)
      /\ t.current_step_index \in 1 .. Len(StepsOf(t))
  BY DEF IInv, TypeOK
<1>6. Len(t.matched_events) \in Nat \ {0}
  BY <1>3, <1>4, <1>5
<1>7. Start(t) \in 1 .. Len(history)
  BY <1>3, <1>6 DEF Start
<1> QED
  BY <1>1, <1>2, <1>3, <1>4, <1>5, <1>6, <1>7

\* What moving a track on changes, and what it leaves alone.
LEMMA ExtendedFacts ==
  ASSUME IInv, NEW t \in active_tracks
  PROVE  LET u == Extended(t, Now) IN
         /\ u = [chain |-> t.chain,
                 current_step_index |-> Len(t.matched_events) + 1,
                 matched_events |-> Append(t.matched_events, Now)]
         /\ u.chain = t.chain /\ Start(u) = Start(t)
         /\ Len(u.matched_events) = Len(t.matched_events) + 1
         /\ u.current_step_index = Len(u.matched_events)
         /\ u.current_step_index \in 1 .. Len(StepsOf(u))
<1>1. t \in Tracks
  BY DEF Tracks
<1>2. ~ Complete(t)
  BY DEF IInv, AlertsAreComplete
<1> DEFINE u == Extended(t, Now)
<1>3. u = [chain |-> t.chain,
           current_step_index |-> Len(t.matched_events) + 1,
           matched_events |-> Append(t.matched_events, Now)]
  BY <1>1, TrackFacts DEF Extended, TrackType
<1>4. Len(u.matched_events) = Len(t.matched_events) + 1
  BY <1>1, <1>3, TrackFacts DEF Now
<1>5. Start(u) = Start(t)
  BY <1>1, <1>3, TrackFacts DEF Start, Now
<1>6. u.current_step_index \in 1 .. Len(StepsOf(u))
  BY <1>1, <1>2, <1>3, TrackFacts DEF Complete, StepsOf
<1> QED
  BY <1>3, <1>4, <1>5, <1>6

\* Events keep their positions, and the new one goes to the next.
LEMMA HistoryGrows ==
  ASSUME IInv, NEW e \in EventSpace, history' = Append(history, e)
  PROVE  /\ history' \in Seq(EventSpace)
         /\ Len(history') = Now /\ Now \in Nat \ {0}
         /\ DOMAIN history' = 1 .. Now
         /\ \A i \in 1 .. Len(history) : history'[i] = history[i]
         /\ history'[Now] = e
         /\ 1 .. Len(history) \subseteq DOMAIN history'
BY DEF IInv, TypeOK, Now

----------------------------------------------------------------------------
(* One call of ingest, whichever part of it is carried out *)

\* Every track after the call is an old one, an old one moved on, or new.
Stays(t, moved)    == t \in Tracks \ moved
Moves(t, moved)    == \E o \in moved : t = Extended(o, Now)
Begins(t, e, chains) == t \in Begun(chains, e)

LEMMA Origins ==
  ASSUME IInv, NEW e, NEW tracks \in SUBSET active_tracks, NEW chains,
         NEW outcome, Process(e, tracks, chains, outcome)
  PROVE  \E moved \in SUBSET active_tracks :
           /\ \A o \in moved : Continues(process_tree', o, e)
           /\ \A t \in Tracks' : \/ Stays(t, moved)
                                 \/ Moves(t, moved)
                                 \/ Begins(t, e, chains)
           /\ AlertsAreComplete'
<1> DEFINE tree  == Learn(process_tree, e)
           moved == {t \in tracks : Continues(tree, t, e)}
           after == {Extended(t, Now) : t \in moved} \cup Begun(chains, e)
           done  == {t \in after : Complete(t)}
<1>1. /\ active_tracks' = (active_tracks \ moved) \cup (after \ done)
      /\ alerts' = alerts \cup Returned(done, outcome)
  BY DEF Process, Now, Kept
<1>2. Returned(done, outcome) \subseteq done
  BY DEF Returned
<1>3. moved \in SUBSET active_tracks /\ \A o \in moved : Continues(process_tree', o, e)
  BY DEF Process
<1>4. \A t \in alerts : t \notin moved
  BY <1>3 DEF IInv, AlertsAreComplete
<1>5. ASSUME NEW t \in Tracks'
      PROVE  Stays(t, moved) \/ Moves(t, moved) \/ Begins(t, e, chains)
  <2>1. t \in active_tracks' \/ t \in alerts'
    BY DEF Tracks
  <2>2. t \in active_tracks \ moved \/ t \in alerts \/ t \in after
    BY <1>1, <1>2, <2>1
  <2> QED
    BY <1>4, <2>2 DEF Stays, Moves, Begins, Tracks
<1>6. AlertsAreComplete'
  BY <1>1, <1>2 DEF IInv, AlertsAreComplete, Complete, StepsOf
<1> QED
  BY <1>3, <1>5, <1>6

\* The types of a track in each of the three cases.
TypedTrack(t) ==
  /\ t \in TrackType
  /\ t.current_step_index = Len(t.matched_events)
  /\ t.current_step_index \in 1 .. Len(StepsOf(t))

\* The chains a call may begin tracks of are loaded and have a first step.
Startable == {c \in DOMAIN Chains : Chains[c].steps # <<>>}

LEMMA TracksTyped ==
  ASSUME IInv, NEW e \in EventSpace, NEW moved \in SUBSET active_tracks,
         NEW chains \in SUBSET Startable, NEW t,
         history' = Append(history, e),
         Stays(t, moved) \/ Moves(t, moved) \/ Begins(t, e, chains)
  PROVE  TypedTrack(t)'
<1>1. Seq(1 .. Len(history)) \subseteq Seq(1 .. Now)
  BY HistoryGrows DEF Now
<1>2. TrackType' = [chain : DOMAIN Chains, current_step_index : Nat,
                    matched_events : Seq(1 .. Now)]
  BY HistoryGrows DEF TrackType
<1>3. CASE Stays(t, moved)
  <2>1. t \in Tracks
    BY <1>3 DEF Stays
  <2>2. t \in TrackType'
    BY <1>1, <1>2, <2>1, TrackFacts DEF TrackType
  <2> QED
    BY <2>1, <2>2, TrackFacts DEF TypedTrack, StepsOf
<1>4. ASSUME NEW o \in moved, t = Extended(o, Now)
      PROVE  TypedTrack(t)'
  <2>1. o \in Tracks /\ o \in active_tracks
    BY DEF Tracks
  <2>2. Append(o.matched_events, Now) \in Seq(1 .. Now)
    BY <1>1, <2>1, TrackFacts, HistoryGrows
  <2>3. t.chain \in DOMAIN Chains /\ t = [chain |-> o.chain,
          current_step_index |-> Len(o.matched_events) + 1,
          matched_events |-> Append(o.matched_events, Now)]
    BY <1>4, <2>1, TrackFacts, ExtendedFacts
  <2>4. Len(o.matched_events) + 1 \in Nat
    BY <2>1, TrackFacts
  <2>5. t \in TrackType'
    BY <1>2, <2>2, <2>3, <2>4
  <2> QED
    BY <1>4, <2>1, <2>5, ExtendedFacts DEF TypedTrack, StepsOf
<1>5. CASE Begins(t, e, chains)
  <2>1. PICK c \in chains : t = NewTrack(c, Now)
    BY <1>5 DEF Begins, Begun, Now
  <2>2. c \in DOMAIN Chains /\ Len(Chains[c].steps) \in Nat \ {0}
    BY ChainAssumption DEF Startable
  <2>3. t \in TrackType'
    BY <1>2, <2>1, <2>2, HistoryGrows DEF NewTrack
  <2> QED
    BY <2>1, <2>2, <2>3 DEF TypedTrack, NewTrack, StepsOf
<1> QED
  BY <1>3, <1>4, <1>5 DEF Moves

\* Old tracks keep chain and first event, new ones begin with the new event,
\* so no two end up with the same pair.
LEMMA StartsStayApart ==
  ASSUME IInv, NEW e \in EventSpace, NEW moved \in SUBSET active_tracks,
         NEW chains, NEW t, NEW u,
         Stays(t, moved) \/ Moves(t, moved) \/ Begins(t, e, chains),
         Stays(u, moved) \/ Moves(u, moved) \/ Begins(u, e, chains),
         t.chain = u.chain, Start(t) = Start(u)
  PROVE  t = u
<1> DEFINE From(x, o) == /\ x.chain = o.chain /\ Start(x) = Start(o)
                         /\ x = IF o \in moved THEN Extended(o, Now) ELSE o
<1>1. ASSUME NEW x, Stays(x, moved) \/ Moves(x, moved)
      PROVE  \E o \in Tracks : From(x, o)
  <2>1. CASE Stays(x, moved)
    BY <2>1 DEF Stays
  <2>2. CASE Moves(x, moved)
    BY <2>2, ExtendedFacts DEF Moves, Tracks
  <2> QED
    BY <1>1, <2>1, <2>2
<1>2. ASSUME NEW x, Begins(x, e, chains)
      PROVE  x = NewTrack(x.chain, Now) /\ Start(x) = Now
  BY <1>2 DEF Begins, Begun, NewTrack, Start, Now
<1>3. ASSUME NEW x, Stays(x, moved) \/ Moves(x, moved)
      PROVE  Start(x) # Now
  <2>1. PICK o \in Tracks : From(x, o)
    BY <1>1, <1>3
  <2> QED
    BY <2>1, TrackFacts DEF Now
<1>4. CASE Begins(t, e, chains)
  BY <1>2, <1>3, <1>4
<1>5. CASE ~ Begins(t, e, chains) /\ Begins(u, e, chains)
  BY <1>2, <1>3, <1>5
<1>6. CASE ~ Begins(t, e, chains) /\ ~ Begins(u, e, chains)
  <2>1. PICK o \in Tracks : From(t, o)
    BY <1>1, <1>6
  <2>2. PICK p \in Tracks : From(u, p)
    BY <1>1, <1>6
  <2>3. o = p
    BY <2>1, <2>2 DEF IInv, OneTrackPerStart
  <2> QED
    BY <2>1, <2>2, <2>3
<1> QED
  BY <1>4, <1>5, <1>6

\* A track moves on only with an event that fits its next step, which lies
\* behind every event it has matched before.
LEMMA OrderKept ==
  ASSUME IInv, NEW e \in EventSpace, NEW moved \in SUBSET active_tracks,
         NEW chains \in SUBSET Startable, NEW t,
         history' = Append(history, e),
         \A o \in moved : Fits(NextStep(o), e),
         Stays(t, moved) \/ Moves(t, moved) \/ Begins(t, e, chains)
  PROVE  InOrder(history, t.chain, t.matched_events)'
<1>1. ASSUME NEW o \in Tracks
      PROVE  InOrder(history, o.chain, o.matched_events)'
  <2> DEFINE pos == o.matched_events
  <2>1. InOrder(history, o.chain, pos) /\ pos \in Seq(1 .. Len(history))
    BY TrackFacts DEF IInv, StepsInOrder
  <2>2. \A i \in DOMAIN pos : history'[pos[i]] = history[pos[i]]
    BY <2>1, HistoryGrows
  <2> QED
    BY <2>1, <2>2 DEF InOrder
<1>2. ASSUME NEW o \in moved, t = Extended(o, Now)
      PROVE  InOrder(history, t.chain, t.matched_events)'
  <2> DEFINE old == o.matched_events
             pos == Append(old, Now)
  <2>1. o \in Tracks /\ o \in active_tracks
    BY DEF Tracks
  <2>2. t.chain = o.chain /\ t.matched_events = pos
    BY <1>2, <2>1, ExtendedFacts
  <2>3. old \in Seq(1 .. Len(history)) /\ Len(old) \in Nat \ {0}
    BY <2>1, TrackFacts
  <2>4. InOrder(history, o.chain, old)'
    BY <1>1, <2>1
  <2>5. Fits(Chains[o.chain].steps[Len(old) + 1], e)
    BY <2>1, TrackFacts DEF NextStep, StepsOf
  <2>6. /\ DOMAIN pos = 1 .. Len(old) + 1
        /\ \A i \in 1 .. Len(old) : pos[i] = old[i] /\ old[i] < Now
        /\ pos[Len(old) + 1] = Now
    BY <2>3 DEF Now
  <2>7. \A i \in DOMAIN pos : Fits(Chains[o.chain].steps[i], history'[pos[i]])
    <3>1. ASSUME NEW i \in 1 .. Len(old)
          PROVE  Fits(Chains[o.chain].steps[i], history'[pos[i]])
      BY <2>3, <2>4, <2>6 DEF InOrder
    <3>2. Fits(Chains[o.chain].steps[Len(old) + 1], history'[pos[Len(old) + 1]])
      BY <2>5, <2>6, HistoryGrows
    <3> HIDE DEF pos
    <3>3. ASSUME NEW i \in 1 .. Len(old) + 1
          PROVE  i \in 1 .. Len(old) \/ i = Len(old) + 1
      BY <2>3
    <3> QED
      BY <2>6, <3>1, <3>2, <3>3
  <2>8. ASSUME NEW i \in DOMAIN pos, i > 1
        PROVE  pos[i - 1] < pos[i]
    <3> HIDE DEF pos
    <3>1. CASE i \in 1 .. Len(old)
      <4>1. i - 1 \in 1 .. Len(old)
        BY <2>8, <3>1, <2>3
      <4> QED
        BY <2>3, <2>4, <2>6, <2>8, <3>1, <4>1 DEF InOrder
    <3>2. CASE i = Len(old) + 1
      BY <2>3, <2>6, <3>2
    <3> QED
      BY <2>3, <2>6, <3>1, <3>2
  <2> HIDE DEF pos
  <2> QED
    BY <2>2, <2>7, <2>8 DEF InOrder
<1>3. CASE Begins(t, e, chains)
  <2>1. PICK c \in chains : t = NewTrack(c, Now) /\ Fits(Chains[c].steps[1], e)
    BY <1>3 DEF Begins, Begun, Now
  <2> QED
    BY <2>1, HistoryGrows DEF NewTrack, InOrder
<1> QED
  BY <1>1, <1>2, <1>3 DEF Stays, Moves

\* The tree only ever learns the pid and the parent the new event names.
LEMMA TreeTyped ==
  ASSUME IInv, NEW e \in EventSpace, history' = Append(history, e),
         process_tree' = Learn(process_tree, e)
  PROVE  /\ DOMAIN process_tree' \subseteq {history'[i].pid : i \in DOMAIN history'}
         /\ \A p \in DOMAIN process_tree' : process_tree'[p] \in Nat
<1>1. DOMAIN process_tree' \subseteq DOMAIN process_tree \cup {e.pid}
  BY DEF Learn
<1>2. DOMAIN process_tree \subseteq {history[i].pid : i \in 1 .. Len(history)}
  BY DEF IInv, TypeOK
<1>3. DOMAIN process_tree' \subseteq {history'[i].pid : i \in DOMAIN history'}
  BY <1>1, <1>2, HistoryGrows
<1>4. e.ppid # None => e.ppid \in Nat
  BY EventAssumption
<1>5. \A p \in DOMAIN process_tree' : process_tree'[p] \in Nat
  BY <1>4 DEF Learn, IInv, TypeOK
<1> QED
  BY <1>3, <1>5

LEMMA ProcessKeepsIInv ==
  ASSUME IInv, NEW e \in EventSpace, NEW tracks \in SUBSET active_tracks,
         NEW chains \in SUBSET Startable,
         NEW outcome \in {"running", "looping", "raised"},
         Process(e, tracks, chains, outcome)
  PROVE  IInv'
<1>1. /\ history' = Append(history, e) /\ status' = outcome
      /\ process_tree' = Learn(process_tree, e)
  BY DEF Process
<1>2. PICK moved \in SUBSET active_tracks :
        /\ \A o \in moved : Continues(process_tree', o, e)
        /\ \A t \in Tracks' : \/ Stays(t, moved)
                              \/ Moves(t, moved)
                              \/ Begins(t, e, chains)
        /\ AlertsAreComplete'
  BY Origins
<1>3. \A t \in Tracks' : TypedTrack(t)'
  BY <1>1, <1>2, TracksTyped
<1>4. active_tracks' \subseteq TrackType' /\ alerts' \subseteq TrackType'
  BY <1>3 DEF TypedTrack, Tracks
<1>5. TypeOK'
  BY <1>1, <1>3, <1>4, HistoryGrows, TreeTyped DEF TypeOK, TypedTrack
<1>6. OneTrackPerStart'
  BY <1>2, StartsStayApart DEF OneTrackPerStart, Start
<1>7. StepsInOrder'
  BY <1>1, <1>2, OrderKept DEF StepsInOrder, Continues
<1> QED
  BY <1>2, <1>5, <1>6, <1>7 DEF IInv

----------------------------------------------------------------------------
(* Every step *)

LEMMA ReceiveKeepsIInv ==
  ASSUME IInv, NEW e \in EventSpace, Receive(e)
  PROVE  IInv'
<1>1. CASE Ingest(e)
  <2>1. DOMAIN Chains \in SUBSET Startable
    BY <1>1 DEF Ingest, Malformed, Startable
  <2> QED
    BY <1>1, <2>1, ProcessKeepsIInv DEF Ingest
<1>2. CASE IngestLoops(e)
  <2>1. PICK t \in StuckTracks(e) :
          Process(e, {u \in active_tracks : Before(u, t)}, {}, "looping")
    BY <1>2 DEF IngestLoops
  <2> QED
    BY <2>1, ProcessKeepsIInv
<1>3. CASE IngestRaises(e)
  <2>1. PICK c \in Malformed(Chains) :
          /\ \A d \in Malformed(Chains) : c <= d
          /\ Process(e, active_tracks, 1 .. c - 1, "raised")
    BY <1>3 DEF IngestRaises
  <2>2. c \in Nat /\ DOMAIN Chains = 1 .. Len(Chains) /\ Len(Chains) \in Nat
    BY ChainAssumption DEF Malformed
  <2>3. 1 .. c - 1 \subseteq DOMAIN Chains
    BY <2>2 DEF Malformed
  <2>4. 1 .. c - 1 \in SUBSET Startable
    BY <2>1, <2>2, <2>3 DEF Malformed, Startable
  <2> QED
    BY <2>1, <2>4, ProcessKeepsIInv
<1> QED
  BY <1>1, <1>2, <1>3 DEF Receive

LEMMA IInvStep == IInv /\ [Next]_vars => IInv'
<1> SUFFICES ASSUME IInv, [Next]_vars
             PROVE  IInv'
  OBVIOUS
<1>1. CASE UNCHANGED vars
  BY <1>1 DEF vars, IInv, TypeOK, Tracks, TrackType, AlertsAreComplete,
              OneTrackPerStart, StepsInOrder, InOrder
<1> QED
  BY <1>1, ReceiveKeepsIInv DEF Next

LEMMA Invariance == Spec => []IInv
BY IInvInit, IInvStep, PTL DEF Spec

\* The engine's state is well formed after any number of calls, whether they
\* return or not.
THEOREM EngineTypes == Spec => []TypeOK
<1>1. IInv => TypeOK
  BY DEF IInv
<1> QED
  BY <1>1, Invariance, PTL

\* An event begins at most one track of each chain, and that track never
\* splits into two partial matches or two alerts.
THEOREM StartsAreUnique == Spec => []OneTrackPerStart
<1>1. IInv => OneTrackPerStart
  BY DEF IInv
<1> QED
  BY <1>1, Invariance, PTL

\* An alert stands for as many events as its chain has steps, each fit for
\* its own step and each received after the one before.
THEOREM AlertsAreWholeAndInOrder == Spec => [](AlertsAreComplete /\ StepsInOrder)
<1>1. IInv => AlertsAreComplete /\ StepsInOrder
  BY DEF IInv
<1> QED
  BY <1>1, Invariance, PTL
----------------------------------------------------------------------------
(* What a call never does to tracks and tree *)

LEMMA StepLosesNothing == IInv /\ [Next]_vars => [NothingLost]_vars
<1> SUFFICES ASSUME IInv, [Next]_vars, vars' # vars, status' = "running"
             PROVE  NothingLost
  BY DEF NothingLost
<1>1. PICK e \in EventSpace : Ingest(e)
  BY DEF Next, Receive, IngestLoops, IngestRaises, Process
<1> DEFINE tree  == Learn(process_tree, e)
           moved == {t \in active_tracks : Continues(tree, t, e)}
           after == {Extended(t, Now) : t \in moved} \cup Begun(DOMAIN Chains, e)
           done  == {t \in after : Complete(t)}
<1>2. /\ active_tracks' = (active_tracks \ moved) \cup (after \ done)
      /\ alerts' = alerts \cup done
      /\ history' = Append(history, e)
  BY <1>1 DEF Ingest, Process, Now, Kept, Returned
<1>3. Len(history') = Now
  BY <1>2, HistoryGrows
<1>4. ASSUME NEW t \in moved
      PROVE  Extended(t, Now) \in active_tracks' \cup alerts'
  BY <1>2
<1> HIDE DEF moved
<1> QED
  BY <1>2, <1>3, <1>4 DEF NothingLost

\* As long as calls return, no partial match and no alert is ever lost.
THEOREM NoMatchIsLost == Spec => TracksOnlyGrow
BY Invariance, StepLosesNothing, PTL DEF Spec, TracksOnlyGrow

\* The entry of the new event's pid is replaced if the event tells a parent;
\* every other entry is left as it was.
LEMMA TreeKept ==
  ASSUME IInv, TreeIsLatest, NEW e \in EventSpace, Receive(e)
  PROVE  TreeIsLatest'
<1>1. ASSUME history' = Append(history, e),
             process_tree' = Learn(process_tree, e), NEW n \in Nat, n = Now
      PROVE  TreeIsLatest'
  <2> DEFINE Tells == e.event_type = "ProcessCreate" /\ e.ppid # None
  <2>1. \A p : \A i \in 1 .. Len(history) : Names(history, i, p)' <=> Names(history, i, p)
    BY <1>1, HistoryGrows DEF Names
  <2>2. \A p : Names(history, n, p)' <=> Tells /\ e.pid = p
    BY <1>1, HistoryGrows DEF Names
  <2>3. DOMAIN history' = 1 .. Len(history) + 1 /\ DOMAIN history = 1 .. Len(history)
        /\ Len(history) \in Nat /\ history'[n] = e /\ n = Len(history) + 1
        /\ \A i \in 1 .. Len(history) : history'[i] = history[i]
    BY <1>1, HistoryGrows DEF Now, IInv, TypeOK
  <2>4. ASSUME NEW i \in DOMAIN history', Names(history, i, history[i].pid)'
        PROVE  history'[i].pid \in DOMAIN process_tree'
    <3>1. CASE i = n
      BY <1>1, <2>2, <2>3, <2>4, <3>1 DEF Learn, Names
    <3>2. CASE i \in 1 .. Len(history)
      BY <1>1, <2>1, <2>3, <2>4, <3>2 DEF TreeIsLatest, Learn
    <3> QED
      BY <2>3, <3>1, <3>2
  <2>5. ASSUME NEW p \in DOMAIN process_tree'
        PROVE  \E i \in DOMAIN history' :
                 /\ Names(history, i, p)' /\ process_tree'[p] = history'[i].ppid
                 /\ \A j \in DOMAIN history' : j > i => ~ Names(history, j, p)'
    <3>1. CASE Tells /\ p = e.pid
      <4>1. process_tree'[p] = e.ppid
        BY <1>1, <3>1 DEF Learn
      <4> QED
        BY <2>2, <2>3, <3>1, <4>1
    <3>2. CASE ~ (Tells /\ p = e.pid)
      <4>1. p \in DOMAIN process_tree /\ process_tree'[p] = process_tree[p]
        BY <1>1, <2>5, <3>2 DEF Learn
      <4>2. PICK i \in 1 .. Len(history) :
              /\ Names(history, i, p) /\ process_tree[p] = history[i].ppid
              /\ \A j \in 1 .. Len(history) : j > i => ~ Names(history, j, p)
        BY <2>3, <4>1 DEF TreeIsLatest
      <4> QED
        BY <2>1, <2>2, <2>3, <3>2, <4>1, <4>2
    <3> QED
      BY <3>1, <3>2
  <2> QED
    BY <2>4, <2>5 DEF TreeIsLatest, Names
<1> QED
  <2>1. Now \in Nat
    BY DEF Now, IInv, TypeOK
  <2> QED
    BY <1>1, <2>1 DEF Receive, Ingest, IngestLoops, IngestRaises, Process

LEMMA TreeStep == IInv /\ TreeIsLatest /\ [Next]_vars => TreeIsLatest'
<1> SUFFICES ASSUME IInv, TreeIsLatest, [Next]_vars
             PROVE  TreeIsLatest'
  OBVIOUS
<1>1. CASE UNCHANGED vars
  BY <1>1 DEF vars, TreeIsLatest, Names
<1> QED
  BY <1>1, TreeKept DEF Next

\* The process tree holds, for every pid, the parent reported last.
THEOREM TreeHoldsTheLatestParents == Spec => []TreeIsLatest
<1>1. Init => TreeIsLatest
  BY DEF Init, TreeIsLatest
<1> QED
  BY <1>1, TreeStep, Invariance, PTL DEF Spec

----------------------------------------------------------------------------
(* Lineage: the engine judges it by the parents known when an event arrives *)

LineageInv ==
  /\ TreeIsLatest /\ process_tree = [p \in DOMAIN process_tree |-> process_tree[p]]
  /\ \A t \in Tracks : InLine(history, t.matched_events)

LEMMA LineageKept ==
  ASSUME IInv, LineageInv, IInv', TreeIsLatest',
         NEW e \in EventSpace, NEW tracks \in SUBSET active_tracks, NEW chains,
         NEW outcome, Process(e, tracks, chains, outcome)
  PROVE  LineageInv'
<1>1. history' = Append(history, e) /\ process_tree' = Learn(process_tree, e)
  BY DEF Process
<1>2. /\ Len(history') = Now /\ Now \in Nat \ {0} /\ DOMAIN history' = 1 .. Now
      /\ history'[Now] = e /\ Len(history) \in Nat /\ Now = Len(history) + 1
      /\ \A i \in 1 .. Len(history) : history'[i] = history[i]
  BY <1>1, HistoryGrows DEF IInv, TypeOK, Now
<1>3. process_tree' = [p \in DOMAIN process_tree' |-> process_tree'[p]]
  BY <1>1 DEF LineageInv, Learn
<1>4. process_tree' = TreeAfter(history', Now)
  BY <1>2, <1>3, KnownTree DEF TreeIsLatest
<1>5. IsTree(process_tree') /\ IsEvent(e)
  <2>1. \A f \in EventSpace : f.pid \in Nat \ {0} /\ f.ppid \in Nat \cup {None}
    BY EventAssumption
  <2>2. \A i \in DOMAIN history' : history'[i].pid \in Nat
    BY <2>1 DEF IInv, TypeOK
  <2> QED
    BY <2>1, <2>2 DEF IInv, TypeOK, IsTree, IsEvent
<1>6. ASSUME NEW o \in Tracks
      PROVE  InLine(history', o.matched_events)
  <2> DEFINE pos == o.matched_events
  <2>1. pos \in Seq(1 .. Len(history)) /\ InLine(history, pos)
    BY TrackFacts DEF LineageInv
  <2>2. ASSUME NEW i \in 2 .. Len(pos)
        PROVE  InLineage(history', pos[i], {pos[j] : j \in 1 .. i - 1})
    <3> DEFINE m == {pos[j] : j \in 1 .. i - 1}
    <3>1. i \in DOMAIN pos /\ \A j \in 1 .. i - 1 : j \in DOMAIN pos
      BY <2>1
    <3>2. pos[i] \in 1 .. Len(history) /\ m \in SUBSET (1 .. Len(history))
      BY <2>1, <3>1
    <3>3. InLineage(history, pos[i], m)
      BY <2>1 DEF InLine
    <3> HIDE DEF m
    <3> QED
      BY <1>2, <3>2, <3>3, LineageOfPrefix DEF m
  <2> QED
    BY <2>2 DEF InLine
<1>7. ASSUME NEW o \in active_tracks, Continues(process_tree', o, e)
      PROVE  InLine(history', Append(o.matched_events, Now))
  <2> DEFINE old == o.matched_events
             pos == Append(old, Now)
             m == {old[j] : j \in 1 .. Len(old)}
  <2>1. o \in Tracks /\ old \in Seq(1 .. Len(history)) /\ Len(old) \in Nat \ {0}
    BY TrackFacts DEF Tracks
  <2>2. /\ Len(pos) = Len(old) + 1 /\ pos[Len(old) + 1] = Now
        /\ \A i \in 1 .. Len(old) : pos[i] = old[i]
    BY <2>1, <1>2
  <2>3. {history'[i].pid : i \in m} = MatchedPids(o)
    <3>1. \A j \in 1 .. Len(old) : old[j] \in 1 .. Len(history) /\ history'[old[j]] = history[old[j]]
      BY <1>2, <2>1
    <3>2. DOMAIN old = 1 .. Len(old)
      BY <2>1
    <3> QED
      BY <3>1, <3>2 DEF MatchedPids
  <2>4. InLineage(history', Now, m)
    <3> HIDE DEF m
    <3> QED
      BY <1>2, <1>4, <1>5, <1>7, <2>3, RelatedIsLineage DEF Continues
  <2>5. InLine(history', old)
    BY <1>6, <2>1
  <2> HIDE DEF old, pos
  <2>6. ASSUME NEW i \in 2 .. Len(pos)
        PROVE  InLineage(history', pos[i], {pos[j] : j \in 1 .. i - 1})
    <3>1. {pos[j] : j \in 1 .. i - 1} = {old[j] : j \in 1 .. i - 1}
      <4>1. \A j \in 1 .. i - 1 : j \in 1 .. Len(old)
        BY <2>1, <2>2 DEF old
      <4> QED
        BY <2>2, <4>1
    <3>2. CASE i \in 2 .. Len(old)
      <4>1. pos[i] = old[i]
        BY <2>1, <2>2, <3>2 DEF old
      <4> QED
        BY <2>5, <3>1, <3>2, <4>1 DEF InLine
    <3>3. CASE i = Len(old) + 1
      <4>1. i - 1 = Len(old) /\ pos[i] = Now
        BY <2>1, <2>2, <3>3 DEF old
      <4> QED
        BY <2>4, <3>1, <4>1
    <3> QED
      BY <2>1, <2>2, <3>2, <3>3 DEF old
  <2> QED
    BY <2>6 DEF InLine, pos, old
<1>8. PICK moved \in SUBSET active_tracks :
        /\ \A o \in moved : Continues(process_tree', o, e)
        /\ \A t \in Tracks' : Stays(t, moved) \/ Moves(t, moved) \/ Begins(t, e, chains)
  BY Origins
<1>9. ASSUME NEW t \in Tracks'
      PROVE  InLine(history', t.matched_events)
  <2>1. CASE Stays(t, moved)
    BY <1>6, <2>1 DEF Stays
  <2>2. CASE Moves(t, moved)
    <3>1. PICK o \in moved : t = Extended(o, Now)
      BY <2>2 DEF Moves
    <3>2. t.matched_events = Append(o.matched_events, Now)
      BY <3>1, ExtendedFacts
    <3> QED
      BY <1>7, <1>8, <3>2
  <2>3. CASE Begins(t, e, chains)
    <3>1. t.matched_events = <<Now>>
      BY <2>3 DEF Begins, Begun, NewTrack, Now
    <3> QED
      BY <3>1 DEF InLine
  <2> QED
    BY <1>8, <1>9, <2>1, <2>2, <2>3
<1> QED
  BY <1>3, <1>9 DEF LineageInv

LEMMA ReceiveKeepsLineage ==
  ASSUME IInv, LineageInv, NEW e \in EventSpace, Receive(e)
  PROVE  LineageInv'
<1>1. IInv' /\ TreeIsLatest'
  BY ReceiveKeepsIInv, TreeKept DEF LineageInv
<1> QED
  BY <1>1, LineageKept DEF Receive, Ingest, IngestLoops, IngestRaises

LEMMA LineageStep == IInv /\ LineageInv /\ [Next]_vars => LineageInv'
<1> SUFFICES ASSUME IInv, LineageInv, [Next]_vars
             PROVE  LineageInv'
  OBVIOUS
<1>1. IInv' /\ TreeIsLatest'
  BY IInvStep, TreeStep DEF LineageInv
<1>2. CASE UNCHANGED vars
  BY <1>1, <1>2 DEF vars, LineageInv, Tracks, InLine
<1> QED
  BY <1>2, ReceiveKeepsLineage DEF Next

LEMMA LineageInit == Init => LineageInv
<1>1. Init => TreeIsLatest
  BY DEF Init, TreeIsLatest
<1>2. <<>> = [p \in {} |-> <<>>[p]] /\ DOMAIN <<>> = {}
  OBVIOUS
<1> QED
  BY <1>1, <1>2 DEF Init, LineageInv, Tracks

LEMMA LineageHolds == Spec => []LineageInv
BY LineageInit, LineageStep, Invariance, PTL DEF Spec

\* No false alarm: every alert, and every partial match, stands for events that
\* fit its chain's first steps, arrived in that order, and are each of one
\* process line by the parents that had been told when they arrived.
THEOREM TracksAreGenuine == Spec => []TracksAreOccurrences
<1>1. IInv /\ LineageInv => TracksAreOccurrences
  BY DEF IInv, LineageInv, TracksAreOccurrences, StepsInOrder, Occurrence, InLine
<1> QED
  BY <1>1, LineageHolds, Invariance, PTL

----------------------------------------------------------------------------
(* Completeness.  Taking the first event that fits a track's next step     *)
(* misses nothing while parents are stable: whatever continues an          *)
(* occurrence descends from its first event's process, so it continues     *)
(* every track that begins with that event.                                *)

\* The track that begins where pos does has come at least as far, no later.
Followed(c, pos) ==
  \E t \in Tracks : /\ t.chain = c /\ Start(t) = pos[1] /\ t.current_step_index >= Len(pos)
                    /\ t.matched_events[Len(pos)] <= pos[Len(pos)]

Greedy ==
  status = "running" /\ StableParents(history) =>
    \A c \in DOMAIN Chains : \A pos \in Seq(DOMAIN history) :
      Len(pos) \in 1 .. Len(Chains[c].steps) /\ Occurrence(history, c, pos) => Followed(c, pos)

\* Occurrences in the events received before are occurrences still.
LEMMA OccurrenceOfPrefix ==
  ASSUME NEW evs, NEW more, NEW l \in Nat, \A i \in 1 .. l : more[i] = evs[i],
         NEW c, NEW pos \in Seq(1 .. l), Occurrence(more, c, pos)
  PROVE  Occurrence(evs, c, pos)
<1>1. \A i \in DOMAIN pos : pos[i] \in 1 .. l /\ more[pos[i]] = evs[pos[i]]
  OBVIOUS
<1>2. InOrder(evs, c, pos)
  BY <1>1 DEF Occurrence, InOrder
<1>3. ASSUME NEW i \in 2 .. Len(pos)
      PROVE  InLineage(evs, pos[i], {pos[j] : j \in 1 .. i - 1})
  <2> DEFINE m == {pos[j] : j \in 1 .. i - 1}
  <2>1. i \in DOMAIN pos /\ \A j \in 1 .. i - 1 : j \in DOMAIN pos
    OBVIOUS
  <2>2. pos[i] \in 1 .. l /\ m \in SUBSET (1 .. l)
    BY <1>1, <2>1
  <2>3. InLineage(more, pos[i], m)
    BY DEF Occurrence
  <2> HIDE DEF m
  <2>4. InLineage(evs, pos[i], m)
    BY <2>2, <2>3, LineageOfPrefix
  <2> QED
    BY <2>4 DEF m
<1> QED
  BY <1>2, <1>3 DEF Occurrence

\* So are the beginnings of occurrences.
LEMMA OccurrenceBegins ==
  ASSUME NEW evs, NEW c, NEW S, NEW pos \in Seq(S), NEW k \in 1 .. Len(pos), Occurrence(evs, c, pos)
  PROVE  Occurrence(evs, c, SubSeq(pos, 1, k))
<1> DEFINE s == SubSeq(pos, 1, k)
<1>1. s \in Seq(S) /\ Len(s) = k /\ DOMAIN s = 1 .. k /\ \A i \in 1 .. k : s[i] = pos[i] /\ i \in DOMAIN pos
  OBVIOUS
<1> SUFFICES Occurrence(evs, c, s)
  OBVIOUS
<1> HIDE DEF s
<1>2. InOrder(evs, c, s)
  <2>1. \A i \in 1 .. k : i > 1 => i - 1 \in 1 .. k
    OBVIOUS
  <2> QED
    BY <1>1, <2>1 DEF Occurrence, InOrder
<1>3. ASSUME NEW i \in 2 .. Len(s)
      PROVE  InLineage(evs, s[i], {s[j] : j \in 1 .. i - 1})
  <2>1. i \in 2 .. Len(pos) /\ s[i] = pos[i] /\ \A j \in 1 .. i - 1 : s[j] = pos[j]
    BY <1>1
  <2>2. {s[j] : j \in 1 .. i - 1} = {pos[j] : j \in 1 .. i - 1}
    BY <2>1
  <2> QED
    BY <2>1, <2>2 DEF Occurrence
<1> QED
  BY <1>2, <1>3 DEF Occurrence

LEMMA StableBefore ==
  ASSUME NEW evs, NEW more, NEW l \in Nat, DOMAIN evs = 1 .. l, Len(evs) = l,
         DOMAIN more = 1 .. l + 1, Len(more) = l + 1,
         \A i \in 1 .. l : more[i] = evs[i], StableParents(more)
  PROVE  StableParents(evs)
<1> SUFFICES ASSUME NEW i \in 1 .. l, evs[i].ppid # None, NEW n \in i .. l
             PROVE  evs[i].pid \in DOMAIN TreeAfter(evs, n) /\ TreeAfter(evs, n)[evs[i].pid] = evs[i].ppid
  BY DEF StableParents
<1>1. more[i] = evs[i] /\ i \in DOMAIN more /\ n \in i .. Len(more) /\ n \in Nat
      /\ \A j \in 1 .. n : j \in 1 .. l
  OBVIOUS
<1>2. TreeAfter(more, n) = TreeAfter(evs, n)
  BY <1>1, TreeOfPrefix
<1> QED
  BY <1>1, <1>2 DEF StableParents

LEMMA HistoryOfEvents ==
  ASSUME NEW evs \in Seq(EventSpace)
  PROVE  AreEvents(evs)
<1>1. \A f \in EventSpace : IsEvent(f)
  BY EventAssumption DEF IsEvent
<1>2. EventSpace = {f \in EventSpace : IsEvent(f)}
  BY <1>1
<1> QED
  BY <1>2 DEF AreEvents

LEMMA GreedyKept ==
  ASSUME IInv, LineageInv, IInv', LineageInv', Greedy, status = "running",
         NEW e \in EventSpace, Ingest(e)
  PROVE  Greedy'
<1>1. /\ history' = Append(history, e) /\ process_tree' = Learn(process_tree, e)
      /\ Malformed(Chains) = {}
  BY DEF Ingest, Process
<1>2. /\ Len(history') = Now /\ Now \in Nat \ {0} /\ DOMAIN history' = 1 .. Now
      /\ history'[Now] = e /\ Len(history) \in Nat /\ Now = Len(history) + 1
      /\ DOMAIN history = 1 .. Len(history)
      /\ \A i \in 1 .. Len(history) : history'[i] = history[i]
  BY <1>1, HistoryGrows DEF IInv, TypeOK, Now
<1>3. SUFFICES ASSUME StableParents(history'), NEW c \in DOMAIN Chains, NEW pos \in Seq(DOMAIN history'),
                      Len(pos) \in 1 .. Len(Chains[c].steps), Occurrence(history', c, pos)
               PROVE  Followed(c, pos)'
  BY DEF Greedy
<1>4. StableParents(history)
  <2> DEFINE l == Len(history)
  <2>1. /\ l \in Nat /\ DOMAIN history = 1 .. l /\ Len(history) = l
        /\ DOMAIN history' = 1 .. l + 1 /\ Len(history') = l + 1
        /\ \A i \in 1 .. l : history'[i] = history[i]
    BY <1>2
  <2> HIDE DEF l
  <2> QED
    BY <1>3, <2>1, StableBefore
<1> DEFINE k == Len(pos)
<1>5. /\ k \in Nat \ {0} /\ DOMAIN pos = 1 .. k /\ pos \in Seq(1 .. Now)
      /\ \A i \in 1 .. k : pos[i] \in 1 .. Now
      /\ k \in 1 .. Len(Chains[c].steps)
  BY <1>2, <1>3
<1>6. Ascending(pos) /\ \A i \in 1 .. k - 1 : pos[i] < pos[k]
  <2>1. Ascending(pos)
    BY <1>3 DEF Occurrence, InOrder, Ascending
  <2>2. k \in DOMAIN pos
    BY <1>5
  <2> QED
    BY <1>2, <1>5, <2>1, <2>2, AscendingAll
<1> DEFINE moved == {t \in active_tracks : Continues(process_tree', t, e)}
           after == {Extended(t, Now) : t \in moved} \cup Begun(DOMAIN Chains, e)
<1>7. Tracks' = (active_tracks \ moved) \cup alerts \cup after
  BY <1>1 DEF Ingest, Process, Now, Kept, Returned, Tracks
<1> HIDE DEF k, moved
\* A track is still there after the call, moved on or not.
<1>8. ASSUME NEW t \in Tracks
      PROVE  \E u \in Tracks' : /\ u.chain = t.chain /\ Start(u) = Start(t)
                                /\ u.current_step_index >= t.current_step_index
                                /\ \A i \in 1 .. t.current_step_index :
                                     u.matched_events[i] = t.matched_events[i]
  <2>1. CASE t \in moved
    <3>1. Extended(t, Now) \in Tracks'
      BY <1>7, <2>1
    <3>2. t \in active_tracks /\ t.current_step_index = Len(t.matched_events)
          /\ Len(t.matched_events) \in Nat
      BY <1>8, <2>1, TrackFacts DEF moved
    <3> DEFINE u == Extended(t, Now)
    <3>3. /\ u.chain = t.chain /\ Start(u) = Start(t)
          /\ u.current_step_index = Len(t.matched_events) + 1
          /\ \A i \in 1 .. t.current_step_index : u.matched_events[i] = t.matched_events[i]
      <4>1. /\ Len(u.matched_events) = Len(t.matched_events) + 1
            /\ u.current_step_index = Len(u.matched_events)
        BY <3>2, ExtendedFacts
      <4>2. u.matched_events = Append(t.matched_events, Now)
        BY DEF Extended
      <4>3. \A i \in 1 .. t.current_step_index : u.matched_events[i] = t.matched_events[i]
        BY <1>8, <3>2, <4>2, TrackFacts
      <4> QED
        BY <3>2, <4>1, <4>3, ExtendedFacts
    <3> HIDE DEF u
    <3>4. u.current_step_index >= t.current_step_index
      BY <3>2, <3>3
    <3> QED
      BY <3>1, <3>3, <3>4 DEF u
  <2>2. CASE t \notin moved
    BY <1>7, <1>8, <2>2, TrackFacts DEF Tracks
  <2> QED
    BY <2>1, <2>2
<1>9. CASE pos[k] # Now
  <2>1. \A i \in DOMAIN pos : pos[i] \in 1 .. Len(history)
    <3>1. ASSUME NEW i \in 1 .. k
          PROVE  pos[i] \in 1 .. Len(history)
      <4>1. i \in 1 .. k - 1 \/ i = k
        BY <1>5
      <4>2. pos[k] <= Len(history)
        BY <1>2, <1>5, <1>9
      <4> QED
        BY <1>2, <1>5, <1>6, <4>1, <4>2
    <3> QED
      BY <1>5, <3>1
  <2>2. pos \in Seq(1 .. Len(history))
    <3> DEFINE S == 1 .. Len(history)
    <3>1. pos \in [1 .. k -> S]
      BY <1>5, <2>1
    <3> HIDE DEF S
    <3>2. pos \in Seq(S)
      BY <1>5, <3>1
    <3> QED
      BY <3>2 DEF S
  <2>3. Occurrence(history, c, pos)
    BY <1>2, <1>3, <2>2, OccurrenceOfPrefix
  <2>4. PICK t \in Tracks : /\ t.chain = c /\ Start(t) = pos[1] /\ t.current_step_index >= k
                            /\ t.matched_events[k] <= pos[k]
    BY <1>2, <1>4, <1>5, <2>2, <2>3 DEF Greedy, Followed, k
  <2>5. PICK u \in Tracks' : /\ u.chain = t.chain /\ Start(u) = Start(t)
                             /\ u.current_step_index >= t.current_step_index
                             /\ \A i \in 1 .. t.current_step_index :
                                  u.matched_events[i] = t.matched_events[i]
    BY <1>8
  <2>6. u.current_step_index >= k /\ u.matched_events[k] <= pos[k]
    <3>1. t.current_step_index \in Nat /\ u.current_step_index \in Nat
      BY <2>4, <2>5 DEF IInv, TypeOK
    <3>2. u.current_step_index >= k /\ k \in 1 .. t.current_step_index
      BY <1>5, <2>4, <2>5, <3>1
    <3> QED
      BY <2>4, <2>5, <3>2
  <2> QED
    <3>1. u \in Tracks' /\ u.chain = c /\ Start(u) = pos[1]
      BY <2>4, <2>5
    <3> QED
      BY <2>6, <3>1 DEF Followed, Start, k
<1>10. CASE pos[k] = Now /\ k = 1
  <2>1. Fits(Chains[c].steps[1], e)
    BY <1>2, <1>3, <1>5, <1>10 DEF Occurrence, InOrder
  <2>2. NewTrack(c, Now) \in Tracks'
    BY <1>7, <2>1 DEF Begun, Now
  <2> QED
    <3> DEFINE u == NewTrack(c, Now)
    <3>1. u.chain = c /\ Start(u) = pos[1] /\ u.current_step_index >= k /\ u.matched_events[k] <= pos[k]
      BY <1>2, <1>10 DEF NewTrack, Start
    <3>2. u \in Tracks'
      BY <2>2
    <3> HIDE DEF u
    <3> QED
      BY <3>1, <3>2 DEF Followed, Start, k
<1>11. CASE pos[k] = Now /\ k # 1
  <2> DEFINE front == SubSeq(pos, 1, k - 1)
  <2>1. /\ front \in Seq(1 .. Now) /\ Len(front) = k - 1 /\ DOMAIN front = 1 .. k - 1
        /\ \A i \in 1 .. k - 1 : front[i] = pos[i]
        /\ k - 1 \in 1 .. Len(pos) /\ k - 1 \in 1 .. Len(Chains[c].steps)
    BY <1>5, <1>11 DEF k
  <2>2. Occurrence(history', c, front)
    BY <1>2, <1>3, <2>1, OccurrenceBegins
  <2> HIDE DEF front
  <2>3. front \in Seq(1 .. Len(history))
    <3> DEFINE S == 1 .. Len(history)
    <3>1. \A i \in 1 .. k - 1 : front[i] \in S
      BY <1>2, <1>5, <1>6, <1>11, <2>1
    <3>2. k - 1 \in Nat /\ front \in [1 .. k - 1 -> S]
      BY <2>1, <3>1
    <3> HIDE DEF S
    <3>3. front \in Seq(S)
      BY <3>2
    <3> QED
      BY <3>3 DEF S
  <2>4. Occurrence(history, c, front)
    BY <1>2, <2>2, <2>3, OccurrenceOfPrefix
  <2>5. PICK t \in Tracks : t.chain = c /\ Start(t) = pos[1] /\ t.current_step_index >= k - 1
    <3>1. Followed(c, front)
      BY <1>2, <1>4, <2>1, <2>3, <2>4 DEF Greedy
    <3>2. front[1] = pos[1]
      BY <2>1
    <3> QED
      BY <2>1, <3>1, <3>2 DEF Followed
  <2>6. CASE t.current_step_index >= k
    <3>1. PICK u \in Tracks' : /\ u.chain = t.chain /\ Start(u) = Start(t)
                               /\ u.current_step_index >= t.current_step_index
      BY <1>8
    <3>2. u.current_step_index >= k /\ u.matched_events[k] <= pos[k]
      <4>1. u.current_step_index >= k /\ k \in 1 .. Len(u.matched_events)
        BY <1>5, <2>6, <3>1, TrackFacts DEF IInv, TypeOK
      <4>2. u.matched_events \in Seq(1 .. Now)
        BY <1>2, <3>1 DEF IInv, TypeOK, TrackType, Tracks
      <4>3. u.matched_events[k] \in 1 .. Now
        <5> DEFINE ms == u.matched_events
        <5>1. ms \in Seq(1 .. Now) /\ k \in 1 .. Len(ms)
          BY <4>1, <4>2
        <5> HIDE DEF ms
        <5>2. ms[k] \in 1 .. Now
          BY <1>2, <5>1
        <5> QED
          BY <5>2 DEF ms
      <4> QED
        BY <1>2, <1>11, <4>1, <4>3
    <3> QED
      BY <2>5, <3>1, <3>2 DEF Followed, Start, k
  <2>7. CASE ~ (t.current_step_index >= k)
    <3>1. t.current_step_index = k - 1
      BY <1>5, <2>5, <2>7, TrackFacts
    <3>2. ~ Complete(t) /\ t \in active_tracks
      <4>1. StepsOf(t) = Chains[c].steps
        BY <2>5 DEF StepsOf
      <4>2. ~ Complete(t)
        BY <1>5, <3>1, <4>1 DEF Complete
      <4> QED
        BY <4>2 DEF IInv, AlertsAreComplete, Tracks
    <3>3. Fits(NextStep(t), e)
      <4>1. Fits(Chains[c].steps[k], history'[pos[k]])
        BY <1>3, <1>5 DEF Occurrence, InOrder
      <4>2. NextStep(t) = Chains[c].steps[k]
        BY <1>5, <2>5, <3>1 DEF NextStep, StepsOf
      <4> QED
        BY <1>2, <1>11, <4>1, <4>2
    <3>4. Related(process_tree', e, MatchedPids(t))
      <4> DEFINE q == history'[pos[1]].pid
      <4>1. process_tree' = TreeAfter(history', Now)
        BY <1>2, KnownTree DEF LineageInv, TreeIsLatest
      <4>2. AreEvents(history')
        BY HistoryOfEvents DEF IInv, TypeOK
      <4>3. InLine(history', pos)
        BY <1>3 DEF Occurrence, InLine
      <4>4. OnTheWayUp(TreeAfter(history', Now), history'[Now].pid, q)
        <5>1. k \in DOMAIN pos
          BY <1>5
        <5> QED
          BY <1>3, <1>6, <1>11, <4>2, <4>3, <5>1, AllFromFirst
      <4>5. pos[1] \in 1 .. Len(history) /\ q \in MatchedPids(t)
        <5>1. Start(t) \in 1 .. Len(history) /\ 1 \in DOMAIN t.matched_events
          BY TrackFacts
        <5> QED
          BY <1>2, <2>5, <5>1 DEF MatchedPids, Start
      <4>6. q \in Nat \ {0} /\ Now \in DOMAIN history'
        <5>1. pos[1] \in DOMAIN history'
          BY <1>2, <4>5
        <5> QED
          BY <1>2, <4>2, <5>1 DEF AreEvents, IsEvent
      <4> HIDE DEF q
      <4> QED
        BY <1>2, <1>3, <4>1, <4>2, <4>4, <4>5, <4>6, UpIsRelated
    <3>5. Extended(t, Now) \in Tracks'
      BY <1>7, <3>2, <3>3, <3>4 DEF moved, Continues
    <3>6. Extended(t, Now).current_step_index >= k /\ Extended(t, Now).matched_events[k] <= pos[k]
      <4>1. t.matched_events \in Seq(1 .. Len(history)) /\ Len(t.matched_events) = k - 1
        BY <3>1, TrackFacts
      <4>2. Extended(t, Now).matched_events[k] = Now
        BY <1>5, <4>1 DEF Extended
      <4>3. Extended(t, Now).current_step_index = k
        BY <1>5, <3>1 DEF Extended
      <4> QED
        BY <1>2, <1>5, <1>11, <4>2, <4>3
    <3> QED
      BY <2>5, <3>2, <3>5, <3>6, ExtendedFacts DEF Followed, Start, k
  <2> QED
    BY <2>6, <2>7
<1> QED
  BY <1>9, <1>10, <1>11

LEMMA ReceiveKeepsGreedy ==
  ASSUME IInv, LineageInv, Greedy, status = "running", NEW e \in EventSpace, Receive(e)
  PROVE  Greedy'
<1>1. IInv' /\ LineageInv'
  BY ReceiveKeepsIInv, ReceiveKeepsLineage
<1>2. CASE status' # "running"
  BY <1>2 DEF Greedy
<1>3. CASE status' = "running"
  <2>1. Ingest(e)
    BY <1>3 DEF Receive, IngestLoops, IngestRaises, Process
  <2> QED
    BY <1>1, <2>1, GreedyKept
<1> QED
  BY <1>2, <1>3

LEMMA GreedyStep ==
  IInv /\ LineageInv /\ Greedy /\ [Next]_vars => Greedy'
<1> SUFFICES ASSUME IInv, LineageInv, Greedy, [Next]_vars
             PROVE  Greedy'
  OBVIOUS
<1>1. CASE UNCHANGED vars
  BY <1>1 DEF vars, Greedy, Followed, Tracks
<1> QED
  BY <1>1, ReceiveKeepsGreedy DEF Next

LEMMA GreedyInit == Init => Greedy
<1>1. \A S, pos : S = {} /\ pos \in Seq(S) => Len(pos) = 0
  OBVIOUS
<1> QED
  BY <1>1 DEF Init, Greedy

LEMMA NothingIsMissed == Spec => []Greedy
BY GreedyInit, GreedyStep, LineageHolds, Invariance, PTL DEF Spec

----------------------------------------------------------------------------
(* The engine implements the detector *)

\* The detector's definitions are those of AttackChains.
LEMMA SameChains ==
  /\ Detection!Malformed(Chains) = Malformed(Chains)
  /\ \A evs : Detection!Cyclic(evs) <=> Cyclic(evs)
  /\ \A evs : Detection!StableParents(evs) <=> StableParents(evs)
  /\ \A evs, c : Detection!Positions(evs, c) = Positions(evs, c)
  /\ \A evs, c, pos : Detection!Occurrence(evs, c, pos) <=> Occurrence(evs, c, pos)
<1>1. \A evs, i, p : Detection!Names(evs, i, p) <=> Names(evs, i, p)
  BY DEF Detection!Names, Names
<1>2. \A evs, n : Detection!TreeAfter(evs, n) = TreeAfter(evs, n)
  BY DEF Detection!TreeAfter, TreeAfter, Detection!Names, Names
<1>3. \A tree, p, q : Detection!OnTheWayUp(tree, p, q) <=> OnTheWayUp(tree, p, q)
  BY DEF Detection!OnTheWayUp, OnTheWayUp, Detection!Range, Range
<1>4. \A p : Detection!IsPid(p) <=> IsPid(p)
  BY DEF Detection!IsPid, IsPid
<1>5. \A evs, n, m : Detection!InLineage(evs, n, m) <=> InLineage(evs, n, m)
  BY <1>2, <1>3, <1>4 DEF Detection!InLineage, InLineage
<1>6. \A step, e : Detection!Fits(step, e) <=> Fits(step, e)
  BY DEF Detection!Fits, Fits, Detection!ConditionsHold, Conditioned, Detection!Conditioned, ConditionsHold,
         Detection!FieldRejects, FieldRejects
<1>7. \A evs, c, pos : Detection!InOrder(evs, c, pos) <=> InOrder(evs, c, pos)
  BY <1>6 DEF Detection!InOrder, InOrder
<1>8. \A evs, c, pos : Detection!Occurrence(evs, c, pos) <=> Occurrence(evs, c, pos)
  BY <1>5, <1>7 DEF Detection!Occurrence, Occurrence
<1>9. Detection!Malformed(Chains) = Malformed(Chains)
  BY DEF Detection!Malformed, Malformed
<1>10. \A evs : Detection!Cyclic(evs) <=> Cyclic(evs)
  BY <1>2, <1>3 DEF Detection!Cyclic, Cyclic
<1>11. \A evs : Detection!StableParents(evs) <=> StableParents(evs)
  BY <1>2 DEF Detection!StableParents, StableParents
<1>12. \A evs, c : Detection!Positions(evs, c) = Positions(evs, c)
  BY DEF Detection!Positions, Positions
<1> QED
  BY <1>8, <1>9, <1>10, <1>11, <1>12

Reported == {[chain |-> t.chain, events |-> t.matched_events] : t \in alerts}

\* Alerts raised by this call end with the event it was called with.
LEMMA NewAlertsEndNow ==
  ASSUME IInv, NEW e \in EventSpace, Ingest(e), NEW t \in alerts' \ alerts
  PROVE  t.matched_events[Len(t.matched_events)] = Now
<1> DEFINE moved == {u \in active_tracks : Continues(Learn(process_tree, e), u, e)}
           after == {Extended(u, Now) : u \in moved} \cup Begun(DOMAIN Chains, e)
<1>1. t \in after
  BY DEF Ingest, Process, Now, Returned
<1>2. CASE t \in Begun(DOMAIN Chains, e)
  <2>1. t.matched_events = <<Now>>
    BY <1>2 DEF Begun, NewTrack, Now
  <2> QED
    BY <2>1
<1>3. ASSUME NEW u \in moved, t = Extended(u, Now)
      PROVE  t.matched_events[Len(t.matched_events)] = Now
  <2>1. /\ t.matched_events = Append(u.matched_events, Now)
        /\ u.matched_events \in Seq(1 .. Len(history))
    BY <1>3, ExtendedFacts, TrackFacts DEF Tracks
  <2> QED
    BY <2>1
<1> QED
  BY <1>1, <1>2, <1>3

LEMMA SoundCall ==
  ASSUME IInv, IInv', LineageInv', NEW e \in EventSpace, Ingest(e)
  PROVE  Detection!Sound(Reported', Reported, history')
<1>1. Len(history') = Now /\ DOMAIN history' = 1 .. Now /\ alerts \subseteq alerts'
  BY HistoryGrows DEF Ingest, Process
<1>2. ASSUME NEW r \in Reported' \ Reported
      PROVE  Detection!JustEnded(history', r.chain, r.events)
  <2>1. PICK t \in alerts' : r = [chain |-> t.chain, events |-> t.matched_events]
    BY DEF Reported
  <2>2. t \notin alerts
    BY <1>2, <2>1 DEF Reported
  <2>3. t.matched_events[Len(t.matched_events)] = Now
    BY <2>2, NewAlertsEndNow
  <2>4. /\ t.matched_events \in Seq(1 .. Now) /\ Len(t.matched_events) = Len(Chains[t.chain].steps)
        /\ Len(t.matched_events) \in Nat \ {0} /\ t \in Tracks'
    <3>1. t \in Tracks' /\ t \in TrackType' /\ (Complete(t))'
      BY DEF IInv, TypeOK, AlertsAreComplete, Tracks
    <3>2. t.matched_events \in Seq(1 .. Now) /\ t.chain \in DOMAIN Chains
      BY <1>1, <3>1 DEF TrackType
    <3>3. t.current_step_index = Len(t.matched_events) /\ t.current_step_index \in 1 .. Len(Chains[t.chain].steps)
      BY <3>1 DEF IInv, TypeOK, StepsOf
    <3> QED
      BY <3>1, <3>2, <3>3 DEF Complete, StepsOf
  <2>5. t.matched_events \in [1 .. Len(Chains[t.chain].steps) -> 1 .. Now] /\ t.matched_events # <<>>
    <3> DEFINE S == 1 .. Now
               m == t.matched_events
    <3>1. m \in Seq(S) /\ Len(m) = Len(Chains[t.chain].steps) /\ Len(m) # 0
      BY <2>4
    <3> SUFFICES m \in [1 .. Len(Chains[t.chain].steps) -> S] /\ m # <<>>
      OBVIOUS
    <3> HIDE DEF S, m
    <3> QED
      BY <3>1
  <2>6. Occurrence(history', t.chain, t.matched_events)
    BY <2>4 DEF IInv, LineageInv, StepsInOrder, Occurrence, InLine
  <2> QED
    BY <1>1, <2>1, <2>3, <2>5, <2>6, SameChains DEF Detection!JustEnded, Positions
<1>3. ASSUME NEW r \in Reported', NEW s \in Reported', r.chain = s.chain, r.events[1] = s.events[1]
      PROVE  r = s
  <2>1. PICK t \in alerts' : r = [chain |-> t.chain, events |-> t.matched_events]
    BY DEF Reported
  <2>2. PICK u \in alerts' : s = [chain |-> u.chain, events |-> u.matched_events]
    BY DEF Reported
  <2>3. t = u
    BY <1>3, <2>1, <2>2 DEF IInv, OneTrackPerStart, Tracks, Start
  <2> QED
    BY <2>1, <2>2, <2>3
<1> QED
  BY <1>2, <1>3 DEF Detection!Sound

LEMMA CompleteCall ==
  ASSUME IInv', Greedy', status' = "running", StableParents(history')
  PROVE  Detection!Complete(Reported', history')
<1> SUFFICES ASSUME NEW c \in DOMAIN Chains, Chains[c].steps # <<>>, NEW pos \in Positions(history', c),
                    Occurrence(history', c, pos)
             PROVE  \E r \in Reported' : r.chain = c /\ r.events[1] = pos[1]
  BY SameChains DEF Detection!Complete, Detection!JustEnded, Malformed
<1> DEFINE l == Len(Chains[c].steps)
           S == DOMAIN history'
<1>1. l \in Nat \ {0}
  BY ChainAssumption
<1>2. pos \in Seq(S) /\ Len(pos) = l
  <2>1. pos \in [1 .. l -> S]
    BY DEF Positions
  <2> HIDE DEF l, S
  <2> QED
    BY <1>1, <2>1
<1>3. PICK t \in Tracks' : t.chain = c /\ Start(t) = pos[1] /\ t.current_step_index >= l
  BY <1>1, <1>2 DEF Greedy, Followed, Start
<1>4. t.current_step_index = l
  BY <1>1, <1>3 DEF IInv, TypeOK, StepsOf
<1>5. t \in alerts'
  BY <1>3, <1>4 DEF IInv, AlertsAreComplete, Complete, StepsOf, Tracks
<1>6. [chain |-> t.chain, events |-> t.matched_events] \in Reported'
  BY <1>5 DEF Reported
<1> QED
  BY <1>3, <1>6 DEF Start

LEMMA LoopsOverCycles ==
  ASSUME IInv, IInv', LineageInv', NEW e \in EventSpace, IngestLoops(e)
  PROVE  Cyclic(history')
<1>1. PICK t \in active_tracks : Endless(process_tree', e)
  BY DEF IngestLoops, StuckTracks, Stuck, Process
<1>2. Len(history') = Now /\ DOMAIN history' = 1 .. Now /\ Now \in Nat
  BY HistoryGrows DEF IngestLoops, Process
<1>3. process_tree' = TreeAfter(history', Now)
  BY <1>2, KnownTree DEF LineageInv, TreeIsLatest
<1>4. AreEvents(history') /\ IsEvent(e)
  BY HistoryOfEvents, EventAssumption DEF IInv, TypeOK, IsEvent
<1>5. IsTree(process_tree') /\ IsFiniteSet(DOMAIN process_tree')
  BY <1>2, <1>3, <1>4, KnownParents
<1>6. \E p \in DOMAIN process_tree' : OnTheWayUp(process_tree', process_tree'[p], p)
  BY <1>1, <1>4, <1>5, EndlessIsCyclic
<1> QED
  BY <1>2, <1>3, <1>6 DEF Cyclic

LEMMA StepRefines ==
  IInv /\ LineageInv /\ Greedy /\ [Next]_vars => [Detection!Next]_(Detection!detector)
<1> SUFFICES ASSUME IInv, LineageInv, Greedy, [Next]_vars
             PROVE  [Detection!Next]_(Detection!detector)
  OBVIOUS
<1>1. IInv' /\ LineageInv' /\ Greedy'
  BY IInvStep, LineageStep, GreedyStep
<1>2. CASE UNCHANGED vars
  BY <1>2 DEF vars, Detection!detector
<1>3. ASSUME NEW e \in EventSpace, Ingest(e), status = "running"
      PROVE  Detection!Next
  <2>1. /\ history' = Append(history, e) /\ status' = "running" /\ alerts \subseteq alerts'
    BY <1>3 DEF Ingest, Process
  <2>2. Reported \subseteq Reported'
    BY <2>1 DEF Reported
  <2>3. Detection!Sound(Reported', Reported, history')
    BY <1>1, <1>3, SoundCall
  <2>4. Detection!StableParents(history') => Detection!Complete(Reported', history')
    BY <1>1, <2>1, CompleteCall, SameChains
  <2>5. Detection!Receive(e)
    BY <2>1, <2>2, <2>3, <2>4 DEF Detection!Receive, Reported
  <2> QED
    BY <1>3, <2>5 DEF Detection!Next
<1>4. ASSUME NEW e \in EventSpace, IngestLoops(e) \/ IngestRaises(e), status = "running"
      PROVE  Detection!Next
  <2>1. /\ history' = Append(history, e) /\ status' # "running" /\ alerts' = alerts
    BY <1>4 DEF IngestLoops, IngestRaises, Process, Returned
  <2>2. Cyclic(history') \/ Malformed(Chains) # {}
    BY <1>1, <1>4, LoopsOverCycles DEF IngestRaises
  <2>3. Detection!Break(e)
    BY <2>1, <2>2, SameChains DEF Detection!Break
  <2> QED
    BY <1>4, <2>3 DEF Detection!Next
<1> QED
  BY <1>2, <1>3, <1>4 DEF Next, Receive

\* The engine implements AttackDetection: whatever chains are loaded and
\* whatever is received, each call returns alerts for whole occurrences only,
\* at most one per first event, none is missing while parents are stable, and
\* a call fails to return only over a cycle of parents or a chain without steps.
THEOREM EngineDetects == Spec => DetectsAttacks
<1>1. Init => Detection!Init
  BY DEF Init, Detection!Init
<1> QED
  BY <1>1, LineageHolds, NothingIsMissed, StepRefines, Invariance, PTL
  DEF Spec, DetectsAttacks, Detection!Spec
=============================================================================
