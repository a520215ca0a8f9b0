--------------------------- MODULE UnionCutsProofs ---------------------------
(***************************************************************************)
(* Proofs about AlgoUnion for every set of graphs, ports and topological   *)
(* orders:                                                                 *)
(*   - what the calls of Union() share are cones, and what they hold grows *)
(*     around the vertex run() is at: every pattern kept is legal;         *)
(*   - no pattern is found for two vertices;                               *)
(*   - the calls share the extension points without using one twice, and   *)
(*     so cannot call each other for ever;                                 *)
(*   - run() misses no feasible upward cone of a vertex that is used.      *)
(*                                                                         *)
(* What is defined by recursion is reasoned about from the least number    *)
(* for which a claim fails: a walk along edges ends with a closed set, and *)
(* the cones of a vertex are built from those of earlier ones.             *)
(***************************************************************************)
EXTENDS UnionCuts, FiniteSetTheorems, SequenceTheorems, WellFoundedInduction, TLAPS

(***************************************************************************)
(* A set of numbers has a least one: the way to prove by induction here.   *)
(***************************************************************************)
LEMMA LeastElement ==
  ASSUME NEW T, T \subseteq Nat, T # {}
  PROVE  \E m \in T : \A k \in T : m <= k
<1>1. PICK m \in T : \A k \in T : ~(<<k, m>> \in OpToRel(<, Nat))
  BY NatLessThanWellFounded, WFMin
<1>2. \A k \in T : ~(k < m)
  BY <1>1 DEF OpToRel
<1> QED
  BY <1>2

(***************************************************************************)
(* Induction over the numbers that are not in a set T.                     *)
(***************************************************************************)
LEMMA NoExceptions ==
  ASSUME NEW T, T \subseteq Nat, 0 \notin T, \A k \in Nat : k + 1 \in T => k \in T
  PROVE  T = {}
<1> SUFFICES ASSUME T # {} PROVE FALSE
  OBVIOUS
<1>1. PICK m \in T : \A k \in T : m <= k
  BY LeastElement
<1>2. m \in Nat /\ m # 0
  OBVIOUS
<1>3. m - 1 \in Nat /\ (m - 1) + 1 = m
  BY <1>2
<1>4. m - 1 \in T
  BY <1>3
<1> QED
  BY <1>1, <1>2, <1>4

-----------------------------------------------------------------------------
(***************************************************************************)
(* A walk starts from a set of nodes and goes on from each set to the next *)
(* one, as the recursive functions of the model do.                        *)
(***************************************************************************)
IsWalk(w, N, S, F) ==
  w \in [Nat -> SUBSET N] /\ w[0] = S /\ \A k \in Nat : w[k + 1] = F[<<k + 1, w[k]>>]

UpTo(w, N, S, F, n) ==
  w \in [0..n -> SUBSET N] /\ w[0] = S /\ \A k \in 0..(n - 1) : w[k + 1] = F[<<k + 1, w[k]>>]

(***************************************************************************)
(* The first steps of a walk are determined by where it starts.            *)
(***************************************************************************)
LEMMA UpToIsUnique ==
  ASSUME NEW N, NEW S, NEW F, NEW m \in Nat, NEW n \in Nat, NEW v, NEW w, m <= n,
         UpTo(v, N, S, F, m), UpTo(w, N, S, F, n)
  PROVE  \A k \in 0..m : v[k] = w[k]
<1> DEFINE T == {k \in Nat : k <= m /\ v[k] # w[k]}
<1>1. T \subseteq Nat /\ 0 \notin T
  BY DEF UpTo
<1>2. ASSUME NEW k \in Nat, k + 1 \in T, k \notin T PROVE FALSE
  <2>1. k \in 0..(m - 1) /\ k \in 0..(n - 1) /\ v[k] = w[k]
    BY <1>2
  <2> QED
    BY <1>2, <2>1 DEF UpTo
<1>3. T = {}
  <2> HIDE DEF T
  <2> QED
    BY <1>1, <1>2, NoExceptions
<1> QED
  BY <1>3

(***************************************************************************)
(* A walk of n steps exists.                                               *)
(***************************************************************************)
LEMMA UpToExists ==
  ASSUME NEW N, NEW S \in SUBSET N, NEW F \in [Nat \X SUBSET N -> SUBSET N], NEW n \in Nat
  PROVE  \E w : UpTo(w, N, S, F, n)
<1> DEFINE T == {k \in Nat : ~ \E w : UpTo(w, N, S, F, k)}
<1>1. 0 \notin T
  <2>1. UpTo([i \in 0..0 |-> S], N, S, F, 0)
    BY DEF UpTo
  <2> QED
    BY <2>1
<1>2. ASSUME NEW k \in Nat, k \notin T PROVE k + 1 \notin T
  <2>1. PICK w : UpTo(w, N, S, F, k)
    BY <1>2
  <2> DEFINE x == F[<<k + 1, w[k]>>]
             u == [i \in 0..(k + 1) |-> IF i = k + 1 THEN x ELSE w[i]]
  <2>2. w[k] \in SUBSET N /\ x \in SUBSET N
    BY <2>1 DEF UpTo
  <2>3. \A i \in 0..(k + 1) : i = k + 1 \/ i \in 0..k
    OBVIOUS
  <2>4. u \in [0..(k + 1) -> SUBSET N]
    BY <2>1, <2>2, <2>3 DEF UpTo
  <2>5. u[0] = S
    BY <2>1 DEF UpTo
  <2>6. ASSUME NEW i \in 0..((k + 1) - 1) PROVE u[i + 1] = F[<<i + 1, u[i]>>]
    <3>1. u[i] = w[i] /\ i \in 0..(k + 1)
      OBVIOUS
    <3>2. CASE i = k
      <4>1. u[k + 1] = x
        OBVIOUS
      <4>2. u[k] = w[k]
        BY <3>1, <3>2
      <4> QED
        BY <3>2, <4>1, <4>2
    <3>3. CASE i # k
      <4>1. i \in 0..(k - 1) /\ i + 1 \in 0..k /\ i + 1 # k + 1
        BY <3>3
      <4>2. u[i + 1] = w[i + 1]
        BY <4>1
      <4> QED
        BY <2>1, <3>1, <4>1, <4>2 DEF UpTo
    <3> QED
      BY <3>2, <3>3
  <2>7. UpTo(u, N, S, F, k + 1)
    <3> HIDE DEF u
    <3> QED
      BY <2>4, <2>5, <2>6 DEF UpTo
  <2> QED
    BY <2>7
<1>3. T = {}
  <2>1. T \subseteq Nat
    OBVIOUS
  <2> HIDE DEF T
  <2> QED
    BY <1>1, <1>2, <2>1, NoExceptions
<1> QED
  BY <1>3

(***************************************************************************)
(* An endless walk exists: it agrees with the walks of n steps.            *)
(***************************************************************************)
LEMMA WalkExists ==
  ASSUME NEW N, NEW S \in SUBSET N, NEW F \in [Nat \X SUBSET N -> SUBSET N]
  PROVE  \E w : IsWalk(w, N, S, F)
<1> DEFINE u(n) == CHOOSE w : UpTo(w, N, S, F, n)
           w == [n \in Nat |-> u(n)[n]]
<1>1. \A n \in Nat : UpTo(u(n), N, S, F, n)
  BY UpToExists
<1> HIDE DEF u
<1>2. w \in [Nat -> SUBSET N] /\ w[0] = S
  <2>1. \A n \in Nat : u(n)[n] \in SUBSET N
    BY <1>1 DEF UpTo
  <2>2. u(0)[0] = S
    BY <1>1 DEF UpTo
  <2> QED
    BY <2>1, <2>2
<1>3. ASSUME NEW k \in Nat PROVE w[k + 1] = F[<<k + 1, w[k]>>]
  <2>1. \A i \in 0..k : u(k)[i] = u(k + 1)[i]
    BY <1>1, UpToIsUnique
  <2>2. u(k + 1)[k + 1] = F[<<k + 1, u(k + 1)[k]>>]
    <3>1. UpTo(u(k + 1), N, S, F, k + 1) /\ k \in 0..((k + 1) - 1)
      BY <1>1
    <3> QED
      BY <3>1 DEF UpTo
  <2>3. w[k + 1] = u(k + 1)[k + 1] /\ w[k] = u(k)[k]
    OBVIOUS
  <2> QED
    BY <2>1, <2>2, <2>3
<1>4. IsWalk(w, N, S, F)
  <2> HIDE DEF w
  <2> QED
    BY <1>2, <1>3 DEF IsWalk
<1> QED
  BY <1>4

(***************************************************************************)
(* Where no step loses a node and the number of the step does not matter,  *)
(* a walk has nowhere to go after as many steps as there are nodes.        *)
(***************************************************************************)
LEMMA WalkEnds ==
  ASSUME NEW N, IsFiniteSet(N), NEW w \in [Nat -> SUBSET N],
         \A k \in Nat : w[k] \subseteq w[k + 1],
         \A j, k \in Nat : w[j] = w[k] => w[j + 1] = w[k + 1]
  PROVE  w[Cardinality(N) + 1] = w[Cardinality(N)]
<1> DEFINE n == Cardinality(N)
<1>1. n \in Nat /\ \A k \in Nat : IsFiniteSet(w[k]) /\ Cardinality(w[k]) \in Nat
  BY FS_CardinalityType, FS_Subset
<1>2. ASSUME NEW m \in Nat, m <= n, w[m + 1] = w[m] PROVE w[n + 1] = w[n]
  <2> DEFINE T == {k \in Nat : w[m + k + 1] # w[m + k]}
  <2>1. T \subseteq Nat /\ 0 \notin T
    BY <1>2
  <2>2. ASSUME NEW k \in Nat, k \notin T PROVE k + 1 \notin T
    <3>1. w[m + k + 1] = w[m + k] /\ m + k \in Nat
      BY <2>2
    <3>2. w[(m + k + 1) + 1] = w[(m + k) + 1]
      BY <3>1
    <3>3. m + (k + 1) + 1 = (m + k + 1) + 1 /\ m + (k + 1) = (m + k) + 1
      OBVIOUS
    <3> QED
      BY <3>2, <3>3
  <2>3. T = {}
    <3> HIDE DEF T
    <3> QED
      BY <2>1, <2>2, NoExceptions
  <2>4. n - m \in Nat /\ m + (n - m) = n /\ n - m \notin T
    BY <1>1, <1>2, <2>3
  <2>5. w[m + (n - m) + 1] = w[m + (n - m)]
    BY <2>4
  <2> QED
    BY <2>4, <2>5
<1>3. ASSUME \A m \in Nat : m <= n => w[m + 1] # w[m] PROVE FALSE
  <2> DEFINE T == {k \in Nat : k <= n + 1 /\ ~(Cardinality(w[k]) >= k)}
  <2>1. T \subseteq Nat /\ 0 \notin T
    BY <1>1
  <2>2. ASSUME NEW k \in Nat, k + 1 \in T PROVE k \in T
    <3>1. k <= n /\ w[k + 1] # w[k] /\ w[k] \subseteq w[k + 1]
      BY <1>1, <1>3, <2>2
    <3>2. Cardinality(w[k]) <= Cardinality(w[k + 1]) /\ Cardinality(w[k]) # Cardinality(w[k + 1])
      BY <1>1, <3>1, FS_Subset
    <3> QED
      BY <1>1, <2>2, <3>1, <3>2
  <2>3. T = {}
    <3> HIDE DEF T
    <3> QED
      BY <2>1, <2>2, NoExceptions
  <2>4. Cardinality(w[n + 1]) >= n + 1
    BY <1>1, <2>3
  <2>5. Cardinality(w[n + 1]) <= n
    BY <1>1, FS_Subset
  <2> QED
    BY <1>1, <2>4, <2>5
<1> QED
  BY <1>2, <1>3

(***************************************************************************)
(* Such a walk, one that depends on the set alone, ends with the least set *)
(* that has the first one and that no step leaves.                         *)
(***************************************************************************)
Inflates(G, N) ==
  G \in [SUBSET N -> SUBSET N] /\ \A X \in SUBSET N : X \subseteq G[X]

Follows(w, N, S, G) ==
  w \in [Nat -> SUBSET N] /\ w[0] = S /\ \A k \in Nat : w[k + 1] = G[w[k]]

IsClosure(D, N, S, G) ==
  /\ D \in SUBSET N /\ S \subseteq D /\ G[D] = D
  /\ \A T : S \subseteq T /\ (\A X \in SUBSET N : X \subseteq T => G[X] \subseteq T) => D \subseteq T

(***************************************************************************)
(* Where such a walk ends is the closure of its first set.                 *)
(***************************************************************************)
LEMMA WalkCloses ==
  ASSUME NEW N, IsFiniteSet(N), NEW S \in SUBSET N, NEW G, Inflates(G, N),
         NEW w, Follows(w, N, S, G)
  PROVE  IsClosure(w[Cardinality(N)], N, S, G)
<1> USE DEF Inflates, Follows, IsClosure
<1> DEFINE n == Cardinality(N)
<1>1. n \in Nat
  BY FS_CardinalityType
<1>2. \A k \in Nat : w[k] \subseteq w[k + 1]
  OBVIOUS
<1>3. w[n + 1] = w[n]
  <2>1. \A j, k \in Nat : w[j] = w[k] => w[j + 1] = w[k + 1]
    OBVIOUS
  <2> QED
    BY <1>2, <2>1, WalkEnds
<1>4. S \subseteq w[n]
  <2> DEFINE T == {k \in Nat : ~(S \subseteq w[k])}
  <2>1. T \subseteq Nat /\ 0 \notin T /\ \A k \in Nat : k + 1 \in T => k \in T
    BY <1>2
  <2>2. T = {}
    <3> HIDE DEF T
    <3> QED
      BY <2>1, NoExceptions
  <2> QED
    BY <1>1, <2>2
<1>5. ASSUME NEW U, S \subseteq U, \A X \in SUBSET N : X \subseteq U => G[X] \subseteq U
      PROVE  w[n] \subseteq U
  <2> DEFINE T == {k \in Nat : ~(w[k] \subseteq U)}
  <2>1. T \subseteq Nat /\ 0 \notin T
    BY <1>5
  <2>2. ASSUME NEW k \in Nat, k + 1 \in T PROVE k \in T
    <3>1. w[k] \in SUBSET N /\ w[k + 1] = G[w[k]]
      OBVIOUS
    <3> QED
      BY <1>5, <2>2, <3>1
  <2>3. T = {}
    <3> HIDE DEF T
    <3> QED
      BY <2>1, <2>2, NoExceptions
  <2> QED
    BY <1>1, <2>3
<1> QED
  BY <1>1, <1>3, <1>4, <1>5

(***************************************************************************)
(* What is meant by the end points of the edges of a graph.                *)
(***************************************************************************)
IsFiniteGraph(g) ==
  IsFiniteSet(g.node) /\ \A e \in g.edge : g.src[e] \in g.node /\ g.dst[e] \in g.node

(***************************************************************************)
(* Descendants is the least set that has S and that no edge leaves.        *)
(***************************************************************************)
LEMMA DescendantsFacts ==
  ASSUME NEW g, IsFiniteGraph(g), NEW S \in SUBSET g.node
  PROVE  /\ Descendants(g, S) \in SUBSET g.node
         /\ S \subseteq Descendants(g, S)
         /\ \A e \in g.edge : g.src[e] \in Descendants(g, S) => g.dst[e] \in Descendants(g, S)
         /\ \A T : S \subseteq T /\ (\A e \in g.edge : g.src[e] \in T => g.dst[e] \in T)
                   => Descendants(g, S) \subseteq T
<1> DEFINE N == g.node
           next(X) == X \cup {g.dst[e] : e \in {f \in g.edge : g.src[f] \in X}}
           G == [X \in SUBSET N |-> next(X)]
           F == [p \in Nat \X SUBSET N |-> next(p[2])]
           eq(w) == w = [k \in Nat |-> IF k = 0 THEN S ELSE next(w[k - 1])]
           w == CHOOSE u : eq(u)
<1>1. \A X \in SUBSET N : next(X) \in SUBSET N /\ X \subseteq next(X)
  BY DEF IsFiniteGraph
<1>2. Descendants(g, S) = w[Cardinality(N)]
  BY DEF Descendants
<1> HIDE DEF next
<1>3. \E u : eq(u)
  <2>1. F \in [Nat \X SUBSET N -> SUBSET N]
    BY <1>1
  <2>2. PICK u : IsWalk(u, N, S, F)
    <3> HIDE DEF F
    <3> QED
      BY <2>1, WalkExists
  <2>3. u \in [Nat -> SUBSET N] /\ u[0] = S
    BY <2>2 DEF IsWalk
  <2>4. ASSUME NEW k \in Nat, k # 0 PROVE u[k] = next(u[k - 1])
    <3>1. k - 1 \in Nat /\ (k - 1) + 1 = k
      BY <2>4
    <3>2. u[(k - 1) + 1] = F[<<(k - 1) + 1, u[k - 1]>>]
      BY <2>2, <3>1 DEF IsWalk
    <3>3. <<k, u[k - 1]>> \in Nat \X SUBSET N
      BY <2>3, <3>1
    <3> QED
      BY <3>1, <3>2, <3>3
  <2>5. eq(u)
    BY <2>3, <2>4
  <2> QED
    BY <2>5
<1>4. eq(w)
  <2> HIDE DEF eq
  <2> QED
    BY <1>3
<1> HIDE DEF w
<1>5. w[0] = S /\ \A k \in Nat : w[k + 1] = next(w[k])
  <2>1. w[0] = S
    BY <1>4
  <2>2. ASSUME NEW k \in Nat PROVE w[k + 1] = next(w[k])
    <3>1. k + 1 \in Nat /\ k + 1 # 0 /\ (k + 1) - 1 = k
      OBVIOUS
    <3> QED
      BY <1>4, <3>1
  <2> QED
    BY <2>1, <2>2
<1>6. w \in [Nat -> SUBSET N]
  <2> DEFINE T == {k \in Nat : ~(w[k] \in SUBSET N)}
  <2>1. T \subseteq Nat /\ 0 \notin T /\ \A k \in Nat : k + 1 \in T => k \in T
    BY <1>1, <1>5
  <2>2. T = {}
    <3> HIDE DEF T
    <3> QED
      BY <2>1, NoExceptions
  <2>3. DOMAIN w = Nat /\ w = [k \in DOMAIN w |-> w[k]]
    BY <1>4
  <2> QED
    BY <2>2, <2>3
<1>7. Inflates(G, N)
  BY <1>1 DEF Inflates
<1>8. Follows(w, N, S, G)
  BY <1>5, <1>6 DEF Follows
<1>9. IsFiniteSet(N)
  BY DEF IsFiniteGraph
<1>10. IsClosure(w[Cardinality(N)], N, S, G)
  <2> HIDE DEF G, N, eq
  <2>1. S \in SUBSET N
    BY DEF N
  <2> QED
    BY <1>7, <1>8, <1>9, <2>1, WalkCloses
<1>11. next(w[Cardinality(N)]) = w[Cardinality(N)]
  BY <1>10 DEF IsClosure
<1>12. ASSUME NEW T, \A e \in g.edge : g.src[e] \in T => g.dst[e] \in T
       PROVE  \A X \in SUBSET N : X \subseteq T => G[X] \subseteq T
  BY <1>12 DEF next
<1>13. ASSUME NEW e \in g.edge, g.src[e] \in w[Cardinality(N)]
       PROVE  g.dst[e] \in w[Cardinality(N)]
  BY <1>11, <1>13 DEF next
<1>14. ASSUME NEW T, S \subseteq T, \A e \in g.edge : g.src[e] \in T => g.dst[e] \in T
       PROVE  w[Cardinality(N)] \subseteq T
  <2>1. \A X \in SUBSET N : X \subseteq T => G[X] \subseteq T
    BY <1>12, <1>14
  <2> HIDE DEF G, N
  <2> QED
    BY <1>10, <1>14, <2>1 DEF IsClosure
<1> HIDE DEF G, F, eq
<1> QED
  BY <1>2, <1>10, <1>13, <1>14 DEF IsClosure

-----------------------------------------------------------------------------
(***************************************************************************)
(* The product of sets of patterns as a set: a member of base joined with  *)
(* a choice f of cones, one for each vertex.                               *)
(***************************************************************************)
ConeChoices(s, cones) ==
  {f \in [s -> UNION {cones[u] : u \in s}] : \A u \in s : f[u] \in cones[u]}

Joins(base, s, cones) ==
  {a \cup UNION {f[u] : u \in s} : a \in base, f \in ConeChoices(s, cones)}

JoinOne(X, cones, x) == {a \cup b : a \in X, b \in cones[x]}

(***************************************************************************)
(* A member of a product with the cones of one vertex, taken apart.        *)
(***************************************************************************)
LEMMA JoinOneMember ==
  ASSUME NEW X, NEW cones, NEW x, NEW t \in JoinOne(X, cones, x)
  PROVE  \E a \in X, b \in cones[x] : t = a \cup b
BY DEF JoinOne

(***************************************************************************)
(* A member of a product, taken apart.                                     *)
(***************************************************************************)
LEMMA JoinsMember ==
  ASSUME NEW base, NEW s, NEW cones, NEW t \in Joins(base, s, cones)
  PROVE  \E a \in base, f \in ConeChoices(s, cones) : t = a \cup UNION {f[u] : u \in s}
BY DEF Joins

(***************************************************************************)
(* The product with the cones of no vertex is the base.                    *)
(***************************************************************************)
LEMMA JoinsOfNone ==
  ASSUME NEW base, NEW cones
  PROVE  Joins(base, {}, cones) = base
<1>1. \E f : f \in ConeChoices({}, cones)
  <2>1. [u \in {} |-> u] \in ConeChoices({}, cones)
    BY DEF ConeChoices
  <2> QED
    BY <2>1
<1>2. \A a, f : a \cup UNION {f[u] : u \in {}} = a
  OBVIOUS
<1> QED
  BY <1>1, <1>2 DEF Joins

(***************************************************************************)
(* The product with the cones of s is that with the cones of one vertex    *)
(* less, joined with those of this vertex.                                 *)
(***************************************************************************)
LEMMA JoinsOfMore ==
  ASSUME NEW base, NEW cones, NEW s, NEW x \in s
  PROVE  Joins(base, s, cones) = JoinOne(Joins(base, s \ {x}, cones), cones, x)
<1> DEFINE r == s \ {x}
<1>1. ASSUME NEW t \in Joins(base, s, cones) PROVE t \in JoinOne(Joins(base, r, cones), cones, x)
  <2>1. PICK a \in base, f \in ConeChoices(s, cones) : t = a \cup UNION {f[u] : u \in s}
    BY <1>1 DEF Joins
  <2> DEFINE h == [u \in r |-> f[u]]
  <2>2. \A u \in s : f[u] \in cones[u]
    BY <2>1 DEF ConeChoices
  <2>3. h \in ConeChoices(r, cones)
    <3>1. \A u \in r : h[u] \in cones[u] /\ h[u] \in UNION {cones[v] : v \in r}
      BY <2>2
    <3> QED
      BY <3>1 DEF ConeChoices
  <2>4. t = (a \cup UNION {h[u] : u \in r}) \cup f[x]
    BY <2>1
  <2>5. a \cup UNION {h[u] : u \in r} \in Joins(base, r, cones)
    BY <2>1, <2>3 DEF Joins
  <2> QED
    BY <2>2, <2>4, <2>5 DEF JoinOne
<1>2. ASSUME NEW t \in JoinOne(Joins(base, r, cones), cones, x) PROVE t \in Joins(base, s, cones)
  <2>1. PICK a \in base, h \in ConeChoices(r, cones), b \in cones[x] :
               t = (a \cup UNION {h[u] : u \in r}) \cup b
    <3>1. PICK c \in Joins(base, r, cones), b \in cones[x] : t = c \cup b
      BY <1>2, JoinOneMember
    <3>2. PICK a \in base, h \in ConeChoices(r, cones) : c = a \cup UNION {h[u] : u \in r}
      BY <3>1, JoinsMember
    <3> QED
      BY <3>1, <3>2
  <2> DEFINE f == [u \in s |-> IF u = x THEN b ELSE h[u]]
  <2>2. \A u \in r : h[u] \in cones[u] /\ u # x
    BY <2>1 DEF ConeChoices
  <2>3. f \in ConeChoices(s, cones)
    <3>1. \A u \in s : f[u] \in cones[u] /\ f[u] \in UNION {cones[v] : v \in s}
      BY <2>1, <2>2
    <3> QED
      BY <3>1 DEF ConeChoices
  <2>4. f[x] = b /\ \A u \in r : f[u] = h[u]
    BY <2>2
  <2>5. UNION {f[u] : u \in s} = b \cup UNION {h[u] : u \in r}
    <3> HIDE DEF f
    <3>1. ASSUME NEW y, y \in UNION {f[u] : u \in s} PROVE y \in b \cup UNION {h[u] : u \in r}
      <4>1. PICK u \in s : y \in f[u]
        BY <3>1
      <4>2. u = x \/ u \in r
        OBVIOUS
      <4>3. u = x => y \in b
        BY <2>4, <4>1
      <4>4. u \in r => y \in UNION {h[v] : v \in r}
        <5> HIDE DEF r
        <5> QED
          BY <2>4, <4>1
      <4> QED
        BY <4>2, <4>3, <4>4
    <3>2. ASSUME NEW y, y \in b \cup UNION {h[u] : u \in r} PROVE y \in UNION {f[u] : u \in s}
      <4>1. CASE y \in b
        BY <2>4, <4>1
      <4>2. CASE y \in UNION {h[v] : v \in r}
        <5>1. PICK v \in r : y \in h[v]
          BY <4>2
        <5>2. v \in s /\ y \in f[v]
          BY <2>4, <5>1
        <5> QED
          BY <5>2
      <4> QED
        BY <3>2, <4>1, <4>2
    <3> QED
      BY <3>1, <3>2
  <2>6. t = a \cup UNION {f[u] : u \in s}
    BY <2>1, <2>5
  <2> HIDE DEF f
  <2> QED
    BY <2>3, <2>6 DEF Joins
<1> QED
  BY <1>1, <1>2

(***************************************************************************)
(* Product, a fold over the vertices of S, is the set of all joins,        *)
(* whatever the order of the fold.                                         *)
(***************************************************************************)
LEMMA ProductIsJoins ==
  ASSUME NEW base, NEW S, IsFiniteSet(S), NEW cones
  PROVE  Product(base, S, cones) = Joins(base, S, cones)
<1> DEFINE any(s) == CHOOSE x \in s : TRUE
           eq(w) == w = [s \in SUBSET S |-> IF s = {} THEN base
                                            ELSE JoinOne(w[s \ {any(s)}], cones, any(s))]
           w == CHOOSE w : eq(w)
           j == [s \in SUBSET S |-> Joins(base, s, cones)]
<1>1. Product(base, S, cones) = w[S]
  BY DEF Product, FoldSet, MapThenFoldSet, JoinOne
<1>2. \A s : s # {} => any(s) \in s
  OBVIOUS
<1> HIDE DEF any
<1>3. eq(j)
  <2>1. ASSUME NEW s \in SUBSET S, s # {} PROVE j[s] = JoinOne(j[s \ {any(s)}], cones, any(s))
    <3>1. s \ {any(s)} \in SUBSET S /\ any(s) \in s
      BY <1>2, <2>1
    <3> QED
      BY <3>1, JoinsOfMore
  <2>2. j[{}] = base
    BY JoinsOfNone
  <2>3. j = [s \in SUBSET S |-> IF s = {} THEN base ELSE JoinOne(j[s \ {any(s)}], cones, any(s))]
    BY <2>1, <2>2
  <2> QED
    BY <2>3
<1>4. eq(w)
  <2> HIDE DEF eq, j
  <2> QED
    BY <1>3
<1> HIDE DEF w, j
<1>5. \A s \in SUBSET S : w[s] = j[s]
  <2> DEFINE T == {s \in SUBSET S : w[s] # j[s]}
  <2> SUFFICES ASSUME T # {} PROVE FALSE
    OBVIOUS
  <2>1. PICK s \in T : \A t \in T : <<t, s>> \notin StrictSubsetOrdering(S)
    <3>1. IsWellFoundedOn(StrictSubsetOrdering(S), SUBSET S)
      BY FS_StrictSubsetOrderingWellFounded, FS_FiniteSubsetsOfFinite
    <3> QED
      BY <3>1, WFMin
  <2>2. s # {} /\ any(s) \in s
    BY <1>2, <1>3, <1>4
  <2>3. s \ {any(s)} \notin T
    <3>1. s \ {any(s)} \in SUBSET S /\ s \ {any(s)} # s
      BY <2>2
    <3> QED
      BY <2>1, <3>1 DEF StrictSubsetOrdering
  <2>4. w[s \ {any(s)}] = j[s \ {any(s)}]
    BY <2>3
  <2> QED
    BY <1>3, <1>4, <2>2, <2>4
<1> QED
  BY <1>1, <1>5 DEF j

-----------------------------------------------------------------------------
(***************************************************************************)
(* The graph and its order.                                                *)
(***************************************************************************)
GraphInv ==
  IsDFG(dfg) /\ Node = 1..Cardinality(Node) /\ IsReverseTopologicalSort(dfg, topo)

(***************************************************************************)
(* Neighbours are vertices, and are those at the other end of an edge.     *)
(***************************************************************************)
LEMMA GraphFacts ==
  ASSUME GraphInv
  PROVE  /\ IsFiniteSet(Node) /\ Cardinality(Node) \in Nat /\ Node \subseteq Nat
         /\ \A v : Preds(v) \subseteq Node /\ Succs(v) \subseteq Node
         /\ \A u, v \in Node : u \in Preds(v) <=> v \in Succs(u)
         /\ \A e \in dfg.edge : dfg.src[e] \in Node /\ dfg.dst[e] \in Node
         /\ \A e \in dfg.edge : dfg.dst[e] \in Succs(dfg.src[e]) /\ dfg.src[e] \in Preds(dfg.dst[e])
         /\ \A u \in Node : \A v \in Succs(u) : \E e \in dfg.edge : dfg.src[e] = u /\ dfg.dst[e] = v
<1>1. IsFiniteSet(Node) /\ Cardinality(Node) \in Nat /\ Node \subseteq Nat
  <2>1. IsFiniteSet(Node) /\ Node = 1..Cardinality(Node)
    BY DEF GraphInv, IsDFG, Node
  <2>2. Cardinality(Node) \in Nat
    BY <2>1, FS_CardinalityType
  <2> QED
    BY <2>1, <2>2
<1>2. \A e \in dfg.edge : dfg.src[e] \in Node /\ dfg.dst[e] \in Node
  BY DEF GraphInv, IsDFG, Node
<1> QED
  BY <1>1, <1>2 DEF Preds, Succs, InVertices, OutVertices, InEdges, OutEdges

(***************************************************************************)
(* Every vertex has one position in topo, users before operands.           *)
(***************************************************************************)
LEMMA TopoFacts ==
  ASSUME GraphInv
  PROVE  /\ Len(topo) \in Nat /\ DOMAIN topo = 1..Len(topo)
         /\ \A i \in DOMAIN topo : topo[i] \in Node /\ topoVector(topo[i]) = i
         /\ \A v \in Node : topoVector(v) \in DOMAIN topo /\ topo[topoVector(v)] = v
         /\ \A v \in Node : \A u \in Succs(v) : topoVector(u) < topoVector(v)
         /\ \A v \in Node : \A u \in Preds(v) : topoVector(v) < topoVector(u)
<1>1. topo \in Seq(Node) /\ Len(topo) \in Nat /\ DOMAIN topo = 1..Len(topo)
  BY DEF GraphInv, IsReverseTopologicalSort, Node
<1>2. /\ \A i, j \in DOMAIN topo : i < j => topo[i] # topo[j]
      /\ \A v \in Node : \E i \in DOMAIN topo : topo[i] = v
      /\ \A i, j \in DOMAIN topo : i <= j => topo[j] \notin Succs(topo[i])
  BY DEF GraphInv, IsReverseTopologicalSort, Node, Succs
<1>3. \A i \in DOMAIN topo : topo[i] \in Node
  BY <1>1
<1>4. \A v \in Node : topoVector(v) \in DOMAIN topo /\ topo[topoVector(v)] = v
  BY <1>2 DEF topoVector
<1>5. \A i, j \in DOMAIN topo : topo[i] = topo[j] => i = j
  BY <1>1, <1>2
<1>6. \A i \in DOMAIN topo : topoVector(topo[i]) = i
  BY <1>3, <1>4, <1>5
<1>7. ASSUME NEW v \in Node, NEW u \in Succs(v) PROVE topoVector(u) < topoVector(v)
  <2>1. u \in Node
    BY <1>7, GraphFacts
  <2> QED
    BY <1>1, <1>2, <1>4, <1>7, <2>1
<1>8. ASSUME NEW v \in Node, NEW u \in Preds(v) PROVE topoVector(v) < topoVector(u)
  BY <1>7, <1>8, GraphFacts
<1> QED
  BY <1>1, <1>3, <1>4, <1>6, <1>7, <1>8

(***************************************************************************)
(* A single vertex is convex: it does not lead to itself.                  *)
(***************************************************************************)
LEMMA OneIsConvex ==
  ASSUME GraphInv, NEW v \in Node
  PROVE  isConvex({v})
<1> SUFFICES ASSUME NEW t \in Succs(v), v \in Succs(t) PROVE FALSE
  BY DEF isConvex
<1>1. t \in Node
  BY GraphFacts
<1>2. topoVector(t) < topoVector(v) /\ topoVector(v) < topoVector(t)
  BY <1>1, TopoFacts
<1>3. topoVector(t) \in Nat /\ topoVector(v) \in Nat
  BY <1>1, TopoFacts
<1> QED
  BY <1>2, <1>3

-----------------------------------------------------------------------------
(***************************************************************************)
(* What leads to what inside a set C of vertices, said of the subsets that *)
(* no edge inside C leaves, or enters.                                     *)
(***************************************************************************)
ClosedDown(T, C) == \A x \in T : Succs(x) \cap C \subseteq T
ClosedUp(T, C)   == \A x \in T : Preds(x) \cap C \subseteq T

LeadsTo(C, v) == \A T \in SUBSET C : T # {} /\ ClosedDown(T, C) => v \in T
LedFrom(C, v) == \A T \in SUBSET C : T # {} /\ ClosedUp(T, C) => v \in T
HangsTogether(C) ==
  \A T \in SUBSET C : T # {} /\ ClosedDown(T, C) /\ ClosedUp(T, C) => T = C

(***************************************************************************)
(* What no edge leaves and what no edge enters are complements.            *)
(***************************************************************************)
LEMMA Complement ==
  ASSUME GraphInv, NEW C \in SUBSET Node, NEW T \in SUBSET C
  PROVE  /\ ClosedDown(T, C) => ClosedUp(C \ T, C)
         /\ ClosedUp(T, C) => ClosedDown(C \ T, C)
BY GraphFacts DEF ClosedDown, ClosedUp

(***************************************************************************)
(* A cone hangs together: its vertex is on one side of any split.          *)
(***************************************************************************)
LEMMA ConesHangTogether ==
  ASSUME GraphInv, NEW C \in SUBSET Node, NEW v \in C, LeadsTo(C, v) \/ LedFrom(C, v)
  PROVE  HangsTogether(C)
<1> SUFFICES ASSUME NEW T \in SUBSET C, T # {}, ClosedDown(T, C), ClosedUp(T, C), T # C
             PROVE  FALSE
  BY DEF HangsTogether
<1>1. C \ T \in SUBSET C /\ C \ T # {} /\ ClosedUp(C \ T, C) /\ ClosedDown(C \ T, C)
  BY Complement
<1> QED
  BY <1>1 DEF LeadsTo, LedFrom

(***************************************************************************)
(* Edges inside C, as the graph Within(C) has them.                        *)
(***************************************************************************)
LEMMA WithinFacts ==
  ASSUME GraphInv, NEW C \in SUBSET Node
  PROVE  /\ IsFiniteGraph(Within(C)) /\ Within(C).node = Node
         /\ \A T \in SUBSET C :
              (\A e \in Within(C).edge : Within(C).src[e] \in T => Within(C).dst[e] \in T)
                <=> ClosedDown(T, C)
<1>1. /\ Within(C).node = Node /\ Within(C).src = dfg.src /\ Within(C).dst = dfg.dst
      /\ Within(C).edge = {e \in dfg.edge : dfg.src[e] \in C /\ dfg.dst[e] \in C}
  BY DEF Within, Node, GraphInv, IsDFG
<1>2. IsFiniteGraph(Within(C))
  BY <1>1, GraphFacts DEF IsFiniteGraph
<1> QED
  BY <1>1, <1>2, GraphFacts DEF ClosedDown

(***************************************************************************)
(* What u leads to inside C is the least set with u that no edge inside C  *)
(* leaves.                                                                 *)
(***************************************************************************)
LEMMA DescendantsWithin ==
  ASSUME GraphInv, NEW C \in SUBSET Node, NEW u \in C
  PROVE  /\ Descendants(Within(C), {u}) \in SUBSET C /\ u \in Descendants(Within(C), {u})
         /\ ClosedDown(Descendants(Within(C), {u}), C)
         /\ \A T \in SUBSET C : u \in T /\ ClosedDown(T, C) => Descendants(Within(C), {u}) \subseteq T
<1> DEFINE g == Within(C)
           D == Descendants(g, {u})
<1>1. IsFiniteGraph(g) /\ {u} \in SUBSET g.node
  BY WithinFacts
<1>2. /\ D \in SUBSET g.node /\ {u} \subseteq D
      /\ \A e \in g.edge : g.src[e] \in D => g.dst[e] \in D
      /\ \A T : {u} \subseteq T /\ (\A e \in g.edge : g.src[e] \in T => g.dst[e] \in T)
                  => D \subseteq T
  <2> HIDE DEF g
  <2> QED
    BY <1>1, DescendantsFacts
<1> HIDE DEF D
<1>3. ASSUME NEW T \in SUBSET C, u \in T, ClosedDown(T, C) PROVE D \subseteq T
  <2>1. \A e \in g.edge : g.src[e] \in T => g.dst[e] \in T
    BY <1>3, WithinFacts
  <2> QED
    BY <1>2, <1>3, <2>1
<1>4. D \in SUBSET C
  <2>1. ClosedDown(C, C)
    BY DEF ClosedDown
  <2> QED
    BY <1>3, <2>1
<1>5. ClosedDown(D, C)
  BY <1>2, <1>4, WithinFacts
<1> QED
  BY <1>2, <1>3, <1>4, <1>5 DEF D

(***************************************************************************)
(* An upward cone, said without paths.                                     *)
(***************************************************************************)
LEMMA UpwardCone ==
  ASSUME GraphInv, NEW C \in SUBSET Node, NEW v \in C
  PROVE  (\A u \in C : v \in Descendants(Within(C), {u})) <=> LeadsTo(C, v)
<1>1. ASSUME \A u \in C : v \in Descendants(Within(C), {u}) PROVE LeadsTo(C, v)
  <2> SUFFICES ASSUME NEW T \in SUBSET C, T # {}, ClosedDown(T, C) PROVE v \in T
    BY DEF LeadsTo
  <2>1. PICK u \in T : TRUE
    OBVIOUS
  <2>2. u \in C /\ v \in Descendants(Within(C), {u})
    BY <1>1, <2>1
  <2>3. Descendants(Within(C), {u}) \subseteq T
    BY <2>1, <2>2, DescendantsWithin
  <2> QED
    BY <2>2, <2>3
<1>2. ASSUME LeadsTo(C, v), NEW u \in C PROVE v \in Descendants(Within(C), {u})
  BY <1>2, DescendantsWithin DEF LeadsTo
<1> QED
  BY <1>1, <1>2

(***************************************************************************)
(* A downward cone, said without paths.                                    *)
(***************************************************************************)
LEMMA DownwardCone ==
  ASSUME GraphInv, NEW C \in SUBSET Node, NEW v \in C
  PROVE  C \subseteq Descendants(Within(C), {v}) <=> LedFrom(C, v)
<1> DEFINE D == Descendants(Within(C), {v})
<1>1. /\ D \in SUBSET C /\ v \in D /\ ClosedDown(D, C)
      /\ \A T \in SUBSET C : v \in T /\ ClosedDown(T, C) => D \subseteq T
  BY DescendantsWithin
<1> HIDE DEF D
<1>2. ASSUME C \subseteq D PROVE LedFrom(C, v)
  <2> SUFFICES ASSUME NEW T \in SUBSET C, T # {}, ClosedUp(T, C), v \notin T PROVE FALSE
    BY DEF LedFrom
  <2>1. C \ T \in SUBSET C /\ v \in C \ T /\ ClosedDown(C \ T, C)
    BY Complement
  <2> QED
    BY <1>1, <1>2, <2>1
<1>3. ASSUME LedFrom(C, v) PROVE C \subseteq D
  <2>1. C \ D \in SUBSET C /\ ClosedUp(C \ D, C)
    BY <1>1, Complement
  <2> QED
    BY <1>1, <1>3, <2>1 DEF LedFrom
<1> QED
  BY <1>2, <1>3 DEF D

(***************************************************************************)
(* The region a walk reaches in both directions.                           *)
(***************************************************************************)
LEMMA WalkwayFacts ==
  ASSUME GraphInv, NEW C \in SUBSET Node
  PROVE  /\ IsFiniteGraph(Walkway(C)) /\ Walkway(C).node = Node
         /\ \A T \in SUBSET C :
              (\A e \in Walkway(C).edge : Walkway(C).src[e] \in T => Walkway(C).dst[e] \in T)
                <=> ClosedDown(T, C) /\ ClosedUp(T, C)
<1> DEFINE inside == {e \in dfg.edge : dfg.src[e] \in C /\ dfg.dst[e] \in C}
           steps  == {<<dfg.src[e], dfg.dst[e]>> : e \in inside}
                       \cup {<<dfg.dst[e], dfg.src[e]>> : e \in inside}
<1>1. /\ Walkway(C).node = Node /\ Walkway(C).edge = steps
      /\ \A s \in steps : Walkway(C).src[s] = s[1] /\ Walkway(C).dst[s] = s[2]
  BY DEF Walkway
<1>2. \A s \in steps : s[1] \in C /\ s[2] \in C
  OBVIOUS
<1>3. IsFiniteGraph(Walkway(C))
  <2> HIDE DEF steps
  <2> QED
    BY <1>1, <1>2, GraphFacts DEF IsFiniteGraph
<1>4. \A x, y \in C : <<x, y>> \in steps <=> y \in Succs(x) \cup Preds(x)
  <2>1. ASSUME NEW x \in C, NEW y \in C, <<x, y>> \in steps PROVE y \in Succs(x) \cup Preds(x)
    BY <2>1, GraphFacts
  <2>2. ASSUME NEW x \in C, NEW y \in C, y \in Succs(x) PROVE <<x, y>> \in steps
    <3>1. PICK e \in dfg.edge : dfg.src[e] = x /\ dfg.dst[e] = y
      BY <2>2, GraphFacts
    <3> QED
      BY <3>1
  <2>3. ASSUME NEW x \in C, NEW y \in C, y \in Preds(x) PROVE <<x, y>> \in steps
    <3>1. x \in Succs(y)
      BY <2>3, GraphFacts
    <3>2. PICK e \in dfg.edge : dfg.src[e] = y /\ dfg.dst[e] = x
      BY <3>1, GraphFacts
    <3> QED
      BY <3>2
  <2> QED
    BY <2>1, <2>2, <2>3
<1>5. \A s \in steps : s = <<s[1], s[2]>>
  OBVIOUS
<1> HIDE DEF steps
<1>6. ASSUME NEW T \in SUBSET C
      PROVE  (\A s \in steps : s[1] \in T => s[2] \in T) <=> ClosedDown(T, C) /\ ClosedUp(T, C)
  <2>1. ASSUME \A s \in steps : s[1] \in T => s[2] \in T, NEW x \in T, NEW y \in C,
               y \in Succs(x) \cup Preds(x)
        PROVE  y \in T
    <3>1. <<x, y>> \in steps
      BY <1>4, <2>1
    <3>2. <<x, y>>[1] = x /\ <<x, y>>[2] = y
      OBVIOUS
    <3> QED
      BY <2>1, <3>1, <3>2
  <2>2. ASSUME ClosedDown(T, C), ClosedUp(T, C), NEW s \in steps, s[1] \in T
        PROVE  s[2] \in T
    <3>1. s[2] \in Succs(s[1]) \cup Preds(s[1])
      BY <1>2, <1>4, <1>5
    <3> QED
      BY <1>2, <2>2, <3>1 DEF ClosedDown, ClosedUp
  <2> QED
    BY <2>1, <2>2 DEF ClosedDown, ClosedUp
<1> QED
  BY <1>1, <1>3, <1>6

(***************************************************************************)
(* The component of v is the least set with v that no edge inside C        *)
(* crosses.                                                                *)
(***************************************************************************)
LEMMA ComponentFacts ==
  ASSUME GraphInv, NEW C \in SUBSET Node, NEW v \in C
  PROVE  /\ Component(v, C) \in SUBSET C /\ v \in Component(v, C)
         /\ C \subseteq Component(v, C) <=> HangsTogether(C)
         /\ ClosedDown(Component(v, C), C) /\ ClosedUp(Component(v, C), C)
         /\ \A T \in SUBSET C : v \in T /\ ClosedDown(T, C) /\ ClosedUp(T, C)
                                 => Component(v, C) \subseteq T
<1> DEFINE g == Walkway(C)
           D == Component(v, C)
<1>1. IsFiniteGraph(g) /\ {v} \in SUBSET g.node
  BY WalkwayFacts
<1>2. /\ D \in SUBSET g.node /\ {v} \subseteq D
      /\ \A e \in g.edge : g.src[e] \in D => g.dst[e] \in D
      /\ \A T : {v} \subseteq T /\ (\A e \in g.edge : g.src[e] \in T => g.dst[e] \in T)
                  => D \subseteq T
  <2> HIDE DEF g
  <2> QED
    BY <1>1, DescendantsFacts DEF Component, g
<1> HIDE DEF D
<1>3. ASSUME NEW T \in SUBSET C, v \in T, ClosedDown(T, C), ClosedUp(T, C) PROVE D \subseteq T
  <2>1. \A e \in g.edge : g.src[e] \in T => g.dst[e] \in T
    BY <1>3, WalkwayFacts
  <2> QED
    BY <1>2, <1>3, <2>1
<1>4. D \in SUBSET C
  <2>1. ClosedDown(C, C) /\ ClosedUp(C, C)
    BY DEF ClosedDown, ClosedUp
  <2> QED
    BY <1>3, <2>1
<1>5. ClosedDown(D, C) /\ ClosedUp(D, C)
  BY <1>2, <1>4, WalkwayFacts
<1>6. ASSUME C \subseteq D PROVE HangsTogether(C)
  <2> SUFFICES ASSUME NEW T \in SUBSET C, T # {}, ClosedDown(T, C), ClosedUp(T, C), T # C
               PROVE  FALSE
    BY DEF HangsTogether
  <2>1. C \ T \in SUBSET C /\ C \ T # {} /\ ClosedUp(C \ T, C) /\ ClosedDown(C \ T, C)
    BY Complement
  <2>2. CASE v \in T
    BY <1>3, <1>6, <2>1, <2>2
  <2>3. CASE v \notin T
    BY <1>3, <1>6, <2>1, <2>3
  <2> QED
    BY <2>2, <2>3
<1>7. ASSUME HangsTogether(C) PROVE C \subseteq D
  BY <1>2, <1>4, <1>5, <1>7 DEF HangsTogether
<1> QED
  BY <1>2, <1>3, <1>4, <1>5, <1>6, <1>7 DEF D

(***************************************************************************)
(* Connected, said without paths.                                          *)
(***************************************************************************)
LEMMA ConnectedMeans ==
  ASSUME GraphInv, NEW C \in SUBSET Node
  PROVE  Connected(C) <=> HangsTogether(C)
<1>1. CASE C = {}
  BY <1>1 DEF Connected, HangsTogether
<1>2. CASE C # {}
  BY <1>2, ComponentFacts DEF Connected
<1> QED
  BY <1>1, <1>2

-----------------------------------------------------------------------------
(***************************************************************************)
(* Eliminate() keeps of S all but successors (predecessors) of S.          *)
(***************************************************************************)
LEMMA EliminateFacts ==
  ASSUME NEW S, NEW next, Cardinality(Node) \in Nat
  PROVE  /\ Eliminate(S, next) \in SUBSET S
         /\ \A u \in S \ Eliminate(S, next) : \E k \in S : u \in next[k]
<1> DEFINE step(k, X) == X \ (IF k \in X THEN next[k] ELSE {})
           F == [p \in Nat \X SUBSET S |-> step(p[1], p[2])]
           eq(w) == w = [k \in Nat |-> IF k = 0 THEN S ELSE step(k, w[k - 1])]
           w == CHOOSE u : eq(u)
<1>1. Eliminate(S, next) = w[Cardinality(Node)]
  BY DEF Eliminate
<1>2. \A k \in Nat, X \in SUBSET S : step(k, X) \in SUBSET S
  OBVIOUS
<1>3. \A k \in Nat, X \in SUBSET S : \A u \in X \ step(k, X) : k \in S /\ u \in next[k]
  OBVIOUS
<1> HIDE DEF step
<1>4. \E u : eq(u)
  <2>1. F \in [Nat \X SUBSET S -> SUBSET S]
    BY <1>2
  <2>2. PICK u : IsWalk(u, S, S, F)
    <3> HIDE DEF F
    <3> QED
      BY <2>1, WalkExists
  <2>3. u \in [Nat -> SUBSET S] /\ u[0] = S
    BY <2>2 DEF IsWalk
  <2>4. ASSUME NEW k \in Nat, k # 0 PROVE u[k] = step(k, u[k - 1])
    <3>1. k - 1 \in Nat /\ (k - 1) + 1 = k
      BY <2>4
    <3>2. u[(k - 1) + 1] = F[<<(k - 1) + 1, u[k - 1]>>]
      BY <2>2, <3>1 DEF IsWalk
    <3>3. <<k, u[k - 1]>> \in Nat \X SUBSET S
      BY <2>3, <3>1
    <3> QED
      BY <3>1, <3>2, <3>3
  <2>5. eq(u)
    BY <2>3, <2>4
  <2> QED
    BY <2>5
<1>5. eq(w)
  <2> HIDE DEF eq
  <2> QED
    BY <1>4
<1> HIDE DEF w
<1>6. w[0] = S /\ \A k \in Nat : w[k + 1] = step(k + 1, w[k])
  <2>1. w[0] = S
    BY <1>5
  <2>2. ASSUME NEW k \in Nat PROVE w[k + 1] = step(k + 1, w[k])
    <3>1. k + 1 \in Nat /\ k + 1 # 0 /\ (k + 1) - 1 = k
      OBVIOUS
    <3> QED
      BY <1>5, <3>1
  <2> QED
    BY <2>1, <2>2
<1> DEFINE good(X) == X \in SUBSET S /\ \A u \in S \ X : \E k \in S : u \in next[k]
           T == {k \in Nat : ~good(w[k])}
<1>7. \A k \in Nat, X \in SUBSET S : good(X) => good(step(k, X))
  BY <1>2, <1>3
<1>8. T \subseteq Nat /\ 0 \notin T /\ \A k \in Nat : k + 1 \in T => k \in T
  <2>1. good(S)
    OBVIOUS
  <2>2. \A X : good(X) => X \in SUBSET S
    OBVIOUS
  <2> HIDE DEF good
  <2>3. ASSUME NEW k \in Nat, k + 1 \in T, good(w[k]) PROVE FALSE
    <3>1. w[k] \in SUBSET S /\ w[k + 1] = step(k + 1, w[k]) /\ k + 1 \in Nat
      BY <1>6, <2>2, <2>3
    <3>2. good(step(k + 1, w[k]))
      BY <1>7, <2>3, <3>1
    <3> QED
      BY <2>3, <3>1, <3>2
  <2> QED
    BY <1>6, <2>1, <2>3
<1>9. T = {}
  <2> HIDE DEF T
  <2> QED
    BY <1>8, NoExceptions
<1>10. good(w[Cardinality(Node)])
  BY <1>9
<1> QED
  BY <1>1, <1>10

(***************************************************************************)
(* A recursive definition over a set K has a solution, when each value     *)
(* depends on those of a lower rank only.                                  *)
(***************************************************************************)
LooksBack(F, K, V, rank) ==
  \A f, g \in [K -> V], k \in K :
    (\A j \in K : rank[j] < rank[k] => f[j] = g[j]) => F[<<f, k>>] = F[<<g, k>>]

IsRecursion(F, K, V, rank, n) ==
  /\ V # {} /\ F \in [[K -> V] \X K -> V]
  /\ n \in Nat /\ rank \in [K -> Nat] /\ \A k \in K : rank[k] <= n
  /\ LooksBack(F, K, V, rank)

Solves(f, F, K, V) == f \in [K -> V] /\ \A k \in K : f[k] = F[<<f, k>>]

(***************************************************************************)
(* A function defined by recursion along a rank solves its equation.       *)
(***************************************************************************)
LEMMA RecursionSolves ==
  ASSUME NEW K, NEW V, NEW rank, NEW n, NEW F, IsRecursion(F, K, V, rank, n)
  PROVE  \E f : Solves(f, F, K, V)
<1> USE DEF IsRecursion
<1> DEFINE solves(m) == \E f \in [K -> V] : \A k \in K : rank[k] < m => f[k] = F[<<f, k>>]
           T == {m \in Nat : ~solves(m)}
<1>1. 0 \notin T
  <2> PICK v0 \in V : TRUE
    OBVIOUS
  <2>1. [k \in K |-> v0] \in [K -> V] /\ \A k \in K : ~(rank[k] < 0)
    OBVIOUS
  <2> QED
    BY <2>1
<1>2. ASSUME NEW m \in Nat, solves(m) PROVE solves(m + 1)
  <2>1. PICK f \in [K -> V] : \A k \in K : rank[k] < m => f[k] = F[<<f, k>>]
    BY <1>2
  <2> DEFINE g == [k \in K |-> F[<<f, k>>]]
  <2>2. g \in [K -> V]
    OBVIOUS
  <2>3. ASSUME NEW k \in K, rank[k] < m + 1 PROVE g[k] = F[<<g, k>>]
    <3>1. \A j \in K : rank[j] < rank[k] => f[j] = g[j]
      BY <2>1, <2>3
    <3>2. F[<<f, k>>] = F[<<g, k>>]
      <4> HIDE DEF g
      <4> QED
        BY <2>2, <3>1 DEF LooksBack
    <3> QED
      BY <3>2
  <2> HIDE DEF g
  <2> QED
    BY <2>2, <2>3
<1>3. T = {}
  <2>1. T \subseteq Nat /\ \A m \in Nat : m + 1 \in T => m \in T
    <3> HIDE DEF solves
    <3> QED
      BY <1>2
  <2> HIDE DEF T
  <2> QED
    BY <1>1, <2>1, NoExceptions
<1>4. n + 1 \in Nat /\ \A k \in K : rank[k] < n + 1
  OBVIOUS
<1>5. solves(n + 1)
  BY <1>3, <1>4
<1> QED
  BY <1>4, <1>5 DEF Solves

(***************************************************************************)
(* Something that holds of k whenever it holds of all lower ones.          *)
(***************************************************************************)
LEMMA LowestOf ==
  ASSUME NEW K, NEW rank \in [K -> Nat], NEW T \in SUBSET K, T # {}
  PROVE  \E m \in T : \A j \in K : rank[j] < rank[m] => j \notin T
<1> DEFINE R == {rank[k] : k \in T}
<1>1. PICK r \in R : \A s \in R : r <= s
  <2>1. R \subseteq Nat /\ R # {}
    OBVIOUS
  <2> HIDE DEF R
  <2> QED
    BY <2>1, LeastElement
<1>2. PICK m \in T : rank[m] = r
  OBVIOUS
<1>3. ASSUME NEW j \in K, rank[j] < rank[m], j \in T PROVE FALSE
  <2>1. rank[j] \in R
    BY <1>3
  <2> QED
    BY <1>1, <1>2, <1>3, <2>1
<1> QED
  BY <1>2, <1>3

-----------------------------------------------------------------------------
(***************************************************************************)
(* v with a cone f[u] of each member u of T.                               *)
(***************************************************************************)
Bunch(v, T, f) == {v} \cup UNION {f[u] : u \in T}

(***************************************************************************)
(* A combined cone is its vertex with a cone of each of some neighbours.   *)
(***************************************************************************)
LEMMA CombinedForm ==
  ASSUME NEW v, NEW S, IsFiniteSet(S), NEW cones, NEW C \in Combined(v, S, cones)
  PROVE  \/ C = {v}
         \/ /\ isConvex(C)
            /\ \E T \in SUBSET S : \E f \in ConeChoices(T, cones) : C = Bunch(v, T, f)
<1> SUFFICES ASSUME C # {v}
             PROVE  /\ isConvex(C)
                    /\ \E T \in SUBSET S : \E f \in ConeChoices(T, cones) : C = Bunch(v, T, f)
  OBVIOUS
<1>1. PICK T \in SUBSET S : C \in Product({{v}}, T, cones)
  BY DEF Combined
<1>2. C \in Joins({{v}}, T, cones)
  BY <1>1, FS_Subset, ProductIsJoins
<1>3. PICK a \in {{v}}, f \in ConeChoices(T, cones) : C = a \cup UNION {f[u] : u \in T}
  BY <1>2, JoinsMember
<1>4. isConvex(C)
  BY DEF Combined
<1> QED
  BY <1>3, <1>4 DEF Bunch

(***************************************************************************)
(* Cones that lead to neighbours of v lead to v, once joined with it.      *)
(***************************************************************************)
LEMMA BunchLeads ==
  ASSUME GraphInv, NEW v \in Node, NEW T \in SUBSET Preds(v), NEW f,
         \A u \in T : u \in f[u] /\ f[u] \in SUBSET Node /\ LeadsTo(f[u], u)
  PROVE  LeadsTo(Bunch(v, T, f), v)
<1> DEFINE C == Bunch(v, T, f)
<1> SUFFICES ASSUME NEW X \in SUBSET C, X # {}, ClosedDown(X, C) PROVE v \in X
  BY DEF LeadsTo
<1>1. PICK x \in X : TRUE
  OBVIOUS
<1>2. CASE x = v
  BY <1>1, <1>2
<1>3. ASSUME NEW u \in T, x \in f[u] PROVE v \in X
  <2>1. f[u] \subseteq C /\ v \in C
    BY <1>3 DEF Bunch
  <2> HIDE DEF C
  <2>2. X \cap f[u] \in SUBSET f[u] /\ X \cap f[u] # {} /\ ClosedDown(X \cap f[u], f[u])
    BY <1>1, <1>3, <2>1 DEF ClosedDown
  <2>3. u \in X
    BY <1>3, <2>2 DEF LeadsTo
  <2>4. u \in Node /\ u \in Preds(v)
    BY <1>3, GraphFacts
  <2>5. v \in Succs(u)
    BY <2>4, GraphFacts
  <2> QED
    BY <2>1, <2>3, <2>5 DEF ClosedDown
<1>4. x = v \/ \E u \in T : x \in f[u]
  BY <1>1 DEF Bunch
<1> QED
  BY <1>2, <1>3, <1>4

(***************************************************************************)
(* Cones led from by neighbours of v are led from by v, once joined with   *)
(* it.                                                                     *)
(***************************************************************************)
LEMMA BunchLed ==
  ASSUME GraphInv, NEW v \in Node, NEW T \in SUBSET Succs(v), NEW f,
         \A u \in T : u \in f[u] /\ f[u] \in SUBSET Node /\ LedFrom(f[u], u)
  PROVE  LedFrom(Bunch(v, T, f), v)
<1> DEFINE C == Bunch(v, T, f)
<1> SUFFICES ASSUME NEW X \in SUBSET C, X # {}, ClosedUp(X, C) PROVE v \in X
  BY DEF LedFrom
<1>1. PICK x \in X : TRUE
  OBVIOUS
<1>2. CASE x = v
  BY <1>1, <1>2
<1>3. ASSUME NEW u \in T, x \in f[u] PROVE v \in X
  <2>1. f[u] \subseteq C /\ v \in C
    BY <1>3 DEF Bunch
  <2> HIDE DEF C
  <2>2. X \cap f[u] \in SUBSET f[u] /\ X \cap f[u] # {} /\ ClosedUp(X \cap f[u], f[u])
    BY <1>1, <1>3, <2>1 DEF ClosedUp
  <2>3. u \in X
    BY <1>3, <2>2 DEF LedFrom
  <2>4. u \in Node /\ u \in Succs(v)
    BY <1>3, GraphFacts
  <2>5. v \in Preds(u)
    BY <2>4, GraphFacts
  <2> QED
    BY <2>1, <2>3, <2>5 DEF ClosedUp
<1>4. x = v \/ \E u \in T : x \in f[u]
  BY <1>1 DEF Bunch
<1> QED
  BY <1>2, <1>3, <1>4

-----------------------------------------------------------------------------
(***************************************************************************)
(* The cones of a vertex from those of its operands, or of its users.      *)
(***************************************************************************)
ConeSets == SUBSET SUBSET Node

UpOperands(v, r) == Eliminate((Preds(v) \cap InRegion(r)) \ ecs[v], predsOf)

UpChoice(at, v, r) ==
  {C \in Combined(v, UpOperands(v, r), [u \in UpOperands(v, r) |-> at[topoVector(u)]]) :
     C = {v} \/ inputCheck(C)}

DownChoice(at, v) ==
  IF v \in DOMAIN dc_set THEN dc_set[v]
  ELSE {C \in Combined(v, DownwardSuccs(v), [u \in DownwardSuccs(v) |-> at[topoVector(u)]]) :
          C = {v} \/ outputCheck(C)}

(***************************************************************************)
(* The operands whose cones are combined are earlier in the recursion.     *)
(***************************************************************************)
LEMMA OperandsFacts ==
  ASSUME GraphInv, NEW v \in Node, NEW r
  PROVE  /\ UpOperands(v, r) \in SUBSET ((Preds(v) \cap InRegion(r)) \ ecs[v])
         /\ UpOperands(v, r) \in SUBSET Node /\ IsFiniteSet(UpOperands(v, r))
         /\ DownwardSuccs(v) \in SUBSET ((Succs(v) \cap Mates(v)) \ exclude)
         /\ DownwardSuccs(v) \in SUBSET Node /\ IsFiniteSet(DownwardSuccs(v))
<1>1. IsFiniteSet(Node) /\ Cardinality(Node) \in Nat /\ Preds(v) \subseteq Node
      /\ Succs(v) \subseteq Node
  BY GraphFacts
<1>2. UpOperands(v, r) \in SUBSET ((Preds(v) \cap InRegion(r)) \ ecs[v])
  BY <1>1, EliminateFacts DEF UpOperands
<1>3. DownwardSuccs(v) \in SUBSET ((Succs(v) \cap Mates(v)) \ exclude)
  BY <1>1, EliminateFacts DEF DownwardSuccs
<1> QED
  BY <1>1, <1>2, <1>3, FS_Subset

(***************************************************************************)
(* Combined cones are sets of vertices.                                    *)
(***************************************************************************)
LEMMA CombinedType ==
  ASSUME NEW v \in Node, NEW S, IsFiniteSet(S), NEW cones, \A u \in S : cones[u] \in ConeSets
  PROVE  Combined(v, S, cones) \in ConeSets
<1> SUFFICES ASSUME NEW C \in Combined(v, S, cones) PROVE C \subseteq Node
  BY DEF ConeSets
<1>1. ASSUME NEW T \in SUBSET S, NEW f \in ConeChoices(T, cones) PROVE Bunch(v, T, f) \subseteq Node
  <2>1. \A u \in T : f[u] \in cones[u] /\ cones[u] \in SUBSET SUBSET Node
    BY DEF ConeChoices, ConeSets
  <2> QED
    BY <2>1 DEF Bunch
<1> QED
  BY <1>1, CombinedForm

(***************************************************************************)
(* The recursive function in UpwardCones solves its equation.              *)
(***************************************************************************)
LEMMA UpwardConesSolve ==
  ASSUME GraphInv, NEW r
  PROVE  \E at \in [DOMAIN topo -> ConeSets] :
           /\ \A k \in DOMAIN topo : at[k] = UpChoice(at, topo[k], r)
           /\ UpwardCones(r) = [v \in InRegion(r) |-> at[topoVector(v)]]
<1> DEFINE K == DOMAIN topo
           V == ConeSets
           eq(at) == at = [k \in K |-> UpChoice(at, topo[k], r)]
           F == [p \in [K -> V] \X K |-> UpChoice(p[1], topo[p[2]], r)]
           rank == [k \in K |-> Len(topo) - k]
<1>1. UpwardCones(r) = [v \in InRegion(r) |-> (CHOOSE at : eq(at))[topoVector(v)]]
  BY DEF UpwardCones, UpChoice, UpOperands
<1>2. /\ Len(topo) \in Nat /\ rank \in [K -> Nat] /\ \A k \in K : rank[k] <= Len(topo)
      /\ \A k \in K : topo[k] \in Node
  BY TopoFacts
<1>3. ASSUME NEW f \in [K -> V], NEW k \in K PROVE UpChoice(f, topo[k], r) \in V
  <2> DEFINE S == UpOperands(topo[k], r)
             c == [u \in S |-> f[topoVector(u)]]
  <2>1. IsFiniteSet(S) /\ S \in SUBSET Node
    BY <1>2, OperandsFacts
  <2>2. \A u \in S : c[u] \in ConeSets
    BY <2>1, TopoFacts
  <2>3. Combined(topo[k], S, c) \in ConeSets
    <3> HIDE DEF S, c
    <3> QED
      BY <1>2, <2>1, <2>2, CombinedType
  <2> QED
    BY <2>3 DEF UpChoice, ConeSets
<1>4. F \in [[K -> V] \X K -> V]
  BY <1>3
<1>5. LooksBack(F, K, V, rank)
  <2> SUFFICES ASSUME NEW f \in [K -> V], NEW g \in [K -> V], NEW k \in K,
                      \A j \in K : rank[j] < rank[k] => f[j] = g[j]
               PROVE  UpChoice(f, topo[k], r) = UpChoice(g, topo[k], r)
    BY DEF LooksBack
  <2> DEFINE S == UpOperands(topo[k], r)
  <2>1. ASSUME NEW u \in S PROVE f[topoVector(u)] = g[topoVector(u)]
    <3>1. u \in Node /\ u \in Preds(topo[k])
      BY <1>2, OperandsFacts
    <3>2. topoVector(topo[k]) = k /\ topoVector(u) \in K /\ k \in Nat /\ topoVector(u) \in Nat
      BY <3>1, TopoFacts
    <3>3. k < topoVector(u)
      BY <1>2, <3>1, <3>2, TopoFacts
    <3>4. rank[topoVector(u)] < rank[k]
      BY <1>2, <3>2, <3>3
    <3> QED
      BY <3>2, <3>4
  <2>2. [u \in S |-> f[topoVector(u)]] = [u \in S |-> g[topoVector(u)]]
    BY <2>1
  <2> QED
    BY <2>2 DEF UpChoice
<1>6. {} \in V
  BY DEF ConeSets
<1>7. PICK at \in [K -> V] : \A k \in K : at[k] = F[<<at, k>>]
  <2>1. IsRecursion(F, K, V, rank, Len(topo))
    <3> HIDE DEF F, rank, V, K
    <3> QED
      BY <1>2, <1>4, <1>5, <1>6 DEF IsRecursion
  <2> HIDE DEF F, rank, V, K
  <2>2. \E at : Solves(at, F, K, V)
    BY <2>1, RecursionSolves
  <2> QED
    BY <2>2 DEF Solves
<1>8. eq(at)
  BY <1>7
<1> DEFINE sol == CHOOSE x : eq(x)
<1>9. eq(sol)
  <2> HIDE DEF eq
  <2> QED
    BY <1>8
<1> HIDE DEF sol
<1>10. \A k \in K : sol[k] \in V
  <2> SUFFICES ASSUME NEW k \in K, sol[k] \notin V PROVE FALSE
    OBVIOUS
  <2> DEFINE B == {j \in K : sol[j] \notin V}
  <2>1. PICK m \in B : \A j \in K : rank[j] < rank[m] => j \notin B
    <3>1. B \in SUBSET K /\ B # {}
      OBVIOUS
    <3> HIDE DEF B, rank, K
    <3> QED
      BY <1>2, <3>1, LowestOf
  <2> DEFINE f == [j \in K |-> IF sol[j] \in V THEN sol[j] ELSE {}]
             S == UpOperands(topo[m], r)
  <2>2. f \in [K -> V]
    BY <1>6
  <2>3. ASSUME NEW u \in S PROVE f[topoVector(u)] = sol[topoVector(u)]
    <3>1. u \in Node /\ u \in Preds(topo[m]) /\ m \in K
      BY <1>2, OperandsFacts
    <3>2. topoVector(topo[m]) = m /\ topoVector(u) \in K /\ m \in Nat /\ topoVector(u) \in Nat
      BY <3>1, TopoFacts
    <3>3. m < topoVector(u)
      BY <1>2, <3>1, <3>2, TopoFacts
    <3>4. rank[topoVector(u)] < rank[m]
      BY <1>2, <3>2, <3>3
    <3> QED
      BY <2>1, <3>2, <3>4
  <2>4. [u \in S |-> f[topoVector(u)]] = [u \in S |-> sol[topoVector(u)]]
    BY <2>3
  <2>5. UpChoice(f, topo[m], r) = UpChoice(sol, topo[m], r)
    BY <2>4 DEF UpChoice
  <2> QED
    BY <1>3, <1>9, <2>2, <2>5
<1>11. sol \in [K -> V] /\ \A k \in K : sol[k] = UpChoice(sol, topo[k], r)
  BY <1>9, <1>10
<1> QED
  BY <1>1, <1>11 DEF sol

(***************************************************************************)
(* The recursive function in DownwardCones solves its equation.            *)
(***************************************************************************)
LEMMA DownwardConesSolve ==
  ASSUME GraphInv, \A v \in DOMAIN dc_set : dc_set[v] \in ConeSets, NEW X
  PROVE  \E at \in [DOMAIN topo -> ConeSets] :
           /\ \A k \in DOMAIN topo : at[k] = DownChoice(at, topo[k])
           /\ DownwardCones(X) = With(dc_set, [v \in NewDownward(X) |-> at[topoVector(v)]])
<1> DEFINE K == DOMAIN topo
           V == ConeSets
           eq(at) == at = [k \in K |-> DownChoice(at, topo[k])]
           F == [p \in [K -> V] \X K |-> DownChoice(p[1], topo[p[2]])]
           rank == [k \in K |-> k]
<1>1. DownwardCones(X) =
        With(dc_set, [v \in NewDownward(X) |-> (CHOOSE at : eq(at))[topoVector(v)]])
  BY DEF DownwardCones, DownChoice
<1>2. /\ Len(topo) \in Nat /\ rank \in [K -> Nat] /\ \A k \in K : rank[k] <= Len(topo)
      /\ \A k \in K : topo[k] \in Node
  BY TopoFacts
<1>3. ASSUME NEW f \in [K -> V], NEW k \in K PROVE DownChoice(f, topo[k]) \in V
  <2> DEFINE S == DownwardSuccs(topo[k])
             c == [u \in S |-> f[topoVector(u)]]
  <2>1. IsFiniteSet(S) /\ S \in SUBSET Node
    BY <1>2, OperandsFacts
  <2>2. \A u \in S : c[u] \in ConeSets
    BY <2>1, TopoFacts
  <2>3. Combined(topo[k], S, c) \in ConeSets
    <3> HIDE DEF S, c
    <3> QED
      BY <1>2, <2>1, <2>2, CombinedType
  <2>4. CASE topo[k] \in DOMAIN dc_set
    BY <2>4 DEF DownChoice
  <2>5. CASE topo[k] \notin DOMAIN dc_set
    BY <2>3, <2>5 DEF DownChoice, ConeSets
  <2> QED
    BY <2>4, <2>5
<1>4. F \in [[K -> V] \X K -> V]
  BY <1>3
<1>5. ASSUME NEW k \in K, NEW u \in DownwardSuccs(topo[k])
      PROVE  topoVector(u) \in K /\ rank[topoVector(u)] < rank[k]
  <2>1. u \in Node /\ u \in Succs(topo[k])
    BY <1>2, OperandsFacts
  <2>2. topoVector(topo[k]) = k /\ topoVector(u) \in K
    BY <2>1, TopoFacts
  <2>3. topoVector(u) < k
    BY <1>2, <2>1, <2>2, TopoFacts
  <2> QED
    BY <2>2, <2>3
<1>6. ASSUME NEW f, NEW g, NEW k \in K, \A j \in K : rank[j] < rank[k] => f[j] = g[j]
      PROVE  DownChoice(f, topo[k]) = DownChoice(g, topo[k])
  <2> DEFINE S == DownwardSuccs(topo[k])
  <2>1. [u \in S |-> f[topoVector(u)]] = [u \in S |-> g[topoVector(u)]]
    BY <1>5, <1>6
  <2> QED
    BY <2>1 DEF DownChoice
<1>7. LooksBack(F, K, V, rank)
  <2> SUFFICES ASSUME NEW f \in [K -> V], NEW g \in [K -> V], NEW k \in K,
                      \A j \in K : rank[j] < rank[k] => f[j] = g[j]
               PROVE  DownChoice(f, topo[k]) = DownChoice(g, topo[k])
    BY DEF LooksBack
  <2> HIDE DEF K, V, rank
  <2> QED
    BY <1>6
<1>8. V # {} /\ {} \in V
  BY DEF ConeSets
<1>9. PICK at \in [K -> V] : \A k \in K : at[k] = F[<<at, k>>]
  <2>1. IsRecursion(F, K, V, rank, Len(topo))
    <3> HIDE DEF F, rank, V, K
    <3> QED
      BY <1>2, <1>4, <1>7, <1>8 DEF IsRecursion
  <2> HIDE DEF F, rank, V, K
  <2>2. \E at : Solves(at, F, K, V)
    BY <2>1, RecursionSolves
  <2> QED
    BY <2>2 DEF Solves
<1>10. eq(at)
  BY <1>9
<1> DEFINE sol == CHOOSE x : eq(x)
<1>11. eq(sol)
  <2> HIDE DEF eq
  <2> QED
    BY <1>10
<1> HIDE DEF sol
<1>12. \A k \in K : sol[k] \in V
  <2> SUFFICES ASSUME NEW k \in K, sol[k] \notin V PROVE FALSE
    OBVIOUS
  <2> DEFINE B == {j \in K : sol[j] \notin V}
  <2>1. PICK m \in B : \A j \in K : rank[j] < rank[m] => j \notin B
    <3>1. B \in SUBSET K /\ B # {}
      OBVIOUS
    <3> HIDE DEF B, rank, K
    <3> QED
      BY <1>2, <3>1, LowestOf
  <2> DEFINE f == [j \in K |-> IF sol[j] \in V THEN sol[j] ELSE {}]
  <2>2. f \in [K -> V]
    BY <1>8
  <2>3. \A j \in K : rank[j] < rank[m] => f[j] = sol[j]
    BY <2>1
  <2>4. DownChoice(f, topo[m]) = DownChoice(sol, topo[m])
    <3> HIDE DEF f, K, rank
    <3> QED
      BY <1>6, <2>1, <2>3
  <2> QED
    BY <1>3, <1>11, <2>2, <2>4
<1>13. sol \in [K -> V] /\ \A k \in K : sol[k] = DownChoice(sol, topo[k])
  BY <1>11, <1>12
<1> QED
  BY <1>1, <1>13 DEF sol

(***************************************************************************)
(* Cones, as ConesAreCones says it.                                        *)
(***************************************************************************)
UpCone(C, v) ==
  v \in C /\ C \in SUBSET Node /\ LeadsTo(C, v) /\ isConvex(C)

DownCone(C, v) ==
  v \in C /\ C \in SUBSET Mates(v) /\ C \in SUBSET Node /\ LedFrom(C, v)

(***************************************************************************)
(* A vertex alone is a cone of its own in both directions.                 *)
(***************************************************************************)
LEMMA AloneIsCone ==
  ASSUME GraphInv, NEW v \in Node
  PROVE  UpCone({v}, v) /\ DownCone({v}, v)
<1>1. LeadsTo({v}, v) /\ LedFrom({v}, v)
  BY DEF LeadsTo, LedFrom
<1> QED
  BY <1>1, OneIsConvex DEF UpCone, DownCone, Mates

(***************************************************************************)
(* All that enumerateUpwardCones(r) builds are cones in the region r.      *)
(***************************************************************************)
LEMMA UpwardConesAreCones ==
  ASSUME GraphInv, NEW r
  PROVE  /\ DOMAIN UpwardCones(r) = InRegion(r)
         /\ \A v \in InRegion(r) : UpwardCones(r)[v] \in ConeSets
         /\ \A v \in InRegion(r) : \A C \in UpwardCones(r)[v] :
              UpCone(C, v) /\ C \in SUBSET InRegion(r)
<1>1. PICK at \in [DOMAIN topo -> ConeSets] :
             /\ \A k \in DOMAIN topo : at[k] = UpChoice(at, topo[k], r)
             /\ UpwardCones(r) = [v \in InRegion(r) |-> at[topoVector(v)]]
  BY UpwardConesSolve
<1> DEFINE K == DOMAIN topo
           good(C, v) == UpCone(C, v) /\ C \in SUBSET ({v} \cup InRegion(r))
           B == {k \in K : ~(\A C \in at[k] : good(C, topo[k]))}
           rank == [k \in K |-> Len(topo) - k]
<1>2. rank \in [K -> Nat] /\ Len(topo) \in Nat /\ \A k \in K : topo[k] \in Node /\ k \in Nat
  BY TopoFacts
<1>3. B = {}
  <2> SUFFICES ASSUME B # {} PROVE FALSE
    OBVIOUS
  <2>1. PICK m \in B : \A j \in K : rank[j] < rank[m] => j \notin B
    <3>1. B \in SUBSET K /\ B # {}
      OBVIOUS
    <3>2. rank \in [K -> Nat]
      BY <1>2
    <3> HIDE DEF B, rank, K
    <3> QED
      BY <3>1, <3>2, LowestOf
  <2> DEFINE v == topo[m]
             S == UpOperands(v, r)
             c == [u \in S |-> at[topoVector(u)]]
  <2>2. m \in K /\ v \in Node
    BY <1>2, <2>1
  <2>3. S \in SUBSET Node /\ IsFiniteSet(S) /\ S \in SUBSET Preds(v) /\ S \in SUBSET InRegion(r)
    BY <2>2, OperandsFacts
  <2>4. ASSUME NEW u \in S, NEW C \in c[u] PROVE good(C, u)
    <3>1. u \in Node /\ topoVector(v) = m /\ topoVector(u) \in K /\ topo[topoVector(u)] = u
      BY <2>2, <2>3, TopoFacts
    <3>2. topoVector(v) < topoVector(u)
      BY <2>2, <2>3, TopoFacts
    <3>3. rank[topoVector(u)] < rank[m]
      BY <1>2, <2>2, <3>1, <3>2
    <3>4. topoVector(u) \notin B
      BY <2>1, <3>1, <3>3
    <3> QED
      BY <2>4, <3>1, <3>4
  <2>5. ASSUME NEW C \in at[m] PROVE good(C, v)
    <3>1. C \in Combined(v, S, c)
      BY <1>1, <2>2, <2>5 DEF UpChoice
    <3>2. CASE C = {v}
      BY <2>2, <3>2, AloneIsCone
    <3>3. CASE isConvex(C) /\ \E T \in SUBSET S : \E f \in ConeChoices(T, c) : C = Bunch(v, T, f)
      <4> PICK T \in SUBSET S : \E f \in ConeChoices(T, c) : C = Bunch(v, T, f)
        BY <3>3
      <4>1. PICK f \in ConeChoices(T, c) : C = Bunch(v, T, f)
        OBVIOUS
      <4>2. ASSUME NEW u \in T PROVE good(f[u], u) /\ u \in InRegion(r)
        <5>1. u \in S /\ f[u] \in c[u]
          BY <4>1 DEF ConeChoices
        <5> HIDE DEF good, c, S
        <5> QED
          BY <2>3, <2>4, <5>1
      <4>3. \A u \in T : /\ u \in f[u] /\ f[u] \in SUBSET Node /\ LeadsTo(f[u], u)
                         /\ f[u] \in SUBSET InRegion(r)
        BY <4>2 DEF UpCone
      <4>4. LeadsTo(C, v)
        <5>1. T \in SUBSET Preds(v)
          BY <2>3, <4>1
        <5> HIDE DEF v, good, c, S
        <5> QED
          BY <2>2, <4>1, <4>3, <5>1, BunchLeads
      <4>5. v \in C /\ C \in SUBSET Node /\ C \in SUBSET ({v} \cup InRegion(r))
        <5> HIDE DEF v, good, c, S
        <5> QED
          BY <2>2, <4>1, <4>3 DEF Bunch
      <4> QED
        BY <3>3, <4>4, <4>5 DEF UpCone
    <3> HIDE DEF S, c
    <3> QED
      BY <2>3, <3>1, <3>2, <3>3, CombinedForm
  <2> QED
    BY <2>1, <2>5
<1>4. ASSUME NEW v \in InRegion(r), NEW C \in UpwardCones(r)[v]
      PROVE  UpCone(C, v) /\ C \in SUBSET InRegion(r)
  <2>1. v \in Node /\ topoVector(v) \in K /\ topo[topoVector(v)] = v
    BY TopoFacts DEF InRegion
  <2>2. C \in at[topoVector(v)]
    BY <1>1, <1>4
  <2>3. good(C, v)
    BY <1>3, <2>1, <2>2
  <2> QED
    BY <2>3
<1>5. ASSUME NEW v \in InRegion(r) PROVE UpwardCones(r)[v] \in ConeSets
  <2>1. topoVector(v) \in K
    BY TopoFacts DEF InRegion
  <2> QED
    BY <1>1, <2>1
<1> QED
  BY <1>1, <1>4, <1>5

(***************************************************************************)
(* The downward cones enumerateDownwardCones builds are those of vertices  *)
(* that have none yet and stay in a region.                                *)
(***************************************************************************)
LEMMA NewDownwardFacts ==
  ASSUME GraphInv, NEW X \in SUBSET Node
  PROVE  NewDownward(X) \in SUBSET Node /\ X \ DOMAIN dc_set \subseteq NewDownward(X)
<1> DEFINE g == [dfg EXCEPT !.edge = {e \in @ : dfg.dst[e] \in Mates(dfg.src[e]) \ DOMAIN dc_set}]
<1>1. g.node = Node /\ g.edge \in SUBSET dfg.edge /\ g.src = dfg.src /\ g.dst = dfg.dst
  BY DEF Node, GraphInv, IsDFG
<1>2. IsFiniteGraph(g)
  <2> HIDE DEF g
  <2> QED
    BY <1>1, GraphFacts DEF IsFiniteGraph
<1>3. NewDownward(X) = Descendants(g, X \ DOMAIN dc_set)
  BY DEF NewDownward
<1> HIDE DEF g
<1>4. X \ DOMAIN dc_set \in SUBSET g.node
  BY <1>1
<1> QED
  BY <1>1, <1>2, <1>3, <1>4, DescendantsFacts

DownwardInv ==
  /\ DOMAIN dc_set \subseteq Node
  /\ \A v \in DOMAIN dc_set : dc_set[v] \in ConeSets /\ \A C \in dc_set[v] : DownCone(C, v)

(***************************************************************************)
(* All that enumerateDownwardCones builds and keeps are cones.             *)
(***************************************************************************)
LEMMA DownwardConesAreCones ==
  ASSUME GraphInv, DownwardInv, NEW X \in SUBSET Node
  PROVE  /\ DOMAIN DownwardCones(X) \in SUBSET Node
         /\ X \subseteq DOMAIN DownwardCones(X)
         /\ \A v \in DOMAIN DownwardCones(X) : /\ DownwardCones(X)[v] \in ConeSets
                                              /\ \A C \in DownwardCones(X)[v] : DownCone(C, v)
<1>1. PICK at \in [DOMAIN topo -> ConeSets] :
             /\ \A k \in DOMAIN topo : at[k] = DownChoice(at, topo[k])
             /\ DownwardCones(X) = With(dc_set, [v \in NewDownward(X) |-> at[topoVector(v)]])
  BY DownwardConesSolve DEF DownwardInv
<1> DEFINE K == DOMAIN topo
           B == {k \in K : ~(\A C \in at[k] : DownCone(C, topo[k]))}
           rank == [k \in K |-> k]
<1>2. rank \in [K -> Nat] /\ \A k \in K : topo[k] \in Node /\ k \in Nat
  BY TopoFacts
<1>3. B = {}
  <2> SUFFICES ASSUME B # {} PROVE FALSE
    OBVIOUS
  <2>1. PICK m \in B : \A j \in K : rank[j] < rank[m] => j \notin B
    <3>1. B \in SUBSET K /\ B # {}
      OBVIOUS
    <3> HIDE DEF B, rank, K
    <3> QED
      BY <1>2, <3>1, LowestOf
  <2> DEFINE v == topo[m]
             S == DownwardSuccs(v)
             c == [u \in S |-> at[topoVector(u)]]
  <2>2. m \in K /\ v \in Node
    BY <1>2, <2>1
  <2>3. S \in SUBSET Node /\ IsFiniteSet(S) /\ S \in SUBSET Succs(v) /\ S \in SUBSET Mates(v)
    BY <2>2, OperandsFacts
  <2>4. ASSUME NEW u \in S, NEW C \in c[u] PROVE DownCone(C, u)
    <3>1. u \in Node /\ topoVector(v) = m /\ topoVector(u) \in K /\ topo[topoVector(u)] = u
      BY <2>2, <2>3, TopoFacts
    <3>2. topoVector(u) < topoVector(v)
      BY <2>2, <2>3, TopoFacts
    <3>3. rank[topoVector(u)] < rank[m]
      BY <1>2, <2>2, <3>1, <3>2
    <3>4. topoVector(u) \notin B
      BY <2>1, <3>1, <3>3
    <3> QED
      BY <2>4, <3>1, <3>4
  <2>5. ASSUME NEW C \in at[m] PROVE DownCone(C, v)
    <3>1. CASE v \in DOMAIN dc_set
      <4>1. C \in dc_set[v]
        BY <1>1, <2>2, <2>5, <3>1 DEF DownChoice
      <4> QED
        BY <3>1, <4>1 DEF DownwardInv
    <3>2. CASE v \notin DOMAIN dc_set
      <4>1. C \in Combined(v, S, c)
        BY <1>1, <2>2, <2>5, <3>2 DEF DownChoice
      <4>2. CASE C = {v}
        BY <2>2, <4>2, AloneIsCone
      <4>3. CASE isConvex(C) /\ \E T \in SUBSET S : \E f \in ConeChoices(T, c) : C = Bunch(v, T, f)
        <5> PICK T \in SUBSET S : \E f \in ConeChoices(T, c) : C = Bunch(v, T, f)
          BY <4>3
        <5>1. PICK f \in ConeChoices(T, c) : C = Bunch(v, T, f)
          OBVIOUS
        <5>2. ASSUME NEW u \in T PROVE DownCone(f[u], u) /\ u \in Mates(v)
          <6>1. u \in S /\ f[u] \in c[u]
            BY <5>1 DEF ConeChoices
          <6> HIDE DEF c, S
          <6> QED
            BY <2>3, <2>4, <6>1
        <5>3. \A u \in T : /\ u \in f[u] /\ f[u] \in SUBSET Node /\ LedFrom(f[u], u)
                           /\ f[u] \in SUBSET Mates(v)
          BY <5>2 DEF DownCone, Mates
        <5>4. LedFrom(C, v)
          <6>1. T \in SUBSET Succs(v)
            BY <2>3
          <6> HIDE DEF v, c, S
          <6> QED
            BY <2>2, <5>1, <5>3, <6>1, BunchLed
        <5>5. v \in C /\ C \in SUBSET Node /\ C \in SUBSET Mates(v)
          <6>1. v \in Mates(v)
            BY <2>2 DEF Mates
          <6> HIDE DEF v, c, S
          <6> QED
            BY <2>2, <5>1, <5>3, <6>1 DEF Bunch
        <5> QED
          BY <5>4, <5>5 DEF DownCone
      <4> HIDE DEF S, c
      <4> QED
        BY <2>3, <4>1, <4>2, <4>3, CombinedForm
    <3> QED
      BY <3>1, <3>2
  <2> QED
    BY <2>1, <2>5
<1> DEFINE new == [v \in NewDownward(X) |-> at[topoVector(v)]]
<1>4. /\ DOMAIN DownwardCones(X) = DOMAIN dc_set \cup NewDownward(X)
      /\ \A v \in DOMAIN dc_set : DownwardCones(X)[v] = dc_set[v]
      /\ \A v \in NewDownward(X) \ DOMAIN dc_set : DownwardCones(X)[v] = at[topoVector(v)]
  <2>1. /\ DOMAIN With(dc_set, new) = DOMAIN dc_set \cup NewDownward(X)
        /\ \A v \in DOMAIN dc_set : With(dc_set, new)[v] = dc_set[v]
        /\ \A v \in NewDownward(X) \ DOMAIN dc_set : With(dc_set, new)[v] = new[v]
    <3>1. DOMAIN new = NewDownward(X)
      OBVIOUS
    <3> HIDE DEF new
    <3> QED
      BY <3>1 DEF With
  <2>2. DownwardCones(X) = With(dc_set, new)
    BY <1>1
  <2> QED
    BY <2>1, <2>2
<1>5. ASSUME NEW v \in NewDownward(X)
      PROVE  at[topoVector(v)] \in ConeSets /\ \A C \in at[topoVector(v)] : DownCone(C, v)
  <2>1. topoVector(v) \in K /\ topo[topoVector(v)] = v
    BY NewDownwardFacts, TopoFacts
  <2> QED
    BY <1>1, <1>3, <2>1
<1> HIDE DEF K, B, rank
<1> QED
  BY <1>4, <1>5, NewDownwardFacts DEF DownwardInv

-----------------------------------------------------------------------------
(***************************************************************************)
(* Regions are numbered from 1 without gaps, by their lowest vertices.     *)
(***************************************************************************)
Upto(L, x) == Cardinality(L \cap 1..x)

(***************************************************************************)
(* The number of members up to a member grows with it.                     *)
(***************************************************************************)
LEMMA RanksGrow ==
  ASSUME NEW L, L \subseteq Nat \ {0}, IsFiniteSet(L), NEW x \in L
  PROVE  /\ Upto(L, x) \in 1..Cardinality(L) /\ Cardinality(L) \in Nat
         /\ \A y \in L : x < y => Upto(L, x) < Upto(L, y)
<1>1. \A z : /\ IsFiniteSet(L \cap 1..z) /\ Upto(L, z) \in Nat
             /\ Upto(L, z) <= Cardinality(L) /\ Cardinality(L) \in Nat
  BY FS_Subset, FS_CardinalityType DEF Upto
<1>2. Upto(L, x) # 0
  <2>1. x \in L \cap 1..x
    OBVIOUS
  <2> QED
    BY <1>1, <2>1, FS_EmptySet DEF Upto
<1>3. ASSUME NEW y \in L, x < y PROVE Upto(L, x) < Upto(L, y)
  <2>1. L \cap 1..x \in SUBSET (L \cap 1..y) /\ y \in L \cap 1..y /\ y \notin L \cap 1..x
    BY <1>3
  <2>2. /\ Cardinality(L \cap 1..x) <= Cardinality(L \cap 1..y)
        /\ Cardinality(L \cap 1..x) # Cardinality(L \cap 1..y)
    BY <1>1, <2>1, FS_Subset
  <2> QED
    BY <1>1, <2>2 DEF Upto
<1>4. Upto(L, x) \in Nat /\ Upto(L, x) <= Cardinality(L) /\ Cardinality(L) \in Nat
  BY <1>1
<1>5. Upto(L, x) \in 1..Cardinality(L)
  BY <1>2, <1>4
<1> QED
  BY <1>3, <1>4, <1>5

(***************************************************************************)
(* Those numbers are between 1 and the number of members.                  *)
(***************************************************************************)
LEMMA RanksAreNumbers ==
  ASSUME NEW L, L \subseteq Nat \ {0}, IsFiniteSet(L)
  PROVE  /\ IsFiniteSet({Upto(L, y) : y \in L}) /\ Cardinality({Upto(L, y) : y \in L}) \in Nat
         /\ \A x \in L : Upto(L, x) \in Nat /\ Upto(L, x) # 0 /\ Upto(L, x) <= Cardinality(L)
<1>1. ASSUME NEW x \in L
      PROVE  /\ Upto(L, x) \in Nat /\ Upto(L, x) # 0 /\ Upto(L, x) <= Cardinality(L)
             /\ Upto(L, x) \in 1..Cardinality(L)
  <2>1. Upto(L, x) \in 1..Cardinality(L) /\ Cardinality(L) \in Nat
    BY RanksGrow
  <2> QED
    BY <2>1
<1>2. {Upto(L, y) : y \in L} \in SUBSET (1..Cardinality(L))
  BY <1>1
<1>3. Cardinality(L) \in Int
  BY FS_CardinalityType
<1>4. IsFiniteSet(1..Cardinality(L))
  BY <1>3, FS_Interval
<1>5. IsFiniteSet({Upto(L, y) : y \in L})
  BY <1>2, <1>4, FS_Subset
<1> QED
  BY <1>1, <1>5, FS_CardinalityType

(***************************************************************************)
(* There are as many different ones as the largest says.                   *)
(***************************************************************************)
LEMMA ValuesAreRanks ==
  ASSUME NEW L, L \subseteq Nat \ {0}, IsFiniteSet(L)
  PROVE  \A x \in L : Upto(L, x) <= Cardinality({Upto(L, y) : y \in L})
<1> DEFINE R == {Upto(L, y) : y \in L}
           f == [y \in L |-> Upto(L, y)]
<1>1. IsFiniteSet(R)
  BY RanksAreNumbers
<1>2. f \in Injection(L, R)
  <2>1. ASSUME NEW x \in L, NEW y \in L, f[x] = f[y] PROVE x = y
    <3>1. x < y => Upto(L, x) < Upto(L, y)
      BY RanksGrow
    <3>2. y < x => Upto(L, y) < Upto(L, x)
      BY RanksGrow
    <3>3. x \in Nat /\ y \in Nat /\ Upto(L, x) \in Nat /\ Upto(L, y) \in Nat
      BY RanksAreNumbers
    <3> QED
      BY <2>1, <3>1, <3>2, <3>3
  <2> QED
    BY <2>1 DEF Injection, IsInjective
<1>3. Cardinality(L) <= Cardinality(R) /\ Cardinality(L) \in Nat /\ Cardinality(R) \in Nat
  <2> HIDE DEF f, R
  <2> QED
    BY <1>1, <1>2, FS_Injection, FS_CardinalityType
<1>4. \A x \in L : Upto(L, x) \in Nat /\ Upto(L, x) <= Cardinality(L)
  BY RanksAreNumbers
<1> HIDE DEF R
<1> QED
  BY <1>3, <1>4 DEF R

RegionsNumbered(reg) ==
  /\ reg \in [Node -> 0..Cardinality({reg[v] : v \in Node} \ {0})]
  /\ \A v \in Node : reg[v] = 0 <=> v \in invalid

(***************************************************************************)
(* defineRegions() numbers the valid vertices from 1 and gives the invalid *)
(* ones 0.                                                                 *)
(***************************************************************************)
LEMMA DefinedRegionsFacts ==
  ASSUME GraphInv
  PROVE  RegionsNumbered(DefinedRegions)
<1> DEFINE valid  == Node \ invalid
           lowest == [v \in valid |-> Min(Component(v, valid))]
           L == {lowest[u] : u \in valid}
           reg == DefinedRegions
<1>1. \A v \in Node : reg[v] = IF v \notin valid THEN 0 ELSE Upto(L, lowest[v])
  BY DEF DefinedRegions, Upto
<1>2. DOMAIN reg = Node /\ reg = [v \in DOMAIN reg |-> reg[v]]
  BY DEF DefinedRegions
<1>3. ASSUME NEW v \in valid PROVE lowest[v] \in Node
  <2>1. Component(v, valid) \in SUBSET valid /\ v \in Component(v, valid)
    BY ComponentFacts
  <2>2. Component(v, valid) \subseteq Nat
    BY <2>1, GraphFacts
  <2>3. \E m \in Component(v, valid) : \A k \in Component(v, valid) : m <= k
    BY <2>1, <2>2, LeastElement
  <2>4. Min(Component(v, valid)) \in Component(v, valid)
    BY <2>3 DEF Min
  <2> QED
    BY <2>1, <2>4
<1> HIDE DEF lowest, reg
<1>4. L \subseteq Nat \ {0} /\ IsFiniteSet(L)
  <2>1. L \in SUBSET Node
    BY <1>3
  <2>2. Node \subseteq Nat \ {0} /\ IsFiniteSet(Node)
    BY GraphFacts DEF GraphInv
  <2> QED
    BY <2>1, <2>2, FS_Subset
<1>5. {reg[v] : v \in Node} \ {0} = {Upto(L, y) : y \in L}
  <2>1. ASSUME NEW v \in Node, reg[v] # 0 PROVE reg[v] \in {Upto(L, y) : y \in L}
    <3>1. v \in valid /\ reg[v] = Upto(L, lowest[v])
      BY <1>1, <2>1
    <3> QED
      BY <3>1
  <2>2. ASSUME NEW y \in L PROVE Upto(L, y) \in {reg[v] : v \in Node} \ {0}
    <3>1. PICK v \in valid : y = lowest[v]
      OBVIOUS
    <3>2. v \in Node /\ reg[v] = Upto(L, y)
      BY <1>1, <3>1
    <3>3. Upto(L, y) # 0
      BY <1>4, RanksAreNumbers
    <3> QED
      BY <3>2, <3>3
  <2> HIDE DEF L
  <2> QED
    BY <2>1, <2>2
<1>6. ASSUME NEW v \in Node
      PROVE  /\ reg[v] \in 0..Cardinality({Upto(L, y) : y \in L})
             /\ reg[v] = 0 <=> v \in invalid
  <2>1. CASE v \in valid
    <3>1. lowest[v] \in L /\ reg[v] = Upto(L, lowest[v]) /\ v \notin invalid
      BY <1>1, <2>1
    <3> HIDE DEF L
    <3>2. Upto(L, lowest[v]) \in Nat /\ Upto(L, lowest[v]) # 0
      BY <1>4, <3>1, RanksAreNumbers
    <3>3. Upto(L, lowest[v]) <= Cardinality({Upto(L, y) : y \in L})
      BY <1>4, <3>1, ValuesAreRanks
    <3>4. Cardinality({Upto(L, y) : y \in L}) \in Nat
      BY <1>4, RanksAreNumbers
    <3> QED
      BY <3>1, <3>2, <3>3, <3>4
  <2>2. CASE v \notin valid
    <3>1. reg[v] = 0 /\ v \in invalid
      BY <1>1, <2>2
    <3>2. Cardinality({Upto(L, y) : y \in L}) \in Nat
      <4> HIDE DEF L
      <4> QED
        BY <1>4, RanksAreNumbers
    <3> QED
      BY <3>1, <3>2
  <2> QED
    BY <2>1, <2>2
<1>7. reg \in [Node -> 0..Cardinality({reg[v] : v \in Node} \ {0})]
  <2> HIDE DEF L
  <2> QED
    BY <1>2, <1>5, <1>6
<1> QED
  BY <1>6, <1>7 DEF RegionsNumbered, reg

(***************************************************************************)
(* There are no more regions than vertices.                                *)
(***************************************************************************)
LEMMA RegionCount ==
  ASSUME IsFiniteSet(Node), NEW reg, DOMAIN reg = Node
  PROVE  /\ Cardinality({reg[v] : v \in Node} \ {0}) \in Nat
         /\ Cardinality({reg[v] : v \in Node} \ {0}) <= Cardinality(Node)
<1> DEFINE R == {reg[v] : v \in Node}
           f == [v \in Node |-> reg[v]]
<1>1. f \in Surjection(Node, R)
  BY DEF Surjection
<1>2. IsFiniteSet(R) /\ Cardinality(R) <= Cardinality(Node)
  <2> HIDE DEF f, R
  <2> QED
    BY <1>1, FS_Surjection
<1>3. Cardinality(R \ {0}) <= Cardinality(R) /\ IsFiniteSet(R \ {0})
  <2> HIDE DEF R
  <2> QED
    BY <1>2, FS_Subset
<1>4. Cardinality(R \ {0}) \in Nat /\ Cardinality(R) \in Nat /\ Cardinality(Node) \in Nat
  BY <1>2, <1>3, FS_CardinalityType
<1> QED
  BY <1>2, <1>3, <1>4

(***************************************************************************)
(* calcEcs() gives every vertex a set of vertices.                         *)
(***************************************************************************)
LEMMA ConflictsType ==
  ASSUME GraphInv
  PROVE  Conflicts \in [Node -> SUBSET Node]
<1> DEFINE succs == [v \in Node |-> Descendants(dfg, Succs(v))]
           preds == [v \in Node |-> {u \in Node : v \in succs[u]}]
<1>1. \A v \in Node : succs[v] \in SUBSET Node /\ preds[v] \in SUBSET Node
  <2>1. IsFiniteGraph(dfg) /\ dfg.node = Node
    BY GraphFacts DEF IsFiniteGraph, Node
  <2>2. ASSUME NEW v \in Node PROVE Descendants(dfg, Succs(v)) \in SUBSET Node
    <3>1. Succs(v) \in SUBSET dfg.node
      BY <2>1, GraphFacts
    <3> QED
      BY <2>1, <3>1, DescendantsFacts
  <2> QED
    BY <2>2
<1>2. Conflicts = [v \in Node |-> (UNION {succs[i] : i \in invalid \cap succs[v]})
                                   \cup (UNION {preds[i] : i \in invalid \cap preds[v]})]
  BY DEF Conflicts
<1> HIDE DEF succs, preds
<1>3. invalid \subseteq Node
  BY DEF invalid
<1>4. ASSUME NEW v \in Node
      PROVE  (UNION {succs[i] : i \in invalid \cap succs[v]})
                 \cup (UNION {preds[i] : i \in invalid \cap preds[v]}) \in SUBSET Node
  BY <1>1, <1>3
<1> QED
  BY <1>2, <1>4

-----------------------------------------------------------------------------
(***************************************************************************)
(* The parts of the invariant in terms of what edges leave and enter.      *)
(***************************************************************************)
LEMMA UpConeMeans ==
  ASSUME GraphInv, NEW v \in Node, NEW C
  PROVE  IsUpwardCone(C, v) <=> UpCone(C, v) /\ C \subseteq Mates(v)
<1>1. ASSUME C \subseteq Mates(v) PROVE C \in SUBSET Node
  BY <1>1 DEF Mates
<1>2. ASSUME v \in C, C \in SUBSET Node
      PROVE  (\A u \in C : v \in Descendants(Within(C), {u})) <=> LeadsTo(C, v)
  BY <1>2, UpwardCone
<1> QED
  BY <1>1, <1>2 DEF IsUpwardCone, UpCone

(***************************************************************************)
(* The same for downward cones.                                            *)
(***************************************************************************)
LEMMA DownConeMeans ==
  ASSUME GraphInv, NEW v \in Node, NEW C
  PROVE  IsDownwardCone(C, v) <=> DownCone(C, v)
<1>1. ASSUME C \subseteq Mates(v) PROVE C \in SUBSET Node
  BY <1>1 DEF Mates
<1>2. ASSUME v \in C, C \in SUBSET Node
      PROVE  C \subseteq Descendants(Within(C), {v}) <=> LedFrom(C, v)
  BY <1>2, DownwardCone
<1> QED
  BY <1>1, <1>2 DEF IsDownwardCone, DownCone

(***************************************************************************)
(* The same for the patterns of a call.                                    *)
(***************************************************************************)
LEMMA GrowingMeans ==
  ASSUME GraphInv, NEW p
  PROVE  Growing(p) <=> /\ Vertex \in p /\ p \subseteq Mates(Vertex) /\ p \cap exclude = {}
                        /\ isConvex(p) /\ HangsTogether(p)
<1>1. ASSUME p \subseteq Mates(Vertex), Vertex \in p
      PROVE  p \subseteq Component(Vertex, p) <=> HangsTogether(p)
  BY <1>1, ComponentFacts DEF Mates
<1> QED
  BY <1>1 DEF Growing

(***************************************************************************)
(* A pattern that hangs together, joined with some that meet it.           *)
(***************************************************************************)
LEMMA JoinsHangTogether ==
  ASSUME NEW a, NEW T, NEW f, NEW C, HangsTogether(a),
         \A u \in T : HangsTogether(f[u]) /\ u \in f[u] /\ u \in a,
         a \subseteq C, \A u \in T : f[u] \subseteq C,
         \A x \in C : x \in a \/ \E u \in T : x \in f[u]
  PROVE  HangsTogether(C)
<1> SUFFICES ASSUME NEW X \in SUBSET C, X # {}, ClosedDown(X, C), ClosedUp(X, C)
             PROVE  X = C
  BY DEF HangsTogether
<1>1. a \subseteq C /\ \A u \in T : f[u] \subseteq C
  OBVIOUS
<1>2. \A x \in C : x \in a \/ \E u \in T : x \in f[u]
  OBVIOUS
<1>3. ASSUME NEW D, D \subseteq C, HangsTogether(D), X \cap D # {} PROVE D \subseteq X
  <2>1. X \cap D \in SUBSET D /\ ClosedDown(X \cap D, D) /\ ClosedUp(X \cap D, D)
    BY <1>3 DEF ClosedDown, ClosedUp
  <2> QED
    BY <1>3, <2>1 DEF HangsTogether
<1>4. X \cap a # {}
  <2>1. PICK x \in X : TRUE
    OBVIOUS
  <2>2. ASSUME NEW u \in T, x \in f[u] PROVE X \cap a # {}
    <3>1. f[u] \subseteq X
      BY <1>1, <1>3, <2>1, <2>2
    <3> QED
      BY <3>1
  <2> QED
    BY <1>2, <2>1, <2>2
<1>5. a \subseteq X
  BY <1>1, <1>3, <1>4
<1>6. \A u \in T : f[u] \subseteq X
  BY <1>1, <1>3, <1>5
<1> QED
  BY <1>2, <1>5, <1>6

(***************************************************************************)
(* The next choice is a choice.                                            *)
(***************************************************************************)
LEMMA ChoicesStayChoices ==
  ASSUME NEW ext, ext \subseteq Nat, NEW comb, comb \subseteq ext
  PROVE  incrementBitVector(comb, ext) \subseteq ext
<1>1. ASSUME ext \ comb # {} PROVE Min(ext \ comb) \in ext
  <2>1. \E m \in ext \ comb : \A k \in ext \ comb : m <= k
    BY <1>1, LeastElement
  <2> QED
    BY <2>1 DEF Min
<1> QED
  BY <1>1 DEF incrementBitVector

-----------------------------------------------------------------------------
(***************************************************************************)
(* The invariant, split by what its parts are about.                       *)
(***************************************************************************)
CallOK(c) ==
  /\ c \in UnionCall
  /\ c.comb \subseteq c.ext /\ c.ext \subseteq Mates(Vertex)
  /\ \A p \in c.core \cup c.new_core : Growing(p)

StackOK(s) == s \in Seq(UnionCall) /\ \A i \in 1..Len(s) : CallOK(s[i])

(***************************************************************************)
(* Exchanging one good call for another one leaves a good stack.           *)
(***************************************************************************)
LEMMA ReplaceTop ==
  ASSUME NEW s, StackOK(s), NEW i \in 1..Len(s), NEW c, CallOK(c)
  PROVE  StackOK([s EXCEPT ![i] = c]) /\ Len([s EXCEPT ![i] = c]) = Len(s)
<1>1. s \in Seq(UnionCall) /\ c \in UnionCall
  BY DEF StackOK, CallOK
<1>2. /\ [s EXCEPT ![i] = c] \in Seq(UnionCall) /\ Len([s EXCEPT ![i] = c]) = Len(s)
      /\ \A j \in 1..Len(s) : [s EXCEPT ![i] = c][j] = IF j = i THEN c ELSE s[j]
  BY <1>1, ExceptSeq
<1> QED
  BY <1>2 DEF StackOK

(***************************************************************************)
(* Growing patterns are sets of vertices.                                  *)
(***************************************************************************)
LEMMA GrowingIsTyped ==
  ASSUME NEW P, \A p \in P : Growing(p)
  PROVE  P \in SUBSET SUBSET Node
BY DEF Growing, Mates

UpwardInv ==
  /\ DOMAIN uc_set \subseteq Node
  /\ \A v \in DOMAIN uc_set : \A C \in uc_set[v] : UpCone(C, v) /\ C \subseteq Mates(v)

(***************************************************************************)
(* What the invariant says of the graph and of the shared cones.           *)
(***************************************************************************)
LEMMA SharedCones ==
  ASSUME UnionInv
  PROVE  GraphInv /\ UpwardInv /\ DownwardInv
<1>1. GraphInv /\ DOMAIN uc_set \subseteq Node /\ DOMAIN dc_set \subseteq Node
  BY DEF UnionInv, TypeOK, GraphInv
<1>2. \A v \in DOMAIN uc_set : \A C \in uc_set[v] : UpCone(C, v) /\ C \subseteq Mates(v)
  BY <1>1, UpConeMeans DEF UnionInv, ConesAreCones
<1>3. \A v \in DOMAIN dc_set : \A C \in dc_set[v] : DownCone(C, v)
  BY <1>1, DownConeMeans DEF UnionInv, ConesAreCones
<1>4. \A v \in DOMAIN dc_set : dc_set[v] \in ConeSets
  BY <1>3 DEF DownCone, ConeSets
<1> QED
  BY <1>1, <1>2, <1>3, <1>4 DEF UpwardInv, DownwardInv

(***************************************************************************)
(* While Union() works on a vertex.                                        *)
(***************************************************************************)
LEMMA InUnion ==
  ASSUME UnionInv, pc = "union"
  PROVE  /\ StackOK(calls) /\ Depth \in Nat \ {0} /\ Depth \in 1..Len(calls) /\ CallOK(Top)
         /\ Node # {} /\ pos \in DOMAIN topo /\ Vertex \in Node /\ topoVector(Vertex) = pos
         /\ region \in Nat \ {0} /\ orgRegions[Vertex] = region /\ Vertex \notin exclude
<1>1. calls \in Seq(UnionCall) /\ Depth \in Nat /\ Depth = Len(calls)
  BY DEF UnionInv, TypeOK, Depth
<1>2. Depth # 0 /\ pos \in DOMAIN topo /\ regions[Vertex] = region
  BY <1>1 DEF UnionInv, CallsInv, Depth
<1>3. StackOK(calls)
  BY <1>1 DEF UnionInv, CallsInv, StackOK, CallOK
<1>4. CallOK(Top)
  BY <1>1, <1>2, <1>3 DEF StackOK, Top
<1>5. Vertex \in Node /\ topoVector(Vertex) = pos
  BY <1>2, SharedCones, TopoFacts DEF Vertex
<1>6. region \in Nat \ {0}
  <2>1. Cardinality(Node) \in Nat
    BY SharedCones, GraphFacts
  <2> QED
    BY <2>1 DEF UnionInv, TypeOK
<1>7. orgRegions[Vertex] = region /\ Vertex \notin exclude
  BY <1>2, <1>5, <1>6 DEF UnionInv, RegionsInv, Started
<1> QED
  BY <1>1, <1>2, <1>3, <1>4, <1>5, <1>6, <1>7

(***************************************************************************)
(* The cones joined for a choice are in the region and hang together, and  *)
(* the downward cones computed for it are cones.                           *)
(***************************************************************************)
LEMMA ConesUsed ==
  ASSUME UnionInv, pc = "union"
  PROVE  /\ IsFiniteSet(Chosen) /\ Chosen \in SUBSET Node /\ Chosen \subseteq Mates(Vertex)
         /\ \A u \in Chosen : \A C \in Cones[u] :
              u \in C /\ C \subseteq Mates(Vertex) /\ HangsTogether(C)
         /\ DOMAIN DownwardCones(Chosen) \subseteq Node
         /\ \A v \in DOMAIN DownwardCones(Chosen) :
              \A C \in DownwardCones(Chosen)[v] : IsDownwardCone(C, v)
<1>1. GraphInv /\ UpwardInv /\ DownwardInv
  BY SharedCones
<1>2. Chosen \in SUBSET Node /\ Chosen \subseteq Mates(Vertex)
  BY InUnion DEF CallOK, Chosen, Mates
<1>3. IsFiniteSet(Chosen)
  BY <1>1, <1>2, GraphFacts, FS_Subset
<1>4. /\ DOMAIN DownwardCones(Chosen) \in SUBSET Node
      /\ Chosen \subseteq DOMAIN DownwardCones(Chosen)
      /\ \A v \in DOMAIN DownwardCones(Chosen) :
           \A C \in DownwardCones(Chosen)[v] : DownCone(C, v)
  BY <1>1, <1>2, DownwardConesAreCones
<1>5. Chosen \subseteq DOMAIN uc_set
  <2>1. ASSUME NEW u \in Chosen PROVE u \in Node /\ orgRegions[u] = region
    BY <1>2, InUnion DEF Mates
  <2> QED
    BY <2>1, InUnion DEF UnionInv, RegionsInv, InLoop, Started
<1>6. ASSUME NEW u \in Chosen, NEW C \in Cones[u]
      PROVE  u \in C /\ C \subseteq Mates(Vertex) /\ HangsTogether(C)
  <2>1. u \in C /\ C \subseteq Mates(u) /\ (LeadsTo(C, u) \/ LedFrom(C, u))
    <3>1. CASE Top.down
      BY <1>4, <1>6, <3>1 DEF Cones, DownCone
    <3>2. CASE ~Top.down
      BY <1>1, <1>5, <1>6, <3>2 DEF Cones, UpwardInv, UpCone
    <3> QED
      BY <3>1, <3>2
  <2>2. Mates(u) = Mates(Vertex)
    BY <1>2 DEF Mates
  <2>3. C \in SUBSET Node
    BY <2>1 DEF Mates
  <2> QED
    BY <1>1, <2>1, <2>2, <2>3, ConesHangTogether
<1>7. \A v \in DOMAIN DownwardCones(Chosen) :
        \A C \in DownwardCones(Chosen)[v] : IsDownwardCone(C, v)
  BY <1>1, <1>4, DownConeMeans
<1> QED
  BY <1>2, <1>3, <1>4, <1>6, <1>7

(***************************************************************************)
(* What is joined grows around the vertex like what it was joined from.    *)
(***************************************************************************)
LEMMA JoinedGrows ==
  ASSUME UnionInv, pc = "union", NEW t \in Joined
  PROVE  Growing(t)
<1>1. /\ t \in Product(Extendable, Chosen, Cones) /\ t \cap exclude = {} /\ isConvex(t)
  BY DEF Joined, Fits
<1>2. t \in Joins(Extendable, Chosen, Cones)
  BY <1>1, ConesUsed, ProductIsJoins
<1>3. PICK a \in Extendable, f \in ConeChoices(Chosen, Cones) : t = a \cup UNION {f[u] : u \in Chosen}
  BY <1>2, JoinsMember
<1>4. Growing(a) /\ Chosen \subseteq a
  <2>1. a \in Top.core /\ Chosen \subseteq a
    BY DEF Extendable
  <2> QED
    BY <2>1, InUnion DEF CallOK
<1>5. Vertex \in a /\ a \subseteq Mates(Vertex) /\ HangsTogether(a)
  BY <1>4, GrowingMeans, SharedCones
<1>6. \A u \in Chosen : /\ u \in f[u] /\ f[u] \subseteq Mates(Vertex)
                        /\ HangsTogether(f[u]) /\ u \in a
  <2>1. \A u \in Chosen : f[u] \in Cones[u]
    BY DEF ConeChoices
  <2> QED
    BY <1>4, <2>1, ConesUsed
<1>7. HangsTogether(t)
  <2>1. \A u \in Chosen : HangsTogether(f[u]) /\ u \in f[u] /\ u \in a
    BY <1>6
  <2>2. a \subseteq t /\ \A u \in Chosen : f[u] \subseteq t
    BY <1>3
  <2>3. \A x \in t : x \in a \/ \E u \in Chosen : x \in f[u]
    BY <1>3
  <2> QED
    BY <1>5, <2>1, <2>2, <2>3, JoinsHangTogether
<1>8. Vertex \in t /\ t \subseteq Mates(Vertex)
  BY <1>3, <1>5, <1>6
<1> QED
  BY <1>1, <1>7, <1>8, GrowingMeans, SharedCones

(***************************************************************************)
(* New extension points are in the region and still unused.                *)
(***************************************************************************)
LEMMA NewExtFacts ==
  ASSUME UnionInv, pc = "union"
  PROVE  NewExt \subseteq Mates(Vertex) /\ NewExt \subseteq remExts
<1>1. \A t \in Joined : t \subseteq Mates(Vertex)
  BY JoinedGrows DEF Growing
<1>2. NewExt \subseteq UNION Joined /\ NewExt \subseteq remExts
  BY DEF NewExt, removeExt
<1> QED
  BY <1>1, <1>2

-----------------------------------------------------------------------------
(***************************************************************************)
(* What the steps do to the stack.                                         *)
(***************************************************************************)
LEMMA NextChoiceIsOK ==
  ASSUME UnionInv, pc = "union"
  PROVE  StackOK(NextChoice) /\ Len(NextChoice) = Depth
<1> DEFINE top == [Top EXCEPT !.comb = incrementBitVector(@, Top.ext)]
<1>1. Top \in UnionCall /\ Top.comb \subseteq Top.ext /\ Top.ext \subseteq Mates(Vertex)
      /\ \A p \in Top.core \cup Top.new_core : Growing(p)
  BY InUnion DEF CallOK
<1>2. Top.ext \subseteq Nat
  BY <1>1, SharedCones, GraphFacts DEF Mates
<1>3. incrementBitVector(Top.comb, Top.ext) \subseteq Top.ext
  BY <1>1, <1>2, ChoicesStayChoices
<1>4. CallOK(top)
  <2>1. /\ top.comb = incrementBitVector(Top.comb, Top.ext) /\ top.ext = Top.ext
        /\ top.core = Top.core /\ top.new_core = Top.new_core
    BY <1>1 DEF UnionCall
  <2>2. top.ext \subseteq Node /\ top.comb \subseteq Node
    BY <1>1, <1>3, <2>1 DEF Mates
  <2>3. top \in UnionCall
    BY <1>1, <2>2 DEF UnionCall
  <2> HIDE DEF top
  <2> QED
    BY <1>1, <1>3, <2>1, <2>3 DEF CallOK
<1>5. NextChoice = [calls EXCEPT ![Depth] = top]
  BY DEF NextChoice, Top
<1> HIDE DEF top
<1> QED
  BY <1>4, <1>5, InUnion, ReplaceTop DEF Depth

(***************************************************************************)
(* Adding good patterns to the call on top leaves a good stack.            *)
(***************************************************************************)
LEMMA JoinChoiceIsOK ==
  ASSUME UnionInv, pc = "union", NEW P, \A p \in P : Growing(p),
         NEW s, StackOK(s), Len(s) \in Nat \ {0}
  PROVE  StackOK([s EXCEPT ![Len(s)].new_core = @ \cup P])
<1> DEFINE c == s[Len(s)]
           top == [c EXCEPT !.new_core = @ \cup P]
<1>1. CallOK(c) /\ Len(s) \in 1..Len(s)
  BY DEF StackOK
<1>2. c \in UnionCall /\ P \in SUBSET SUBSET Node
  BY <1>1, GrowingIsTyped DEF CallOK
<1>3. /\ top \in UnionCall /\ top.ext = c.ext /\ top.comb = c.comb /\ top.core = c.core
      /\ top.new_core = c.new_core \cup P
  <2> HIDE DEF c
  <2> QED
    BY <1>2 DEF UnionCall
<1>4. CallOK(top)
  <2> HIDE DEF top, c
  <2> QED
    BY <1>1, <1>3 DEF CallOK
<1>5. [s EXCEPT ![Len(s)].new_core = @ \cup P] = [s EXCEPT ![Len(s)] = top]
  OBVIOUS
<1> HIDE DEF top
<1> QED
  BY <1>1, <1>4, <1>5, ReplaceTop

(***************************************************************************)
(* A call with good patterns and extension points is good.                 *)
(***************************************************************************)
LEMMA NewCallIsOK ==
  ASSUME GraphInv, NEW core, \A p \in core : Growing(p),
         NEW ext, ext \subseteq Mates(Vertex), NEW down \in BOOLEAN
  PROVE  CallOK(Call(core, ext, down))
<1> DEFINE c == Call(core, ext, down)
<1>1. ext \subseteq Node /\ Node \subseteq Nat /\ core \in SUBSET SUBSET Node
  BY GraphFacts, GrowingIsTyped DEF Mates
<1>2. incrementBitVector({}, ext) \subseteq ext
  BY <1>1, ChoicesStayChoices
<1>3. /\ c.core = core /\ c.ext = ext /\ c.new_core = core
      /\ c.comb = incrementBitVector({}, ext)
  BY DEF Call
<1>4. c \in UnionCall
  BY <1>1, <1>2 DEF Call, UnionCall
<1> HIDE DEF c
<1>5. \A p \in c.core \cup c.new_core : Growing(p)
  BY <1>3
<1>6. c.comb \subseteq c.ext /\ c.ext \subseteq Mates(Vertex)
  BY <1>2, <1>3
<1>7. CallOK(c)
  BY <1>4, <1>5, <1>6 DEF CallOK
<1> QED
  BY <1>7 DEF c

-----------------------------------------------------------------------------
(***************************************************************************)
(* What depends on what.                                                   *)
(***************************************************************************)
LEMMA SameGraph ==
  ASSUME UNCHANGED dfg
  PROVE  /\ Node' = Node /\ invalid' = invalid
         /\ \A C : Within(C)' = Within(C) /\ (isConvex(C)' <=> isConvex(C))
         /\ \A C, v : Component(v, C)' = Component(v, C)
<1>1. Node' = Node
  BY DEF Node
<1>2. invalid' = invalid
  BY DEF invalid, isValidNode, Node
<1>3. ASSUME NEW C PROVE Within(C)' = Within(C)
  BY DEF Within
<1>4. ASSUME NEW C PROVE isConvex(C)' <=> isConvex(C)
  BY DEF isConvex, Succs
<1>5. ASSUME NEW C, NEW v PROVE Component(v, C)' = Component(v, C)
  BY DEF Component, Walkway, Node
<1> QED
  BY <1>1, <1>2, <1>3, <1>4, <1>5

(***************************************************************************)
(* Cones depend on the graph and the regions only.                         *)
(***************************************************************************)
LEMMA SameRegions ==
  ASSUME UNCHANGED <<dfg, orgRegions>>
  PROVE  /\ nregions' = nregions
         /\ \A v : Mates(v)' = Mates(v)
         /\ \A C, v : /\ IsUpwardCone(C, v)' <=> IsUpwardCone(C, v)
                      /\ IsDownwardCone(C, v)' <=> IsDownwardCone(C, v)
<1>1. nregions' = nregions
  BY DEF nregions, Node
<1>2. ASSUME NEW v PROVE Mates(v)' = Mates(v)
  BY DEF Mates, Node
<1>3. ASSUME NEW C, NEW v
      PROVE  /\ IsUpwardCone(C, v)' <=> IsUpwardCone(C, v)
             /\ IsDownwardCone(C, v)' <=> IsDownwardCone(C, v)
  BY <1>2, SameGraph DEF IsUpwardCone, IsDownwardCone
<1> QED
  BY <1>1, <1>2, <1>3

(***************************************************************************)
(* Legality depends on the graph and the ports only.                       *)
(***************************************************************************)
LEMMA SameLimits ==
  ASSUME UNCHANGED <<dfg, ports>>
  PROVE  \A p : (Feasible(p)' <=> Feasible(p)) /\ (Connected(p)' <=> Connected(p))
<1> TAKE p
<1>1. inputCheck(p)' <=> inputCheck(p)
  BY DEF inputCheck, InputsOf, Preds
<1>2. outputCheck(p)' <=> outputCheck(p)
  BY DEF outputCheck, OutputsOf, Succs
<1> QED
  BY <1>1, <1>2, SameGraph DEF Feasible, Connected

(***************************************************************************)
(* What a call may hold depends on the vertex and what is excluded.        *)
(***************************************************************************)
LEMMA SamePlace ==
  ASSUME UNCHANGED <<dfg, orgRegions, topo, pos, exclude>>
  PROVE  /\ Vertex' = Vertex
         /\ \A p : Growing(p)' <=> Growing(p)
         /\ \A c : CallOK(c)' <=> CallOK(c)
         /\ \A s : StackOK(s)' <=> StackOK(s)
<1>1. Vertex' = Vertex
  BY DEF Vertex
<1>2. ASSUME NEW p PROVE Growing(p)' <=> Growing(p)
  BY <1>1, SameGraph, SameRegions DEF Growing
<1>3. UnionCall' = UnionCall
  BY SameGraph DEF UnionCall
<1>4. ASSUME NEW c PROVE CallOK(c)' <=> CallOK(c)
  BY <1>1, <1>2, <1>3, SameRegions DEF CallOK
<1>5. ASSUME NEW s PROVE StackOK(s)' <=> StackOK(s)
  BY <1>3, <1>4 DEF StackOK
<1> QED
  BY <1>1, <1>2, <1>4, <1>5

-----------------------------------------------------------------------------
(***************************************************************************)
(* The parts of the invariant that hold when what they are about is as it  *)
(* was.                                                                    *)
(***************************************************************************)
Unmoved == UNCHANGED <<dfg, topo, ports, benchmark, orgRegions, ecs>>

(***************************************************************************)
(* ConesAreCones, when no cone is computed.                                *)
(***************************************************************************)
LEMMA KeepsCones ==
  ASSUME UnionInv, Unmoved, UNCHANGED <<uc_set, dc_set>>
  PROVE  ConesAreCones'
BY SameRegions DEF UnionInv, ConesAreCones, Unmoved

(***************************************************************************)
(* KeptInv and LegalPatterns, when no pattern is found.                    *)
(***************************************************************************)
LEMMA KeepsPatterns ==
  ASSUME UnionInv, Unmoved, UNCHANGED allPatterns, exclude \subseteq exclude'
  PROVE  KeptInv' /\ LegalPatterns'
BY SameLimits DEF UnionInv, KeptInv, LegalPatterns, Unmoved

(***************************************************************************)
(* CallsInv, when Union() leaves a good stack.                             *)
(***************************************************************************)
LEMMA KeepsStack ==
  ASSUME UnionInv, pc = "union", pc' = "union", Unmoved,
         UNCHANGED <<region, regions, pos, exclude>>, StackOK(calls'), calls' # <<>>
  PROVE  CallsInv' /\ calls' \in Seq(UnionCall')
<1>1. StackOK(calls)'
  BY SamePlace DEF Unmoved
<1>2. pos \in DOMAIN topo /\ regions[Vertex] = region
  BY DEF UnionInv, CallsInv
<1> QED
  BY <1>1, <1>2, SamePlace DEF CallsInv, StackOK, CallOK, Depth, Unmoved

-----------------------------------------------------------------------------
Fields == {"core", "ext", "down", "comb", "new_core"}

(***************************************************************************)
(* The stack is a sequence of calls, and remExts is of the graph: all that *)
(* ExtensionsOnce needs besides itself.                                    *)
(***************************************************************************)
StackInv ==
  /\ IsFiniteSet(Node)
  /\ remExts \subseteq Node
  /\ Depth \in Nat
  /\ \E S : calls \in Seq(S)
  /\ \A i \in 1..Depth : DOMAIN calls[i] = Fields
  /\ pc = "union" => Depth > 0

RecursionInv == StackInv /\ ExtensionsOnce

(***************************************************************************)
(* There are no calls before run() starts.                                 *)
(***************************************************************************)
LEMMA InitInv ==
  ASSUME Init PROVE RecursionInv
<1>1. IsFiniteSet(Node) /\ Cardinality(Node) \in Nat
  BY GraphsAssumption, FS_CardinalityType DEF Init, Node, IsDFG
<1>2. Depth = 0 /\ calls \in Seq({})
  BY DEF Init, Depth
<1>3. pc # "union"
  BY DEF Init
<1>4. Cardinality(remExts) = 0 /\ remExts \subseteq Node
  BY FS_EmptySet DEF Init
<1> QED
  BY <1>1, <1>2, <1>3, <1>4 DEF RecursionInv, StackInv, ExtensionsOnce

(***************************************************************************)
(* Steps that leave the calls and remExts alone.                           *)
(***************************************************************************)
LEMMA QuietStep ==
  ASSUME RecursionInv, UNCHANGED <<dfg, calls, remExts>>, pc' = "union" => pc = "union"
  PROVE  RecursionInv'
BY DEF RecursionInv, StackInv, ExtensionsOnce, Depth, Node

(***************************************************************************)
(* s is a stack with the extension points of the present one.              *)
(***************************************************************************)
SamePoints(s) ==
  /\ Len(s) = Depth
  /\ \E S : s \in Seq(S)
  /\ \A i \in 1..Depth : DOMAIN s[i] = Fields /\ s[i].ext = calls[i].ext

(***************************************************************************)
(* A step that changes the call on top, but not its extension points.      *)
(***************************************************************************)
LEMMA TopChanges ==
  ASSUME Depth \in Nat, Depth > 0, NEW s, SamePoints(s),
         NEW top, DOMAIN top = Fields, top.ext = calls[Depth].ext
  PROVE  SamePoints([s EXCEPT ![Depth] = top])
<1>1. PICK S : s \in Seq(S)
  BY DEF SamePoints
<1>2. s \in Seq(S \cup {top}) /\ Len(s) = Depth /\ Depth \in 1..Len(s)
  BY <1>1 DEF SamePoints
<1>3. /\ [s EXCEPT ![Depth] = top] \in Seq(S \cup {top})
      /\ Len([s EXCEPT ![Depth] = top]) = Depth
      /\ \A j \in 1..Depth : [s EXCEPT ![Depth] = top][j] = IF j = Depth THEN top ELSE s[j]
  BY <1>2, ExceptSeq
<1> QED
  BY <1>3 DEF SamePoints

(***************************************************************************)
(* A round of the loop over choices changes the counter of the call on     *)
(* top, and perhaps its answer: not its extension points.                  *)
(***************************************************************************)
LEMMA NextChoiceKeeps ==
  ASSUME RecursionInv, Depth > 0
  PROVE  SamePoints(NextChoice)
<1> DEFINE top == [calls[Depth] EXCEPT !.comb = incrementBitVector(@, Top.ext)]
<1>1. SamePoints(calls) /\ Depth \in Nat /\ DOMAIN calls[Depth] = Fields
  BY DEF RecursionInv, StackInv, SamePoints, Depth
<1>2. DOMAIN top = Fields /\ top.ext = calls[Depth].ext
  BY <1>1 DEF Fields
<1>3. SamePoints([calls EXCEPT ![Depth] = top])
  BY <1>1, <1>2, TopChanges
<1> QED
  BY <1>3 DEF NextChoice

(***************************************************************************)
(* A choice that is skipped, joined or gone into.                          *)
(***************************************************************************)
LEMMA ChoiceStep ==
  ASSUME RecursionInv, SkipChoice \/ JoinChoice
  PROVE  RecursionInv'
<1>1. UNCHANGED <<dfg, remExts, pc>> /\ Depth > 0
  BY DEF SkipChoice, JoinChoice, UseChoice, Choosing, fixed, inputs, RecursionInv, StackInv
<1>2. SamePoints(calls')
  <2>1. CASE SkipChoice
    BY <1>1, <2>1, NextChoiceKeeps DEF SkipChoice
  <2>2. CASE JoinChoice
    <3> DEFINE top == [NextChoice[Depth] EXCEPT !.new_core = @ \cup Joined]
    <3>1. SamePoints(NextChoice) /\ Depth \in Nat
      BY <1>1, NextChoiceKeeps DEF RecursionInv, StackInv
    <3>2. DOMAIN top = Fields /\ top.ext = calls[Depth].ext
      BY <1>1, <3>1 DEF Fields, SamePoints
    <3>3. SamePoints([NextChoice EXCEPT ![Depth] = top])
      BY <1>1, <3>1, <3>2, TopChanges
    <3> QED
      BY <2>2, <3>3 DEF JoinChoice
  <2> QED
    BY <2>1, <2>2
<1>3. Depth' = Depth /\ \A i \in 1..Depth : calls'[i].ext = calls[i].ext
  BY <1>2 DEF SamePoints, Depth
<1> QED
  BY <1>1, <1>2, <1>3 DEF RecursionInv, StackInv, ExtensionsOnce, SamePoints, Node

(***************************************************************************)
(* A call of Union within a call takes its extension points from remExts.  *)
(***************************************************************************)
LEMMA DeepenStep ==
  ASSUME RecursionInv, Deepen
  PROVE  RecursionInv'
<1> DEFINE call == Call(Joined, NewExt, ~Top.down)
<1>1. /\ NewExt # {} /\ NewExt \subseteq remExts
      /\ calls' = Append(NextChoice, call) /\ remExts' = remExts \ NewExt
      /\ Node' = Node /\ Depth > 0
  BY DEF Deepen, UseChoice, Choosing, NewExt, removeExt, fixed, inputs, Node,
         RecursionInv, StackInv
<1>2. DOMAIN call = Fields /\ call.ext = NewExt
  BY DEF Call, Fields
<1> HIDE DEF call
<1>3. PICK S : NextChoice \in Seq(S)
  BY <1>1, NextChoiceKeeps DEF SamePoints
<1>4. /\ calls' \in Seq(S \cup {call})
      /\ Depth' = Depth + 1
      /\ \A i \in 1..Depth : calls'[i] = NextChoice[i]
      /\ calls'[Depth + 1] = call
  <2>1. NextChoice \in Seq(S \cup {call})
    BY <1>3
  <2>2. Len(NextChoice) = Depth
    BY <1>1, NextChoiceKeeps DEF SamePoints
  <2> QED
    BY <1>1, <2>1, <2>2, AppendProperties DEF Depth
<1>5. StackInv'
  BY <1>1, <1>2, <1>4, NextChoiceKeeps DEF RecursionInv, StackInv, SamePoints
<1>6. /\ \A i \in 1..Depth : calls'[i].ext = calls[i].ext
      /\ calls'[Depth + 1].ext = NewExt
      /\ Depth \in Nat
  BY <1>1, <1>2, <1>4, NextChoiceKeeps DEF RecursionInv, StackInv, SamePoints
<1>7. \A i \in 1..Depth' : i \in 1..Depth \/ i = Depth + 1
  BY <1>4, <1>6
<1>8. /\ \A i \in 1..Depth : /\ calls[i].ext # {}
                           /\ calls[i].ext \cap remExts = {}
                           /\ calls[i].ext \cap NewExt = {}
      /\ \A i, j \in 1..Depth : i # j => calls[i].ext \cap calls[j].ext = {}
  BY <1>1 DEF RecursionInv, ExtensionsOnce
<1>9. \A i, j \in 1..Depth' : i # j => calls'[i].ext \cap calls'[j].ext = {}
  BY <1>6, <1>7, <1>8
<1>10. \A i \in 1..Depth' : calls'[i].ext # {} /\ calls'[i].ext \cap remExts' = {}
  BY <1>1, <1>6, <1>7, <1>8
<1>11. Depth' + Cardinality(remExts') <= Cardinality(Node') + 1
  <2>1. IsFiniteSet(remExts) /\ IsFiniteSet(Node)
    BY FS_Subset DEF RecursionInv, StackInv
  <2>2. /\ Cardinality(remExts') \in Nat /\ Cardinality(remExts) \in Nat
        /\ Cardinality(Node) \in Nat
        /\ Cardinality(remExts') <= Cardinality(remExts)
        /\ Cardinality(remExts') # Cardinality(remExts)
    <3>1. remExts' \in SUBSET remExts /\ remExts' # remExts
      BY <1>1
    <3> QED
      BY <2>1, <3>1, FS_Subset, FS_CardinalityType
  <2> QED
    BY <1>1, <1>4, <1>6, <2>2 DEF RecursionInv, ExtensionsOnce
<1> QED
  BY <1>5, <1>9, <1>10, <1>11 DEF RecursionInv, ExtensionsOnce

(***************************************************************************)
(* A call returns: the calls below it stay as they are.                    *)
(***************************************************************************)
LEMMA ReturnStep ==
  ASSUME RecursionInv, ReturnToUnion
  PROVE  RecursionInv'
<1> DEFINE below == SubSeq(calls, 1, Depth - 1)
           top == [below[Depth - 1] EXCEPT !.new_core = @ \cup Answer]
<1>1. PICK S : calls \in Seq(S)
  BY DEF RecursionInv, StackInv
<1>2. Depth \in Nat /\ Depth > 1 /\ Depth = Len(calls)
  BY <1>1 DEF ReturnToUnion, Depth
<1>3. /\ below \in Seq(S)
      /\ Len(below) = Depth - 1
      /\ \A i \in 1..(Depth - 1) : below[i] = calls[i]
  <2>1. \A i \in 1..(Depth - 1) : calls[i] \in S
    BY <1>1, <1>2
  <2> QED
    BY <1>2, <2>1, SubSeqProperties
<1>4. DOMAIN top = Fields /\ top.ext = calls[Depth - 1].ext
  <2>1. below[Depth - 1] = calls[Depth - 1] /\ DOMAIN calls[Depth - 1] = Fields
    BY <1>2, <1>3 DEF RecursionInv, StackInv
  <2> QED
    BY <2>1 DEF Fields
<1>5. /\ calls' \in Seq(S \cup {top})
      /\ Len(calls') = Depth - 1
      /\ \A i \in 1..(Depth - 1) : calls'[i] = IF i = Depth - 1 THEN top ELSE below[i]
  <2>1. calls' = [below EXCEPT ![Depth - 1] = top]
    BY DEF ReturnToUnion
  <2> HIDE DEF top, below
  <2>2. below \in Seq(S \cup {top}) /\ Depth - 1 \in 1..Len(below)
    BY <1>2, <1>3
  <2> QED
    BY <1>3, <2>1, <2>2, ExceptSeq
<1>6. /\ UNCHANGED <<dfg, remExts>> /\ Depth' = Depth - 1
      /\ \A i \in 1..(Depth - 1) : DOMAIN calls'[i] = Fields /\ calls'[i].ext = calls[i].ext
  BY <1>2, <1>3, <1>4, <1>5 DEF ReturnToUnion, fixed, inputs, Depth, RecursionInv, StackInv
<1> HIDE DEF top, below
<1>7. StackInv'
  BY <1>2, <1>5, <1>6 DEF RecursionInv, StackInv, Node
<1>8. Cardinality(remExts) \in Nat /\ Cardinality(Node) \in Nat
  BY FS_Subset, FS_CardinalityType DEF RecursionInv, StackInv
<1>9. \A i, j \in 1..Depth' : i # j => calls'[i].ext \cap calls'[j].ext = {}
  BY <1>2, <1>6 DEF RecursionInv, ExtensionsOnce
<1>10. \A i \in 1..Depth' : calls'[i].ext # {} /\ calls'[i].ext \cap remExts' = {}
  BY <1>2, <1>6 DEF RecursionInv, ExtensionsOnce
<1>11. Depth' + Cardinality(remExts') <= Cardinality(Node') + 1
  BY <1>2, <1>6, <1>8 DEF RecursionInv, ExtensionsOnce, Node
<1> QED
  BY <1>7, <1>9, <1>10, <1>11 DEF RecursionInv, ExtensionsOnce

(***************************************************************************)
(* run() starts with an empty stack, and what the vertex does not take     *)
(* for extension points is left.                                           *)
(***************************************************************************)
LEMMA CallStep ==
  ASSUME RecursionInv, CallUnion
  PROVE  RecursionInv'
<1> DEFINE call == Call(uc_set[Vertex], Extensions, TRUE)
<1>1. /\ Extensions # {} /\ remExts' = Node \ Extensions
      /\ calls' = <<call>> /\ Node' = Node
  BY DEF CallUnion, fixed, inputs, Node
<1>2. DOMAIN call = Fields /\ call.ext = Extensions
  BY DEF Call, Fields
<1> HIDE DEF call
<1>3. /\ calls' \in Seq({call}) /\ Depth' = 1
      /\ \A i \in 1..1 : calls'[i] = call
  BY <1>1 DEF Depth
<1>4. StackInv'
  <2>1. \E S : calls' \in Seq(S)
    BY <1>3
  <2>2. \A i \in 1..Depth' : DOMAIN calls'[i] = Fields
    BY <1>2, <1>3
  <2>3. IsFiniteSet(Node') /\ remExts' \subseteq Node'
    BY <1>1 DEF RecursionInv, StackInv
  <2> QED
    BY <1>3, <2>1, <2>2, <2>3 DEF StackInv
<1>5. Cardinality(remExts') <= Cardinality(Node) /\ Cardinality(Node) \in Nat
      /\ Cardinality(remExts') \in Nat
  BY <1>1, FS_Subset, FS_CardinalityType DEF RecursionInv, StackInv
<1>6. /\ \A i, j \in 1..Depth' : i # j => calls'[i].ext \cap calls'[j].ext = {}
      /\ \A i \in 1..Depth' : calls'[i].ext # {} /\ calls'[i].ext \cap remExts' = {}
  <2>1. \A i \in 1..Depth' : i = 1 /\ calls'[i].ext = Extensions
    BY <1>2, <1>3
  <2>2. Extensions # {} /\ Extensions \cap remExts' = {}
    BY <1>1
  <2> QED
    BY <2>1, <2>2
<1>7. Depth' + Cardinality(remExts') <= Cardinality(Node') + 1
  BY <1>1, <1>3, <1>5
<1> QED
  BY <1>4, <1>6, <1>7 DEF RecursionInv, ExtensionsOnce

(***************************************************************************)
(* The end of a call.                                                      *)
(***************************************************************************)
LEMMA EndStep ==
  ASSUME RecursionInv, ReturnToRun
  PROVE  RecursionInv'
<1>1. UNCHANGED <<dfg, remExts>> /\ Depth' = 0 /\ calls' \in Seq({}) /\ pc' = "vertex"
  BY DEF ReturnToRun, fixed, inputs, Depth
<1>2. Cardinality(remExts) <= Cardinality(Node) /\ Cardinality(Node) \in Nat
      /\ Cardinality(remExts) \in Nat
  BY FS_Subset, FS_CardinalityType DEF RecursionInv, StackInv
<1> QED
  BY <1>1, <1>2 DEF RecursionInv, StackInv, ExtensionsOnce, Node

-----------------------------------------------------------------------------
(***************************************************************************)
(* Every step keeps the invariant of the recursion.                        *)
(***************************************************************************)
LEMMA StepKeeps ==
  ASSUME RecursionInv, Next
  PROVE  RecursionInv'
<1>1. CASE \/ Start \/ EmptyGraph \/ EnumerateUpwardCones \/ SkipVertex \/ NoExtensions
           \/ EndOfRegion \/ Finish \/ UNCHANGED vars
  BY <1>1, QuietStep DEF Start, EmptyGraph, EnumerateUpwardCones, SkipVertex, NoExtensions,
                         EndOfRegion, Finish, vars, fixed, inputs
<1>2. CASE CallUnion
  BY <1>2, CallStep
<1>3. CASE SkipChoice \/ JoinChoice
  BY <1>3, ChoiceStep
<1>4. CASE Deepen
  BY <1>4, DeepenStep
<1>5. CASE ReturnToUnion
  BY <1>5, ReturnStep
<1>6. CASE ReturnToRun
  BY <1>6, EndStep
<1> QED
  BY <1>1, <1>2, <1>3, <1>4, <1>5, <1>6 DEF Next

(***************************************************************************)
(* Active calls of Union never share an extension point, nor is one of     *)
(* theirs still on offer, although they all take from one vector.          *)
(***************************************************************************)
THEOREM ExtensionsAreUsedOnce == Spec => []ExtensionsOnce
<1>1. Init => RecursionInv
  BY InitInv
<1>2. RecursionInv /\ [Next]_vars => RecursionInv'
  BY StepKeeps, QuietStep DEF vars, fixed, inputs
<1>3. RecursionInv => ExtensionsOnce
  BY DEF RecursionInv
<1> QED
  BY <1>1, <1>2, <1>3, PTL DEF Spec

(***************************************************************************)
(* The recursion of Union is at most one call deeper than the graph has    *)
(* vertices, whatever cones there are and however they overlap.            *)
(***************************************************************************)
THEOREM RecursionIsBounded == Spec => [](Depth <= Cardinality(Node) + 1)
<1>1. Init => RecursionInv
  BY InitInv
<1>2. RecursionInv /\ [Next]_vars => RecursionInv'
  BY StepKeeps, QuietStep DEF vars, fixed, inputs
<1>3. RecursionInv => Depth <= Cardinality(Node) + 1
  <2>1. ASSUME RecursionInv PROVE /\ Cardinality(remExts) \in Nat /\ Cardinality(Node) \in Nat
                                  /\ Depth \in Nat
                                  /\ Depth + Cardinality(remExts) <= Cardinality(Node) + 1
    BY <2>1, FS_Subset, FS_CardinalityType DEF RecursionInv, StackInv, ExtensionsOnce
  <2> QED
    BY <2>1
<1> QED
  BY <1>1, <1>2, <1>3, PTL DEF Spec

-----------------------------------------------------------------------------
(***************************************************************************)
(* All of UnionInv but what is proved above.                               *)
(***************************************************************************)
Rest ==
  TypeOK /\ RegionsInv /\ ConesAreCones /\ CallsInv /\ KeptInv /\ LegalPatterns

(***************************************************************************)
(* The types of what run() counts and numbers.                             *)
(***************************************************************************)
LEMMA RegionFacts ==
  ASSUME UnionInv, Started
  PROVE  /\ region \in Nat \ {0} /\ nregions \in Nat /\ nregions <= Cardinality(Node)
         /\ Cardinality(Node) \in Nat /\ Len(topo) \in Nat /\ DOMAIN topo = 1..Len(topo)
         /\ orgRegions \in [Node -> 0..nregions] /\ regions \in [Node -> 0..nregions]
         /\ ecs \in [Node -> SUBSET Node]
         /\ pos \in 1..(Len(topo) + 1) /\ exclude \subseteq Node
<1>1. GraphInv
  BY SharedCones
<1>2. IsFiniteSet(Node) /\ Cardinality(Node) \in Nat /\ Len(topo) \in Nat
      /\ DOMAIN topo = 1..Len(topo)
  BY <1>1, GraphFacts, TopoFacts
<1>3. /\ orgRegions \in [Node -> 0..nregions] /\ regions \in [Node -> 0..nregions]
      /\ ecs \in [Node -> SUBSET Node] /\ region \in 1..(Cardinality(Node) + 1)
      /\ pos \in 1..(Len(topo) + 1) /\ exclude \subseteq Node
  BY DEF UnionInv, TypeOK, Started
<1>4. DOMAIN orgRegions = Node
  BY <1>3
<1>5. nregions \in Nat /\ nregions <= Cardinality(Node)
  BY <1>2, <1>4, RegionCount DEF nregions
<1> QED
  BY <1>2, <1>3, <1>5

(***************************************************************************)
(* CallsInv outside Union().                                               *)
(***************************************************************************)
LEMMA NoCalls ==
  ASSUME calls' = <<>>, pc' # "union"
  PROVE  CallsInv' /\ calls' \in Seq(UnionCall')
<1>1. Len(<<>>) = 0 /\ <<>> \in Seq(UnionCall') /\ 1..0 = {}
  OBVIOUS
<1>2. Depth' = 0
  BY <1>1 DEF Depth
<1> QED
  BY <1>1, <1>2 DEF CallsInv

(***************************************************************************)
(* TypeOK for steps that leave the inputs alone.                           *)
(***************************************************************************)
LEMMA KeepsTypes ==
  ASSUME UnionInv, Started, Unmoved,
         pc' \in {"region", "vertex", "union", "done"},
         regions' \in [Node -> 0..nregions],
         region' \in 1..(Cardinality(Node) + 1), pos' \in 1..(Len(topo) + 1),
         DOMAIN uc_set' \subseteq Node, DOMAIN dc_set' \subseteq Node,
         exclude' \subseteq Node, remExts' \subseteq Node, calls' \in Seq(UnionCall'),
         allPatterns' \subseteq SUBSET Node, feasiblePatterns' \in Nat
  PROVE  TypeOK'
<1>1. Node' = Node /\ nregions' = nregions
  BY SameGraph, SameRegions DEF Unmoved
<1>2. /\ IsDFG(dfg) /\ Node = 1..Cardinality(Node) /\ IsReverseTopologicalSort(dfg, topo)
      /\ ports \in Ports /\ benchmark \in BOOLEAN
  BY DEF UnionInv, TypeOK
<1>3. orgRegions \in [Node -> 0..nregions] /\ ecs \in [Node -> SUBSET Node]
  BY RegionFacts
<1> QED
  BY <1>1, <1>2, <1>3 DEF TypeOK, Unmoved

(***************************************************************************)
(* The steps inside Union() all have this form.                            *)
(***************************************************************************)
LEMMA UnionStep ==
  ASSUME UnionInv, pc = "union", pc' = "union", Unmoved, UNCHANGED <<place, uc_set, found>>,
         remExts' \subseteq remExts, StackOK(calls'), calls' # <<>>,
         dc_set' = dc_set \/ dc_set' = DownwardCones(Chosen)
  PROVE  Rest'
<1>1. Started
  BY InUnion DEF Started
<1>2. UNCHANGED <<regions, region, pos, exclude, allPatterns, feasiblePatterns>>
  BY DEF place, found
<1>3. CallsInv' /\ calls' \in Seq(UnionCall')
  BY <1>2, KeepsStack
<1>4. ConesAreCones' /\ DOMAIN dc_set' \subseteq Node
  <2>1. CASE dc_set' = dc_set
    BY <2>1, KeepsCones DEF UnionInv, TypeOK
  <2>2. CASE dc_set' = DownwardCones(Chosen)
    BY <2>2, ConesUsed, SameRegions DEF UnionInv, ConesAreCones, Unmoved
  <2> QED
    BY <2>1, <2>2
<1>5. TypeOK'
  <2>1. /\ regions \in [Node -> 0..nregions] /\ region \in 1..(Cardinality(Node) + 1)
        /\ pos \in 1..(Len(topo) + 1) /\ DOMAIN uc_set \subseteq Node /\ exclude \subseteq Node
        /\ remExts \subseteq Node /\ allPatterns \subseteq SUBSET Node /\ feasiblePatterns \in Nat
    BY <1>1 DEF UnionInv, TypeOK, Started
  <2> QED
    BY <1>1, <1>2, <1>3, <1>4, <2>1, KeepsTypes
<1>6. RegionsInv'
  BY <1>2, SameGraph, SameRegions DEF UnionInv, RegionsInv, Started, InLoop, topoVector, Unmoved
<1>7. KeptInv' /\ LegalPatterns'
  BY <1>2, KeepsPatterns
<1> QED
  BY <1>3, <1>4, <1>5, <1>6, <1>7 DEF Rest

(***************************************************************************)
(* The steps inside Union() keep the invariant.                            *)
(***************************************************************************)
LEMMA ChoicesKeep ==
  ASSUME UnionInv, SkipChoice \/ JoinChoice \/ Deepen \/ ReturnToUnion
  PROVE  Rest'
<1>1. /\ pc = "union" /\ pc' = "union" /\ Unmoved /\ UNCHANGED <<place, uc_set, found>>
      /\ remExts' \subseteq remExts
      /\ dc_set' = dc_set \/ dc_set' = DownwardCones(Chosen)
  BY DEF SkipChoice, JoinChoice, Deepen, ReturnToUnion, UseChoice, Choosing, Returning,
         fixed, inputs, Unmoved, Cones
<1>2. StackOK(calls') /\ calls' # <<>>
  <2>1. Depth \in Nat \ {0} /\ Depth = Len(calls) /\ StackOK(calls)
    BY <1>1, InUnion DEF Depth
  <2>2. StackOK(NextChoice) /\ Len(NextChoice) = Depth
    BY <1>1, NextChoiceIsOK
  <2>3. CASE SkipChoice
    BY <2>1, <2>2, <2>3 DEF SkipChoice
  <2>4. CASE JoinChoice
    <3>1. \A p \in Joined : Growing(p)
      BY <1>1, JoinedGrows
    <3>2. calls' = [NextChoice EXCEPT ![Len(NextChoice)].new_core = @ \cup Joined]
      BY <2>2, <2>4 DEF JoinChoice
    <3>3. StackOK(calls')
      BY <1>1, <2>1, <2>2, <3>1, <3>2, JoinChoiceIsOK
    <3>4. Len(calls') = Depth
      BY <2>2, <3>2 DEF StackOK
    <3> QED
      BY <2>1, <3>3, <3>4
  <2>5. CASE Deepen
    <3> DEFINE c == Call(Joined, NewExt, ~Top.down)
    <3>1. CallOK(c)
      <4>1. \A p \in Joined : Growing(p)
        BY <1>1, JoinedGrows
      <4>2. NewExt \subseteq Mates(Vertex) /\ (~Top.down) \in BOOLEAN
        BY <1>1, NewExtFacts
      <4> QED
        BY <4>1, <4>2, SharedCones, NewCallIsOK
    <3>2. calls' = Append(NextChoice, c)
      BY <2>5 DEF Deepen
    <3> HIDE DEF c
    <3>3. NextChoice \in Seq(UnionCall) /\ c \in UnionCall
      BY <2>2, <3>1 DEF StackOK, CallOK
    <3>4. /\ calls' \in Seq(UnionCall) /\ Len(calls') = Depth + 1
          /\ \A i \in 1..Depth : calls'[i] = NextChoice[i]
          /\ calls'[Depth + 1] = c
      BY <2>2, <3>2, <3>3, AppendProperties
    <3>5. \A i \in 1..(Depth + 1) : i \in 1..Depth \/ i = Depth + 1
      BY <2>1
    <3>6. StackOK(calls')
      BY <2>2, <3>1, <3>4, <3>5 DEF StackOK
    <3> QED
      BY <2>1, <3>4, <3>6
  <2>6. CASE ReturnToUnion
    <3> DEFINE below == SubSeq(calls, 1, Depth - 1)
    <3>1. Depth > 1 /\ calls' = [below EXCEPT ![Depth - 1].new_core = @ \cup Answer]
      BY <2>6 DEF ReturnToUnion
    <3>2. \A p \in Answer : Growing(p)
      BY <1>1, InUnion DEF Answer, CallOK
    <3>3. /\ below \in Seq(UnionCall) /\ Len(below) = Depth - 1
          /\ \A i \in 1..(Depth - 1) : below[i] = calls[i]
      <4>1. \A i \in 1..(Depth - 1) : calls[i] \in UnionCall
        BY <2>1 DEF StackOK
      <4> QED
        BY <2>1, <3>1, <4>1, SubSeqProperties
    <3> HIDE DEF below
    <3>4. StackOK(below)
      BY <2>1, <3>3 DEF StackOK
    <3>5. Len(below) \in Nat \ {0} /\ calls' = [below EXCEPT ![Len(below)].new_core = @ \cup Answer]
      BY <2>1, <3>1, <3>3
    <3>6. StackOK(calls')
      BY <1>1, <3>2, <3>4, <3>5, JoinChoiceIsOK
    <3>7. Len(calls') = Depth - 1
      BY <3>3, <3>5
    <3> QED
      BY <2>1, <3>1, <3>6, <3>7
  <2> QED
    BY <2>3, <2>4, <2>5, <2>6
<1> QED
  BY <1>1, <1>2, UnionStep

-----------------------------------------------------------------------------
(***************************************************************************)
(* run()'s own steps.                                                      *)
(***************************************************************************)
LEMMA StartKeeps ==
  ASSUME UnionInv, Start
  PROVE  Rest'
<1>1. /\ UNCHANGED <<dfg, topo, ports, benchmark, region, pos, exclude, uc_set, dc_set, remExts,
                     calls, allPatterns, feasiblePatterns>>
      /\ pc = "start" /\ pc' = "region" /\ Node # {}
      /\ orgRegions' = DefinedRegions /\ regions' = DefinedRegions /\ ecs' = Conflicts
  BY DEF Start, inputs, found
<1>2. /\ region = 1 /\ exclude = {} /\ DOMAIN uc_set = {} /\ DOMAIN dc_set = {}
      /\ calls = <<>> /\ allPatterns = {}
  BY <1>1 DEF UnionInv, RegionsInv, CallsInv, KeptInv
<1>3. Node' = Node /\ invalid' = invalid
  BY <1>1, SameGraph
<1>4. GraphInv
  BY SharedCones
<1>5. RegionsNumbered(DefinedRegions) /\ Conflicts \in [Node -> SUBSET Node]
  BY <1>4, DefinedRegionsFacts, ConflictsType
<1>6. nregions' = Cardinality({DefinedRegions[v] : v \in Node} \ {0})
  BY <1>1, <1>3 DEF nregions
<1>7. nregions' \in Nat
  <2>1. DOMAIN DefinedRegions = Node
    BY <1>5 DEF RegionsNumbered
  <2> QED
    BY <1>4, <1>6, <2>1, GraphFacts, RegionCount
<1>8. orgRegions' \in [Node -> 0..nregions'] /\ regions' \in [Node -> 0..nregions']
  BY <1>1, <1>5, <1>6 DEF RegionsNumbered
<1>9. CallsInv' /\ calls' \in Seq(UnionCall')
  BY <1>1, <1>2, NoCalls
<1>10. TypeOK'
  <2>1. /\ IsDFG(dfg) /\ Node = 1..Cardinality(Node) /\ IsReverseTopologicalSort(dfg, topo)
        /\ ports \in Ports /\ benchmark \in BOOLEAN /\ region \in 1..(Cardinality(Node) + 1)
        /\ pos \in 1..(Len(topo) + 1) /\ exclude \subseteq Node /\ remExts \subseteq Node
        /\ DOMAIN uc_set \subseteq Node /\ DOMAIN dc_set \subseteq Node
        /\ allPatterns \subseteq SUBSET Node /\ feasiblePatterns \in Nat
    BY DEF UnionInv, TypeOK
  <2> QED
    BY <1>1, <1>3, <1>5, <1>8, <1>9, <2>1 DEF TypeOK
<1>11. RegionsInv'
  <2>1. ~InLoop' /\ region' = 1 /\ exclude' = {} /\ DOMAIN uc_set' = {} /\ pc' # "start"
    BY <1>1, <1>2 DEF InLoop
  <2>2. \A v \in Node : orgRegions'[v] = 0 <=> v \in invalid
    BY <1>1, <1>5 DEF RegionsNumbered
  <2>3. 1..(1 - 1) = {}
    OBVIOUS
  <2>4. region' <= nregions' + 1
    <3>1. region' = 1
      BY <1>1, <1>2
    <3>2. \A n \in Nat : 1 <= n + 1
      OBVIOUS
    <3> QED
      BY <1>7, <3>1, <3>2
  <2>5. DOMAIN uc_set' = {v \in Node' : \/ orgRegions'[v] \in 1..(region' - 1)
                                        \/ InLoop' /\ orgRegions'[v] = region'}
    BY <2>1, <2>3
  <2> QED
    BY <1>1, <1>3, <2>1, <2>2, <2>4, <2>5 DEF RegionsInv
<1>12. ConesAreCones'
  BY <1>1, <1>2 DEF ConesAreCones
<1>13. KeptInv' /\ LegalPatterns'
  BY <1>1, <1>2 DEF KeptInv, LegalPatterns
<1> QED
  BY <1>9, <1>10, <1>11, <1>12, <1>13 DEF Rest

(***************************************************************************)
(* A block without vertices is done at once.                               *)
(***************************************************************************)
LEMMA EmptyGraphKeeps ==
  ASSUME UnionInv, EmptyGraph
  PROVE  Rest'
<1>1. /\ Unmoved /\ pc = "start" /\ pc' = "done" /\ Node = {}
      /\ UNCHANGED <<regions, region, pos, exclude, uc_set, dc_set, remExts, calls, allPatterns,
                     feasiblePatterns>>
  BY DEF EmptyGraph, fixed, inputs, Unmoved, place, found
<1>2. Node' = Node
  BY <1>1, SameGraph DEF Unmoved
<1>3. calls = <<>>
  BY <1>1 DEF UnionInv, CallsInv
<1>4. CallsInv' /\ calls' \in Seq(UnionCall')
  BY <1>1, <1>3, NoCalls
<1>5. TypeOK'
  BY <1>1, <1>2, <1>4 DEF UnionInv, TypeOK, Unmoved
<1>6. RegionsInv'
  BY <1>1, <1>2 DEF RegionsInv, Started
<1> QED
  BY <1>1, <1>4, <1>5, <1>6, KeepsCones, KeepsPatterns DEF Rest

(***************************************************************************)
(* RegionsInv for steps that leave the inputs alone.                       *)
(***************************************************************************)
LEMMA KeepsRegions ==
  ASSUME UnionInv, Started, Unmoved, pc' # "start",
         region' <= (IF InLoop' THEN nregions ELSE nregions + 1),
         \A v \in Node : regions'[v] = IF v \in exclude' THEN 0 ELSE orgRegions[v],
         \A v \in exclude' : \/ orgRegions[v] \in 1..(region' - 1)
                             \/ InLoop' /\ orgRegions[v] = region' /\ topoVector(v) < pos',
         DOMAIN uc_set' = {v \in Node : \/ orgRegions[v] \in 1..(region' - 1)
                                        \/ InLoop' /\ orgRegions[v] = region'}
  PROVE  RegionsInv'
<1>1. Node' = Node /\ invalid' = invalid /\ nregions' = nregions
  BY SameGraph, SameRegions DEF Unmoved
<1>2. \A v : topoVector(v)' = topoVector(v)
  BY DEF topoVector, Unmoved
<1>3. \A v \in Node : orgRegions[v] = 0 <=> v \in invalid
  BY DEF UnionInv, RegionsInv
<1> QED
  BY <1>1, <1>2, <1>3 DEF RegionsInv, Started, Unmoved

(***************************************************************************)
(* RegionsInv where run() has started, with the types it needs.            *)
(***************************************************************************)
LEMMA LoopFacts ==
  ASSUME UnionInv, Started
  PROVE  /\ pc # "union" => calls = <<>>
         /\ region <= (IF InLoop THEN nregions ELSE nregions + 1)
         /\ \A v \in exclude : /\ v \in Node /\ topoVector(v) \in Nat
                               /\ \/ orgRegions[v] \in 1..(region - 1)
                                  \/ InLoop /\ orgRegions[v] = region /\ topoVector(v) < pos
         /\ \A v \in Node : regions[v] = IF v \in exclude THEN 0 ELSE orgRegions[v]
         /\ DOMAIN uc_set = {v \in Node : \/ orgRegions[v] \in 1..(region - 1)
                                          \/ InLoop /\ orgRegions[v] = region}
<1>1. \A v \in exclude : v \in Node
  BY RegionFacts
<1>2. \A v \in exclude : topoVector(v) \in Nat
  BY <1>1, SharedCones, TopoFacts
<1> QED
  BY <1>1, <1>2 DEF UnionInv, RegionsInv, CallsInv

(***************************************************************************)
(* At a vertex of the region run() is in.                                  *)
(***************************************************************************)
LEMMA VertexFacts ==
  ASSUME UnionInv, pos \in DOMAIN topo, InLoop
  PROVE  /\ Started /\ Vertex \in Node /\ topoVector(Vertex) = pos /\ pos + 1 \in 1..(Len(topo) + 1)
         /\ pos \in Nat
<1>1. Vertex \in Node /\ topoVector(Vertex) = pos
  BY SharedCones, TopoFacts DEF Vertex
<1>2. Started
  BY <1>1 DEF Started, InLoop
<1>3. pos + 1 \in 1..(Len(topo) + 1) /\ pos \in Nat
  BY <1>2, RegionFacts
<1> QED
  BY <1>1, <1>2, <1>3

(***************************************************************************)
(* A vertex of another region, or one that run() is through with.          *)
(***************************************************************************)
LEMMA SkipVertexKeeps ==
  ASSUME UnionInv, SkipVertex
  PROVE  Rest'
<1>1. /\ Unmoved /\ pc = "vertex" /\ pc' = "vertex" /\ pos <= Len(topo) /\ pos' = pos + 1
      /\ UNCHANGED <<regions, region, exclude, uc_set, dc_set, remExts, calls, allPatterns,
                     feasiblePatterns>>
      /\ InLoop /\ InLoop'
  BY DEF SkipVertex, AtVertex, fixed, inputs, Unmoved, found, InLoop
<1>2. pos \in DOMAIN topo
  BY <1>1, SharedCones, TopoFacts DEF UnionInv, TypeOK
<1>3. Started /\ pos' \in 1..(Len(topo) + 1) /\ pos \in Nat
  BY <1>1, <1>2, VertexFacts
<1>4. CallsInv' /\ calls' \in Seq(UnionCall')
  BY <1>1, <1>3, LoopFacts, NoCalls
<1>5. TypeOK'
  BY <1>1, <1>3, <1>4, KeepsTypes DEF UnionInv, TypeOK, Started
<1>6. RegionsInv'
  <2>1. \A v \in exclude : topoVector(v) < pos => topoVector(v) < pos'
    BY <1>1, <1>3, LoopFacts
  <2> QED
    BY <1>1, <1>3, <2>1, LoopFacts, KeepsRegions
<1> QED
  BY <1>1, <1>4, <1>5, <1>6, KeepsCones, KeepsPatterns DEF Rest

(***************************************************************************)
(* The vertex joins those run() is through with.                           *)
(***************************************************************************)
LEMMA ThroughKeeps ==
  ASSUME UnionInv, InLoop, pos \in DOMAIN topo, regions[Vertex] = region, Unmoved,
         ThroughWith, pc' = "vertex", UNCHANGED <<region, uc_set>>
  PROVE  /\ RegionsInv' /\ exclude' = exclude \cup {Vertex} /\ exclude' \subseteq Node
         /\ regions' \in [Node -> 0..nregions] /\ pos' \in 1..(Len(topo) + 1)
         /\ region' \in 1..(Cardinality(Node) + 1) /\ Started
         /\ orgRegions[Vertex] # 0 /\ Vertex \notin exclude
<1>1. /\ Started /\ Vertex \in Node /\ topoVector(Vertex) = pos
      /\ pos + 1 \in 1..(Len(topo) + 1) /\ pos \in Nat
  BY VertexFacts
<1>2. /\ regions' = [regions EXCEPT ![Vertex] = 0] /\ exclude' = exclude \cup {Vertex}
      /\ pos' = pos + 1
  BY DEF ThroughWith
<1>3. /\ regions \in [Node -> 0..nregions] /\ nregions \in Nat /\ region \in Nat \ {0}
      /\ exclude \subseteq Node
  BY <1>1, RegionFacts
<1>4. orgRegions[Vertex] = region /\ Vertex \notin exclude
  BY <1>1, <1>3, LoopFacts
<1>5. regions' \in [Node -> 0..nregions]
  <2>1. 0 \in 0..nregions
    BY <1>3
  <2> QED
    BY <1>2, <1>3, <2>1
<1>6. RegionsInv'
  <2>1. InLoop' /\ region <= nregions
    BY <1>1, LoopFacts DEF InLoop
  <2>2. \A v \in Node : regions'[v] = IF v \in exclude' THEN 0 ELSE orgRegions[v]
    BY <1>1, <1>2, <1>3, LoopFacts
  <2>3. ASSUME NEW v \in exclude'
        PROVE  \/ orgRegions[v] \in 1..(region - 1)
               \/ orgRegions[v] = region /\ topoVector(v) < pos'
    <3>1. CASE v = Vertex
      BY <1>1, <1>2, <1>4, <3>1
    <3>2. CASE v \in exclude
      <4>1. \/ orgRegions[v] \in 1..(region - 1)
            \/ orgRegions[v] = region /\ topoVector(v) < pos
        BY <1>1, <3>2, LoopFacts
      <4>2. topoVector(v) \in Nat
        BY <1>1, <3>2, LoopFacts
      <4> QED
        BY <1>1, <1>2, <4>1, <4>2
    <3> QED
      BY <1>2, <3>1, <3>2
  <2>4. DOMAIN uc_set' = {v \in Node : \/ orgRegions[v] \in 1..(region' - 1)
                                       \/ InLoop' /\ orgRegions[v] = region'}
    BY <1>1, <2>1, LoopFacts
  <2> QED
    BY <1>1, <2>1, <2>2, <2>3, <2>4, KeepsRegions
<1> QED
  BY <1>1, <1>2, <1>3, <1>4, <1>5, <1>6 DEF UnionInv, TypeOK

(***************************************************************************)
(* A vertex whose largest cone nothing leaves.                             *)
(***************************************************************************)
LEMMA NoExtensionsKeeps ==
  ASSUME UnionInv, NoExtensions
  PROVE  Rest'
<1>1. /\ Unmoved /\ pc = "vertex" /\ pc' = "vertex" /\ pos <= Len(topo) /\ ThroughWith
      /\ UNCHANGED <<region, uc_set, dc_set, remExts, calls, allPatterns, feasiblePatterns>>
      /\ InLoop /\ regions[Vertex] = region
  BY DEF NoExtensions, AtVertex, fixed, inputs, Unmoved, found, InLoop
<1>2. pos \in DOMAIN topo
  BY <1>1, SharedCones, TopoFacts DEF UnionInv, TypeOK
<1>3. /\ RegionsInv' /\ exclude' = exclude \cup {Vertex} /\ exclude' \subseteq Node /\ Started
      /\ regions' \in [Node -> 0..nregions] /\ pos' \in 1..(Len(topo) + 1)
      /\ region' \in 1..(Cardinality(Node) + 1)
  BY <1>1, <1>2, ThroughKeeps
<1>4. CallsInv' /\ calls' \in Seq(UnionCall')
  BY <1>1, <1>3, LoopFacts, NoCalls
<1>5. TypeOK'
  BY <1>1, <1>3, <1>4, KeepsTypes DEF UnionInv, TypeOK
<1>6. ConesAreCones'
  BY <1>1, KeepsCones
<1>7. KeptInv' /\ LegalPatterns'
  BY <1>1, <1>3, KeepsPatterns
<1> QED
  BY <1>3, <1>4, <1>5, <1>6, <1>7 DEF Rest

(***************************************************************************)
(* A vertex for which Union() is called with its upward cones.             *)
(***************************************************************************)
LEMMA CallUnionKeeps ==
  ASSUME UnionInv, CallUnion
  PROVE  Rest'
<1> DEFINE c == Call(uc_set[Vertex], Extensions, TRUE)
<1>1. /\ Unmoved /\ pc = "vertex" /\ pc' = "union" /\ pos <= Len(topo)
      /\ UNCHANGED <<regions, region, pos, exclude, uc_set, dc_set, allPatterns, feasiblePatterns>>
      /\ calls' = <<c>> /\ remExts' = Node \ Extensions
      /\ InLoop /\ InLoop' /\ regions[Vertex] = region
  BY DEF CallUnion, AtVertex, fixed, inputs, Unmoved, place, found, InLoop
<1>2. pos \in DOMAIN topo
  BY <1>1, SharedCones, TopoFacts DEF UnionInv, TypeOK
<1>3. Started /\ Vertex \in Node /\ topoVector(Vertex) = pos /\ pos \in Nat
  BY <1>1, <1>2, VertexFacts
<1>4. region \in Nat \ {0} /\ orgRegions[Vertex] = region /\ Vertex \in DOMAIN uc_set
      /\ Vertex \notin exclude
  BY <1>1, <1>3, LoopFacts, RegionFacts
<1>5. ASSUME NEW C \in uc_set[Vertex] PROVE Growing(C)
  <2>1. Vertex \in C /\ C \in SUBSET Node /\ LeadsTo(C, Vertex) /\ isConvex(C)
        /\ C \subseteq Mates(Vertex)
    BY <1>4, SharedCones DEF UpwardInv, UpCone
  <2>2. HangsTogether(C)
    BY <2>1, SharedCones, ConesHangTogether
  <2>3. \A u \in C : ~(topoVector(u) < pos)
    <3> DEFINE T == {u \in C : topoVector(u) < pos}
    <3>1. T \in SUBSET C /\ Vertex \notin T
      BY <1>3
    <3>2. ASSUME NEW x \in T, NEW y \in Succs(x) \cap C PROVE y \in T
      <4>1. x \in Node /\ y \in Node
        BY <2>1
      <4>2. topoVector(y) < topoVector(x) /\ topoVector(x) < pos
        BY <4>1, SharedCones, TopoFacts
      <4>3. topoVector(y) \in Nat /\ topoVector(x) \in Nat
        BY <4>1, SharedCones, TopoFacts
      <4> QED
        BY <1>3, <4>2, <4>3
    <3> HIDE DEF T
    <3>3. T = {}
      BY <2>1, <3>1, <3>2 DEF LeadsTo, ClosedDown
    <3> QED
      BY <3>3 DEF T
  <2>4. \A u \in C : orgRegions[u] = region
    BY <1>4, <2>1 DEF Mates
  <2>5. C \cap exclude = {}
    BY <1>3, <1>4, <2>3, <2>4, LoopFacts
  <2> QED
    BY <2>1, <2>2, <2>5, SharedCones, GrowingMeans
<1>6. Extensions \subseteq Mates(Vertex)
  <2>1. Extensions \subseteq UNION uc_set[Vertex]
    BY DEF Extensions, getOutputNodes, OutputsOf
  <2> QED
    BY <1>5, <2>1 DEF Growing
<1>7. CallOK(c)
  BY <1>5, <1>6, SharedCones, NewCallIsOK
<1> HIDE DEF c
<1>8. StackOK(calls') /\ calls' # <<>>
  <2>1. c \in UnionCall
    BY <1>7 DEF CallOK
  <2>2. /\ calls' \in Seq(UnionCall) /\ Len(calls') = 1
        /\ \A i \in 1..1 : calls'[i] = c
    BY <1>1, <2>1
  <2> QED
    BY <1>7, <2>2 DEF StackOK
<1>9. CallsInv' /\ calls' \in Seq(UnionCall')
  <2>1. StackOK(calls)'
    BY <1>1, <1>8, SamePlace DEF Unmoved
  <2>2. Vertex' = Vertex
    BY <1>1, SamePlace DEF Unmoved
  <2>3. pos' \in DOMAIN topo' /\ regions'[Vertex'] = region'
    BY <1>1, <1>2, <2>2 DEF Unmoved
  <2> QED
    BY <1>1, <1>8, <2>1, <2>3 DEF CallsInv, StackOK, CallOK, Depth
<1>10. TypeOK'
  BY <1>1, <1>3, <1>9, KeepsTypes DEF UnionInv, TypeOK, Started
<1>11. RegionsInv'
  BY <1>1, <1>3, LoopFacts, KeepsRegions
<1> QED
  BY <1>1, <1>9, <1>10, <1>11, KeepsCones, KeepsPatterns DEF Rest

(***************************************************************************)
(* The upward cones of the next region join those there are.               *)
(***************************************************************************)
LEMMA EnumerateKeeps ==
  ASSUME UnionInv, EnumerateUpwardCones
  PROVE  Rest'
<1>1. /\ Unmoved /\ pc = "region" /\ pc' = "vertex" /\ pos' = 1 /\ region <= nregions
      /\ UNCHANGED <<regions, region, exclude, dc_set, remExts, calls, allPatterns,
                     feasiblePatterns>>
      /\ uc_set' = With(uc_set, UpwardCones(region))
      /\ ~InLoop /\ InLoop'
  BY DEF EnumerateUpwardCones, fixed, inputs, Unmoved, found, InLoop
<1>2. GraphInv /\ UpwardInv
  BY SharedCones
<1>3. Started
  BY <1>1 DEF UnionInv, RegionsInv, Started
<1>4. region \in Nat \ {0}
  BY <1>3, RegionFacts
<1>5. InRegion(region) = {v \in Node : orgRegions[v] = region}
  <2>1. \A v \in Node : regions[v] = region <=> orgRegions[v] = region
    BY <1>1, <1>3, <1>4, LoopFacts
  <2> QED
    BY <2>1 DEF InRegion
<1>6. /\ DOMAIN UpwardCones(region) = InRegion(region)
      /\ \A v \in InRegion(region) : \A C \in UpwardCones(region)[v] :
           UpCone(C, v) /\ C \in SUBSET InRegion(region)
  BY <1>2, UpwardConesAreCones
<1>7. /\ DOMAIN uc_set' = DOMAIN uc_set \cup InRegion(region)
      /\ \A v \in DOMAIN uc_set : uc_set'[v] = uc_set[v]
      /\ \A v \in InRegion(region) \ DOMAIN uc_set : uc_set'[v] = UpwardCones(region)[v]
  BY <1>1, <1>6 DEF With
<1>8. \A v \in DOMAIN uc_set' : \A C \in uc_set'[v] : IsUpwardCone(C, v)
  <2>1. ASSUME NEW v \in DOMAIN uc_set, NEW C \in uc_set'[v] PROVE IsUpwardCone(C, v)
    BY <1>7, <2>1 DEF UnionInv, ConesAreCones
  <2>2. ASSUME NEW v \in InRegion(region) \ DOMAIN uc_set, NEW C \in uc_set'[v]
        PROVE  IsUpwardCone(C, v)
    <3>1. UpCone(C, v) /\ C \in SUBSET InRegion(region) /\ v \in Node
      BY <1>6, <1>7, <2>2 DEF InRegion
    <3>2. C \subseteq Mates(v)
      BY <1>5, <2>2, <3>1 DEF Mates
    <3> QED
      BY <1>2, <3>1, <3>2, UpConeMeans
  <2> QED
    BY <1>7, <2>1, <2>2
<1>9. ConesAreCones'
  BY <1>1, <1>8, SameRegions DEF UnionInv, ConesAreCones, Unmoved
<1>10. CallsInv' /\ calls' \in Seq(UnionCall')
  BY <1>1, <1>3, LoopFacts, NoCalls
<1>11. TypeOK'
  <2>1. DOMAIN uc_set' \subseteq Node
    BY <1>2, <1>5, <1>7 DEF UpwardInv
  <2>2. pos' \in 1..(Len(topo) + 1)
    BY <1>1, <1>3, RegionFacts
  <2> QED
    BY <1>1, <1>3, <1>10, <2>1, <2>2, KeepsTypes DEF UnionInv, TypeOK, Started
<1>12. RegionsInv'
  <2>1. DOMAIN uc_set' = {v \in Node : \/ orgRegions[v] \in 1..(region - 1)
                                       \/ orgRegions[v] = region}
    BY <1>1, <1>3, <1>5, <1>7, LoopFacts
  <2> QED
    BY <1>1, <1>3, <2>1, LoopFacts, KeepsRegions
<1> QED
  BY <1>1, <1>9, <1>10, <1>11, <1>12, KeepsPatterns DEF Rest

(***************************************************************************)
(* run() goes on to the next region.                                       *)
(***************************************************************************)
LEMMA EndOfRegionKeeps ==
  ASSUME UnionInv, EndOfRegion
  PROVE  Rest'
<1>1. /\ Unmoved /\ pc = "vertex" /\ pc' = "region" /\ region' = region + 1
      /\ UNCHANGED <<regions, pos, exclude, uc_set, dc_set, remExts, calls, allPatterns,
                     feasiblePatterns>>
      /\ InLoop /\ ~InLoop'
  BY DEF EndOfRegion, fixed, inputs, Unmoved, found, InLoop
<1>2. Started
  BY <1>1 DEF UnionInv, RegionsInv, Started
<1>3. region \in Nat \ {0} /\ nregions \in Nat /\ nregions <= Cardinality(Node)
      /\ Cardinality(Node) \in Nat
  BY <1>2, RegionFacts
<1>4. region <= nregions
  BY <1>1, <1>2, LoopFacts
<1>5. \A i : i \in 1..((region + 1) - 1) <=> i \in 1..(region - 1) \/ i = region
  BY <1>3
<1>6. CallsInv' /\ calls' \in Seq(UnionCall')
  BY <1>1, <1>2, LoopFacts, NoCalls
<1>7. TypeOK'
  <2>1. region' \in 1..(Cardinality(Node) + 1)
    BY <1>1, <1>3, <1>4
  <2> QED
    BY <1>1, <1>2, <1>6, <2>1, KeepsTypes DEF UnionInv, TypeOK, Started
<1>8. RegionsInv'
  <2>1. region' <= nregions + 1
    BY <1>1, <1>3, <1>4
  <2>2. \A v \in exclude : orgRegions[v] \in 1..(region' - 1)
    BY <1>1, <1>2, <1>5, LoopFacts
  <2>3. DOMAIN uc_set = {v \in Node : orgRegions[v] \in 1..(region' - 1)}
    BY <1>1, <1>2, <1>5, LoopFacts
  <2> QED
    BY <1>1, <1>2, <2>1, <2>2, <2>3, LoopFacts, KeepsRegions
<1> QED
  BY <1>1, <1>6, <1>7, <1>8, KeepsCones, KeepsPatterns DEF Rest

(***************************************************************************)
(* run() hands over the patterns it has kept.                              *)
(***************************************************************************)
LEMMA FinishKeeps ==
  ASSUME UnionInv, Finish
  PROVE  Rest'
<1>1. /\ Unmoved /\ pc = "region" /\ pc' = "done"
      /\ UNCHANGED <<regions, region, pos, exclude, uc_set, dc_set, remExts, calls, allPatterns,
                     feasiblePatterns>>
      /\ ~InLoop /\ ~InLoop'
  BY DEF Finish, fixed, inputs, Unmoved, place, InLoop
<1>2. Started
  BY <1>1 DEF UnionInv, RegionsInv, Started
<1>3. CallsInv' /\ calls' \in Seq(UnionCall')
  BY <1>1, <1>2, LoopFacts, NoCalls
<1>4. TypeOK'
  BY <1>1, <1>2, <1>3, KeepsTypes DEF UnionInv, TypeOK, Started
<1>5. RegionsInv'
  BY <1>1, <1>2, LoopFacts, KeepsRegions
<1> QED
  BY <1>1, <1>3, <1>4, <1>5, KeepsCones, KeepsPatterns DEF Rest

(***************************************************************************)
(* What Union() answers for a vertex, and that it is new.                  *)
(***************************************************************************)
LEMMA AnswerFacts ==
  ASSUME UnionInv, pc = "union"
  PROVE  /\ IsFiniteSet(Answer) /\ Answer \in SUBSET SUBSET Node /\ Answer \cap allPatterns = {}
         /\ \A p \in Answer : Vertex \in p /\ Feasible(p) /\ Connected(p)
<1>1. \A p \in Answer : Growing(p) /\ inputCheck(p) /\ outputCheck(p)
  BY InUnion DEF Answer, CallOK
<1>2. Answer \in SUBSET SUBSET Node
  BY <1>1, GrowingIsTyped
<1>3. IsFiniteSet(Answer)
  <2>1. IsFiniteSet(Node)
    BY SharedCones, GraphFacts
  <2>2. IsFiniteSet(SUBSET Node)
    BY <2>1, FS_SUBSET
  <2> QED
    BY <1>2, <2>2, FS_Subset
<1>4. ASSUME NEW p \in Answer PROVE Vertex \in p /\ Feasible(p) /\ Connected(p)
  <2>1. /\ Vertex \in p /\ p \subseteq Mates(Vertex) /\ isConvex(p) /\ HangsTogether(p)
        /\ p \in SUBSET Node
    BY <1>1, <1>2, <1>4, SharedCones, GrowingMeans
  <2>2. Connected(p)
    BY <2>1, SharedCones, ConnectedMeans
  <2>3. p \cap invalid = {}
    <3>1. orgRegions[Vertex] # 0 /\ Started
      BY InUnion DEF Started
    <3>2. \A v \in p : v \in Node /\ orgRegions[v] # 0
      BY <2>1, <3>1 DEF Mates
    <3> QED
      BY <3>1, <3>2 DEF UnionInv, RegionsInv
  <2> QED
    BY <1>1, <1>4, <2>1, <2>2, <2>3 DEF Feasible
<1>5. Answer \cap allPatterns = {}
  BY <1>1 DEF Growing, UnionInv, KeptInv
<1> QED
  BY <1>2, <1>3, <1>4, <1>5

(***************************************************************************)
(* Union() returns to run(), which keeps what it answers.                  *)
(***************************************************************************)
LEMMA ReturnKeeps ==
  ASSUME UnionInv, ReturnToRun
  PROVE  Rest'
<1>1. /\ Unmoved /\ pc = "union" /\ pc' = "vertex" /\ InLoop /\ ThroughWith /\ calls' = <<>>
      /\ UNCHANGED <<region, uc_set, dc_set, remExts>>
      /\ feasiblePatterns' = feasiblePatterns + Cardinality(Answer)
      /\ allPatterns' = IF benchmark THEN allPatterns ELSE allPatterns \cup Answer
  BY DEF ReturnToRun, Returning, fixed, inputs, Unmoved, InLoop
<1>2. pos \in DOMAIN topo /\ regions[Vertex] = region
  BY <1>1 DEF UnionInv, CallsInv
<1>3. /\ RegionsInv' /\ exclude' = exclude \cup {Vertex} /\ exclude' \subseteq Node /\ Started
      /\ regions' \in [Node -> 0..nregions] /\ pos' \in 1..(Len(topo) + 1)
      /\ region' \in 1..(Cardinality(Node) + 1)
  BY <1>1, <1>2, ThroughKeeps
<1>4. CallsInv' /\ calls' \in Seq(UnionCall')
  BY <1>1, NoCalls
<1>5. /\ IsFiniteSet(Answer) /\ Answer \in SUBSET SUBSET Node
      /\ \A p \in Answer : Vertex \in p /\ Feasible(p) /\ Connected(p)
  BY <1>1, AnswerFacts
<1>6. TypeOK'
  <2>1. feasiblePatterns' \in Nat
    <3>1. Cardinality(Answer) \in Nat /\ feasiblePatterns \in Nat
      BY <1>5, FS_CardinalityType DEF UnionInv, TypeOK
    <3> QED
      BY <1>1, <3>1
  <2>2. allPatterns' \subseteq SUBSET Node
    BY <1>1, <1>5 DEF UnionInv, TypeOK
  <2> QED
    BY <1>1, <1>3, <1>4, <2>1, <2>2, KeepsTypes DEF UnionInv, TypeOK
<1>7. ConesAreCones'
  BY <1>1, KeepsCones
<1>8. KeptInv' /\ LegalPatterns'
  <2>1. \A p \in allPatterns : p \cap exclude # {} /\ Feasible(p) /\ Connected(p)
    BY DEF UnionInv, KeptInv, LegalPatterns
  <2>2. \A p \in allPatterns' : p \cap exclude' # {} /\ Feasible(p) /\ Connected(p)
    BY <1>1, <1>3, <1>5, <2>1
  <2>3. benchmark => allPatterns' = {}
    BY <1>1 DEF UnionInv, KeptInv
  <2> QED
    BY <1>1, <2>2, <2>3, SameLimits DEF KeptInv, LegalPatterns, Unmoved
<1> QED
  BY <1>3, <1>4, <1>6, <1>7, <1>8 DEF Rest

(***************************************************************************)
(* A step that changes nothing.                                            *)
(***************************************************************************)
LEMMA StutterKeeps ==
  ASSUME UnionInv, UNCHANGED vars
  PROVE  Rest'
<1>1. /\ Unmoved /\ UNCHANGED <<pc, regions, region, pos, exclude, uc_set, dc_set, remExts, calls,
                                allPatterns, feasiblePatterns>>
  BY DEF vars, fixed, inputs, place, found, Unmoved
<1>2. Node' = Node /\ invalid' = invalid /\ nregions' = nregions /\ UnionCall' = UnionCall
  BY <1>1, SameGraph, SameRegions DEF Unmoved, UnionCall
<1>3. TypeOK'
  BY <1>1, <1>2 DEF UnionInv, TypeOK, Unmoved
<1>4. RegionsInv'
  <2>1. \A v : topoVector(v)' = topoVector(v)
    BY <1>1 DEF topoVector, Unmoved
  <2>2. (Started' <=> Started) /\ (InLoop' <=> InLoop)
    BY <1>1, <1>2 DEF Started, InLoop
  <2> QED
    BY <1>1, <1>2, <2>1, <2>2 DEF UnionInv, RegionsInv, Unmoved
<1>5. CallsInv'
  BY <1>1, <1>2, SamePlace, SameRegions DEF UnionInv, CallsInv, Depth, Unmoved
<1> QED
  BY <1>1, <1>3, <1>4, <1>5, KeepsCones, KeepsPatterns DEF Rest

(***************************************************************************)
(* The invariant holds at first.                                           *)
(***************************************************************************)
LEMMA UnionInvStarts ==
  ASSUME Init
  PROVE  UnionInv /\ FoundOnce
<1>1. /\ dfg \in Graphs /\ topo \in ReverseTopologicalSorts(dfg) /\ ports \in Ports
      /\ benchmark \in BOOLEAN /\ pc = "start" /\ region = 1 /\ pos = 1
      /\ uc_set = <<>> /\ dc_set = <<>> /\ exclude = {} /\ remExts = {} /\ calls = <<>>
      /\ allPatterns = {} /\ feasiblePatterns = 0
  BY DEF Init
<1>2. GraphInv
  BY <1>1, GraphsAssumption DEF GraphInv, ReverseTopologicalSorts, Node
<1>3. Cardinality(Node) \in Nat /\ Len(topo) \in Nat
  BY <1>2, GraphFacts, TopoFacts
<1>4. DOMAIN uc_set = {} /\ DOMAIN dc_set = {} /\ Depth = 0 /\ calls \in Seq(UnionCall)
  BY <1>1 DEF Depth
<1>5. TypeOK
  BY <1>1, <1>2, <1>3, <1>4 DEF TypeOK, GraphInv
<1>6. RegionsInv
  BY <1>1 DEF RegionsInv, Started
<1>7. ConesAreCones
  BY <1>4 DEF ConesAreCones
<1>8. CallsInv
  BY <1>1, <1>4 DEF CallsInv
<1>9. KeptInv /\ LegalPatterns
  BY <1>1 DEF KeptInv, LegalPatterns
<1>10. ExtensionsOnce
  BY InitInv DEF RecursionInv
<1>11. FoundOnce
  BY <1>1, FS_EmptySet DEF FoundOnce
<1> QED
  BY <1>5, <1>6, <1>7, <1>8, <1>9, <1>10, <1>11 DEF UnionInv

(***************************************************************************)
(* It has all that the proofs about the recursion start from.              *)
(***************************************************************************)
LEMMA UnionInvIsRecursionInv ==
  ASSUME UnionInv
  PROVE  RecursionInv
<1>1. calls \in Seq(UnionCall) /\ Depth = Len(calls) /\ Depth \in Nat
  BY DEF UnionInv, TypeOK, Depth
<1>2. \A i \in 1..Depth : calls[i] \in UnionCall
  BY <1>1
<1>3. \A c \in UnionCall : DOMAIN c = Fields
  BY DEF UnionCall, Fields
<1>4. IsFiniteSet(Node) /\ remExts \subseteq Node /\ ExtensionsOnce
  BY SharedCones, GraphFacts DEF UnionInv, TypeOK
<1>5. pc = "union" => Depth > 0
  BY InUnion
<1> QED
  BY <1>1, <1>2, <1>3, <1>4, <1>5 DEF RecursionInv, StackInv

(***************************************************************************)
(* Every step keeps it.                                                    *)
(***************************************************************************)
LEMMA UnionInvKeeps ==
  ASSUME UnionInv, [Next]_vars
  PROVE  UnionInv'
<1>1. Rest'
  BY StartKeeps, EmptyGraphKeeps, SkipVertexKeeps, NoExtensionsKeeps, CallUnionKeeps,
     EnumerateKeeps, EndOfRegionKeeps, FinishKeeps, ChoicesKeep, ReturnKeeps, StutterKeeps
     DEF Next
<1>2. RecursionInv'
  BY UnionInvIsRecursionInv, StepKeeps, QuietStep DEF vars, fixed, inputs
<1> QED
  BY <1>1, <1>2 DEF Rest, UnionInv, RecursionInv

(***************************************************************************)
(* The number of patterns found is that of different ones.                 *)
(***************************************************************************)
LEMMA FoundOnceKeeps ==
  ASSUME UnionInv, FoundOnce, IsFiniteSet(allPatterns), [Next]_vars
  PROVE  FoundOnce' /\ IsFiniteSet(allPatterns')
<1>1. CASE ReturnToRun
  <2>1. /\ benchmark' = benchmark /\ pc = "union"
        /\ feasiblePatterns' = feasiblePatterns + Cardinality(Answer)
        /\ allPatterns' = IF benchmark THEN allPatterns ELSE allPatterns \cup Answer
    BY <1>1 DEF ReturnToRun, Returning, fixed, inputs
  <2>2. IsFiniteSet(Answer) /\ Answer \cap allPatterns = {}
    BY <2>1, AnswerFacts
  <2>3. /\ IsFiniteSet(allPatterns \cup Answer)
        /\ Cardinality(allPatterns \cup Answer)
             = Cardinality(allPatterns) + Cardinality(Answer) - Cardinality(allPatterns \cap Answer)
    BY <2>2, FS_Union
  <2>4. Cardinality(allPatterns \cap Answer) = 0
    BY <2>2, FS_EmptySet
  <2>5. Cardinality(allPatterns) \in Nat /\ Cardinality(Answer) \in Nat
    BY <2>2, FS_CardinalityType
  <2>6. Cardinality(allPatterns \cup Answer) = Cardinality(allPatterns) + Cardinality(Answer)
    BY <2>3, <2>4, <2>5
  <2> QED
    BY <2>1, <2>3, <2>6 DEF FoundOnce
<1>2. CASE ~ReturnToRun
  <2>1. UNCHANGED <<benchmark, allPatterns, feasiblePatterns>>
    BY <1>2 DEF Next, Start, EmptyGraph, EnumerateUpwardCones, SkipVertex, NoExtensions, CallUnion,
                EndOfRegion, Finish, SkipChoice, JoinChoice, Deepen, ReturnToUnion, vars, fixed,
                inputs, found
  <2> QED
    BY <2>1 DEF FoundOnce
<1> QED
  BY <1>1, <1>2

(***************************************************************************)
(* What the calls of Union() share and hold stays what it should be, for   *)
(* every graph, order and ports; so every pattern that is kept fits the    *)
(* ports, hangs together and holds no invalid vertex.                      *)
(***************************************************************************)
THEOREM PatternsAreLegal == Spec => []UnionInv
<1>1. Init => UnionInv
  BY UnionInvStarts
<1>2. UnionInv /\ [Next]_vars => UnionInv'
  BY UnionInvKeeps
<1> QED
  BY <1>1, <1>2, PTL DEF Spec

(***************************************************************************)
(* No pattern is found for two vertices.                                   *)
(***************************************************************************)
THEOREM NothingIsFoundTwice == Spec => []FoundOnce
<1> DEFINE I == UnionInv /\ FoundOnce /\ IsFiniteSet(allPatterns)
<1>1. Init => I
  BY UnionInvStarts, FS_EmptySet DEF Init
<1>2. I /\ [Next]_vars => I'
  BY UnionInvKeeps, FoundOnceKeeps
<1>3. I => FoundOnce
  OBVIOUS
<1> QED
  BY <1>1, <1>2, <1>3, PTL DEF Spec

-----------------------------------------------------------------------------
(***************************************************************************)
(* Upward cones that the enumeration must not miss.                        *)
(***************************************************************************)
Wanted(p, v) ==
  /\ p \in SUBSET (Node \ invalid) /\ UpwardConeOf(p, v)
  /\ inputCheck(p) /\ isConvex(p)
  /\ \A u \in p : ecs[u] \cap p = {}

(***************************************************************************)
(* The part of p that leads to w.                                          *)
(***************************************************************************)
Reach(p, u)  == Descendants(Within(p), {u})
Behind(p, w) == {u \in p : w \in Reach(p, u)}

(***************************************************************************)
(* What is behind w has its operands in p with it, and consists of w and   *)
(* what is behind the operands of w.                                       *)
(***************************************************************************)
LEMMA BehindFacts ==
  ASSUME GraphInv, NEW p \in SUBSET Node, NEW w \in p
  PROVE  /\ w \in Behind(p, w) /\ Behind(p, w) \in SUBSET p
         /\ \A x \in Behind(p, w) : \A u \in Preds(x) \cap p : u \in Behind(p, w)
         /\ \A k \in Preds(w) \cap p : Behind(p, k) \subseteq Behind(p, w)
         /\ \A x \in Behind(p, w) \ {w} : \E k \in Preds(w) \cap p : x \in Behind(p, k)
<1>1. ASSUME NEW u \in p
      PROVE  /\ Reach(p, u) \in SUBSET p /\ u \in Reach(p, u) /\ ClosedDown(Reach(p, u), p)
             /\ \A T \in SUBSET p : u \in T /\ ClosedDown(T, p) => Reach(p, u) \subseteq T
  BY DescendantsWithin DEF Reach
<1>2. \A x, y \in p : y \in Preds(x) <=> x \in Succs(y)
  BY GraphFacts
<1>3. w \in Behind(p, w) /\ Behind(p, w) \in SUBSET p
  BY <1>1 DEF Behind
<1>4. ASSUME NEW x \in Behind(p, w), NEW u \in Preds(x) \cap p PROVE u \in Behind(p, w)
  <2>1. x \in p /\ w \in Reach(p, x) /\ x \in Succs(u)
    BY <1>2, <1>4 DEF Behind
  <2>2. x \in Reach(p, u)
    BY <1>1, <2>1 DEF ClosedDown
  <2>3. Reach(p, x) \subseteq Reach(p, u)
    BY <1>1, <2>1, <2>2
  <2> QED
    BY <2>1, <2>3 DEF Behind
<1>5. ASSUME NEW k \in Preds(w) \cap p, NEW x \in Behind(p, k) PROVE x \in Behind(p, w)
  <2>1. x \in p /\ k \in Reach(p, x) /\ w \in Succs(k)
    BY <1>2, <1>5 DEF Behind
  <2>2. w \in Reach(p, x)
    BY <1>1, <2>1 DEF ClosedDown
  <2> QED
    BY <2>1, <2>2 DEF Behind
<1>6. ASSUME NEW x \in Behind(p, w) \ {w},
             \A k \in Preds(w) \cap p : x \notin Behind(p, k)
      PROVE  FALSE
  <2> DEFINE T == Reach(p, x) \ {w}
  <2>1. x \in p /\ w \in Reach(p, x)
    BY <1>6 DEF Behind
  <2>2. T \in SUBSET p /\ x \in T
    BY <1>1, <1>6, <2>1
  <2>3. \A k \in Preds(w) \cap p : k \notin Reach(p, x)
    BY <1>6, <2>1 DEF Behind
  <2>4. ClosedDown(T, p)
    <3>1. ASSUME NEW y \in T, NEW z \in Succs(y) \cap p PROVE z \in T
      <4>1. z \in Reach(p, x)
        BY <1>1, <2>1, <3>1 DEF ClosedDown
      <4>2. y \in p /\ y \notin Preds(w)
        BY <2>2, <2>3
      <4>3. z # w
        BY <1>2, <3>1, <4>2
      <4> QED
        BY <4>1, <4>3
    <3> QED
      BY <3>1 DEF ClosedDown
  <2> HIDE DEF T
  <2>5. Reach(p, x) \subseteq T
    BY <1>1, <2>1, <2>2, <2>4
  <2> QED
    BY <2>1, <2>5 DEF T
<1> QED
  BY <1>3, <1>4, <1>5, <1>6

(***************************************************************************)
(* All of an upward cone leads to its vertex.                              *)
(***************************************************************************)
LEMMA WholeConeIsBehind ==
  ASSUME GraphInv, NEW p \in SUBSET Node, NEW v, UpwardConeOf(p, v)
  PROVE  v \in p /\ LeadsTo(p, v) /\ Behind(p, v) = p
<1>1. v \in p /\ \A u \in p \ {v} : Succs(u) \cap p # {}
  BY DEF UpwardConeOf
<1>2. LeadsTo(p, v)
  <2> SUFFICES ASSUME NEW T \in SUBSET p, T # {}, ClosedDown(T, p), v \notin T PROVE FALSE
    BY DEF LeadsTo
  <2> DEFINE rank == [u \in Node |-> topoVector(u)]
  <2>1. rank \in [Node -> Nat]
    BY TopoFacts
  <2>2. PICK m \in T : \A j \in Node : rank[j] < rank[m] => j \notin T
    <3>1. T \in SUBSET Node
      OBVIOUS
    <3> HIDE DEF rank
    <3> QED
      BY <2>1, <3>1, LowestOf
  <2>3. PICK y \in Succs(m) \cap p : TRUE
    BY <1>1
  <2>4. y \in T
    BY <2>3 DEF ClosedDown
  <2>5. m \in Node /\ y \in Node /\ topoVector(y) < topoVector(m)
    BY <2>3, TopoFacts
  <2> QED
    BY <2>2, <2>4, <2>5
<1>3. \A u \in p : v \in Descendants(Within(p), {u})
  BY <1>1, <1>2, UpwardCone
<1> QED
  BY <1>1, <1>2, <1>3 DEF Behind, Reach

(***************************************************************************)
(* What is behind a vertex of p needs no more inputs than p and is convex  *)
(* like p: the enumeration keeps it.                                       *)
(***************************************************************************)
LEMMA BehindFits ==
  ASSUME GraphInv, ports \in Nat \X Nat, NEW p, NEW v, Wanted(p, v), NEW w \in p
  PROVE  inputCheck(Behind(p, w)) /\ isConvex(Behind(p, w))
<1> DEFINE q == Behind(p, w)
<1>1. p \in SUBSET Node /\ inputCheck(p) /\ isConvex(p)
  BY DEF Wanted
<1>2. q \in SUBSET p /\ \A x \in q : \A u \in Preds(x) \cap p : u \in q
  BY <1>1, BehindFacts
<1> HIDE DEF q
<1>3. inputCheck(q)
  <2>1. InputsOf(q) \in SUBSET InputsOf(p)
    BY <1>2 DEF InputsOf
  <2>2. InputsOf(p) \in SUBSET Node
    BY <1>1, GraphFacts DEF InputsOf
  <2>3. IsFiniteSet(InputsOf(p))
    BY <2>2, GraphFacts, FS_Subset
  <2>4. /\ Cardinality(InputsOf(q)) <= Cardinality(InputsOf(p))
        /\ Cardinality(InputsOf(q)) \in Nat /\ Cardinality(InputsOf(p)) \in Nat
    BY <2>1, <2>3, FS_Subset, FS_CardinalityType
  <2>5. ports[1] \in Nat
    OBVIOUS
  <2> QED
    BY <1>1, <2>4, <2>5 DEF inputCheck
<1>4. isConvex(q)
  <2> SUFFICES ASSUME NEW x \in q, NEW t \in Succs(x) \ q, NEW y \in Succs(t) \cap q PROVE FALSE
    BY DEF isConvex
  <2>1. x \in Node /\ t \in Node /\ y \in Node
    BY <1>1, <1>2, GraphFacts
  <2>2. t \in Preds(y)
    BY <2>1, GraphFacts
  <2>3. t \notin p
    BY <1>2, <2>2
  <2> QED
    BY <1>1, <1>2, <2>3 DEF isConvex
<1> QED
  BY <1>3, <1>4 DEF q

(***************************************************************************)
(* What an operand that Eliminate() drops leads to is behind another one   *)
(* that is kept: the cones of those that are kept make up the whole.       *)
(***************************************************************************)
LEMMA BehindIsBunch ==
  ASSUME GraphInv, NEW r, NEW p, NEW v, Wanted(p, v), p \subseteq InRegion(r), NEW w \in p,
         NEW T, T = UpOperands(w, r) \cap p,
         NEW f, \A u \in T : f[u] = Behind(p, u)
  PROVE  Behind(p, w) = Bunch(w, T, f)
<1> DEFINE all == (Preds(w) \cap InRegion(r)) \ ecs[w]
<1>1. p \in SUBSET Node /\ w \in Node /\ isConvex(p) /\ \A u \in p : ecs[u] \cap p = {}
  BY DEF Wanted
<1>2. /\ w \in Behind(p, w) /\ Behind(p, w) \in SUBSET p
      /\ \A k \in Preds(w) \cap p : Behind(p, k) \subseteq Behind(p, w)
      /\ \A x \in Behind(p, w) \ {w} : \E k \in Preds(w) \cap p : x \in Behind(p, k)
  BY <1>1, BehindFacts
<1>3. /\ UpOperands(w, r) \in SUBSET all
      /\ \A u \in all \ UpOperands(w, r) : \E k \in all : u \in predsOf[k]
  <2>1. Cardinality(Node) \in Nat
    BY GraphFacts
  <2> QED
    BY <2>1, EliminateFacts DEF UpOperands
<1>4. Preds(w) \cap p \subseteq all
  BY <1>1
<1>5. all \subseteq Node /\ all \subseteq Preds(w)
  BY DEF InRegion
<1> HIDE DEF all
<1>6. Bunch(w, T, f) \subseteq Behind(p, w)
  <2>1. ASSUME NEW u \in T PROVE f[u] \subseteq Behind(p, w)
    BY <1>2, <1>3, <1>5
  <2> QED
    BY <1>2, <2>1 DEF Bunch
<1>7. ASSUME NEW x \in Behind(p, w), x # w PROVE \E u \in T : x \in Behind(p, u)
  <2> DEFINE on   == {k \in Preds(w) \cap p : x \in Behind(p, k)}
             rank == [u \in Node |-> topoVector(u)]
  <2>1. rank \in [Node -> Nat]
    BY TopoFacts
  <2>2. on # {} /\ on \in SUBSET Node
    BY <1>1, <1>2, <1>7
  <2>3. PICK k \in on : \A j \in Node : rank[j] < rank[k] => j \notin on
    <3> HIDE DEF rank, on
    <3> QED
      BY <2>1, <2>2, LowestOf
  <2>4. k \in all /\ k \in p /\ k \in Node /\ x \in Behind(p, k)
    BY <1>1, <1>4, <2>3
  <2>5. k \in UpOperands(w, r)
    <3> SUFFICES ASSUME k \notin UpOperands(w, r) PROVE FALSE
      OBVIOUS
    <3>1. PICK j \in all : k \in predsOf[j]
      BY <1>3, <2>4
    <3>2. j \in Node /\ j \in Preds(w) /\ k \in Preds(j)
      BY <1>5, <3>1 DEF predsOf
    <3>3. j \in Succs(k) /\ w \in Succs(j)
      BY <1>1, <2>4, <3>2, GraphFacts
    <3>4. j \in p
      BY <1>1, <2>4, <3>3 DEF isConvex
    <3>5. Behind(p, k) \subseteq Behind(p, j)
      BY <1>1, <2>4, <3>2, <3>4, BehindFacts
    <3>6. j \in on
      BY <2>4, <3>2, <3>4, <3>5
    <3>7. topoVector(j) < topoVector(k)
      BY <2>4, <3>3, TopoFacts
    <3> QED
      BY <2>3, <2>4, <3>2, <3>6, <3>7
  <2> QED
    BY <2>4, <2>5
<1>8. Behind(p, w) \subseteq Bunch(w, T, f)
  BY <1>7 DEF Bunch
<1> QED
  BY <1>6, <1>8

(***************************************************************************)
(* A choice of cones joined with the vertex is among the combined cones    *)
(* when it is convex and free of conflicts.                                *)
(***************************************************************************)
LEMMA BunchIsCombined ==
  ASSUME NEW v, NEW S, IsFiniteSet(S), NEW cones, NEW T \in SUBSET S, NEW f \in ConeChoices(T, cones),
         isConvex(Bunch(v, T, f)), Bunch(v, T, f) \cap ecs[v] = {}
  PROVE  Bunch(v, T, f) \in Combined(v, S, cones)
<1> DEFINE C == Bunch(v, T, f)
<1>1. CASE T = {}
  <2>1. C = {v}
    BY <1>1 DEF Bunch
  <2> QED
    BY <2>1 DEF Combined
<1>2. CASE T # {}
  <2>1. C \in Joins({{v}}, T, cones)
    BY DEF Joins, Bunch
  <2>2. C \in Product({{v}}, T, cones)
    BY <2>1, FS_Subset, ProductIsJoins
  <2>3. T \in (SUBSET S) \ {{}}
    BY <1>2
  <2> HIDE DEF C
  <2>4. C \in UNION {Product({{v}}, X, cones) : X \in (SUBSET S) \ {{}}}
    BY <2>2, <2>3
  <2> QED
    BY <2>4 DEF Combined, C
<1> QED
  BY <1>1, <1>2

(***************************************************************************)
(* enumerateUpwardCones() builds every cone that is wanted: going from     *)
(* operands to users, it builds what is behind each vertex of the cone.    *)
(***************************************************************************)
LEMMA WantedAreEnumerated ==
  ASSUME GraphInv, ports \in Nat \X Nat, NEW r, NEW v \in InRegion(r), NEW p, Wanted(p, v),
         p \subseteq InRegion(r)
  PROVE  p \in UpwardCones(r)[v]
<1>1. PICK at \in [DOMAIN topo -> ConeSets] :
             /\ \A k \in DOMAIN topo : at[k] = UpChoice(at, topo[k], r)
             /\ UpwardCones(r) = [u \in InRegion(r) |-> at[topoVector(u)]]
  BY UpwardConesSolve
<1> DEFINE K == DOMAIN topo
           B == {k \in K : topo[k] \in p /\ Behind(p, topo[k]) \notin at[k]}
           rank == [k \in K |-> Len(topo) - k]
<1>2. /\ rank \in [K -> Nat] /\ Len(topo) \in Nat
      /\ \A k \in K : topo[k] \in Node /\ k \in Nat
  BY TopoFacts
<1>3. p \in SUBSET Node /\ \A u \in p : ecs[u] \cap p = {}
  BY DEF Wanted
<1>4. B = {}
  <2> SUFFICES ASSUME B # {} PROVE FALSE
    OBVIOUS
  <2>1. PICK m \in B : \A j \in K : rank[j] < rank[m] => j \notin B
    <3>1. B \in SUBSET K /\ B # {}
      OBVIOUS
    <3>2. rank \in [K -> Nat]
      BY <1>2
    <3> HIDE DEF B, rank, K
    <3> QED
      BY <3>1, <3>2, LowestOf
  <2> DEFINE w == topo[m]
             S == UpOperands(w, r)
             T == S \cap p
             c == [u \in S |-> at[topoVector(u)]]
             f == [u \in T |-> Behind(p, u)]
  <2>2. m \in K /\ w \in p /\ w \in Node /\ topoVector(w) = m /\ Behind(p, w) \notin at[m]
    BY <1>2, <2>1, TopoFacts
  <2>3. S \in SUBSET Node /\ IsFiniteSet(S) /\ S \in SUBSET Preds(w)
    BY <2>2, OperandsFacts
  <2>4. ASSUME NEW u \in T PROVE f[u] \in c[u]
    <3>1. u \in Node /\ u \in p /\ u \in Preds(w)
      BY <2>3
    <3>2. topoVector(u) \in K /\ topo[topoVector(u)] = u /\ topoVector(w) < topoVector(u)
      BY <2>2, <3>1, TopoFacts
    <3>3. rank[topoVector(u)] < rank[m]
      BY <1>2, <2>2, <3>2
    <3>4. topoVector(u) \notin B
      BY <2>1, <3>2, <3>3
    <3> QED
      BY <3>1, <3>2, <3>4
  <2>5. f \in ConeChoices(T, c)
    <3>1. \A u \in T : f[u] \in c[u] /\ f[u] \in UNION {c[x] : x \in T}
      BY <2>4
    <3>2. DOMAIN f = T /\ f = [u \in T |-> f[u]]
      OBVIOUS
    <3> HIDE DEF f, c, T
    <3> QED
      BY <3>1, <3>2 DEF ConeChoices
  <2>6. \A u \in T : f[u] = Behind(p, u)
    OBVIOUS
  <2>7. T \in SUBSET S
    OBVIOUS
  <2>8. Behind(p, w) = Bunch(w, T, f)
    <3> HIDE DEF f, w, S
    <3> QED
      BY <2>2, <2>6, BehindIsBunch DEF S
  <2>9. inputCheck(Behind(p, w)) /\ isConvex(Behind(p, w)) /\ Behind(p, w) \in SUBSET p
    BY <1>3, <2>2, BehindFits, BehindFacts
  <2>10. Behind(p, w) \cap ecs[w] = {}
    BY <1>3, <2>2, <2>9
  <2>11. Behind(p, w) \in Combined(w, S, c)
    <3>1. isConvex(Bunch(w, T, f)) /\ Bunch(w, T, f) \cap ecs[w] = {}
      <4> HIDE DEF f, w, S, c, T
      <4> QED
        BY <2>8, <2>9, <2>10
    <3>2. IsFiniteSet(S) /\ T \in SUBSET S /\ f \in ConeChoices(T, c)
      <4> HIDE DEF f, w, S, c, T
      <4> QED
        BY <2>3, <2>5, <2>7
    <3>3. Bunch(w, T, f) \in Combined(w, S, c)
      <4> HIDE DEF f, w, S, c, T
      <4> QED
        BY <3>1, <3>2, BunchIsCombined
    <3> HIDE DEF f, w, S, c, T
    <3> QED
      BY <2>8, <3>3
  <2>12. Behind(p, w) \in UpChoice(at, w, r)
    BY <2>9, <2>11 DEF UpChoice
  <2> QED
    BY <1>1, <2>2, <2>12
<1>5. v \in p /\ Behind(p, v) = p
  BY <1>3, WholeConeIsBehind DEF Wanted
<1>6. v \in Node /\ topoVector(v) \in K /\ topo[topoVector(v)] = v
  BY TopoFacts DEF InRegion
<1>7. p \in at[topoVector(v)]
  BY <1>4, <1>5, <1>6
<1> QED
  BY <1>1, <1>7

-----------------------------------------------------------------------------
(***************************************************************************)
(* Vertices that an edge joins are in one region.                          *)
(***************************************************************************)
RegionsClosed(reg) == \A u \in Node \ invalid : \A v \in Succs(u) \ invalid : reg[u] = reg[v]

(***************************************************************************)
(* defineRegions() gives the ends of an edge between valid vertices the    *)
(* same number.                                                            *)
(***************************************************************************)
LEMMA DefinedRegionsAreClosed ==
  ASSUME GraphInv
  PROVE  RegionsClosed(DefinedRegions)
<1> DEFINE valid  == Node \ invalid
           lowest == [v \in valid |-> Min(Component(v, valid))]
<1>1. valid \in SUBSET Node
  OBVIOUS
<1>2. ASSUME NEW u \in valid, NEW v \in Succs(u) \ invalid
      PROVE  v \in valid /\ lowest[u] = lowest[v]
  <2>1. v \in valid /\ v \in Succs(u) \cap valid /\ u \in Preds(v) \cap valid
    BY <1>2, GraphFacts
  <2> HIDE DEF valid
  <2>2. /\ Component(u, valid) \in SUBSET valid /\ u \in Component(u, valid)
        /\ ClosedDown(Component(u, valid), valid) /\ ClosedUp(Component(u, valid), valid)
        /\ \A T \in SUBSET valid : u \in T /\ ClosedDown(T, valid) /\ ClosedUp(T, valid)
                                    => Component(u, valid) \subseteq T
    BY <1>1, <1>2, ComponentFacts
  <2>3. /\ Component(v, valid) \in SUBSET valid /\ v \in Component(v, valid)
        /\ ClosedDown(Component(v, valid), valid) /\ ClosedUp(Component(v, valid), valid)
        /\ \A T \in SUBSET valid : v \in T /\ ClosedDown(T, valid) /\ ClosedUp(T, valid)
                                    => Component(v, valid) \subseteq T
    BY <1>1, <2>1, ComponentFacts
  <2>4. v \in Component(u, valid) /\ u \in Component(v, valid)
    BY <2>1, <2>2, <2>3 DEF ClosedDown, ClosedUp
  <2>5. Component(u, valid) = Component(v, valid)
    BY <2>2, <2>3, <2>4
  <2> QED
    BY <1>2, <2>1, <2>5
<1>3. ASSUME NEW u \in valid, NEW v \in Succs(u) \ invalid
      PROVE  DefinedRegions[u] = DefinedRegions[v]
  <2>1. u \in Node /\ v \in Node /\ u \in valid /\ v \in valid /\ lowest[u] = lowest[v]
    BY <1>2, <1>3
  <2>2. \A w \in valid : DefinedRegions[w]
                           = Cardinality({lowest[x] : x \in valid} \cap 1..lowest[w])
    BY DEF DefinedRegions
  <2> HIDE DEF lowest, valid
  <2> QED
    BY <2>1, <2>2
<1> QED
  BY <1>3 DEF RegionsClosed

(***************************************************************************)
(* So a cone is in the region of its vertex.                               *)
(***************************************************************************)
LEMMA WantedAreMates ==
  ASSUME GraphInv, RegionsClosed(orgRegions), NEW p, NEW v, Wanted(p, v)
  PROVE  v \in p /\ p \subseteq Mates(v)
<1>1. p \in SUBSET (Node \ invalid) /\ UpwardConeOf(p, v)
  BY DEF Wanted
<1>2. v \in p /\ LeadsTo(p, v)
  BY <1>1, WholeConeIsBehind
<1> DEFINE T == {u \in p : orgRegions[u] # orgRegions[v]}
<1>3. ClosedDown(T, p)
  <2>1. \A u \in p : \A w \in Succs(u) \cap p : orgRegions[u] = orgRegions[w]
    BY <1>1 DEF RegionsClosed
  <2> QED
    BY <2>1 DEF ClosedDown
<1>4. T = {}
  BY <1>2, <1>3 DEF LeadsTo
<1> QED
  BY <1>1, <1>2, <1>4 DEF Mates

(***************************************************************************)
(* Nothing is missed: the cones a region is given when run() comes to it   *)
(* have all that are wanted; the calls for a vertex keep them; run() keeps *)
(* those that fit when it is through with the vertex, as it is in the end  *)
(* with every vertex of a region.                                          *)
(***************************************************************************)
RegionsAreClosed == Started => RegionsClosed(orgRegions)

NoneIsSkipped ==
  Started => \A v \in Node :
    \/ orgRegions[v] \in 1..(region - 1)
    \/ InLoop /\ orgRegions[v] = region /\ topoVector(v) < pos
    => v \in exclude

AllAreEnumerated == \A v \in DOMAIN uc_set : \A p \in SUBSET Node : Wanted(p, v) => p \in uc_set[v]

AllAreHeld == pc = "union" => uc_set[Vertex] \subseteq calls[1].new_core

AllAreKept ==
  ~benchmark => \A v \in exclude : getOutputNodes({v}) # {} =>
    \A p \in uc_set[v] : inputCheck(p) /\ outputCheck(p) => p \in allPatterns

AllAreReturned == pc = "done" /\ Node # {} => region > nregions /\ result = allPatterns

CompleteInv ==
  /\ RegionsAreClosed
  /\ NoneIsSkipped
  /\ AllAreEnumerated
  /\ AllAreHeld
  /\ AllAreKept
  /\ AllAreReturned

(***************************************************************************)
(* Only the first step touches the graph, its regions or conflicts.        *)
(***************************************************************************)
LEMMA OnlyStartMoves ==
  ASSUME UnionInv, [Next]_vars, ~Start
  PROVE  Unmoved /\ (Started' <=> Started) /\ Node' = Node /\ nregions' = nregions
<1>1. Unmoved
  BY DEF Next, EmptyGraph, EnumerateUpwardCones, SkipVertex, NoExtensions, CallUnion,
         EndOfRegion, Finish, SkipChoice, JoinChoice, Deepen, ReturnToUnion, ReturnToRun,
         vars, fixed, inputs, Unmoved
<1>2. Node' = Node /\ nregions' = nregions
  BY <1>1, SameGraph, SameRegions DEF Unmoved
<1>3. EmptyGraph \/ (pc' # "start" <=> pc # "start")
  BY DEF Next, EnumerateUpwardCones, SkipVertex, NoExtensions, CallUnion, AtVertex,
         EndOfRegion, Finish, SkipChoice, JoinChoice, Deepen, ReturnToUnion, ReturnToRun,
         UseChoice, Choosing, Returning, vars
<1>4. EmptyGraph => Node = {}
  BY DEF EmptyGraph
<1> QED
  BY <1>1, <1>2, <1>3, <1>4 DEF Started

(***************************************************************************)
(* Regions, once defined, stay closed.                                     *)
(***************************************************************************)
LEMMA ClosedKeeps ==
  ASSUME UnionInv, RegionsAreClosed, [Next]_vars
  PROVE  RegionsAreClosed'
<1>1. CASE Start
  <2>1. orgRegions' = DefinedRegions /\ dfg' = dfg
    BY <1>1 DEF Start, inputs
  <2>2. RegionsClosed(DefinedRegions)
    BY SharedCones, DefinedRegionsAreClosed
  <2> QED
    BY <2>1, <2>2, SameGraph DEF RegionsAreClosed, RegionsClosed, Succs
<1>2. CASE ~Start
  BY <1>2, OnlyStartMoves, SameGraph DEF RegionsAreClosed, RegionsClosed, Succs, Unmoved
<1> QED
  BY <1>1, <1>2

(***************************************************************************)
(* No vertex of a region is passed by.                                     *)
(***************************************************************************)
LEMMA SkippedKeeps ==
  ASSUME UnionInv, NoneIsSkipped, [Next]_vars
  PROVE  NoneIsSkipped'
<1>1. CASE Start
  <2>1. region = 1 /\ region' = 1 /\ pc' = "region"
    BY <1>1 DEF Start, UnionInv, RegionsInv
  <2>2. ~InLoop' /\ 1..(region' - 1) = {}
    BY <2>1 DEF InLoop
  <2> QED
    BY <2>2 DEF NoneIsSkipped
<1>2. CASE ~Start
  <2> SUFFICES ASSUME Started',
                      NEW v \in Node,
                      \/ orgRegions'[v] \in 1..(region' - 1)
                      \/ InLoop' /\ orgRegions'[v] = region' /\ topoVector(v)' < pos'
               PROVE  v \in exclude'
    BY <1>2, OnlyStartMoves DEF NoneIsSkipped
  <2>1. Unmoved /\ Started /\ topoVector(v)' = topoVector(v)
    BY <1>2, OnlyStartMoves DEF topoVector, Unmoved
  <2>2. \/ orgRegions[v] \in 1..(region' - 1)
        \/ InLoop' /\ orgRegions[v] = region' /\ topoVector(v) < pos'
    BY <2>1 DEF Unmoved
  <2>3. /\ region \in Nat \ {0} /\ pos \in Nat /\ Len(topo) \in Nat /\ topoVector(v) \in 1..Len(topo)
        /\ topo[topoVector(v)] = v /\ orgRegions[v] \in Nat
        /\ regions[v] = (IF v \in exclude THEN 0 ELSE orgRegions[v])
    <3>1. topoVector(v) \in DOMAIN topo /\ topo[topoVector(v)] = v
      BY SharedCones, TopoFacts
    <3> QED
      BY <2>1, <3>1, RegionFacts, LoopFacts
  <2>4. \/ orgRegions[v] \in 1..(region - 1)
        \/ InLoop /\ orgRegions[v] = region /\ topoVector(v) < pos
        => v \in exclude
    BY <2>1 DEF NoneIsSkipped
  <2>5. CASE EnumerateUpwardCones
    <3>1. region' = region /\ exclude' = exclude /\ pos' = 1
      BY <2>5 DEF EnumerateUpwardCones
    <3> QED
      BY <2>2, <2>3, <2>4, <3>1
  <2>6. CASE SkipVertex
    <3>1. /\ region' = region /\ exclude' = exclude /\ pos' = pos + 1 /\ InLoop
          /\ regions[topo[pos]] # region
      BY <2>6 DEF SkipVertex, AtVertex, Vertex, InLoop
    <3> QED
      BY <2>2, <2>3, <2>4, <3>1
  <2>7. CASE NoExtensions \/ ReturnToRun
    <3>1. region' = region /\ exclude' = exclude \cup {topo[pos]} /\ pos' = pos + 1 /\ InLoop
      BY <2>7 DEF NoExtensions, ReturnToRun, Returning, ThroughWith, AtVertex, Vertex, InLoop
    <3> QED
      BY <2>2, <2>3, <2>4, <3>1
  <2>8. CASE EndOfRegion
    <3>1. region' = region + 1 /\ exclude' = exclude /\ ~InLoop' /\ InLoop /\ pos > Len(topo)
      BY <2>8 DEF EndOfRegion, InLoop
    <3>2. orgRegions[v] \in 1..(region - 1) \/ orgRegions[v] = region
      BY <2>2, <2>3, <3>1
    <3> QED
      BY <2>3, <2>4, <3>1, <3>2
  <2>9. CASE CallUnion \/ SkipChoice \/ JoinChoice \/ Deepen \/ ReturnToUnion
    <3>1. UNCHANGED <<region, exclude, pos>> /\ InLoop
      BY <2>9 DEF CallUnion, SkipChoice, JoinChoice, Deepen, ReturnToUnion, AtVertex, UseChoice,
                  Choosing, Returning, place, InLoop
    <3> QED
      BY <2>2, <2>4, <3>1
  <2>10. CASE EmptyGraph \/ Finish
    <3>1. UNCHANGED <<region, exclude, pos>> /\ ~InLoop'
      BY <2>10 DEF EmptyGraph, Finish, place, InLoop
    <3> QED
      BY <2>2, <2>4, <3>1
  <2>11. CASE UNCHANGED vars
    <3>1. UNCHANGED <<region, exclude, pos>> /\ (InLoop' <=> InLoop)
      BY <2>11 DEF vars, place, InLoop
    <3> QED
      BY <2>2, <2>4, <3>1
  <2> QED
    BY <1>2, <2>5, <2>6, <2>7, <2>8, <2>9, <2>10, <2>11 DEF Next
<1> QED
  BY <1>1, <1>2

(***************************************************************************)
(* Which cones are wanted depends on what never changes.                   *)
(***************************************************************************)
LEMMA WantedIsSame ==
  ASSUME Unmoved
  PROVE  /\ \A p, v : Wanted(p, v)' <=> Wanted(p, v)
         /\ \A p : /\ inputCheck(p)' <=> inputCheck(p)
                   /\ outputCheck(p)' <=> outputCheck(p)
                   /\ getOutputNodes(p)' = getOutputNodes(p)
BY DEF Unmoved, Wanted, UpwardConeOf, inputCheck, outputCheck, InputsOf, OutputsOf, getOutputNodes,
       isConvex, Preds, Succs, Node, invalid, isValidNode

(***************************************************************************)
(* The cones of a region are built when run() comes to it, and stay.       *)
(***************************************************************************)
LEMMA EnumeratedKeeps ==
  ASSUME UnionInv, RegionsAreClosed, AllAreEnumerated, [Next]_vars
  PROVE  AllAreEnumerated'
<1>1. CASE Start
  <2>1. uc_set' = uc_set /\ uc_set = <<>>
    BY <1>1 DEF Start, UnionInv, RegionsInv
  <2>2. DOMAIN uc_set' = {}
    BY <2>1
  <2> QED
    BY <2>2 DEF AllAreEnumerated
<1>2. CASE EnumerateUpwardCones
  <2>1. /\ uc_set' = With(uc_set, UpwardCones(region)) /\ pc = "region" /\ ~InLoop /\ Unmoved
    BY <1>2 DEF EnumerateUpwardCones, InLoop, fixed, inputs, Unmoved
  <2>2. Started /\ GraphInv /\ RegionsClosed(orgRegions) /\ ports \in Nat \X Nat
    <3>1. Started
      BY <2>1 DEF UnionInv, RegionsInv, Started
    <3>2. ports \in Nat \X Nat
      BY PortsAssumption DEF UnionInv, TypeOK
    <3> QED
      BY <3>1, <3>2, SharedCones DEF RegionsAreClosed
  <2>3. region \in Nat \ {0}
    BY <2>2, RegionFacts
  <2>4. InRegion(region) = {v \in Node : orgRegions[v] = region}
    <3>1. \A v \in Node : regions[v] = region <=> orgRegions[v] = region
      BY <2>1, <2>2, <2>3, LoopFacts
    <3> QED
      BY <3>1 DEF InRegion
  <2>5. DOMAIN UpwardCones(region) = InRegion(region)
    BY DEF UpwardCones
  <2>6. ASSUME NEW v \in DOMAIN uc_set', NEW p \in SUBSET Node, Wanted(p, v)
        PROVE  p \in uc_set'[v]
    <3>1. CASE v \in DOMAIN uc_set
      BY <2>1, <2>6, <3>1 DEF With, AllAreEnumerated
    <3>2. CASE v \notin DOMAIN uc_set
      <4>1. v \in InRegion(region) /\ uc_set'[v] = UpwardCones(region)[v]
        BY <2>1, <2>5, <2>6, <3>2 DEF With
      <4>2. p \subseteq Mates(v)
        BY <2>2, <2>6, WantedAreMates
      <4>3. p \subseteq InRegion(region)
        BY <2>4, <4>1, <4>2 DEF Mates
      <4>4. p \in UpwardCones(region)[v]
        BY <2>2, <2>6, <4>1, <4>3, WantedAreEnumerated
      <4> QED
        BY <4>1, <4>4
    <3> QED
      BY <3>1, <3>2
  <2> QED
    BY <2>1, <2>6, WantedIsSame, SameGraph DEF AllAreEnumerated, Unmoved
<1>3. CASE ~Start /\ ~EnumerateUpwardCones
  <2>1. Unmoved
    BY <1>3, OnlyStartMoves
  <2>2. uc_set' = uc_set
    BY <1>3 DEF Next, EmptyGraph, SkipVertex, NoExtensions, CallUnion, EndOfRegion, Finish,
                SkipChoice, JoinChoice, Deepen, ReturnToUnion, ReturnToRun, vars
  <2> QED
    BY <2>1, <2>2, WantedIsSame, SameGraph DEF AllAreEnumerated, Unmoved
<1> QED
  BY <1>1, <1>2, <1>3

(***************************************************************************)
(* The outermost call holds all it was given.                              *)
(***************************************************************************)
LEMMA HeldKeeps ==
  ASSUME UnionInv, AllAreHeld, [Next]_vars
  PROVE  AllAreHeld'
<1>1. CASE CallUnion
  <2>1. /\ calls' = <<Call(uc_set[Vertex], Extensions, TRUE)>> /\ uc_set' = uc_set
        /\ topo' = topo /\ pos' = pos
    BY <1>1 DEF CallUnion, fixed, inputs, place
  <2>2. calls'[1].new_core = uc_set[Vertex]
    BY <2>1 DEF Call
  <2>3. uc_set'[Vertex'] = uc_set[Vertex]
    BY <2>1 DEF Vertex
  <2> QED
    BY <2>2, <2>3 DEF AllAreHeld
<1>2. CASE SkipChoice \/ JoinChoice \/ Deepen \/ ReturnToUnion
  <2>1. /\ pc = "union" /\ uc_set' = uc_set /\ topo' = topo /\ pos' = pos
    BY <1>2 DEF SkipChoice, JoinChoice, Deepen, ReturnToUnion, UseChoice, Choosing, Returning,
                fixed, inputs, place
  <2>2. /\ StackOK(calls) /\ Depth \in Nat \ {0} /\ Depth = Len(calls) /\ 1 \in 1..Depth
        /\ uc_set[Vertex] \subseteq calls[1].new_core
    BY <2>1, InUnion DEF AllAreHeld, Depth
  <2>3. /\ StackOK(NextChoice) /\ Len(NextChoice) = Depth
    BY <2>1, NextChoiceIsOK
  <2>4. calls \in Seq(UnionCall) /\ calls[1] \in UnionCall /\ NextChoice \in Seq(UnionCall)
        /\ NextChoice[1] \in UnionCall
    BY <2>2, <2>3 DEF StackOK
  <2>5. NextChoice[1].new_core = calls[1].new_core
    <3>1. CASE Depth = 1
      BY <2>2, <2>4, <3>1 DEF NextChoice, UnionCall
    <3>2. CASE Depth # 1
      BY <2>2, <2>4, <3>2 DEF NextChoice
    <3> QED
      BY <3>1, <3>2
  <2>6. calls[1].new_core \subseteq calls'[1].new_core
    <3>1. CASE SkipChoice
      BY <2>5, <3>1 DEF SkipChoice
    <3>2. CASE JoinChoice
      <4>1. calls' = [NextChoice EXCEPT ![Depth].new_core = @ \cup Joined]
        BY <3>2 DEF JoinChoice
      <4>2. CASE Depth = 1
        BY <2>2, <2>3, <2>4, <2>5, <4>1, <4>2 DEF UnionCall
      <4>3. CASE Depth # 1
        BY <2>2, <2>3, <2>5, <4>1, <4>3
      <4> QED
        BY <4>2, <4>3
    <3>3. CASE Deepen
      <4> DEFINE c == Call(Joined, NewExt, ~Top.down)
      <4>1. calls' = Append(NextChoice, c)
        BY <3>3 DEF Deepen
      <4> HIDE DEF c
      <4>2. calls'[1] = NextChoice[1]
        BY <2>2, <2>3, <2>4, <4>1
      <4> QED
        BY <2>5, <4>2
    <3>4. CASE ReturnToUnion
      <4> DEFINE below == SubSeq(calls, 1, Depth - 1)
      <4>1. Depth > 1 /\ calls' = [below EXCEPT ![Depth - 1].new_core = @ \cup Answer]
        BY <3>4 DEF ReturnToUnion
      <4>2. below \in Seq(UnionCall) /\ Len(below) = Depth - 1 /\ below[1] = calls[1]
        <5>1. \A i \in 1..(Depth - 1) : calls[i] \in UnionCall
          BY <2>2 DEF StackOK
        <5> QED
          BY <2>2, <4>1, <5>1, SubSeqProperties
      <4> HIDE DEF below
      <4>3. CASE Depth - 1 = 1
        BY <2>2, <2>4, <4>1, <4>2, <4>3 DEF UnionCall
      <4>4. CASE Depth - 1 # 1
        BY <2>2, <4>1, <4>2, <4>4
      <4> QED
        BY <4>3, <4>4
    <3> QED
      BY <1>2, <3>1, <3>2, <3>3, <3>4
  <2>7. uc_set'[Vertex'] = uc_set[Vertex]
    BY <2>1 DEF Vertex
  <2> QED
    BY <2>2, <2>6, <2>7 DEF AllAreHeld
<1>3. CASE UNCHANGED vars
  BY <1>3 DEF AllAreHeld, Vertex, vars, fixed, inputs, place
<1>4. CASE \/ Start \/ EmptyGraph \/ EnumerateUpwardCones \/ SkipVertex \/ NoExtensions
           \/ EndOfRegion \/ Finish \/ ReturnToRun
  <2>1. pc' # "union"
    BY <1>4 DEF Start, EmptyGraph, EnumerateUpwardCones, SkipVertex, NoExtensions, AtVertex,
                EndOfRegion, Finish, ReturnToRun
  <2> QED
    BY <2>1 DEF AllAreHeld
<1> QED
  BY <1>1, <1>2, <1>3, <1>4 DEF Next

(***************************************************************************)
(* A vertex whose value is used, or live at the end of the block, has      *)
(* extension points: nothing that leads to it is one of its users.         *)
(***************************************************************************)
LEMMA UsedMeansExtensions ==
  ASSUME UnionInv, NEW v \in DOMAIN uc_set, NEW p \in uc_set[v], getOutputNodes({v}) # {}
  PROVE  getOutputNodes(UNION uc_set[v]) # {}
<1>1. GraphInv /\ v \in Node /\ \A C \in uc_set[v] : UpCone(C, v)
  BY SharedCones DEF UpwardInv
<1>2. v \in UNION uc_set[v]
  BY <1>1 DEF UpCone
<1>3. dfg.op[v] = "OUTPUT" \/ Succs(v) \ {v} # {}
  BY DEF getOutputNodes, OutputsOf
<1>4. CASE dfg.op[v] = "OUTPUT"
  BY <1>2, <1>4 DEF getOutputNodes, OutputsOf
<1>5. CASE Succs(v) \ {v} # {}
  <2>1. PICK s \in Succs(v) : s # v
    BY <1>5
  <2>2. s \in Node /\ topoVector(s) < topoVector(v)
    BY <1>1, <2>1, TopoFacts, GraphFacts
  <2>3. ASSUME NEW C \in uc_set[v], s \in C PROVE FALSE
    <3> DEFINE T == {u \in C : topoVector(u) < topoVector(v)}
    <3>1. C \in SUBSET Node /\ LeadsTo(C, v)
      BY <1>1 DEF UpCone
    <3>2. \A u \in Node : topoVector(u) \in Int
      BY <1>1, TopoFacts
    <3>3. ClosedDown(T, C)
      <4>1. ASSUME NEW x \in T, NEW y \in Succs(x) \cap C PROVE y \in T
        <5>1. x \in Node /\ y \in Node /\ topoVector(y) < topoVector(x)
          BY <1>1, <3>1, <4>1, TopoFacts
        <5> QED
          BY <1>1, <3>2, <4>1, <5>1
      <4> QED
        BY <4>1 DEF ClosedDown
    <3>4. s \in T /\ T \in SUBSET C
      BY <2>2, <2>3
    <3>5. v \in T
      BY <3>1, <3>3, <3>4 DEF LeadsTo
    <3> QED
      BY <1>1, <3>2, <3>5
  <2>4. ~(Succs(v) \subseteq UNION uc_set[v])
    BY <2>3
  <2> QED
    BY <1>2, <2>4 DEF getOutputNodes, OutputsOf
<1> QED
  BY <1>3, <1>4, <1>5

(***************************************************************************)
(* run() keeps what fits of the cones of a vertex before it is through     *)
(* with it.                                                                *)
(***************************************************************************)
LEMMA KeptKeeps ==
  ASSUME UnionInv, AllAreHeld, AllAreKept, [Next]_vars
  PROVE  AllAreKept'
<1>1. CASE Start
  <2>1. exclude' = exclude /\ exclude = {}
    BY <1>1 DEF Start, UnionInv, RegionsInv
  <2> QED
    BY <2>1 DEF AllAreKept
<1>2. CASE ~Start
  <2> SUFFICES ASSUME ~benchmark', NEW v \in exclude', getOutputNodes({v})' # {},
                      NEW p \in uc_set'[v], inputCheck(p)', outputCheck(p)'
               PROVE  p \in allPatterns'
    BY DEF AllAreKept
  <2>1. Unmoved
    BY <1>2, OnlyStartMoves
  <2>2. ~benchmark /\ getOutputNodes({v}) # {} /\ inputCheck(p) /\ outputCheck(p)
    BY <2>1, WantedIsSame DEF Unmoved
  <2>3. v \in exclude /\ p \in uc_set[v] => p \in allPatterns
    BY <2>2 DEF AllAreKept
  <2>4. CASE NoExtensions
    <3>1. /\ exclude' = exclude \cup {Vertex} /\ uc_set' = uc_set /\ allPatterns' = allPatterns
          /\ Extensions = {} /\ AtVertex /\ regions[Vertex] = region
      BY <2>4 DEF NoExtensions, ThroughWith, found
    <3>2. v # Vertex
      <4> SUFFICES ASSUME v = Vertex PROVE FALSE
        OBVIOUS
      <4>1. InLoop /\ pos \in DOMAIN topo
        <5>1. InLoop /\ Started
          BY <3>1 DEF AtVertex, InLoop, Started, UnionInv, RegionsInv
        <5> QED
          BY <3>1, <5>1, RegionFacts DEF AtVertex
      <4>2. Vertex \in Node /\ Started
        BY <4>1, VertexFacts
      <4>3. Vertex \in DOMAIN uc_set
        <5>1. regions[Vertex] = (IF Vertex \in exclude THEN 0 ELSE orgRegions[Vertex])
              /\ region \in Nat \ {0}
          BY <4>2, LoopFacts, RegionFacts
        <5>2. orgRegions[Vertex] = region
          BY <3>1, <5>1
        <5> QED
          BY <4>1, <4>2, <5>2, LoopFacts
      <4>4. getOutputNodes(UNION uc_set[Vertex]) # {}
        BY <2>2, <3>1, <4>3, UsedMeansExtensions
      <4> QED
        BY <3>1, <4>4 DEF Extensions
    <3> QED
      BY <2>3, <3>1, <3>2
  <2>5. CASE ReturnToRun
    <3>1. /\ exclude' = exclude \cup {Vertex} /\ uc_set' = uc_set /\ pc = "union" /\ Depth = 1
          /\ allPatterns' = allPatterns \cup Answer
      BY <2>2, <2>5 DEF ReturnToRun, ThroughWith, Returning
    <3>2. uc_set[Vertex] \subseteq Top.new_core
      BY <3>1 DEF AllAreHeld, Top
    <3>3. CASE v = Vertex
      BY <2>2, <3>1, <3>2, <3>3 DEF Answer
    <3>4. CASE v # Vertex
      BY <2>3, <3>1, <3>4
    <3> QED
      BY <3>3, <3>4
  <2>6. CASE EnumerateUpwardCones
    <3>1. /\ exclude' = exclude /\ uc_set' = With(uc_set, UpwardCones(region))
          /\ allPatterns' = allPatterns /\ pc = "region" /\ ~InLoop
      BY <2>6 DEF EnumerateUpwardCones, found, InLoop
    <3>2. Started
      BY <3>1 DEF UnionInv, RegionsInv, Started
    <3>3. v \in DOMAIN uc_set
      BY <3>1, <3>2, LoopFacts
    <3>4. uc_set'[v] = uc_set[v]
      BY <3>1, <3>3 DEF With
    <3> QED
      BY <2>3, <3>1, <3>4
  <2>7. CASE ~NoExtensions /\ ~ReturnToRun /\ ~EnumerateUpwardCones
    <3>1. UNCHANGED <<exclude, uc_set, allPatterns>>
      BY <1>2, <2>7 DEF Next, EmptyGraph, SkipVertex, CallUnion, EndOfRegion, Finish, SkipChoice,
                        JoinChoice, Deepen, ReturnToUnion, vars, place, found
    <3> QED
      BY <2>3, <3>1
  <2> QED
    BY <2>4, <2>5, <2>6, <2>7
<1> QED
  BY <1>1, <1>2

(***************************************************************************)
(* The answer of run() is all it has kept.                                 *)
(***************************************************************************)
LEMMA ReturnedKeeps ==
  ASSUME UnionInv, AllAreReturned, [Next]_vars
  PROVE  AllAreReturned'
<1>1. CASE Finish
  <2>1. region' = region /\ region > nregions /\ result' = allPatterns /\ allPatterns' = allPatterns
        /\ ~Start
    BY <1>1 DEF Finish, Start, place
  <2>2. nregions' = nregions
    BY <2>1, OnlyStartMoves
  <2> QED
    BY <2>1, <2>2 DEF AllAreReturned
<1>2. CASE EmptyGraph
  <2>1. Node = {} /\ Node' = Node
    BY <1>2, SameGraph DEF EmptyGraph, fixed, inputs
  <2> QED
    BY <2>1 DEF AllAreReturned
<1>3. CASE UNCHANGED vars
  <2>1. UNCHANGED <<dfg, orgRegions, pc, region, result, allPatterns>>
    BY <1>3 DEF vars, fixed, inputs, place, found
  <2>2. Node' = Node /\ nregions' = nregions
    BY <2>1, SameGraph, SameRegions
  <2> QED
    BY <2>1, <2>2 DEF AllAreReturned
<1>4. CASE ~Finish /\ ~EmptyGraph /\ ~UNCHANGED vars
  <2>1. pc' # "done"
    BY <1>4 DEF Next, Start, EnumerateUpwardCones, SkipVertex, NoExtensions, CallUnion, AtVertex,
                EndOfRegion, SkipChoice, JoinChoice, Deepen, ReturnToUnion, ReturnToRun,
                UseChoice, Choosing, Returning
  <2> QED
    BY <2>1 DEF AllAreReturned
<1> QED
  BY <1>1, <1>2, <1>3, <1>4

(***************************************************************************)
(* Nothing is missing before run() starts.                                 *)
(***************************************************************************)
LEMMA CompleteInvStarts ==
  ASSUME Init
  PROVE  CompleteInv
<1>1. /\ pc = "start" /\ uc_set = <<>> /\ exclude = {}
  BY DEF Init
<1>2. DOMAIN uc_set = {}
  BY <1>1
<1> QED
  BY <1>1, <1>2 DEF CompleteInv, RegionsAreClosed, NoneIsSkipped, AllAreEnumerated, AllAreHeld,
                    AllAreKept, AllAreReturned, Started

(***************************************************************************)
(* At the end of run() nothing that is wanted is missing.                  *)
(***************************************************************************)
LEMMA CompleteMeansFound ==
  ASSUME UnionInv, CompleteInv
  PROVE  FindsUpwardCones
<1> SUFFICES ASSUME pc = "done", ~benchmark, NEW p \in SUBSET (Node \ invalid), NEW v \in p,
                    UpwardConeOf(p, v), Feasible(p), \A u \in p : ecs[u] \cap p = {},
                    getOutputNodes({v}) # {}
             PROVE  p \in result
  BY DEF FindsUpwardCones, Done
<1>1. Started /\ v \in Node /\ v \notin invalid
  BY DEF Started
<1>2. result = allPatterns /\ region > nregions
  BY <1>1 DEF CompleteInv, AllAreReturned
<1>3. /\ region \in Nat /\ nregions \in Nat /\ orgRegions[v] \in 0..nregions
      /\ orgRegions[v] # 0
  BY <1>1, RegionFacts DEF UnionInv, RegionsInv
<1>4. orgRegions[v] \in 1..(region - 1)
  BY <1>2, <1>3
<1>5. v \in exclude /\ v \in DOMAIN uc_set
  BY <1>1, <1>4, LoopFacts DEF CompleteInv, NoneIsSkipped
<1>6. Wanted(p, v) /\ p \in SUBSET Node
  BY DEF Wanted, Feasible
<1>7. p \in uc_set[v]
  BY <1>5, <1>6 DEF CompleteInv, AllAreEnumerated
<1> QED
  BY <1>2, <1>5, <1>7 DEF CompleteInv, AllAreKept, Feasible

(***************************************************************************)
(* For every graph, order and ports, run() misses no feasible pattern that *)
(* is an upward cone of a vertex whose value is used, unless members of it *)
(* conflict.                                                               *)
(***************************************************************************)
THEOREM UpwardConesAreFound == Spec => []FindsUpwardCones
<1> DEFINE I == UnionInv /\ CompleteInv
<1>1. Init => I
  BY UnionInvStarts, CompleteInvStarts
<1>2. I /\ [Next]_vars => I'
  BY UnionInvKeeps, ClosedKeeps, SkippedKeeps, EnumeratedKeeps, HeldKeeps, KeptKeeps,
     ReturnedKeeps DEF CompleteInv
<1>3. I => FindsUpwardCones
  BY CompleteMeansFound
<1> QED
  BY <1>1, <1>2, <1>3, PTL DEF Spec
=============================================================================
