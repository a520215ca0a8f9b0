------------------------ MODULE EstimationProofs ----------------------------
(***************************************************************************)
(* Theorems about the three modules an estimate comes from: the graph, the *)
(* delays and the sweeps.  They share no variable.                         *)
(*                                                                         *)
(* RuntimeEstimation, for every data-flow graph and every reverse          *)
(* topological order of it.  The sweeps compute a recursion over the users *)
(* of a vertex; the proof shows that the best path obeys the same          *)
(* recursion: the order rises strictly against every path (PathDescends),  *)
(* so a vertex is on no path of its users, a path grows by one vertex in   *)
(* front (PathGrows) and is, without it, a path of a user (PathShrinks).   *)
(*                                                                         *)
(* Architecture, for every set of command lines: the calls of a pass are a *)
(* script in which no call is made twice and an object is constructed      *)
(* before it is adjusted; after k of them, what they set is as they set it *)
(* and the rest as it was constructed.                                     *)
(*                                                                         *)
(* BlockDfg, for every basic block.  The graph of the block has one vertex *)
(* for each value met so far, of the type the whole block will justify,    *)
(* and one edge for each operand passed; of a pattern's graph, every edge  *)
(* the loops have passed has its copy.  So each loop ends with a graph     *)
(* that is complete.                                                       *)
(***************************************************************************)
EXTENDS RuntimeEstimation, Architecture, BlockDfg,
        SequenceTheorems, FiniteSetTheorems, WellFoundedInduction, TLAPS

(***************************************************************************)
(* A set of numbers has a least one: the way to prove by induction here.   *)
(***************************************************************************)
LEMMA LeastElement ==
  ASSUME NEW T, T \subseteq Nat, T # {}
  PROVE  \E m \in T : \A k \in T : m <= k
<1>1. PICK m \in T : \A k \in T : ~(<<k, m>> \in OpToRel(<, Nat))
  BY NatLessThanWellFounded, WFMin
<1>2. \A k \in T : ~(k < m)
  BY <1>1 DEF OpToRel
<1> QED
  BY <1>2

(***************************************************************************)
(* Induction over the numbers that are not in a set T.                     *)
(***************************************************************************)
LEMMA NoExceptions ==
  ASSUME NEW T, T \subseteq Nat, 0 \notin T, \A k \in Nat : k + 1 \in T => k \in T
  PROVE  T = {}
<1> SUFFICES ASSUME T # {} PROVE FALSE
  OBVIOUS
<1>1. PICK m \in T : \A k \in T : m <= k
  BY LeastElement
<1>2. m \in Nat /\ m # 0
  OBVIOUS
<1>3. m - 1 \in Nat /\ (m - 1) + 1 = m
  BY <1>2
<1>4. m - 1 \in T
  BY <1>3
<1> QED
  BY <1>1, <1>2, <1>4

-----------------------------------------------------------------------------
(***************************************************************************)
(* Among some subsets of a finite set there is one with no smaller one.    *)
(***************************************************************************)
LEMMA SmallestSet ==
  ASSUME NEW N, IsFiniteSet(N), NEW T \in SUBSET (SUBSET N), T # {}
  PROVE  \E S \in T : \A R \in SUBSET S : R # S => R \notin T
<1>1. IsWellFoundedOn(StrictSubsetOrdering(N), SUBSET N)
  BY FS_StrictSubsetOrderingWellFounded, FS_FiniteSubsetsOfFinite
<1>2. PICK S \in T : \A R \in T : <<R, S>> \notin StrictSubsetOrdering(N)
  BY <1>1, WFMin
<1>3. ASSUME NEW R \in SUBSET S, R # S, R \in T PROVE FALSE
  BY <1>2, <1>3 DEF StrictSubsetOrdering
<1> QED
  BY <1>3

(***************************************************************************)
(* sum gives every subset of N the sum of f over it.                       *)
(***************************************************************************)
Adds(sum, N, f) ==
  /\ sum \in [SUBSET N -> Nat]
  /\ sum[{}] = 0
  /\ \A S \in SUBSET N, x \in N : x \in S => sum[S] = f[x] + sum[S \ {x}]

(***************************************************************************)
(* Every function on a finite set has such a sum.                          *)
(***************************************************************************)
LEMMA SumExists ==
  ASSUME NEW N, IsFiniteSet(N), NEW f \in [N -> Nat]
  PROVE  \E sum : Adds(sum, N, f)
<1> DEFINE T == {S \in SUBSET N : ~ \E sum : Adds(sum, S, f)}
<1>1. ASSUME T # {} PROVE FALSE
  <2>1. PICK S \in T : \A R \in SUBSET S : R # S => R \notin T
    <3>1. T \in SUBSET (SUBSET N)
      OBVIOUS
    <3> HIDE DEF T
    <3> QED
      BY <1>1, <3>1, SmallestSet
  <2>2. CASE S = {}
    <3> DEFINE sum == [R \in SUBSET {} |-> 0]
    <3>1. Adds(sum, {}, f)
      BY DEF Adds
    <3> QED
      BY <2>1, <2>2, <3>1
  <2>3. CASE S # {}
    <3>1. PICK x \in S : TRUE
      BY <2>3
    <3> DEFINE Q == S \ {x}
    <3>2. Q \in SUBSET S /\ Q # S /\ Q \in SUBSET N /\ x \notin Q /\ S \in SUBSET N /\ x \in N
      OBVIOUS
    <3>3. PICK s0 : Adds(s0, Q, f)
      BY <2>1, <3>2
    <3>4. /\ s0 \in [SUBSET Q -> Nat] /\ s0[{}] = 0
          /\ \A R \in SUBSET Q, y \in Q : y \in R => s0[R] = f[y] + s0[R \ {y}]
      BY <3>3 DEF Adds
    <3>5. \A R \in SUBSET S : R \ {x} \in SUBSET Q
      OBVIOUS
    <3> DEFINE sum == [R \in SUBSET S |-> (IF x \in R THEN f[x] ELSE 0) + s0[R \ {x}]]
    <3>6. f[x] \in Nat
      BY <3>2
    <3>7. sum \in [SUBSET S -> Nat]
      BY <3>4, <3>5, <3>6
    <3>8. sum[{}] = 0
      BY <3>4, <3>5
    <3>9. ASSUME NEW R \in SUBSET S, NEW y \in S, y \in R
          PROVE  sum[R] = f[y] + sum[R \ {y}]
      <4> DEFINE a == IF x \in R THEN f[x] ELSE 0
      <4>1. CASE y = x
        <5>1. sum[R] = f[x] + s0[R \ {x}]
          BY <3>9, <4>1
        <5>2. sum[R \ {y}] = 0 + s0[R \ {x}]
          <6>1. (R \ {y}) \ {x} = R \ {x} /\ R \ {y} \in SUBSET S /\ x \notin R \ {y}
            BY <4>1
          <6> QED
            BY <6>1
        <5>3. s0[R \ {x}] \in Nat
          BY <3>4, <3>5
        <5> QED
          BY <4>1, <5>1, <5>2, <5>3
      <4>2. CASE y # x
        <5>1. y \in Q /\ y \in R \ {x} /\ R \ {x} \in SUBSET Q
          BY <3>9, <4>2
        <5>2. s0[R \ {x}] = f[y] + s0[(R \ {x}) \ {y}]
          BY <3>4, <5>1
        <5>3. sum[R] = a + s0[R \ {x}]
          OBVIOUS
        <5>4. sum[R \ {y}] = a + s0[(R \ {x}) \ {y}]
          <6>1. (R \ {y}) \ {x} = (R \ {x}) \ {y} /\ R \ {y} \in SUBSET S
                /\ (x \in R \ {y} <=> x \in R)
            BY <4>2
          <6> QED
            BY <6>1
        <5>5. a \in Nat /\ f[y] \in Nat /\ s0[(R \ {x}) \ {y}] \in Nat
          <6>1. (R \ {x}) \ {y} \in SUBSET Q /\ y \in N
            BY <3>2
          <6> QED
            BY <3>4, <3>6, <6>1
        <5> HIDE DEF a, sum
        <5> QED
          BY <5>2, <5>3, <5>4, <5>5
      <4> QED
        BY <4>1, <4>2
    <3> HIDE DEF sum
    <3>10. Adds(sum, S, f)
      BY <3>7, <3>8, <3>9 DEF Adds
    <3> QED
      BY <2>1, <3>10
  <2> QED
    BY <2>2, <2>3
<1> QED
  <2>1. N \notin T /\ N \in SUBSET N
    BY <1>1
  <2> QED
    BY <2>1

(***************************************************************************)
(* MapThenSumSet picks the elements in an order of its own.                *)
(***************************************************************************)
RunsOver(w, S, f) ==
  w = [s \in SUBSET S |-> IF s = {} THEN 0
                          ELSE f[CHOOSE x \in s : TRUE] + w[s \ {CHOOSE x \in s : TRUE}]]

(***************************************************************************)
(* Whatever the order, it ends up with the sum.                            *)
(***************************************************************************)
LEMMA AnyOrderAdds ==
  ASSUME NEW N, IsFiniteSet(N), NEW f, NEW sum, Adds(sum, N, f), NEW S \in SUBSET N, NEW w,
         RunsOver(w, S, f)
  PROVE  w[S] = sum[S]
<1> DEFINE any(s) == CHOOSE x \in s : TRUE
           T == {s \in SUBSET S : w[s] # sum[s]}
<1>1. \A s : s # {} => any(s) \in s
  OBVIOUS
<1>2. w = [s \in SUBSET S |-> IF s = {} THEN 0 ELSE f[any(s)] + w[s \ {any(s)}]]
  BY DEF RunsOver
<1> HIDE DEF any
<1> SUFFICES ASSUME T # {} PROVE FALSE
  OBVIOUS
<1>3. PICK s \in T : \A R \in SUBSET s : R # s => R \notin T
  <2>1. T \in SUBSET (SUBSET N)
    OBVIOUS
  <2> HIDE DEF T
  <2> QED
    BY <2>1, SmallestSet
<1>4. s # {}
  BY <1>2 DEF Adds
<1>5. any(s) \in s /\ s \ {any(s)} \in SUBSET s /\ s \ {any(s)} # s
  BY <1>1, <1>4
<1>6. w[s \ {any(s)}] = sum[s \ {any(s)}]
  BY <1>3, <1>5
<1>7. w[s] = f[any(s)] + w[s \ {any(s)}]
  BY <1>2, <1>4
<1>8. sum[s] = f[any(s)] + sum[s \ {any(s)}]
  BY <1>5 DEF Adds
<1> QED
  BY <1>6, <1>7, <1>8

(***************************************************************************)
(* Sums do solve the recursion of MapThenSumSet.                           *)
(***************************************************************************)
LEMMA SomeOrderAdds ==
  ASSUME NEW N, NEW f, NEW sum, Adds(sum, N, f), NEW S \in SUBSET N, NEW w,
         w = [s \in SUBSET S |-> sum[s]]
  PROVE  RunsOver(w, S, f)
<1> DEFINE any(s) == CHOOSE x \in s : TRUE
<1>1. \A s : s # {} => any(s) \in s
  OBVIOUS
<1> SUFFICES w = [s \in SUBSET S |-> IF s = {} THEN 0 ELSE f[any(s)] + w[s \ {any(s)}]]
  BY DEF RunsOver
<1> HIDE DEF any
<1>2. ASSUME NEW s \in SUBSET S, s # {} PROVE w[s] = f[any(s)] + w[s \ {any(s)}]
  <2>1. any(s) \in s /\ s \ {any(s)} \in SUBSET S /\ any(s) \in N /\ s \in SUBSET N
    BY <1>1, <1>2
  <2>2. sum[s] = f[any(s)] + sum[s \ {any(s)}]
    BY <2>1 DEF Adds
  <2> QED
    BY <2>1, <2>2
<1>3. w[{}] = 0
  BY DEF Adds
<1> QED
  BY <1>2, <1>3

(***************************************************************************)
(* What is nowhere less, and more sets, add up to no less.                 *)
(***************************************************************************)
LEMMA SumGrows ==
  ASSUME NEW N, IsFiniteSet(N), NEW f \in [N -> Nat], NEW sum, Adds(sum, N, f),
         NEW B \in SUBSET N, \A x \in N \ B : f[x] = 0, NEW S \in SUBSET N
  PROVE  sum[S] <= sum[B]
<1>1. \A A, C \in SUBSET N : A \subseteq C => sum[A] <= sum[C]
  <2> SUFFICES ASSUME NEW A \in SUBSET N, NEW C0 \in SUBSET N, A \subseteq C0,
                      ~(sum[A] <= sum[C0])
               PROVE  FALSE
    OBVIOUS
  <2> DEFINE T == {C \in SUBSET N : A \subseteq C /\ ~(sum[A] <= sum[C])}
  <2>1. PICK C \in T : \A R \in SUBSET C : R # C => R \notin T
    <3>1. T \in SUBSET (SUBSET N) /\ T # {}
      BY DEF T
    <3> HIDE DEF T
    <3> QED
      BY <3>1, SmallestSet
  <2>2. PICK x \in C : x \notin A
    <3>1. C # A
      BY <2>1 DEF Adds
    <3> QED
      BY <2>1, <3>1
  <2>3. C \ {x} \in SUBSET C /\ C \ {x} # C /\ A \subseteq C \ {x} /\ C \ {x} \in SUBSET N
    BY <2>1, <2>2
  <2>4. sum[A] <= sum[C \ {x}]
    BY <2>1, <2>3
  <2>5. sum[C] = f[x] + sum[C \ {x}] /\ f[x] \in Nat
    BY <2>1, <2>2 DEF Adds
  <2>6. sum[C \ {x}] \in Nat /\ sum[A] \in Nat /\ sum[C] \in Nat
    BY <2>3 DEF Adds
  <2> QED
    BY <2>1, <2>4, <2>5, <2>6
<1>2. \A A \in SUBSET N : sum[A] = sum[A \cap B]
  <2> DEFINE T == {A \in SUBSET N : sum[A] # sum[A \cap B]}
  <2> SUFFICES ASSUME T # {} PROVE FALSE
    OBVIOUS
  <2>1. PICK A \in T : \A R \in SUBSET A : R # A => R \notin T
    <3>1. T \in SUBSET (SUBSET N)
      OBVIOUS
    <3> HIDE DEF T
    <3> QED
      BY <3>1, SmallestSet
  <2>2. PICK x \in A : x \notin B
    <3>1. A \cap B # A
      BY <2>1
    <3> QED
      BY <3>1
  <2>3. sum[A] = f[x] + sum[A \ {x}] /\ f[x] = 0
    BY <2>1, <2>2 DEF Adds
  <2>4. sum[A \ {x}] = sum[(A \ {x}) \cap B] /\ sum[A \ {x}] \in Nat
    <3>1. A \ {x} \in SUBSET A /\ A \ {x} # A /\ A \ {x} \in SUBSET N
      BY <2>2
    <3> QED
      BY <2>1, <3>1 DEF Adds
  <2>5. (A \ {x}) \cap B = A \cap B
    BY <2>2
  <2> QED
    BY <2>1, <2>3, <2>4, <2>5
<1>3. S \cap B \in SUBSET N /\ S \cap B \subseteq B
  OBVIOUS
<1>4. sum[S \cap B] <= sum[B]
  BY <1>1, <1>3
<1> QED
  BY <1>2, <1>4

(***************************************************************************)
(* One member adds no more than all.                                       *)
(***************************************************************************)
LEMMA SumHasMember ==
  ASSUME NEW N, NEW f \in [N -> Nat], NEW sum, Adds(sum, N, f),
         NEW S \in SUBSET N, NEW x \in S
  PROVE  f[x] <= sum[S] /\ f[x] \in Nat /\ sum[S] \in Nat
<1>1. S \ {x} \in SUBSET N
  OBVIOUS
<1>2. sum[S] = f[x] + sum[S \ {x}] /\ sum[S \ {x}] \in Nat /\ f[x] \in Nat
  BY <1>1 DEF Adds
<1> QED
  BY <1>2
-----------------------------------------------------------------------------
(***************************************************************************)
(* The time of every instruction of either model is a number.              *)
(***************************************************************************)
LEMMA TimesAreNumbers ==
  ASSUME NEW m \in Models, NEW k \in Instruction
  PROVE  getSwInstructionTiming(m, k) \in Nat /\ getHwInstructionTiming(m, k) \in Nat
<1>1. m = "virtual" \/ m = "virtex"
  BY DEF Models
<1>2. k.op \in Binary /\ k.float => k.op \in FloatBinary
  BY DEF Instruction, Binary, FloatBinary
<1>3. ASSUME NEW o \in FloatBinary
      PROVE  FloatSw[m][o] \in Nat /\ FloatHw[m][o] \in Nat
  BY <1>1 DEF FloatBinary, FloatSw, FloatHw
<1>4. DivisionSw[m] \in Nat
  BY <1>1 DEF DivisionSw
<1>5. ASSUME NEW o \in DOMAIN IntegerHw[m]
      PROVE  IntegerHw[m][o][1] \in Nat /\ IntegerHw[m][o][2] \in Nat
  BY <1>1 DEF IntegerHw, VirtualHw, VirtexHw
<1>6. getSwInstructionTiming(m, k) \in Nat
  BY <1>2, <1>3, <1>4 DEF getSwInstructionTiming
<1>7. getHwInstructionTiming(m, k) \in Nat
  BY <1>2, <1>3, <1>5 DEF getHwInstructionTiming
<1> QED
  BY <1>6, <1>7

-----------------------------------------------------------------------------
(***************************************************************************)
(* The greatest of finitely many numbers.                                  *)
(***************************************************************************)
LEMMA MaxFacts ==
  ASSUME NEW S, IsFiniteSet(S), S \subseteq Nat, S # {}
  PROVE  Max(S) \in S /\ Max(S) \in Nat /\ \A x \in S : x <= Max(S)
<1> DEFINE has(R) == \E m \in R : \A x \in R : m >= x
           T == {R \in SUBSET S : R # {} /\ ~has(R)}
<1>1. T = {}
  <2> SUFFICES ASSUME T # {} PROVE FALSE
    OBVIOUS
  <2>1. PICK R \in T : \A Q \in SUBSET R : Q # R => Q \notin T
    <3>1. T \in SUBSET (SUBSET S)
      OBVIOUS
    <3> HIDE DEF T
    <3> QED
      BY <3>1, SmallestSet
  <2>2. PICK x \in R : TRUE
    BY <2>1
  <2>3. R \ {x} \in SUBSET R /\ R \ {x} # R /\ R \ {x} \in SUBSET S
    BY <2>1, <2>2
  <2>4. CASE R \ {x} = {}
    <3>1. \A y \in R : y = x
      BY <2>4
    <3> QED
      BY <2>1, <2>2, <3>1
  <2>5. CASE R \ {x} # {}
    <3>1. has(R \ {x})
      BY <2>1, <2>3, <2>5
    <3>2. PICK m \in R \ {x} : \A y \in R \ {x} : m >= y
      BY <3>1
    <3>3. m \in Nat /\ x \in Nat /\ R \subseteq Nat
      BY <2>1, <2>2, <3>2
    <3>4. CASE m >= x
      BY <2>1, <3>2, <3>4
    <3>5. CASE ~(m >= x)
      BY <2>1, <2>2, <3>2, <3>3, <3>5
    <3> QED
      BY <3>4, <3>5
  <2> QED
    BY <2>4, <2>5
<1>2. has(S)
  <2>1. S \in SUBSET S
    OBVIOUS
  <2> HIDE DEF has
  <2> QED
    BY <1>1, <2>1
<1>3. Max(S) \in S /\ \A x \in S : Max(S) >= x
  BY <1>2 DEF Max
<1> QED
  BY <1>3

(***************************************************************************)
(* The greatest is the one that is no less than any other.                 *)
(***************************************************************************)
LEMMA MaxIs ==
  ASSUME NEW S, S \subseteq Nat, NEW m \in S, \A x \in S : x <= m
  PROVE  Max(S) = m
<1>1. m \in Nat /\ \A x \in S : m >= x
  OBVIOUS
<1>2. Max(S) \in S /\ \A x \in S : Max(S) >= x
  BY <1>1 DEF Max
<1>3. Max(S) \in Nat /\ Max(S) >= m /\ Max(S) <= m
  BY <1>2
<1> QED
  BY <1>1, <1>3
-----------------------------------------------------------------------------
(***************************************************************************)
(* The graph and its order.                                                *)
(***************************************************************************)
WellShaped ==
  /\ IsDFG(dfg) /\ dfg.node = 1..Cardinality(dfg.node)
  /\ IsReverseTopologicalSort(dfg, topo)

(* Where a vertex is in the order.                                         *)
Position(v) == CHOOSE k \in DOMAIN topo : topo[k] = v

(***************************************************************************)
(* Each vertex has one place, and its users stand before it.               *)
(***************************************************************************)
LEMMA PositionFacts ==
  ASSUME WellShaped
  PROVE  /\ \A v \in dfg.node : Position(v) \in 1..Len(topo) /\ topo[Position(v)] = v
         /\ \A k \in 1..Len(topo) : topo[k] \in dfg.node /\ Position(topo[k]) = k
         /\ \A v \in dfg.node : \A w \in OutVertices(dfg, v) :
              w \in dfg.node /\ Position(w) < Position(v)
         /\ Len(topo) \in Nat
<1>1. topo \in Seq(dfg.node) /\ Len(topo) \in Nat /\ DOMAIN topo = 1..Len(topo)
  BY DEF WellShaped, IsReverseTopologicalSort
<1>2. ASSUME NEW v \in dfg.node
      PROVE  Position(v) \in 1..Len(topo) /\ topo[Position(v)] = v
  BY <1>1 DEF WellShaped, IsReverseTopologicalSort, Position
<1>3. ASSUME NEW k \in 1..Len(topo)
      PROVE  topo[k] \in dfg.node /\ Position(topo[k]) = k
  <2>1. topo[k] \in dfg.node
    BY <1>1
  <2>2. \A i, j \in 1..Len(topo) : i < j => topo[i] # topo[j]
    BY <1>1 DEF WellShaped, IsReverseTopologicalSort
  <2>3. Position(topo[k]) \in 1..Len(topo) /\ topo[Position(topo[k])] = topo[k]
    BY <1>2, <2>1
  <2>4. ~(Position(topo[k]) < k) /\ ~(k < Position(topo[k]))
    BY <2>2, <2>3
  <2> QED
    BY <1>1, <2>1, <2>3, <2>4
<1>4. ASSUME NEW v \in dfg.node, NEW w \in OutVertices(dfg, v)
      PROVE  w \in dfg.node /\ Position(w) < Position(v)
  <2>1. w \in dfg.node
    BY DEF WellShaped, IsDFG, OutVertices, OutEdges
  <2>2. \A i, j \in 1..Len(topo) : i <= j => topo[j] \notin OutVertices(dfg, topo[i])
    BY <1>1 DEF WellShaped, IsReverseTopologicalSort
  <2>3. ~(Position(v) <= Position(w))
    BY <1>2, <2>1, <2>2
  <2> QED
    BY <1>1, <1>2, <2>1, <2>3
<1> QED
  BY <1>1, <1>2, <1>3, <1>4

-----------------------------------------------------------------------------
(***************************************************************************)
(* Along a path the vertices stand ever earlier in the order.              *)
(***************************************************************************)
Leads(o, n) == \A k \in 1..(n - 1) : o[k + 1] \in OutVertices(dfg, o[k])

(***************************************************************************)
(* Along a path the positions fall: users stand first in the order.        *)
(***************************************************************************)
LEMMA PathDescends ==
  ASSUME WellShaped, NEW n \in Nat, NEW o \in [1..n -> dfg.node], Leads(o, n)
  PROVE  \A k \in 2..n : Position(o[k]) < Position(o[1])
<1> DEFINE T == {k \in Nat : k + 2 \in 2..n /\ ~(Position(o[k + 2]) < Position(o[1]))}
<1>1. \A k \in 1..(n - 1) : Position(o[k + 1]) < Position(o[k])
  <2> TAKE k \in 1..(n - 1)
  <2>1. k \in 1..n /\ k + 1 \in 1..n
    OBVIOUS
  <2> QED
    BY <2>1, PositionFacts DEF Leads
<1>2. \A k \in 1..n : Position(o[k]) \in Nat
  BY PositionFacts
<1>3. 0 \notin T
  <2> SUFFICES ASSUME 2 \in 2..n PROVE Position(o[2]) < Position(o[1])
    OBVIOUS
  <2>1. 1 \in 1..(n - 1) /\ 1 + 1 = 2
    OBVIOUS
  <2> QED
    BY <1>1, <2>1
<1>4. ASSUME NEW k \in Nat, k + 1 \in T PROVE k \in T
  <2>1. (k + 1) + 2 \in 2..n /\ ~(Position(o[(k + 1) + 2]) < Position(o[1]))
    BY <1>4
  <2>2. k + 2 \in 2..n /\ k + 2 \in 1..(n - 1) /\ (k + 1) + 2 = (k + 2) + 1
    BY <2>1
  <2>3. Position(o[(k + 2) + 1]) < Position(o[k + 2])
    BY <1>1, <2>2
  <2>4. Position(o[(k + 2) + 1]) \in Nat /\ Position(o[k + 2]) \in Nat /\ Position(o[1]) \in Nat
    <3>1. (k + 2) + 1 \in 1..n /\ k + 2 \in 1..n /\ 1 \in 1..n
      BY <2>1, <2>2
    <3> QED
      BY <1>2, <3>1
  <2>5. ~(Position(o[k + 2]) < Position(o[1]))
    BY <2>1, <2>2, <2>3, <2>4
  <2> QED
    BY <2>2, <2>5
<1>5. T = {}
  <2>1. T \subseteq Nat
    OBVIOUS
  <2> HIDE DEF T
  <2> QED
    BY <1>3, <1>4, <2>1, NoExceptions
<1>6. ASSUME NEW k \in 2..n PROVE Position(o[k]) < Position(o[1])
  <2>1. k - 2 \in Nat /\ (k - 2) + 2 = k
    OBVIOUS
  <2>2. k - 2 \notin T
    BY <1>5
  <2> QED
    BY <2>1, <2>2
<1> QED
  BY <1>6
-----------------------------------------------------------------------------
(***************************************************************************)
(* The paths from a vertex: the vertex alone, and those of its users with  *)
(* the vertex put in front, which is on none of them.                      *)
(***************************************************************************)
LEMMA PathAlone ==
  ASSUME WellShaped, NEW v \in dfg.node
  PROVE  {v} \in PathsFrom(v)
<1>1. Cardinality({v}) = 1
  BY FS_Singleton
<1> DEFINE o == [k \in 1..1 |-> v]
<1>2. o \in [1..Cardinality({v}) -> {v}] /\ o[1] = v
  BY <1>1
<1>3. \A k \in 1..(Cardinality({v}) - 1) : o[k + 1] \in OutVertices(dfg, o[k])
  BY <1>1
<1>4. \A w \in {v} : \E k \in DOMAIN o : o[k] = w
  OBVIOUS
<1> HIDE DEF o
<1> QED
  BY <1>2, <1>3, <1>4 DEF PathsFrom, IsPathFrom

(***************************************************************************)
(* A path is a finite set of vertices, which the order lays out.           *)
(***************************************************************************)
LEMMA PathIsSet ==
  ASSUME WellShaped, NEW v, NEW S \in PathsFrom(v)
  PROVE  /\ v \in S /\ S \in SUBSET dfg.node /\ IsFiniteSet(S) /\ Cardinality(S) \in Nat \ {0}
         /\ \E o \in [1..Cardinality(S) -> S] :
              /\ o[1] = v /\ Leads(o, Cardinality(S))
              /\ \A w \in S : \E k \in 1..Cardinality(S) : o[k] = w
<1>1. v \in S /\ S \in SUBSET dfg.node
  BY DEF PathsFrom, IsPathFrom
<1>2. IsFiniteSet(S)
  BY <1>1, FS_Subset DEF WellShaped, IsDFG
<1>3. Cardinality(S) \in Nat /\ Cardinality(S) # 0
  BY <1>1, <1>2, FS_CardinalityType, FS_EmptySet
<1>4. PICK o \in [1..Cardinality(S) -> S] :
        /\ o[1] = v
        /\ \A i \in 1..(Cardinality(S) - 1) : o[i + 1] \in OutVertices(dfg, o[i])
        /\ \A w \in S : \E i \in DOMAIN o : o[i] = w
  BY DEF PathsFrom, IsPathFrom
<1> QED
  BY <1>1, <1>2, <1>3, <1>4 DEF Leads

(***************************************************************************)
(* A vertex put in front of a path of its user.                            *)
(***************************************************************************)
LEMMA PathGrows ==
  ASSUME WellShaped, NEW v \in dfg.node, NEW w \in OutVertices(dfg, v), NEW S \in PathsFrom(w)
  PROVE  v \notin S /\ S \cup {v} \in PathsFrom(v)
<1> DEFINE n == Cardinality(S)
<1>1. w \in S /\ S \in SUBSET dfg.node /\ IsFiniteSet(S) /\ n \in Nat \ {0}
  BY PathIsSet
<1>2. PICK o \in [1..n -> S] : o[1] = w /\ Leads(o, n) /\ \A u \in S : \E k \in 1..n : o[k] = u
  BY PathIsSet
<1> HIDE DEF n
<1> DEFINE p == [k \in 1..(n + 1) |-> IF k = 1 THEN v ELSE o[k - 1]]
<1>3. p[1] = v /\ \A k \in 1..n : k + 1 \in 1..(n + 1) /\ p[k + 1] = o[k]
  BY <1>1
<1>4. p \in [1..(n + 1) -> S \cup {v}]
  BY <1>1
<1> HIDE DEF p
<1>5. \A k \in 1..((n + 1) - 1) : p[k + 1] \in OutVertices(dfg, p[k])
  <2> SUFFICES ASSUME NEW k \in 1..n PROVE p[k + 1] \in OutVertices(dfg, p[k])
    BY <1>1
  <2>1. CASE k = 1
    BY <1>2, <1>3, <2>1
  <2>2. CASE k # 1
    <3>1. k - 1 \in 1..(n - 1) /\ k - 1 \in 1..n /\ (k - 1) + 1 = k
      BY <2>2, <1>1
    <3>2. o[(k - 1) + 1] \in OutVertices(dfg, o[k - 1])
      BY <1>2, <3>1 DEF Leads
    <3>3. p[k] = o[k - 1] /\ p[k + 1] = o[k]
      BY <1>3, <3>1
    <3> QED
      BY <3>1, <3>2, <3>3
  <2> QED
    BY <2>1, <2>2
<1>6. \A k \in 2..(n + 1) : Position(p[k]) < Position(p[1])
  <2>1. n + 1 \in Nat /\ p \in [1..(n + 1) -> dfg.node]
    BY <1>1, <1>4
  <2>2. Leads(p, n + 1)
    BY <1>5 DEF Leads
  <2> QED
    BY <2>1, <2>2, PathDescends
<1>7. v \notin S
  <2> SUFFICES ASSUME v \in S PROVE FALSE
    OBVIOUS
  <2>1. PICK k \in 1..n : o[k] = v
    BY <1>2
  <2>2. k + 1 \in 2..(n + 1) /\ p[k + 1] = v
    BY <1>1, <1>3, <2>1
  <2>3. Position(v) < Position(v)
    BY <1>3, <1>6, <2>2
  <2>4. Position(v) \in Nat
    BY PositionFacts
  <2> QED
    BY <2>3, <2>4
<1>8. Cardinality(S \cup {v}) = n + 1
  BY <1>1, <1>7, FS_AddElement DEF n
<1>9. \A u \in S \cup {v} : \E k \in 1..(n + 1) : p[k] = u
  <2> TAKE u \in S \cup {v}
  <2>1. CASE u = v
    BY <1>1, <1>3, <2>1
  <2>2. CASE u \in S
    BY <1>2, <1>3, <2>2
  <2> QED
    BY <2>1, <2>2
<1>10. DOMAIN p = 1..(n + 1)
  BY <1>4
<1>11. IsPathFrom(v, S \cup {v})
  <2> DEFINE W == S \cup {v}
             c == Cardinality(W)
  <2>1. p \in [1..c -> W] /\ v \in W /\ p[1] = v
    BY <1>3, <1>4, <1>8
  <2>2. \A k \in 1..(c - 1) : p[k + 1] \in OutVertices(dfg, p[k])
    BY <1>5, <1>8
  <2>3. \A u \in W : \E k \in DOMAIN p : p[k] = u
    BY <1>9, <1>10
  <2> HIDE DEF W
  <2>4. IsPathFrom(v, W)
    BY <2>1, <2>2, <2>3 DEF IsPathFrom
  <2> QED
    BY <2>4 DEF W
<1> QED
  BY <1>1, <1>7, <1>11 DEF PathsFrom

(***************************************************************************)
(* A longer path without its first vertex is one of a user.                *)
(***************************************************************************)
LEMMA PathShrinks ==
  ASSUME WellShaped, NEW v \in dfg.node, NEW S \in PathsFrom(v), S # {v}
  PROVE  \E w \in OutVertices(dfg, v) : S \ {v} \in PathsFrom(w)
<1> DEFINE n == Cardinality(S)
<1>1. v \in S /\ S \in SUBSET dfg.node /\ IsFiniteSet(S) /\ n \in Nat \ {0}
  BY PathIsSet
<1>2. PICK o \in [1..n -> S] : o[1] = v /\ Leads(o, n) /\ \A u \in S : \E k \in 1..n : o[k] = u
  BY PathIsSet
<1>3. Cardinality(S \ {v}) = n - 1
  BY <1>1, FS_RemoveElement
<1> HIDE DEF n
<1>4. n # 1
  BY <1>1, <1>2
<1>5. n - 1 \in Nat /\ 1 \in 1..(n - 1) /\ 2 \in 1..n /\ n \in Nat
  BY <1>1, <1>4
<1>6. \A k \in 2..n : o[k] # v
  <2>1. \A k \in 2..n : Position(o[k]) < Position(o[1])
    <3>1. o \in [1..n -> dfg.node]
      BY <1>1
    <3> QED
      BY <1>2, <1>5, <3>1, PathDescends
  <2>2. Position(v) \in Nat
    BY PositionFacts
  <2> QED
    BY <1>2, <2>1, <2>2
<1> DEFINE p == [k \in 1..(n - 1) |-> o[k + 1]]
<1>7. \A k \in 1..(n - 1) : k + 1 \in 1..n /\ k + 1 \in 2..n /\ p[k] = o[k + 1]
  BY <1>1
<1>8. p \in [1..(n - 1) -> S \ {v}] /\ DOMAIN p = 1..(n - 1)
  BY <1>2, <1>6, <1>7
<1> HIDE DEF p
<1>9. p[1] = o[2] /\ o[2] \in S \ {v} /\ o[2] \in OutVertices(dfg, v)
  <2>1. p[1] = o[1 + 1] /\ 1 + 1 = 2
    BY <1>5, <1>7
  <2>2. o[1 + 1] \in OutVertices(dfg, o[1])
    BY <1>2, <1>5 DEF Leads
  <2>3. p[1] \in S \ {v}
    BY <1>5, <1>8
  <2> QED
    BY <1>2, <2>1, <2>2, <2>3
<1>10. \A k \in 1..((n - 1) - 1) : p[k + 1] \in OutVertices(dfg, p[k])
  <2> TAKE k \in 1..((n - 1) - 1)
  <2>1. k \in 1..(n - 1) /\ k + 1 \in 1..(n - 1)
    BY <1>1
  <2>2. o[(k + 1) + 1] \in OutVertices(dfg, o[k + 1])
    BY <1>2, <2>1 DEF Leads
  <2> QED
    BY <1>7, <2>1, <2>2
<1>11. \A u \in S \ {v} : \E k \in 1..(n - 1) : p[k] = u
  <2> TAKE u \in S \ {v}
  <2>1. PICK k \in 1..n : o[k] = u
    BY <1>2
  <2>2. k # 1
    BY <1>2, <2>1
  <2>3. k - 1 \in 1..(n - 1) /\ (k - 1) + 1 = k
    BY <1>1, <2>2
  <2> QED
    BY <1>7, <2>1, <2>3
<1>12. IsPathFrom(o[2], S \ {v})
  BY <1>3, <1>8, <1>9, <1>10, <1>11 DEF IsPathFrom
<1> QED
  BY <1>1, <1>9, <1>12 DEF PathsFrom

-----------------------------------------------------------------------------
(***************************************************************************)
(* The best of the paths from a vertex, in the measure f: when putting v   *)
(* in front adds b, it is the vertex alone or one more than a user's best. *)
(***************************************************************************)
Best(f, v) == Max({f[S] : S \in PathsFrom(v)})

(***************************************************************************)
(* There are finitely many paths, hence a best one.                        *)
(***************************************************************************)
LEMMA BestFacts ==
  ASSUME WellShaped, NEW v \in dfg.node, NEW f \in [SUBSET dfg.node -> Nat]
  PROVE  /\ Best(f, v) \in Nat
         /\ \E S \in PathsFrom(v) : Best(f, v) = f[S]
         /\ \A S \in PathsFrom(v) : f[S] <= Best(f, v)
<1> DEFINE P == PathsFrom(v)
           R == {f[S] : S \in P}
           h == [S \in P |-> f[S]]
<1>1. P \subseteq SUBSET dfg.node /\ {v} \in P
  BY PathAlone DEF PathsFrom
<1>2. IsFiniteSet(P)
  <2>1. IsFiniteSet(SUBSET dfg.node)
    BY FS_SUBSET DEF WellShaped, IsDFG
  <2> QED
    BY <1>1, <2>1, FS_Subset
<1> HIDE DEF P
<1>3. h \in Surjection(P, R)
  BY DEF Surjection
<1>4. IsFiniteSet(R)
  <2> HIDE DEF h, R
  <2> QED
    BY <1>2, <1>3, FS_Surjection
<1>5. R \subseteq Nat /\ R # {}
  BY <1>1
<1>6. Max(R) \in R /\ Max(R) \in Nat /\ \A x \in R : x <= Max(R)
  <2> HIDE DEF R
  <2> QED
    BY <1>4, <1>5, MaxFacts
<1>7. Best(f, v) = Max(R)
  BY DEF Best, P
<1>8. \A S \in P : f[S] \in R
  OBVIOUS
<1>9. \A x \in R : \E S \in P : x = f[S]
  OBVIOUS
<1> HIDE DEF R
<1> QED
  BY <1>6, <1>7, <1>8, <1>9 DEF P

(***************************************************************************)
(* One step back along the edges.                                          *)
(***************************************************************************)
LEMMA BestStep ==
  ASSUME WellShaped, NEW v \in dfg.node, NEW f \in [SUBSET dfg.node -> Nat], NEW b \in Nat,
         \A w \in OutVertices(dfg, v) : \A S \in PathsFrom(w) : f[S \cup {v}] = b + f[S]
  PROVE  /\ f[{v}] <= Best(f, v)
         /\ \A w \in OutVertices(dfg, v) : b + Best(f, w) <= Best(f, v)
         /\ Best(f, v) = f[{v}] \/ \E w \in OutVertices(dfg, v) : Best(f, v) = b + Best(f, w)
<1>1. \A w \in OutVertices(dfg, v) : w \in dfg.node
  BY PositionFacts
<1>2. f[{v}] <= Best(f, v)
  BY PathAlone, BestFacts
<1>3. ASSUME NEW w \in OutVertices(dfg, v) PROVE b + Best(f, w) <= Best(f, v)
  <2>1. PICK S \in PathsFrom(w) : Best(f, w) = f[S]
    BY <1>1, BestFacts
  <2>2. S \cup {v} \in PathsFrom(v)
    BY PathGrows
  <2> QED
    BY <2>1, <2>2, BestFacts
<1>4. ASSUME Best(f, v) # f[{v}]
      PROVE  \E w \in OutVertices(dfg, v) : Best(f, v) = b + Best(f, w)
  <2>1. PICK S \in PathsFrom(v) : Best(f, v) = f[S]
    BY BestFacts
  <2>2. PICK w \in OutVertices(dfg, v) : S \ {v} \in PathsFrom(w)
    BY <1>4, <2>1, PathShrinks
  <2>3. (S \ {v}) \cup {v} = S
    BY PathIsSet
  <2>4. f[S] = b + f[S \ {v}]
    BY <2>2, <2>3
  <2>5. f[S \ {v}] <= Best(f, w) /\ Best(f, w) \in Nat
    BY <1>1, <2>2, BestFacts
  <2>6. f[S \ {v}] \in Nat /\ Best(f, v) \in Nat
    <3>1. S \ {v} \in SUBSET dfg.node
      BY <2>2 DEF PathsFrom
    <3> QED
      BY <3>1, BestFacts
  <2>7. b + Best(f, w) <= Best(f, v)
    BY <1>3
  <2> QED
    BY <2>1, <2>4, <2>5, <2>6, <2>7
<1> QED
  BY <1>2, <1>3, <1>4
-----------------------------------------------------------------------------
(***************************************************************************)
(* What Init gives a run and no step changes.                              *)
(***************************************************************************)
InputInv ==
  /\ WellShaped
  /\ model \in Models
  /\ insn \in [dfg.node -> Instruction]
  /\ \A v \in dfg.node :
       /\ dfg.op[v] \in {"OPERATOR", "OUTPUT"} <=> InEdges(dfg, v) # {}
       /\ dfg.op[v] \in {"OPERATOR", "OUTPUT"} => dfg.instr[v]

Block   == {v \in dfg.node : InEdges(dfg, v) # {}}
HwCosts == [v \in dfg.node |-> HwTime(v)]
SwTimes == [v \in dfg.node |-> SwTime(v)]

(***************************************************************************)
(* Only the instructions of the block take time.                           *)
(***************************************************************************)
LEMMA TimesFacts ==
  ASSUME InputInv
  PROVE  /\ HwCosts \in [dfg.node -> Nat] /\ SwTimes \in [dfg.node -> Nat]
         /\ \A v \in dfg.node \ Block : HwCosts[v] = 0 /\ SwTimes[v] = 0
         /\ \A v \in Block : /\ HwCosts[v] = getHwInstructionTiming(model, insn[v])
                             /\ SwTimes[v] = getSwInstructionTiming(model, insn[v])
         /\ Block \in SUBSET dfg.node /\ IsFiniteSet(dfg.node)
<1>1. \A v \in dfg.node : Timed(v) <=> v \in Block
  BY DEF InputInv, Timed, Block
<1>2. ASSUME NEW v \in dfg.node PROVE HwTime(v) \in Nat /\ SwTime(v) \in Nat
  <2>1. insn[v] \in Instruction /\ model \in Models
    BY DEF InputInv
  <2>2. /\ getSwInstructionTiming(model, insn[v]) \in Nat
        /\ getHwInstructionTiming(model, insn[v]) \in Nat
    BY <2>1, TimesAreNumbers
  <2> QED
    BY <2>2 DEF HwTime, SwTime
<1>3. ASSUME NEW v \in dfg.node \ Block PROVE HwCosts[v] = 0 /\ SwTimes[v] = 0
  BY <1>1 DEF HwCosts, SwTimes, HwTime, SwTime
<1>4. ASSUME NEW v \in Block
      PROVE  /\ HwCosts[v] = getHwInstructionTiming(model, insn[v])
             /\ SwTimes[v] = getSwInstructionTiming(model, insn[v])
  <2>1. v \in dfg.node
    BY DEF Block
  <2> QED
    BY <1>1, <2>1 DEF HwCosts, SwTimes, HwTime, SwTime
<1> QED
  BY <1>2, <1>3, <1>4 DEF HwCosts, SwTimes, Block, InputInv, WellShaped, IsDFG

(***************************************************************************)
(* The weight of a set of vertices is the sum of the times of its members. *)
(***************************************************************************)
LEMMA WeightAdds ==
  ASSUME InputInv, NEW sum, Adds(sum, dfg.node, HwCosts), NEW S \in SUBSET dfg.node
  PROVE  Weight(S) = sum[S]
<1> DEFINE any(s) == CHOOSE x \in s : TRUE
           eq(w) == w = [s \in SUBSET S |-> IF s = {} THEN 0
                                            ELSE HwTime(any(s)) + w[s \ {any(s)}]]
           eqf(w) == RunsOver(w, S, HwCosts)
           w == CHOOSE w : eq(w)
<1>1. Weight(S) = w[S]
  BY DEF Weight, MapThenSumSet, MapThenFoldSet
<1>2. ASSUME NEW u PROVE eq(u) <=> eqf(u)
  <2>1. ASSUME NEW s \in SUBSET S, s # {} PROVE HwTime(any(s)) = HwCosts[any(s)]
    <3>1. any(s) \in dfg.node
      BY <2>1
    <3> HIDE DEF any
    <3> QED
      BY <3>1 DEF HwCosts
  <2> QED
    BY <2>1 DEF RunsOver
<1>3. eqf([s \in SUBSET S |-> sum[s]])
  <2> DEFINE g == [s \in SUBSET S |-> sum[s]]
  <2>1. g = [s \in SUBSET S |-> sum[s]]
    OBVIOUS
  <2> HIDE DEF g
  <2>2. eqf(g)
    BY <2>1, SomeOrderAdds
  <2> QED
    BY <2>2 DEF g
<1>4. eqf(w)
  <2> HIDE DEF eq, eqf
  <2> QED
    BY <1>2, <1>3
<1> HIDE DEF w
<1>5. w[S] = sum[S]
  BY <1>4, AnyOrderAdds, TimesFacts
<1> QED
  BY <1>1, <1>5

(***************************************************************************)
(* The same for the times in software.                                     *)
(***************************************************************************)
LEMMA SwTimesAdd ==
  ASSUME InputInv, NEW sum, Adds(sum, dfg.node, SwTimes)
  PROVE  MapThenSumSet(LAMBDA v : getSwInstructionTiming(model, insn[v]), Block) = sum[Block]
<1> DEFINE any(s) == CHOOSE x \in s : TRUE
           S == Block
           eq(w) == w = [s \in SUBSET S |-> IF s = {} THEN 0
                          ELSE getSwInstructionTiming(model, insn[any(s)]) + w[s \ {any(s)}]]
           eqf(w) == RunsOver(w, S, SwTimes)
           w == CHOOSE w : eq(w)
<1>1. MapThenSumSet(LAMBDA v : getSwInstructionTiming(model, insn[v]), S) = w[S]
  BY DEF MapThenSumSet, MapThenFoldSet
<1>2. ASSUME NEW u PROVE eq(u) <=> eqf(u)
  <2>1. ASSUME NEW s \in SUBSET S, s # {}
        PROVE  getSwInstructionTiming(model, insn[any(s)]) = SwTimes[any(s)]
    <3>1. any(s) \in Block
      BY <2>1
    <3> HIDE DEF any
    <3> QED
      BY <3>1, TimesFacts
  <2> QED
    BY <2>1 DEF RunsOver
<1>3. eqf([s \in SUBSET S |-> sum[s]])
  <2> DEFINE g == [s \in SUBSET S |-> sum[s]]
  <2>1. g = [s \in SUBSET S |-> sum[s]] /\ S \in SUBSET dfg.node
    BY TimesFacts
  <2> HIDE DEF g, S
  <2>2. eqf(g)
    BY <2>1, SomeOrderAdds
  <2> QED
    BY <2>2 DEF g
<1>4. eqf(w)
  <2> HIDE DEF eq, eqf
  <2> QED
    BY <1>2, <1>3
<1> HIDE DEF w
<1>5. w[S] = sum[S]
  BY <1>4, AnyOrderAdds, TimesFacts
<1> QED
  BY <1>1, <1>5
-----------------------------------------------------------------------------
(***************************************************************************)
(* The heaviest path from a vertex: its own time, and the heaviest from a  *)
(* vertex that uses it.                                                    *)
(***************************************************************************)
LEMMA OutVerticesFinite ==
  ASSUME WellShaped, NEW v \in dfg.node
  PROVE  OutVertices(dfg, v) \in SUBSET dfg.node /\ IsFiniteSet(OutVertices(dfg, v))
<1>1. OutVertices(dfg, v) \in SUBSET dfg.node
  BY PositionFacts
<1> QED
  BY <1>1, FS_Subset DEF WellShaped, IsDFG

(***************************************************************************)
(* The heaviest path is the best in the measure of weight.                 *)
(***************************************************************************)
LEMMA HeaviestIsBest ==
  ASSUME InputInv, NEW sum, Adds(sum, dfg.node, HwCosts), NEW v \in dfg.node
  PROVE  Heaviest(v) = Best(sum, v)
<1>1. \A S \in PathsFrom(v) : Weight(S) = sum[S]
  BY WeightAdds DEF PathsFrom
<1>2. {Weight(S) : S \in PathsFrom(v)} = {sum[S] : S \in PathsFrom(v)}
  BY <1>1
<1> QED
  BY <1>2 DEF Heaviest, Best

(***************************************************************************)
(* Hence the recursion the sweep computes.                                 *)
(***************************************************************************)
LEMMA HeaviestStep ==
  ASSUME InputInv, NEW v \in dfg.node
  PROVE  /\ HwTime(v) \in Nat /\ Heaviest(v) \in Nat
         /\ Heaviest(v) = HwTime(v) + Max({0} \cup {Heaviest(w) : w \in OutVertices(dfg, v)})
         /\ HwTime(v) <= Heaviest(v) /\ Heaviest(v) <= Weight(Block)
<1>1. HwCosts \in [dfg.node -> Nat] /\ IsFiniteSet(dfg.node) /\ Block \in SUBSET dfg.node
  BY TimesFacts
<1>2. PICK sum : Adds(sum, dfg.node, HwCosts)
  BY <1>1, SumExists
<1>3. sum \in [SUBSET dfg.node -> Nat] /\ sum[{}] = 0
      /\ \A S \in SUBSET dfg.node, x \in dfg.node :
           x \in S => sum[S] = HwCosts[x] + sum[S \ {x}]
  BY <1>2 DEF Adds
<1> DEFINE b == HwTime(v)
           O == OutVertices(dfg, v)
<1>4. b \in Nat /\ HwCosts[v] = b
  <2>1. HwCosts[v] = b
    BY DEF HwCosts
  <2> QED
    BY <1>1, <2>1
<1> HIDE DEF b
<1>5. WellShaped /\ O \in SUBSET dfg.node
  BY OutVerticesFinite DEF InputInv
<1>6. \A w \in dfg.node : Heaviest(w) = Best(sum, w) /\ Best(sum, w) \in Nat
  BY <1>2, <1>3, <1>5, HeaviestIsBest, BestFacts
<1>7. sum[{v}] = b
  <2>1. {v} \ {v} = {} /\ {v} \in SUBSET dfg.node /\ v \in {v}
    OBVIOUS
  <2>2. sum[{v}] = HwCosts[v] + sum[{v} \ {v}]
    BY <1>3, <2>1
  <2>3. sum[{v} \ {v}] = 0
    BY <1>3, <2>1
  <2> QED
    BY <1>4, <2>2, <2>3
<1>8. ASSUME NEW w \in O, NEW S \in PathsFrom(w) PROVE sum[S \cup {v}] = b + sum[S]
  <2>1. v \notin S /\ S \cup {v} \in PathsFrom(v)
    BY <1>5, <1>8, PathGrows
  <2>2. (S \cup {v}) \ {v} = S /\ S \cup {v} \in SUBSET dfg.node
    BY <2>1 DEF PathsFrom
  <2> QED
    BY <1>3, <1>4, <2>2
<1>9. /\ b <= Heaviest(v)
      /\ \A w \in O : b + Heaviest(w) <= Heaviest(v)
      /\ Heaviest(v) = b \/ \E w \in O : Heaviest(v) = b + Heaviest(w)
  <2>1. /\ sum[{v}] <= Best(sum, v)
        /\ \A w \in O : b + Best(sum, w) <= Best(sum, v)
        /\ Best(sum, v) = sum[{v}] \/ \E w \in O : Best(sum, v) = b + Best(sum, w)
    BY <1>3, <1>4, <1>5, <1>8, BestStep
  <2> QED
    BY <1>5, <1>6, <1>7, <2>1
<1>10. Heaviest(v) = b + Max({0} \cup {Heaviest(w) : w \in O})
  <2> DEFINE R == {0} \cup {Heaviest(w) : w \in O}
             m == Heaviest(v) - b
  <2>1. Heaviest(v) \in Nat /\ \A w \in O : Heaviest(w) \in Nat
    BY <1>5, <1>6
  <2>2. m \in Nat /\ Heaviest(v) = b + m
    BY <1>4, <1>9, <2>1
  <2>3. m \in R
    BY <1>4, <1>9, <2>1
  <2>4. \A x \in R : x <= m
    BY <1>4, <1>9, <2>1
  <2>5. R \subseteq Nat
    BY <2>1
  <2> HIDE DEF R, m
  <2>6. Max(R) = m
    BY <2>3, <2>4, <2>5, MaxIs
  <2> QED
    BY <2>2, <2>6 DEF R
<1>11. Heaviest(v) <= Weight(Block)
  <2>1. PICK S \in PathsFrom(v) : Best(sum, v) = sum[S]
    BY <1>3, <1>5, BestFacts
  <2>2. S \in SUBSET dfg.node
    BY DEF PathsFrom
  <2>3. \A x \in dfg.node \ Block : HwCosts[x] = 0
    BY TimesFacts
  <2>4. sum[S] <= sum[Block]
    BY <1>1, <1>2, <2>2, <2>3, SumGrows
  <2>5. Weight(Block) = sum[Block]
    BY <1>1, <1>2, WeightAdds
  <2> QED
    BY <1>6, <2>1, <2>4, <2>5
<1> QED
  BY <1>4, <1>6, <1>9, <1>10, <1>11 DEF b

(***************************************************************************)
(* The same for the number of edges.                                       *)
(***************************************************************************)
LEMMA MostEdgesStep ==
  ASSUME WellShaped, NEW v \in dfg.node
  PROVE  /\ MostEdges(v) \in Nat
         /\ MostEdges(v) = Max({0} \cup {MostEdges(w) + 1 : w \in OutVertices(dfg, v)})
         /\ \A w \in OutVertices(dfg, v) : MostEdges(w) + 1 <= MostEdges(v)
         /\ MostEdges(v) = 0 \/ \E w \in OutVertices(dfg, v) : MostEdges(v) = MostEdges(w) + 1
<1> DEFINE f == [S \in SUBSET dfg.node |-> IF S = {} THEN 0 ELSE Cardinality(S) - 1]
           O == OutVertices(dfg, v)
<1>1. ASSUME NEW w, NEW S \in PathsFrom(w) PROVE f[S] = Cardinality(S) - 1
  BY PathIsSet
<1>2. f \in [SUBSET dfg.node -> Nat]
  <2> SUFFICES ASSUME NEW S \in SUBSET dfg.node, S # {} PROVE Cardinality(S) - 1 \in Nat
    OBVIOUS
  <2>1. IsFiniteSet(S)
    BY FS_Subset DEF WellShaped, IsDFG
  <2>2. Cardinality(S) \in Nat /\ Cardinality(S) # 0
    BY <2>1, FS_CardinalityType, FS_EmptySet
  <2> QED
    BY <2>2
<1> HIDE DEF f
<1>3. ASSUME NEW w \in dfg.node PROVE MostEdges(w) = Best(f, w)
  <2>1. {Cardinality(S) - 1 : S \in PathsFrom(w)} = {f[S] : S \in PathsFrom(w)}
    BY <1>1
  <2> QED
    BY <2>1 DEF MostEdges, Best
<1>4. O \in SUBSET dfg.node
  BY OutVerticesFinite
<1>5. \A w \in dfg.node : MostEdges(w) \in Nat
  BY <1>2, <1>3, BestFacts
<1>6. f[{v}] = 0
  <2>1. {v} \in PathsFrom(v) /\ Cardinality({v}) = 1
    BY PathAlone, FS_Singleton
  <2> QED
    BY <1>1, <2>1
<1>7. ASSUME NEW w \in O, NEW S \in PathsFrom(w) PROVE f[S \cup {v}] = 1 + f[S]
  <2>1. v \notin S /\ S \cup {v} \in PathsFrom(v)
    BY <1>7, PathGrows
  <2>2. IsFiniteSet(S) /\ Cardinality(S) \in Nat
    BY PathIsSet
  <2>3. Cardinality(S \cup {v}) = Cardinality(S) + 1
    BY <2>1, <2>2, FS_AddElement
  <2>4. f[S \cup {v}] = Cardinality(S \cup {v}) - 1 /\ f[S] = Cardinality(S) - 1
    BY <1>1, <2>1
  <2> QED
    BY <2>2, <2>3, <2>4
<1>8. /\ \A w \in O : 1 + MostEdges(w) <= MostEdges(v)
      /\ MostEdges(v) = 0 \/ \E w \in O : MostEdges(v) = 1 + MostEdges(w)
  <2>1. /\ f[{v}] <= Best(f, v)
        /\ \A w \in O : 1 + Best(f, w) <= Best(f, v)
        /\ Best(f, v) = f[{v}] \/ \E w \in O : Best(f, v) = 1 + Best(f, w)
    BY <1>2, <1>7, BestStep
  <2> QED
    BY <1>3, <1>4, <1>6, <2>1
<1>9. MostEdges(v) = Max({0} \cup {MostEdges(w) + 1 : w \in O})
  <2> DEFINE R == {0} \cup {MostEdges(w) + 1 : w \in O}
  <2>1. MostEdges(v) \in Nat /\ \A w \in O : MostEdges(w) \in Nat
    BY <1>4, <1>5
  <2>2. MostEdges(v) \in R /\ \A x \in R : x <= MostEdges(v)
    BY <1>8, <2>1
  <2>3. R \subseteq Nat
    BY <2>1
  <2> HIDE DEF R
  <2>4. Max(R) = MostEdges(v)
    BY <2>2, <2>3, MaxIs
  <2> QED
    BY <2>4 DEF R
<1>10. \A w \in O : 1 + MostEdges(w) = MostEdges(w) + 1
  BY <1>4, <1>5
<1> QED
  BY <1>5, <1>8, <1>9, <1>10
-----------------------------------------------------------------------------
(***************************************************************************)
(* The largest value of f over P, or zero.                                 *)
(***************************************************************************)
Tops(m, f, P) ==
  /\ m \in Nat
  /\ \A u \in P : f[u] <= m
  /\ m = 0 \/ \E u \in P : m = f[u]

(***************************************************************************)
(* It is the maximum the sweeps keep.                                      *)
(***************************************************************************)
LEMMA TopsIsMax ==
  ASSUME NEW D, IsFiniteSet(D), NEW f \in [D -> Nat], NEW P \in SUBSET D, NEW m
  PROVE  m = Max({0} \cup {f[u] : u \in P}) <=> Tops(m, f, P)
<1> DEFINE A == {f[u] : u \in P}
           R == {0} \cup A
           h == [u \in P |-> f[u]]
<1>1. IsFiniteSet(R)
  <2>1. IsFiniteSet(P)
    BY FS_Subset
  <2>2. h \in Surjection(P, A)
    BY DEF Surjection
  <2>3. IsFiniteSet(A)
    <3> HIDE DEF h, A
    <3> QED
      BY <2>1, <2>2, FS_Surjection
  <2>4. R = A \cup {0}
    OBVIOUS
  <2> QED
    BY <2>3, <2>4, FS_AddElement
<1>2. R \subseteq Nat /\ R # {}
  OBVIOUS
<1>3. Max(R) \in R /\ Max(R) \in Nat /\ \A x \in R : x <= Max(R)
  <2> HIDE DEF R
  <2> QED
    BY <1>1, <1>2, MaxFacts
<1>4. Tops(Max(R), f, P)
  <2>1. Max(R) = 0 \/ \E u \in P : Max(R) = f[u]
    BY <1>3
  <2>2. \A u \in P : f[u] \in R
    OBVIOUS
  <2> HIDE DEF R
  <2> QED
    BY <1>3, <2>1, <2>2 DEF Tops
<1>5. ASSUME Tops(m, f, P) PROVE m = Max(R)
  <2>1. m \in R /\ \A x \in R : x <= m
    BY <1>5 DEF Tops
  <2> HIDE DEF R
  <2> QED
    BY <1>2, <2>1, MaxIs
<1> QED
  BY <1>4, <1>5

-----------------------------------------------------------------------------
(***************************************************************************)
(* The vertices a sweep has passed.                                        *)
(***************************************************************************)
LEMMA PassedFacts ==
  ASSUME WellShaped, NEW k \in 1..Len(topo)
  PROVE  /\ topo[k] \in dfg.node /\ topo[k] \notin Passed(k)
         /\ Passed(k + 1) = Passed(k) \cup {topo[k]}
         /\ Passed(k) \in SUBSET dfg.node
         /\ OutVertices(dfg, topo[k]) \subseteq Passed(k)
<1>1. /\ \A j \in 1..Len(topo) : topo[j] \in dfg.node /\ Position(topo[j]) = j
      /\ Len(topo) \in Nat
  BY PositionFacts
<1>2. topo[k] \notin Passed(k) /\ Passed(k) \in SUBSET dfg.node
  BY <1>1 DEF Passed
<1>3. Passed(k + 1) = Passed(k) \cup {topo[k]}
  <2>1. 1..((k + 1) - 1) = 1..(k - 1) \cup {k}
    BY <1>1
  <2> QED
    BY <2>1 DEF Passed
<1>4. ASSUME NEW w \in OutVertices(dfg, topo[k]) PROVE w \in Passed(k)
  <2>1. w \in dfg.node /\ Position(w) < Position(topo[k]) /\ Position(topo[k]) = k
    BY <1>1, PositionFacts
  <2>2. Position(w) \in 1..Len(topo) /\ topo[Position(w)] = w
    BY <2>1, PositionFacts
  <2>3. Position(w) \in 1..(k - 1)
    BY <1>1, <2>1, <2>2
  <2> QED
    BY <2>2, <2>3 DEF Passed
<1> QED
  BY <1>1, <1>2, <1>3, <1>4

(***************************************************************************)
(* A sweep that has ended has passed them all.                             *)
(***************************************************************************)
LEMMA AllArePassed ==
  ASSUME WellShaped, NEW k \in 1..(Len(topo) + 1), ~(k <= Len(topo))
  PROVE  Passed(k) = dfg.node
<1>1. Len(topo) \in Nat /\ \A j \in 1..Len(topo) : topo[j] \in dfg.node
  BY PositionFacts
<1>2. k - 1 = Len(topo)
  BY <1>1
<1>3. \A v \in dfg.node : \E j \in 1..Len(topo) : topo[j] = v
  BY PositionFacts
<1> QED
  BY <1>1, <1>2, <1>3 DEF Passed

-----------------------------------------------------------------------------
(***************************************************************************)
(* The invariant of the three loops.                                       *)
(***************************************************************************)
SoftwareInv ==
  \A sum : Adds(sum, dfg.node, SwTimes) => runtime = sum[seen]

HardwareInv ==
  /\ \A v \in Passed(ii) : dist[v] = Heaviest(v)
  /\ Tops(maxDist, dist, Passed(ii))

EdgesInv ==
  /\ \A v \in Passed(jj) : distance[v] = MostEdges(v)
  /\ \A v \in dfg.node \ Passed(jj) : distance[v] = 0
  /\ Tops(longest, distance, Passed(jj))

EstimationInv == InputInv /\ TypeOK /\ SoftwareInv /\ HardwareInv /\ EdgesInv

(***************************************************************************)
(* No step changes the input, nor what is defined from it.                 *)
(***************************************************************************)
LEMMA InputStays ==
  ASSUME InputInv, input' = input
  PROVE  /\ InputInv' /\ dfg' = dfg /\ topo' = topo /\ SwTimes' = SwTimes
         /\ \A v : Heaviest(v)' = Heaviest(v) /\ MostEdges(v)' = MostEdges(v)
<1>1. dfg' = dfg /\ insn' = insn /\ model' = model /\ topo' = topo
  BY DEF input
<1>2. InputInv'
  BY <1>1 DEF InputInv, WellShaped
<1>3. \A v : SwTime(v)' = SwTime(v) /\ HwTime(v)' = HwTime(v)
  BY <1>1 DEF SwTime, HwTime, Timed
<1>4. SwTimes' = SwTimes
  BY <1>1, <1>3 DEF SwTimes
<1>5. \A S : Weight(S)' = Weight(S)
  BY <1>3 DEF Weight, MapThenSumSet, MapThenFoldSet
<1>6. \A v : PathsFrom(v)' = PathsFrom(v)
  BY <1>1 DEF PathsFrom, IsPathFrom
<1>7. \A v : Heaviest(v)' = Heaviest(v)
  BY <1>5, <1>6 DEF Heaviest
<1>8. \A v : MostEdges(v)' = MostEdges(v)
  BY <1>6 DEF MostEdges
<1> QED
  BY <1>1, <1>2, <1>4, <1>7, <1>8

(***************************************************************************)
(* The steps of the other loops keep the part of the software loop.        *)
(***************************************************************************)
LEMMA SoftwareStays ==
  ASSUME EstimationInv, UNCHANGED <<input, software>>
  PROVE  SoftwareInv' /\ seen' \subseteq dfg'.node /\ runtime' \in Nat
<1>1. dfg' = dfg /\ SwTimes' = SwTimes /\ seen' = seen /\ runtime' = runtime
  BY InputStays DEF EstimationInv, software
<1> QED
  BY <1>1 DEF EstimationInv, SoftwareInv, TypeOK

(***************************************************************************)
(* The steps of the other loops keep the part of the sweep.                *)
(***************************************************************************)
LEMMA HardwareStays ==
  ASSUME EstimationInv, UNCHANGED <<input, hardware>>
  PROVE  /\ HardwareInv' /\ ii' \in 1..(Len(topo') + 1)
         /\ dist' \in [dfg'.node -> Nat] /\ maxDist' \in Nat
<1>1. /\ dfg' = dfg /\ topo' = topo /\ ii' = ii /\ dist' = dist /\ maxDist' = maxDist
      /\ \A v : Heaviest(v)' = Heaviest(v)
  BY InputStays DEF EstimationInv, hardware
<1>2. Passed(ii)' = Passed(ii)
  BY <1>1 DEF Passed
<1> QED
  BY <1>1, <1>2 DEF EstimationInv, HardwareInv, TypeOK, Tops

(***************************************************************************)
(* The steps of the other loops keep the part of getLongestPath.           *)
(***************************************************************************)
LEMMA EdgesStay ==
  ASSUME EstimationInv, UNCHANGED <<input, edges>>
  PROVE  /\ EdgesInv' /\ jj' \in 1..(Len(topo') + 1)
         /\ distance' \in [dfg'.node -> Nat] /\ longest' \in Nat
<1>1. /\ dfg' = dfg /\ topo' = topo /\ jj' = jj /\ distance' = distance /\ longest' = longest
      /\ \A v : MostEdges(v)' = MostEdges(v)
  BY InputStays DEF EstimationInv, edges
<1>2. Passed(jj)' = Passed(jj)
  BY <1>1 DEF Passed
<1> QED
  BY <1>1, <1>2 DEF EstimationInv, EdgesInv, TypeOK, Tops
-----------------------------------------------------------------------------
(***************************************************************************)
(* The loops keep it.                                                      *)
(***************************************************************************)
LEMMA AddVertexKeeps ==
  ASSUME EstimationInv, AddVertex
  PROVE  EstimationInv'
<1>1. UNCHANGED <<input, hardware>> /\ UNCHANGED <<input, edges>> /\ input' = input
  BY DEF AddVertex
<1>2. InputInv /\ InputInv' /\ dfg' = dfg /\ SwTimes' = SwTimes
  BY <1>1, InputStays DEF EstimationInv
<1> DEFINE v == Min(dfg.node \ seen)
<1>3. v \in dfg.node \ seen
  <2> DEFINE R == dfg.node \ seen
  <2>1. R \subseteq Nat /\ R # {}
    <3>1. dfg.node \subseteq Nat
      <4>1. dfg.node = 1..Cardinality(dfg.node)
        BY <1>2 DEF InputInv, WellShaped
      <4> DEFINE n == Cardinality(dfg.node)
      <4>2. dfg.node = 1..n
        BY <4>1
      <4> HIDE DEF n
      <4> QED
        BY <4>2
    <3>2. seen # dfg.node /\ seen \subseteq dfg.node
      BY DEF AddVertex, EstimationInv, TypeOK
    <3> QED
      BY <3>1, <3>2
  <2> HIDE DEF R
  <2>2. \E m \in R : \A k \in R : m <= k
    BY <2>1, LeastElement
  <2>3. Min(R) \in R
    BY <2>2 DEF Min
  <2> QED
    BY <2>3 DEF R
<1>4. runtime' = runtime + SwTime(v) /\ seen' = seen \cup {v}
  BY DEF AddVertex
<1> HIDE DEF v
<1>5. SwTimes[v] = SwTime(v) /\ SwTimes[v] \in Nat
  BY <1>2, <1>3, TimesFacts DEF SwTimes
<1>6. SoftwareInv'
  <2> SUFFICES ASSUME NEW sum, Adds(sum, dfg.node, SwTimes) PROVE runtime' = sum[seen']
    BY <1>2 DEF SoftwareInv
  <2>1. runtime = sum[seen]
    BY DEF EstimationInv, SoftwareInv
  <2>2. seen' \in SUBSET dfg.node /\ seen' \ {v} = seen /\ v \in seen' /\ v \in dfg.node
    BY <1>3, <1>4 DEF EstimationInv, TypeOK
  <2>3. sum[seen'] = SwTimes[v] + sum[seen' \ {v}]
    BY <2>2 DEF Adds
  <2>4. runtime \in Nat
    BY DEF EstimationInv, TypeOK
  <2>5. sum[seen'] = SwTimes[v] + runtime
    BY <2>1, <2>2, <2>3
  <2> QED
    BY <1>4, <1>5, <2>4, <2>5
<1>7. seen' \subseteq dfg'.node /\ runtime' \in Nat
  BY <1>2, <1>3, <1>4, <1>5 DEF EstimationInv, TypeOK
<1>8. /\ HardwareInv' /\ ii' \in 1..(Len(topo') + 1)
      /\ dist' \in [dfg'.node -> Nat] /\ maxDist' \in Nat
  BY <1>1, HardwareStays
<1>9. /\ EdgesInv' /\ jj' \in 1..(Len(topo') + 1)
      /\ distance' \in [dfg'.node -> Nat] /\ longest' \in Nat
  BY <1>1, EdgesStay
<1> QED
  BY <1>2, <1>6, <1>7, <1>8, <1>9 DEF EstimationInv, TypeOK

(***************************************************************************)
(* One vertex more in the sweep of estimateHwRuntime.                      *)
(***************************************************************************)
LEMMA SweepKeeps ==
  ASSUME EstimationInv, Sweep
  PROVE  EstimationInv'
<1>1. UNCHANGED <<input, software>> /\ UNCHANGED <<input, edges>> /\ input' = input
  BY DEF Sweep
<1>2. /\ InputInv /\ InputInv' /\ dfg' = dfg /\ topo' = topo /\ WellShaped
      /\ \A u : Heaviest(u)' = Heaviest(u)
  BY <1>1, InputStays DEF EstimationInv, InputInv
<1>3. /\ dist \in [dfg.node -> Nat] /\ maxDist \in Nat /\ ii \in 1..Len(topo)
      /\ Tops(maxDist, dist, Passed(ii)) /\ \A u \in Passed(ii) : dist[u] = Heaviest(u)
  BY PositionFacts, <1>2 DEF EstimationInv, TypeOK, HardwareInv, Sweep
<1> DEFINE v == topo[ii]
           P == Passed(ii)
           d == Heaviest(v)
<1>4. /\ v \in dfg.node /\ v \notin P /\ Passed(ii + 1) = P \cup {v} /\ P \in SUBSET dfg.node
      /\ OutVertices(dfg, v) \subseteq P
  BY <1>2, <1>3, PassedFacts
<1>5. Distance(v) = d /\ d \in Nat
  <2>1. {dist[w] : w \in OutVertices(dfg, v)} = {Heaviest(w) : w \in OutVertices(dfg, v)}
    BY <1>3, <1>4
  <2> QED
    BY <1>2, <1>4, <2>1, HeaviestStep DEF Distance
<1>6. /\ dist' = [dist EXCEPT ![v] = Distance(v)] /\ maxDist' = Max({maxDist, Distance(v)})
      /\ ii' = ii + 1
  BY DEF Sweep
<1>7. Passed(ii)' = P \cup {v}
  BY <1>2, <1>4, <1>6 DEF Passed
<1> HIDE DEF v, P, d
<1>8. dist' \in [dfg.node -> Nat] /\ dist'[v] = d /\ \A u \in P : dist'[u] = dist[u]
  BY <1>3, <1>4, <1>5, <1>6
<1>9. maxDist' \in Nat /\ maxDist <= maxDist' /\ d <= maxDist' /\ maxDist' \in {maxDist, d}
  <2>1. CASE d <= maxDist
    <3>1. Max({maxDist, d}) = maxDist
      <4>1. maxDist <= maxDist /\ \A x \in {maxDist, d} : x <= maxDist
        BY <1>3, <2>1
      <4> QED
        BY <1>3, <1>5, <4>1, MaxIs
    <3> QED
      BY <1>3, <1>5, <1>6, <2>1, <3>1
  <2>2. CASE ~(d <= maxDist)
    <3>1. Max({maxDist, d}) = d
      <4>1. maxDist <= d /\ d <= d
        BY <1>3, <1>5, <2>2
      <4> QED
        BY <1>3, <1>5, <4>1, MaxIs
    <3> QED
      BY <1>3, <1>5, <1>6, <2>2, <3>1
  <2> QED
    BY <2>1, <2>2
<1>10. Tops(maxDist', dist', P \cup {v})
  <2>1. \A u \in P \cup {v} : dist'[u] <= maxDist'
    <3> TAKE u \in P \cup {v}
    <3>1. CASE u = v
      BY <1>8, <1>9, <3>1
    <3>2. CASE u \in P
      <4>1. dist[u] <= maxDist /\ dist[u] \in Nat
        BY <1>3, <1>4, <3>2 DEF Tops, P
      <4> QED
        BY <1>3, <1>8, <1>9, <3>2, <4>1
    <3> QED
      BY <3>1, <3>2
  <2>2. maxDist' = 0 \/ \E u \in P \cup {v} : maxDist' = dist'[u]
    <3>1. CASE maxDist' = d
      BY <1>8, <3>1
    <3>2. CASE maxDist' = maxDist
      <4>1. maxDist = 0 \/ \E u \in P : maxDist = dist[u]
        BY <1>3 DEF Tops, P
      <4> QED
        BY <1>8, <3>2, <4>1
    <3> QED
      BY <1>9, <3>1, <3>2
  <2> QED
    BY <1>9, <2>1, <2>2 DEF Tops
<1>11. \A u \in P \cup {v} : dist'[u] = Heaviest(u)'
  <2> TAKE u \in P \cup {v}
  <2>1. CASE u = v
    BY <1>2, <1>8, <2>1 DEF d
  <2>2. CASE u \in P
    BY <1>2, <1>3, <1>8, <2>2 DEF P
  <2> QED
    BY <2>1, <2>2
<1>12. HardwareInv'
  BY <1>7, <1>10, <1>11 DEF HardwareInv, Tops
<1>13. ii' \in 1..(Len(topo') + 1)
  BY <1>2, <1>3, <1>6, PositionFacts
<1>14. SoftwareInv' /\ seen' \subseteq dfg'.node /\ runtime' \in Nat
  BY <1>1, SoftwareStays
<1>15. /\ EdgesInv' /\ jj' \in 1..(Len(topo') + 1)
       /\ distance' \in [dfg'.node -> Nat] /\ longest' \in Nat
  BY <1>1, EdgesStay
<1> QED
  BY <1>2, <1>8, <1>9, <1>12, <1>13, <1>14, <1>15 DEF EstimationInv, TypeOK

(***************************************************************************)
(* One vertex more in the sweep of getLongestPath.                         *)
(***************************************************************************)
LEMMA SweepEdgesKeeps ==
  ASSUME EstimationInv, SweepEdges
  PROVE  EstimationInv'
<1>1. UNCHANGED <<input, software>> /\ UNCHANGED <<input, hardware>> /\ input' = input
  BY DEF SweepEdges
<1>2. /\ InputInv /\ InputInv' /\ dfg' = dfg /\ topo' = topo /\ WellShaped
      /\ \A u : MostEdges(u)' = MostEdges(u)
  BY <1>1, InputStays DEF EstimationInv, InputInv
<1>3. /\ distance \in [dfg.node -> Nat] /\ longest \in Nat /\ jj \in 1..Len(topo)
      /\ Tops(longest, distance, Passed(jj))
      /\ \A u \in Passed(jj) : distance[u] = MostEdges(u)
      /\ \A u \in dfg.node \ Passed(jj) : distance[u] = 0
  BY PositionFacts, <1>2 DEF EstimationInv, TypeOK, EdgesInv, SweepEdges
<1> DEFINE v == topo[jj]
           P == Passed(jj)
           O == OutVertices(dfg, v)
           E == EdgeDistances(v)
           d == MostEdges(v)
<1>4. /\ v \in dfg.node /\ v \notin P /\ Passed(jj + 1) = P \cup {v} /\ P \in SUBSET dfg.node
      /\ O \subseteq P
  BY <1>2, <1>3, PassedFacts
<1>5. E = {MostEdges(w) + 1 : w \in O}
  BY <1>3, <1>4 DEF EdgeDistances
<1>6. /\ d \in Nat /\ d = Max({0} \cup E)
      /\ \A w \in O : MostEdges(w) + 1 <= d
      /\ d = 0 \/ \E w \in O : d = MostEdges(w) + 1
  BY <1>2, <1>4, <1>5, MostEdgesStep
<1>7. E \subseteq Nat /\ (\A x \in E : x <= d) /\ (d = 0 \/ d \in E)
  <2>1. \A w \in O : MostEdges(w) \in Nat
    BY <1>2, <1>4, MostEdgesStep
  <2> HIDE DEF d, E, O
  <2>2. \A x \in E : \E w \in O : x = MostEdges(w) + 1
    BY <1>5
  <2>3. \A x \in E : x \in Nat /\ x <= d
    BY <1>6, <2>1, <2>2
  <2>4. d = 0 \/ d \in E
    BY <1>5, <1>6
  <2> QED
    BY <2>3, <2>4
<1>8. distance' = [distance EXCEPT ![v] = d]
  <2>1. distance[v] = 0
    BY <1>3, <1>4
  <2> QED
    BY <1>6, <2>1 DEF SweepEdges
<1>9. longest' = Max({longest} \cup E) /\ jj' = jj + 1
  BY DEF SweepEdges
<1>10. Passed(jj)' = P \cup {v}
  BY <1>2, <1>4, <1>9 DEF Passed
<1> HIDE DEF v, P, O, E, d
<1>11. distance' \in [dfg.node -> Nat] /\ distance'[v] = d
       /\ \A u \in dfg.node : u # v => distance'[u] = distance[u]
  BY <1>3, <1>4, <1>6, <1>8
<1>12. longest' \in Nat /\ longest <= longest' /\ d <= longest' /\ longest' \in {longest, d}
  <2>1. CASE d <= longest
    <3>1. \A x \in {longest} \cup E : x <= longest
      <4>1. d \in Nat /\ longest \in Nat /\ d <= longest
        BY <1>3, <1>6, <2>1
      <4>2. \A x \in E : x \in Nat /\ x <= d
        BY <1>7
      <4>3. \A x \in E : x <= longest
        BY <4>1, <4>2
      <4> QED
        BY <4>1, <4>3
    <3>2. Max({longest} \cup E) = longest
      BY <1>3, <1>7, <3>1, MaxIs
    <3> QED
      BY <1>3, <1>9, <2>1, <3>2
  <2>2. CASE ~(d <= longest)
    <3>1. d \in E
      <4>1. d # 0
        BY <1>3, <2>2
      <4> QED
        BY <1>7, <4>1
    <3>2. \A x \in {longest} \cup E : x <= d
      <4>1. longest <= d
        BY <1>3, <1>6, <2>2
      <4> QED
        BY <1>7, <4>1
    <3>3. Max({longest} \cup E) = d
      BY <1>3, <1>7, <3>1, <3>2, MaxIs
    <3> QED
      BY <1>3, <1>6, <1>9, <2>2, <3>3
  <2> QED
    BY <2>1, <2>2
<1>13. Tops(longest', distance', P \cup {v})
  <2>1. \A u \in P \cup {v} : distance'[u] <= longest'
    <3> TAKE u \in P \cup {v}
    <3>1. CASE u = v
      BY <1>11, <1>12, <3>1
    <3>2. CASE u \in P
      <4>1. distance[u] <= longest /\ distance[u] \in Nat /\ distance'[u] = distance[u]
        BY <1>3, <1>4, <1>11, <3>2 DEF Tops, P
      <4> QED
        BY <1>3, <1>12, <4>1
    <3> QED
      BY <3>1, <3>2
  <2>2. longest' = 0 \/ \E u \in P \cup {v} : longest' = distance'[u]
    <3>1. CASE longest' = d
      BY <1>11, <3>1
    <3>2. CASE longest' = longest
      <4>1. longest = 0 \/ \E u \in P : longest = distance[u]
        BY <1>3 DEF Tops, P
      <4>2. \A u \in P : distance'[u] = distance[u]
        BY <1>4, <1>11
      <4> QED
        BY <3>2, <4>1, <4>2
    <3> QED
      BY <1>12, <3>1, <3>2
  <2> QED
    BY <1>12, <2>1, <2>2 DEF Tops
<1>14. \A u \in P \cup {v} : distance'[u] = MostEdges(u)'
  <2> TAKE u \in P \cup {v}
  <2>1. CASE u = v
    BY <1>2, <1>11, <2>1 DEF d
  <2>2. CASE u \in P
    BY <1>2, <1>3, <1>4, <1>11, <2>2 DEF P
  <2> QED
    BY <2>1, <2>2
<1>15. \A u \in dfg.node \ (P \cup {v}) : distance'[u] = 0
  BY <1>3, <1>11 DEF P
<1>16. EdgesInv'
  BY <1>2, <1>10, <1>13, <1>14, <1>15 DEF EdgesInv, Tops
<1>17. jj' \in 1..(Len(topo') + 1)
  BY <1>2, <1>3, <1>9, PositionFacts
<1>18. SoftwareInv' /\ seen' \subseteq dfg'.node /\ runtime' \in Nat
  BY <1>1, SoftwareStays
<1>19. /\ HardwareInv' /\ ii' \in 1..(Len(topo') + 1)
       /\ dist' \in [dfg'.node -> Nat] /\ maxDist' \in Nat
  BY <1>1, HardwareStays
<1> QED
  BY <1>2, <1>11, <1>12, <1>16, <1>17, <1>18, <1>19 DEF EstimationInv, TypeOK

(***************************************************************************)
(* It holds at first.                                                      *)
(***************************************************************************)
LEMMA InitEstimates == Init => EstimationInv
<1> SUFFICES ASSUME Init PROVE EstimationInv
  OBVIOUS
<1>1. PICK x \in Inputs : dfg = x.dfg /\ insn = x.insn
  BY DEF Init
<1>2. /\ IsDFG(dfg) /\ dfg.node = 1..Cardinality(dfg.node) /\ insn \in [dfg.node -> Instruction]
      /\ \A v \in dfg.node :
           /\ dfg.op[v] \in {"OPERATOR", "OUTPUT"} <=> InEdges(dfg, v) # {}
           /\ dfg.op[v] \in {"OPERATOR", "OUTPUT"} => dfg.instr[v]
  BY <1>1, InputsAssumption
<1>3. IsReverseTopologicalSort(dfg, topo)
  BY DEF Init, ReverseTopologicalSorts
<1>4. InputInv
  BY <1>2, <1>3 DEF InputInv, WellShaped, Init
<1>5. Len(topo) \in Nat
  BY <1>4, PositionFacts DEF InputInv
<1>6. TypeOK
  BY <1>5 DEF TypeOK, Init
<1>7. Passed(1) = {}
  BY DEF Passed
<1>8. SoftwareInv
  BY DEF SoftwareInv, Adds, Init
<1>9. HardwareInv
  BY <1>7 DEF HardwareInv, Tops, Init
<1>10. EdgesInv
  BY <1>7 DEF EdgesInv, Tops, Init
<1> QED
  BY <1>4, <1>6, <1>8, <1>9, <1>10 DEF EstimationInv

(***************************************************************************)
(* Every step keeps it.                                                    *)
(***************************************************************************)
LEMMA NextEstimates == EstimationInv /\ [Next]_vars => EstimationInv'
<1> SUFFICES ASSUME EstimationInv, [Next]_vars PROVE EstimationInv'
  OBVIOUS
<1>1. CASE AddVertex
  BY <1>1, AddVertexKeeps
<1>2. CASE Sweep
  BY <1>2, SweepKeeps
<1>3. CASE SweepEdges
  BY <1>3, SweepEdgesKeeps
<1>4. CASE UNCHANGED vars
  <2>1. UNCHANGED <<input, software>> /\ UNCHANGED <<input, hardware>>
        /\ UNCHANGED <<input, edges>> /\ input' = input
    BY <1>4 DEF vars
  <2>2. InputInv'
    BY <2>1, InputStays DEF EstimationInv
  <2>3. SoftwareInv' /\ seen' \subseteq dfg'.node /\ runtime' \in Nat
    BY <2>1, SoftwareStays
  <2>4. /\ HardwareInv' /\ ii' \in 1..(Len(topo') + 1)
        /\ dist' \in [dfg'.node -> Nat] /\ maxDist' \in Nat
    BY <2>1, HardwareStays
  <2>5. /\ EdgesInv' /\ jj' \in 1..(Len(topo') + 1)
        /\ distance' \in [dfg'.node -> Nat] /\ longest' \in Nat
    BY <2>1, EdgesStay
  <2> QED
    BY <2>2, <2>3, <2>4, <2>5 DEF EstimationInv, TypeOK
<1> QED
  BY <1>1, <1>2, <1>3, <1>4 DEF Next

-----------------------------------------------------------------------------
(***************************************************************************)
(* The properties.                                                         *)
(***************************************************************************)
LEMMA PassedIsPart ==
  ASSUME WellShaped, NEW k \in 1..(Len(topo) + 1)
  PROVE  Passed(k) \in SUBSET dfg.node /\ IsFiniteSet(dfg.node)
<1>1. Len(topo) \in Nat /\ \A j \in 1..Len(topo) : topo[j] \in dfg.node
  BY PositionFacts
<1> QED
  BY <1>1 DEF Passed, WellShaped, IsDFG

(***************************************************************************)
(* It implies what the sweeps promise.                                     *)
(***************************************************************************)
LEMMA SweepHolds == EstimationInv => SweepInv /\ DistanceIsLongestPath
<1> SUFFICES ASSUME EstimationInv PROVE SweepInv /\ DistanceIsLongestPath
  OBVIOUS
<1>1. WellShaped /\ TypeOK
  BY DEF EstimationInv, InputInv
<1>2. maxDist = Max({0} \cup {dist[v] : v \in Passed(ii)})
  <2>1. Tops(maxDist, dist, Passed(ii)) /\ dist \in [dfg.node -> Nat]
    BY DEF EstimationInv, HardwareInv, TypeOK
  <2>2. Passed(ii) \in SUBSET dfg.node /\ IsFiniteSet(dfg.node)
    BY <1>1, PassedIsPart DEF TypeOK
  <2> QED
    BY <2>1, <2>2, TopsIsMax
<1>3. longest = Max({0} \cup {distance[v] : v \in Passed(jj)})
  <2>1. Tops(longest, distance, Passed(jj)) /\ distance \in [dfg.node -> Nat]
    BY DEF EstimationInv, EdgesInv, TypeOK
  <2>2. Passed(jj) \in SUBSET dfg.node /\ IsFiniteSet(dfg.node)
    BY <1>1, PassedIsPart DEF TypeOK
  <2> QED
    BY <2>1, <2>2, TopsIsMax
<1> QED
  BY <1>1, <1>2, <1>3
  DEF SweepInv, DistIsHeaviestPath, DistanceIsLongestPath, EstimationInv, HardwareInv, EdgesInv

(***************************************************************************)
(* And what the estimates are worth in the end.                            *)
(***************************************************************************)
LEMMA BoundsHold == EstimationInv => EstimatesBounded
<1> SUFFICES ASSUME EstimationInv, Done
             PROVE  /\ maxDist <= Weight(Block)
                    /\ \A v \in Block : getHwInstructionTiming(model, insn[v]) <= maxDist
                    /\ runtime = MapThenSumSet(LAMBDA v : getSwInstructionTiming(model, insn[v]),
                                               Block)
  BY DEF EstimatesBounded, Block, estimateHwRuntime, estimateSwRuntime
<1>1. InputInv /\ WellShaped /\ TypeOK
  BY DEF EstimationInv, InputInv
<1>2. /\ HwCosts \in [dfg.node -> Nat] /\ SwTimes \in [dfg.node -> Nat]
      /\ \A v \in dfg.node \ Block : HwCosts[v] = 0 /\ SwTimes[v] = 0
      /\ Block \in SUBSET dfg.node /\ IsFiniteSet(dfg.node)
  BY <1>1, TimesFacts
<1>3. Passed(ii) = dfg.node
  BY <1>1, AllArePassed DEF Done, TypeOK
<1>4. /\ maxDist \in Nat
      /\ \A v \in dfg.node : dist[v] = Heaviest(v) /\ dist[v] <= maxDist
      /\ maxDist = 0 \/ \E v \in dfg.node : maxDist = dist[v]
  BY <1>3 DEF EstimationInv, HardwareInv, Tops
<1>5. maxDist <= Weight(Block)
  <2>1. CASE maxDist = 0
    <3>1. PICK sum : Adds(sum, dfg.node, HwCosts)
      BY <1>2, SumExists
    <3>2. Weight(Block) = sum[Block]
      BY <1>1, <1>2, <3>1, WeightAdds
    <3>3. sum[Block] \in Nat
      BY <1>2, <3>1 DEF Adds
    <3> QED
      BY <2>1, <3>2, <3>3
  <2>2. CASE \E v \in dfg.node : maxDist = dist[v]
    BY <1>1, <1>4, <2>2, HeaviestStep
  <2> QED
    BY <1>4, <2>1, <2>2
<1>6. ASSUME NEW v \in Block PROVE getHwInstructionTiming(model, insn[v]) <= maxDist
  <2>1. v \in dfg.node /\ HwCosts[v] = getHwInstructionTiming(model, insn[v])
    BY <1>1, <1>2, TimesFacts
  <2>2. HwCosts[v] = HwTime(v)
    BY <2>1 DEF HwCosts
  <2>3. HwTime(v) \in Nat /\ Heaviest(v) \in Nat /\ HwTime(v) <= Heaviest(v)
    BY <1>1, <2>1, HeaviestStep
  <2>4. Heaviest(v) <= maxDist /\ maxDist \in Nat
    BY <1>4, <2>1
  <2>5. HwTime(v) <= maxDist
    BY <2>3, <2>4
  <2> QED
    BY <2>1, <2>2, <2>5
<1>7. runtime = MapThenSumSet(LAMBDA v : getSwInstructionTiming(model, insn[v]), Block)
  <2>1. PICK sum : Adds(sum, dfg.node, SwTimes)
    BY <1>2, SumExists
  <2>2. runtime = sum[dfg.node]
    BY <2>1 DEF EstimationInv, SoftwareInv, Done
  <2>3. sum[dfg.node] = sum[Block]
    <3>1. \A v \in dfg.node \ Block : SwTimes[v] = 0
      BY <1>2
    <3>2. dfg.node \in SUBSET dfg.node
      OBVIOUS
    <3>3. sum[dfg.node] <= sum[Block]
      BY <1>2, <2>1, <3>1, <3>2, SumGrows
    <3>4. sum[Block] <= sum[dfg.node]
      <4>1. \A v \in dfg.node \ dfg.node : SwTimes[v] = 0
        OBVIOUS
      <4> QED
        BY <1>2, <2>1, <3>2, <4>1, SumGrows
    <3>5. sum[Block] \in Nat /\ sum[dfg.node] \in Nat
      BY <1>2, <2>1, <3>2 DEF Adds
    <3> QED
      BY <3>3, <3>4, <3>5
  <2>4. MapThenSumSet(LAMBDA v : getSwInstructionTiming(model, insn[v]), Block) = sum[Block]
    BY <1>1, <2>1, SwTimesAdd
  <2> QED
    BY <2>2, <2>3, <2>4
<1> QED
  BY <1>5, <1>6, <1>7

(***************************************************************************)
(* The sweep of estimateHwRuntime leaves in every vertex it has passed the *)
(* weight of the heaviest path from there, over all paths of the graph, in *)
(* whatever reverse topological order it goes.                             *)
(***************************************************************************)
THEOREM SweepFindsHeaviestPaths == Spec => []SweepInv
<1>1. EstimationInv /\ [Next]_vars => EstimationInv'
  BY NextEstimates
<1> QED
  BY InitEstimates, <1>1, SweepHolds, PTL DEF Spec

(***************************************************************************)
(* getLongestPath leaves in every vertex the number of edges of the        *)
(* longest path from there, and returns the largest.                       *)
(***************************************************************************)
THEOREM LongestPathIsFound == Spec => []DistanceIsLongestPath
<1>1. EstimationInv /\ [Next]_vars => EstimationInv'
  BY NextEstimates
<1> QED
  BY InitEstimates, <1>1, SweepHolds, PTL DEF Spec

(***************************************************************************)
(* In hardware a graph takes no longer than all its instructions one after *)
(* the other and no less than each of them; in software it takes the sum.  *)
(***************************************************************************)
THEOREM EstimatesAreBounded == Spec => []EstimatesBounded
<1>1. EstimationInv /\ [Next]_vars => EstimationInv'
  BY NextEstimates
<1> QED
  BY InitEstimates, <1>1, BoundsHold, PTL DEF Spec

-----------------------------------------------------------------------------
(***************************************************************************)
(* Architecture.                                                           *)
(*                                                                         *)
(* The calls of a pass: none is made twice, and an object is constructed   *)
(* before it is adjusted.                                                  *)
(***************************************************************************)
CallNames == {"new"} \cup Members

Once(s) == \A i, j \in 1..Len(s) : s[i] = s[j] => i = j

NewFirst(s) ==
  \A i \in 1..Len(s) :
    s[i][2] # "new" => \E j \in 1..(i - 1) : s[j] = <<s[i][1], "new">>

IsScript(s) == s \in Seq(Objects \X CallNames) /\ Once(s) /\ NewFirst(s)

(***************************************************************************)
(* Where the elements of a concatenation come from.                        *)
(***************************************************************************)
LEMMA ConcatParts ==
  ASSUME NEW S, NEW s \in Seq(S), NEW t \in Seq(S)
  PROVE  /\ s \o t \in Seq(S)
         /\ Len(s) \in Nat /\ Len(t) \in Nat /\ Len(s \o t) = Len(s) + Len(t)
         /\ \A i \in 1..Len(s) : (s \o t)[i] = s[i]
         /\ \A i \in 1..Len(t) : (s \o t)[Len(s) + i] = t[i]
         /\ \A i \in 1..Len(s \o t) : \/ i \in 1..Len(s)
                                      \/ \E j \in 1..Len(t) : i = Len(s) + j
<1>1. s \o t \in Seq(S) /\ Len(s) \in Nat /\ Len(t) \in Nat /\ Len(s \o t) = Len(s) + Len(t)
  OBVIOUS
<1>2. \A i \in 1..Len(s) : (s \o t)[i] = s[i]
  OBVIOUS
<1>3. \A i \in 1..Len(t) : (s \o t)[Len(s) + i] = t[i]
  OBVIOUS
<1>4. ASSUME NEW i \in 1..Len(s \o t), i \notin 1..Len(s)
      PROVE  \E j \in 1..Len(t) : i = Len(s) + j
  <2>1. i - Len(s) \in 1..Len(t) /\ i = Len(s) + (i - Len(s))
    BY <1>1, <1>4
  <2> QED
    BY <2>1
<1> QED
  BY <1>1, <1>2, <1>3, <1>4

(***************************************************************************)
(* Two lists without repetition and without a common element, one after    *)
(* the other.                                                              *)
(***************************************************************************)
LEMMA ConcatOnce ==
  ASSUME NEW S, NEW s \in Seq(S), NEW t \in Seq(S), Once(s), Once(t),
         \A i \in 1..Len(s), j \in 1..Len(t) : s[i] # t[j]
  PROVE  Once(s \o t)
<1> SUFFICES ASSUME NEW i \in 1..Len(s \o t), NEW j \in 1..Len(s \o t),
                    (s \o t)[i] = (s \o t)[j]
             PROVE  i = j
  BY DEF Once
<1>1. CASE i \in 1..Len(s) /\ j \in 1..Len(s)
  BY <1>1, ConcatParts DEF Once
<1>2. CASE i \in 1..Len(s) /\ j \notin 1..Len(s)
  BY <1>2, ConcatParts
<1>3. CASE i \notin 1..Len(s) /\ j \in 1..Len(s)
  BY <1>3, ConcatParts
<1>4. CASE i \notin 1..Len(s) /\ j \notin 1..Len(s)
  <2>1. PICK k \in 1..Len(t) : i = Len(s) + k
    BY <1>4, ConcatParts
  <2>2. PICK l \in 1..Len(t) : j = Len(s) + l
    BY <1>4, ConcatParts
  <2>3. t[k] = t[l]
    BY <2>1, <2>2, ConcatParts
  <2> QED
    BY <2>1, <2>2, <2>3 DEF Once
<1> QED
  BY <1>1, <1>2, <1>3, <1>4

(***************************************************************************)
(* The two lists of setters of getArchitecture, each naming a member once. *)
(***************************************************************************)
LEMMA Lists ==
  /\ Limits \in Seq(CallNames) /\ Once(Limits)
  /\ Transfers \in Seq(CallNames) /\ Once(Transfers)
  /\ <<"new">> \in Seq(CallNames) /\ Once(<<"new">>)
  /\ \A i \in 1..Len(Limits), j \in 1..Len(Transfers) :
       Limits[i] # Transfers[j]
  /\ \A i \in 1..Len(Limits) : Limits[i] # "new"
  /\ \A i \in 1..Len(Transfers) : Transfers[i] # "new"
<1>1. Limits \in Seq(CallNames) /\ Once(Limits)
  BY DEF Limits, CallNames, Members, Once
<1>2. Transfers \in Seq(CallNames) /\ Once(Transfers)
  BY DEF Transfers, CallNames, Members, Once
<1>3. <<"new">> \in Seq(CallNames) /\ Once(<<"new">>)
  BY DEF CallNames, Once
<1>4. \A i \in 1..Len(Limits), j \in 1..Len(Transfers) :
        Limits[i] # Transfers[j]
  BY DEF Limits, Transfers
<1>5. \A i \in 1..Len(Limits) : Limits[i] # "new"
  BY DEF Limits
<1>6. \A i \in 1..Len(Transfers) : Transfers[i] # "new"
  BY DEF Transfers
<1> QED
  BY <1>1, <1>2, <1>3, <1>4, <1>5, <1>6

(***************************************************************************)
(* One object: constructed, then adjusted.                                 *)
(***************************************************************************)
LEMMA CallsAreScript ==
  ASSUME NEW o \in Objects, NEW calls \in Seq(CallNames), Once(calls),
         \A i \in 1..Len(calls) : calls[i] # "new"
  PROVE  /\ IsScript(Calls(o, <<"new">> \o calls))
         /\ \A i \in 1..Len(Calls(o, <<"new">> \o calls)) :
              Calls(o, <<"new">> \o calls)[i][1] = o
<1> DEFINE all == <<"new">> \o calls
           s   == Calls(o, all)
<1>1. all \in Seq(CallNames) /\ Once(all) /\ Len(all) = Len(calls) + 1 /\ all[1] = "new"
      /\ Len(calls) \in Nat
  <2>1. <<"new">> \in Seq(CallNames) /\ Len(<<"new">>) = 1 /\ <<"new">>[1] = "new"
    BY DEF CallNames
  <2>2. Once(all)
    BY <2>1, ConcatOnce DEF Once
  <2> QED
    BY <2>1, <2>2, ConcatParts
<1> HIDE DEF all
<1>2. s = [i \in 1..Len(all) |-> <<o, all[i]>>]
  BY <1>1 DEF Calls
<1>3. s \in Seq(Objects \X CallNames) /\ Len(s) = Len(all)
  BY <1>1, <1>2
<1>4. \A i \in 1..Len(s) : s[i] = <<o, all[i]>>
  BY <1>2, <1>3
<1> HIDE DEF s
<1>5. Once(s)
  BY <1>1, <1>3, <1>4 DEF Once
<1>6. NewFirst(s)
  <2> SUFFICES ASSUME NEW i \in 1..Len(s), s[i][2] # "new"
               PROVE  1 \in 1..(i - 1) /\ s[1] = <<s[i][1], "new">>
    BY DEF NewFirst
  <2>1. s[i] = <<o, all[i]>> /\ s[1] = <<o, "new">> /\ i # 1
    BY <1>1, <1>3, <1>4
  <2> QED
    BY <1>3, <2>1
<1> QED
  BY <1>3, <1>4, <1>5, <1>6 DEF IsScript, s, all

(***************************************************************************)
(* One object after the other.                                             *)
(***************************************************************************)
LEMMA ConcatScript ==
  ASSUME NEW s, NEW t, IsScript(s), IsScript(t),
         \A i \in 1..Len(s), j \in 1..Len(t) : s[i][1] # t[j][1]
  PROVE  IsScript(s \o t)
<1>1. s \in Seq(Objects \X CallNames) /\ t \in Seq(Objects \X CallNames)
  BY DEF IsScript
<1>2. s \o t \in Seq(Objects \X CallNames)
  BY <1>1, ConcatParts
<1>3. Once(s \o t)
  BY <1>1, ConcatOnce DEF IsScript
<1>4. NewFirst(s \o t)
  <2> SUFFICES ASSUME NEW i \in 1..Len(s \o t), (s \o t)[i][2] # "new"
               PROVE  \E j \in 1..(i - 1) : (s \o t)[j] = <<(s \o t)[i][1], "new">>
    BY DEF NewFirst
  <2>1. CASE i \in 1..Len(s)
    <3>1. (s \o t)[i] = s[i] /\ Len(s) \in Nat
      BY <1>1, <2>1, ConcatParts
    <3>2. PICK j \in 1..(i - 1) : s[j] = <<s[i][1], "new">>
      BY <2>1, <3>1 DEF IsScript, NewFirst
    <3>3. j \in 1..Len(s)
      BY <2>1, <3>1, <3>2
    <3>4. (s \o t)[j] = s[j]
      BY <1>1, <3>3, ConcatParts
    <3> QED
      BY <3>1, <3>2, <3>4
  <2>2. CASE \E k \in 1..Len(t) : i = Len(s) + k
    <3>1. PICK k \in 1..Len(t) : i = Len(s) + k
      BY <2>2
    <3>2. (s \o t)[i] = t[k] /\ Len(s) \in Nat /\ Len(t) \in Nat
      BY <1>1, <3>1, ConcatParts
    <3>3. PICK j \in 1..(k - 1) : t[j] = <<t[k][1], "new">>
      BY <3>1, <3>2 DEF IsScript, NewFirst
    <3>4. j \in 1..Len(t) /\ Len(s) + j \in 1..(i - 1)
      BY <3>1, <3>2, <3>3
    <3>5. (s \o t)[Len(s) + j] = t[j]
      <4>1. \A m \in 1..Len(t) : (s \o t)[Len(s) + m] = t[m]
        BY <1>1, ConcatParts
      <4> QED
        BY <3>4, <4>1
    <3> QED
      BY <3>2, <3>3, <3>4, <3>5
  <2>3. i \in 1..Len(s) \/ \E k \in 1..Len(t) : i = Len(s) + k
    <3>1. \A m \in 1..Len(s \o t) : m \in 1..Len(s) \/ \E k \in 1..Len(t) : m = Len(s) + k
      BY <1>1, ConcatParts
    <3> QED
      BY <3>1
  <2> QED
    BY <2>1, <2>2, <2>3
<1> QED
  BY <1>2, <1>3, <1>4 DEF IsScript

(***************************************************************************)
(* So every pass makes its calls by a script.                              *)
(***************************************************************************)
LEMMA ProgramIsScript ==
  ASSUME NEW p \in {"ise", "ise-sel", "runtimes"}
  PROVE  IsScript(Program(p))
<1>1. CASE p = "ise"
  <2> DEFINE s == Calls("identification", <<"new">> \o Limits)
             t == Calls("selection", <<"new">> \o Transfers)
  <2>1. Program(p) = s \o t
    BY <1>1 DEF Program
  <2>2. IsScript(s) /\ \A i \in 1..Len(s) : s[i][1] = "identification"
    BY Lists, CallsAreScript DEF Objects
  <2>3. IsScript(t) /\ \A i \in 1..Len(t) : t[i][1] = "selection"
    BY Lists, CallsAreScript DEF Objects
  <2> HIDE DEF s, t
  <2> QED
    BY <2>1, <2>2, <2>3, ConcatScript
<1>2. CASE p = "ise-sel"
  <2>1. Program(p) = Calls("selection", <<"new">> \o Transfers)
    BY <1>2 DEF Program
  <2> QED
    BY <2>1, Lists, CallsAreScript DEF Objects
<1>3. CASE p = "runtimes"
  <2> DEFINE c == Limits \o Transfers
  <2>1. Program(p) = Calls("runtimes", <<"new">> \o c)
    <3>1. <<"new">> \o Limits \o Transfers = <<"new">> \o c
      BY Lists, ConcatAssociative
    <3> QED
      BY <1>3, <3>1 DEF Program
  <2>2. c \in Seq(CallNames) /\ Once(c) /\ \A i \in 1..Len(c) : c[i] # "new"
    <3>1. c \in Seq(CallNames) /\ Once(c)
      BY Lists, ConcatOnce, ConcatParts
    <3>2. \A i \in 1..Len(c) : c[i] # "new"
      BY Lists, ConcatParts
    <3> QED
      BY <3>1, <3>2
  <2> HIDE DEF c
  <2> QED
    BY <2>1, <2>2, CallsAreScript DEF Objects
<1> QED
  BY <1>1, <1>2, <1>3

-----------------------------------------------------------------------------
(***************************************************************************)
(* The inductive invariant: the first k calls are made; what they set is   *)
(* as they set it, and the rest as it was constructed.                     *)
(***************************************************************************)
P == Program(pass)
Made(k) == {P[j] : j \in 1..k}
Values == IF getArchitecture = "virtex" THEN Nat ELSE Nat \cup {NotGiven}

Set(s, made, o) ==
  \A m \in Members :
    IF <<o, m>> \in made /\ Given(m)
    THEN s[m] \in (IF m = "clk" THEN {1, DefaultClock} ELSE {ToUnsigned(opt[m])})
    ELSE \E c \in Constructed : s[m] = c[m]

AfterCalls(k) ==
  /\ todo = SubSeq(P, k + 1, Len(P))
  /\ arch = [o \in DOMAIN arch |-> arch[o]] /\ DOMAIN arch = {c[1] : c \in Made(k)}
  /\ \A o \in DOMAIN arch : arch[o] \in [Members -> Values] /\ Set(arch[o], Made(k), o)

ArchitectureInv ==
  /\ opt \in OptionSets /\ pass \in {"ise", "ise-sel", "runtimes"}
  /\ \E k \in 0..Len(P) : AfterCalls(k)

(***************************************************************************)
(* A word, and what the conversions of C++ do to a number that is close    *)
(* enough to zero.                                                         *)
(***************************************************************************)
LEMMA WordIs ==
  /\ Word \in Nat \ {0} /\ Word \div 2 \in Nat
  /\ Word = 2 * (Word \div 2) /\ Word \div 2 > 10
BY WordAssumption

LEMMA Unsigned ==
  ASSUME NEW x \in Int
  PROVE  /\ ToUnsigned(x) \in 0..(Word - 1)
         /\ x \in 0..(Word - 1) => ToUnsigned(x) = x
         /\ x < 0 /\ x > -Word => ToUnsigned(x) = x + Word
<1> DEFINE r == x % Word
           q == x \div Word
<1>1. q \in Int /\ r \in 0..(Word - 1) /\ x = Word * q + r
  BY WordIs
<1>2. ToUnsigned(x) = r
  BY DEF ToUnsigned
<1> HIDE DEF r, q
<1>3. q >= 1 => Word * q >= Word
  <2> SUFFICES ASSUME q >= 1 PROVE Word * q >= Word
    OBVIOUS
  <2>1. Word * q = Word * (q - 1) + Word /\ q - 1 \in Nat
    BY <1>1, WordIs
  <2>2. Word * (q - 1) \in Nat
    BY <2>1, WordIs
  <2> QED
    BY <2>1, <2>2, WordIs
<1>4. q <= -1 => Word * q <= -Word
  <2> SUFFICES ASSUME q <= -1 PROVE Word * q <= -Word
    OBVIOUS
  <2>1. -Word - Word * q = Word * (-1 - q) /\ -1 - q \in Nat
    BY <1>1, WordIs
  <2>2. Word * (-1 - q) \in Nat
    BY <2>1, WordIs
  <2>3. Word * q \in Int
    BY <1>1, WordIs
  <2> QED
    BY <2>1, <2>2, <2>3, WordIs
<1>5. q <= -2 => Word * q <= -2 * Word
  <2> SUFFICES ASSUME q <= -2 PROVE Word * q <= -2 * Word
    OBVIOUS
  <2>1. -2 * Word - Word * q = Word * (-2 - q) /\ -2 - q \in Nat
    BY <1>1, WordIs
  <2>2. Word * (-2 - q) \in Nat
    BY <2>1, WordIs
  <2>3. Word * q \in Int
    BY <1>1, WordIs
  <2> QED
    BY <2>1, <2>2, <2>3, WordIs
<1>6. Word * q \in Int /\ (q = 0 => Word * q = 0) /\ (q = -1 => Word * q = -Word)
  BY <1>1, WordIs
<1>7. x \in 0..(Word - 1) => q = 0
  BY <1>1, <1>3, <1>4, <1>6, WordIs
<1>8. x < 0 /\ x > -Word => q = -1
  BY <1>1, <1>3, <1>5, <1>6, WordIs
<1> QED
  BY <1>1, <1>2, <1>6, <1>7, <1>8, WordIs

LEMMA ToIntIs ==
  ASSUME NEW x \in Int, x < Word \div 2, x >= -(Word \div 2)
  PROVE  ToInt(x) = x
BY Unsigned, WordIs DEF ToInt

(***************************************************************************)
(* A constructor gives every member a value of its type, and the clock its *)
(* default.                                                                *)
(***************************************************************************)
LEMMA ConstructedFits ==
  ASSUME NEW s \in Constructed
  PROVE  s \in [Members -> Values] /\ s["clk"] = DefaultClock
<1>1. CASE getArchitecture = "virtex"
  <2>1. PICK a \in Leftover, b \in Leftover :
          s = [clk |-> DefaultClock, maxCI |-> 7, maxIn |-> 6, maxOut |-> 1,
               inFree |-> a, outFree |-> b,
               inWidth |-> 2, outWidth |-> 1, inClk |-> 2, outClk |-> 2]
    BY <1>1 DEF Constructed
  <2>2. a \in Nat /\ b \in Nat
    BY LeftoverAssumption
  <2> QED
    BY <1>1, <2>1, <2>2 DEF Members, Values, DefaultClock
<1>2. CASE getArchitecture # "virtex"
  BY <1>2 DEF Constructed, Members, Values, DefaultClock, NotGiven
<1> QED
  BY <1>1, <1>2

(***************************************************************************)
(* There is something to construct.                                        *)
(***************************************************************************)
LEMMA ConstructedExists ==
  \E s \in Constructed : TRUE
<1>1. CASE getArchitecture = "virtex"
  <2>1. PICK a \in Leftover : TRUE
    BY LeftoverAssumption
  <2>2. [clk |-> DefaultClock, maxCI |-> 7, maxIn |-> 6, maxOut |-> 1,
         inFree |-> a, outFree |-> a,
         inWidth |-> 2, outWidth |-> 1, inClk |-> 2, outClk |-> 2] \in Constructed
    BY <1>1, <2>1 DEF Constructed
  <2> QED
    BY <2>2
<1>2. CASE getArchitecture # "virtex"
  <2>1. [m \in Members |-> IF m = "clk" THEN DefaultClock ELSE NotGiven]
          \in Constructed
    BY <1>2 DEF Constructed
  <2> QED
    BY <2>1
<1> QED
  BY <1>1, <1>2

(***************************************************************************)
(* The next call is one that was not made; it constructs an object that is *)
(* not there, or adjusts one that is.                                      *)
(***************************************************************************)
LEMMA NextCall ==
  ASSUME pass \in {"ise", "ise-sel", "runtimes"}, NEW k \in 0..Len(P), AfterCalls(k), todo # <<>>
  PROVE  /\ k + 1 \in 1..Len(P)
         /\ P[k + 1] = <<Object, Call>>
         /\ Object \in Objects /\ Call \in CallNames
         /\ P[k + 1] \notin Made(k)
         /\ Call = "new" => Object \notin DOMAIN arch
         /\ Call # "new" => Object \in DOMAIN arch
         /\ Tail(todo) = SubSeq(P, k + 2, Len(P))
         /\ Made(k + 1) = Made(k) \cup {P[k + 1]}
<1>1. IsScript(P)
  BY ProgramIsScript DEF P
<1>2. P \in Seq(Objects \X CallNames) /\ Len(P) \in Nat
  BY <1>1 DEF IsScript
<1>3. todo = SubSeq(P, k + 1, Len(P))
  BY DEF AfterCalls
<1>4. k + 1 \in 1..Len(P)
  <2> SUFFICES ASSUME k = Len(P) PROVE FALSE
    BY <1>2
  <2>1. SubSeq(P, k + 1, Len(P)) = <<>>
    BY <1>2
  <2> QED
    BY <1>3, <2>1
<1>5. Head(todo) = P[k + 1] /\ Tail(todo) = SubSeq(P, k + 2, Len(P))
  BY <1>2, <1>3, <1>4
<1>6. P[k + 1] \in Objects \X CallNames
  BY <1>2, <1>4
<1>7. /\ P[k + 1] = <<Object, Call>>
      /\ Object \in Objects /\ Call \in CallNames
  BY <1>5, <1>6 DEF Object, Call
<1>8. P[k + 1] \notin Made(k)
  <2> SUFFICES ASSUME NEW j \in 1..k, P[k + 1] = P[j] PROVE FALSE
    BY DEF Made
  <2>1. j \in 1..Len(P) /\ j # k + 1
    BY <1>2, <1>4
  <2> QED
    BY <1>1, <1>4, <2>1 DEF IsScript, Once
<1>9. ASSUME Call = "new" PROVE Object \notin DOMAIN arch
  <2> SUFFICES ASSUME Object \in DOMAIN arch PROVE FALSE
    OBVIOUS
  <2>1. PICK j \in 1..k : P[j][1] = Object
    BY DEF AfterCalls, Made
  <2>2. j \in 1..Len(P) /\ j # k + 1
    BY <1>2, <1>4
  <2>3. P[j] \in Objects \X CallNames
    BY <1>2, <2>2
  <2>4. CASE P[j][2] = "new"
    <3>1. P[j] = P[k + 1]
      BY <1>7, <1>9, <2>1, <2>3, <2>4
    <3> QED
      BY <1>1, <1>4, <2>2, <3>1 DEF IsScript, Once
  <2>5. CASE P[j][2] # "new"
    <3>1. PICK i \in 1..(j - 1) : P[i] = <<P[j][1], "new">>
      BY <1>1, <2>2, <2>5 DEF IsScript, NewFirst
    <3>2. P[i] = P[k + 1] /\ i \in 1..Len(P) /\ i # k + 1
      BY <1>2, <1>7, <1>9, <2>1, <2>2, <3>1
    <3> QED
      BY <1>1, <1>4, <3>2 DEF IsScript, Once
  <2> QED
    BY <2>4, <2>5
<1>10. ASSUME Call # "new" PROVE Object \in DOMAIN arch
  <2>1. PICK j \in 1..((k + 1) - 1) : P[j] = <<P[k + 1][1], "new">>
    <3>1. P[k + 1][2] # "new"
      BY <1>7, <1>10
    <3>2. \A i \in 1..Len(P) :
            P[i][2] # "new" => \E j \in 1..(i - 1) : P[j] = <<P[i][1], "new">>
      BY <1>1 DEF IsScript, NewFirst
    <3> QED
      BY <1>4, <3>1, <3>2
  <2>2. j \in 1..k /\ P[j][1] = Object
    BY <1>7, <2>1
  <2> QED
    BY <2>2 DEF AfterCalls, Made
<1>11. Made(k + 1) = Made(k) \cup {P[k + 1]}
  BY DEF Made
<1> QED
  BY <1>4, <1>5, <1>7, <1>8, <1>9, <1>10, <1>11

(***************************************************************************)
(* ArchitectureInv holds at the start.                                     *)
(***************************************************************************)
LEMMA InitSettings ==
  ASSUME ArchInit
  PROVE  ArchitectureInv
<1>1. IsScript(P)
  BY ProgramIsScript DEF P, ArchInit
<1>2. P \in Seq(Objects \X CallNames) /\ Len(P) \in Nat
  BY <1>1 DEF IsScript
<1>3. SubSeq(P, 0 + 1, Len(P)) = P
  BY <1>2
<1>4. Made(0) = {}
  BY DEF Made
<1>5. arch = <<>> /\ DOMAIN arch = {} /\ todo = P
  BY DEF ArchInit, P
<1>6. AfterCalls(0)
  BY <1>3, <1>4, <1>5 DEF AfterCalls
<1> QED
  BY <1>2, <1>6 DEF ArchitectureInv, ArchInit

(***************************************************************************)
(* A new object is as constructed, and the others are left alone.          *)
(***************************************************************************)
LEMMA ConstructKeeps ==
  ASSUME ArchitectureInv, Construct
  PROVE  ArchitectureInv'
<1>1. opt' = opt /\ pass' = pass /\ todo' = Tail(todo) /\ todo # <<>> /\ Call = "new"
  BY DEF Construct, Returns
<1>2. PICK k \in 0..Len(P) : AfterCalls(k)
  BY DEF ArchitectureInv
<1>3. /\ k + 1 \in 1..Len(P) /\ P[k + 1] = <<Object, "new">>
      /\ Object \in Objects /\ Object \notin DOMAIN arch
      /\ Tail(todo) = SubSeq(P, k + 2, Len(P))
      /\ Made(k + 1) = Made(k) \cup {P[k + 1]}
  BY <1>1, <1>2, NextCall DEF ArchitectureInv
<1>4. PICK s \in Constructed :
        arch' = [o \in DOMAIN arch \cup {Object} |-> IF o = Object THEN s ELSE arch[o]]
  BY DEF Construct
<1>5. P' = P /\ Made(k + 1)' = Made(k + 1) /\ Values' = Values
  BY <1>1 DEF P, Made, Values, getArchitecture
<1>6. \A t, made, o : Set(t, made, o)' = Set(t, made, o)
  BY <1>1 DEF Set, Given, Constructed, getArchitecture
<1>7. todo' = SubSeq(P, (k + 1) + 1, Len(P))
  <2>1. (k + 1) + 1 = k + 2
    OBVIOUS
  <2> QED
    BY <1>1, <1>3, <2>1
<1>8. DOMAIN arch' = {c[1] : c \in Made(k + 1)}
  <2>1. DOMAIN arch' = DOMAIN arch \cup {Object}
    BY <1>4
  <2>2. {c[1] : c \in Made(k + 1)} = {c[1] : c \in Made(k)} \cup {Object}
    <3>1. P[k + 1][1] = Object
      BY <1>3
    <3>2. {c[1] : c \in Made(k) \cup {P[k + 1]}} = {c[1] : c \in Made(k)} \cup {P[k + 1][1]}
      OBVIOUS
    <3> QED
      BY <1>3, <3>1, <3>2
  <2> QED
    BY <1>2, <2>1, <2>2 DEF AfterCalls
<1>9. ASSUME NEW o \in DOMAIN arch'
      PROVE  arch'[o] \in [Members -> Values] /\ Set(arch'[o], Made(k + 1), o)
  <2>1. CASE o = Object
    <3>1. arch'[o] = s
      BY <1>4, <2>1
    <3>2. \A m \in Members : <<o, m>> \notin Made(k + 1)
      <4> SUFFICES ASSUME NEW m \in Members, <<o, m>> \in Made(k + 1) PROVE FALSE
        OBVIOUS
      <4>1. <<o, m>> \in Made(k) \/ m = "new"
        BY <1>3
      <4>2. m # "new"
        BY DEF Members
      <4>3. o \in {c[1] : c \in Made(k)}
        BY <4>1, <4>2
      <4> QED
        BY <1>2, <1>3, <2>1, <4>3 DEF AfterCalls
    <3>3. s \in [Members -> Values]
      BY ConstructedFits
    <3> QED
      BY <3>1, <3>2, <3>3 DEF Set
  <2>2. CASE o # Object
    <3>1. o \in DOMAIN arch /\ arch'[o] = arch[o]
      BY <1>4, <2>2
    <3>2. \A m : <<o, m>> \in Made(k + 1) <=> <<o, m>> \in Made(k)
      BY <1>3, <2>2
    <3>3. arch[o] \in [Members -> Values] /\ Set(arch[o], Made(k), o)
      BY <1>2, <3>1 DEF AfterCalls
    <3>4. Set(arch[o], Made(k + 1), o)
      BY <3>2, <3>3 DEF Set
    <3> QED
      BY <3>1, <3>3, <3>4
  <2> QED
    BY <2>1, <2>2
<1>10. arch' = [o \in DOMAIN arch' |-> arch'[o]]
  BY <1>4
<1>11. AfterCalls(k + 1)'
  BY <1>5, <1>6, <1>7, <1>8, <1>9, <1>10 DEF AfterCalls
<1> QED
  BY <1>1, <1>3, <1>5, <1>11 DEF ArchitectureInv

(***************************************************************************)
(* A setter that sets its own member of its own object.                    *)
(***************************************************************************)
LEMMA SetterKeeps ==
  ASSUME ArchitectureInv, todo # <<>>, Call \in Members, Returns,
         NEW x,
         x \in (IF Given(Call)
                THEN IF Call = "clk" THEN {1, arch[Object]["clk"]}
                     ELSE {ToUnsigned(opt[Call])}
                ELSE {arch[Object][Call]}),
         arch' = [arch EXCEPT ![Object] = [arch[Object] EXCEPT ![Call] = x]]
  PROVE  ArchitectureInv'
<1>1. opt' = opt /\ pass' = pass /\ todo' = Tail(todo)
  BY DEF Returns
<1>2. PICK k \in 0..Len(P) : AfterCalls(k)
  BY DEF ArchitectureInv
<1>3. /\ k + 1 \in 1..Len(P) /\ P[k + 1] = <<Object, Call>>
      /\ Object \in DOMAIN arch /\ P[k + 1] \notin Made(k)
      /\ Tail(todo) = SubSeq(P, k + 2, Len(P))
      /\ Made(k + 1) = Made(k) \cup {P[k + 1]}
  <2>1. Call # "new"
    BY DEF Members
  <2> QED
    BY <1>2, <2>1, NextCall DEF ArchitectureInv
<1>4. P' = P /\ Made(k + 1)' = Made(k + 1) /\ Values' = Values
  BY <1>1 DEF P, Made, Values, getArchitecture
<1>5. \A t, made, o : Set(t, made, o)' = Set(t, made, o)
  BY <1>1 DEF Set, Given, Constructed, getArchitecture
<1>6. todo' = SubSeq(P, (k + 1) + 1, Len(P))
  <2>1. (k + 1) + 1 = k + 2
    OBVIOUS
  <2> QED
    BY <1>1, <1>3, <2>1
<1>7. DOMAIN arch' = {c[1] : c \in Made(k + 1)}
  BY <1>2, <1>3 DEF AfterCalls
<1> DEFINE s == arch[Object]
           t == [s EXCEPT ![Call] = x]
<1>8. s \in [Members -> Values] /\ Set(s, Made(k), Object)
  BY <1>2, <1>3 DEF AfterCalls
<1>9. opt \in OptionSets /\ IsOptions(opt)
  BY OptionsAssumption DEF ArchitectureInv
<1>10. <<Object, Call>> \notin Made(k)
  BY <1>3
<1>11. \E c \in Constructed : s[Call] = c[Call]
  BY <1>8, <1>10 DEF Set
<1>12. Call = "clk" => s["clk"] = DefaultClock
  BY <1>11, ConstructedFits
<1>13. x \in Values
  <2>1. s[Call] \in Values
    BY <1>8
  <2>2. 1 \in Values
    BY DEF Values
  <2>3. opt[Call] \in Int
    BY <1>9, WordIs DEF IsOptions, IntValues
  <2>4. ToUnsigned(opt[Call]) \in Values
    BY <2>3, Unsigned, WordIs DEF Values
  <2> QED
    BY <2>1, <2>2, <2>4
<1>14. t \in [Members -> Values] /\ t[Call] = x
       /\ \A m \in Members : m # Call => t[m] = s[m]
  BY <1>8, <1>13
<1> HIDE DEF t
<1>15. Set(t, Made(k + 1), Object)
  <2> SUFFICES ASSUME NEW m \in Members
               PROVE  IF <<Object, m>> \in Made(k + 1) /\ Given(m)
                      THEN t[m] \in (IF m = "clk" THEN {1, DefaultClock}
                                     ELSE {ToUnsigned(opt[m])})
                      ELSE \E c \in Constructed : t[m] = c[m]
    BY DEF Set
  <2>1. CASE m = Call /\ Given(m)
    <3>1. t[m] = x /\ <<Object, m>> \in Made(k + 1)
      BY <1>3, <1>14, <2>1
    <3>2. x \in (IF m = "clk" THEN {1, DefaultClock} ELSE {ToUnsigned(opt[m])})
      BY <1>12, <2>1
    <3> QED
      BY <2>1, <3>1, <3>2
  <2>2. CASE m = Call /\ ~Given(m)
    <3>1. t[m] = s[Call]
      BY <1>14, <2>2
    <3> QED
      BY <1>11, <2>2, <3>1
  <2>3. CASE m # Call
    <3>1. t[m] = s[m] /\ (<<Object, m>> \in Made(k + 1) <=> <<Object, m>> \in Made(k))
      BY <1>3, <1>14, <2>3
    <3> QED
      BY <1>8, <3>1 DEF Set
  <2> QED
    BY <2>1, <2>2, <2>3
<1>16. ASSUME NEW o \in DOMAIN arch'
       PROVE  arch'[o] \in [Members -> Values] /\ Set(arch'[o], Made(k + 1), o)
  <2>1. CASE o = Object
    <3>1. arch'[o] = t
      BY <1>3, <2>1 DEF t
    <3> QED
      BY <1>14, <1>15, <2>1, <3>1
  <2>2. CASE o # Object
    <3>1. o \in DOMAIN arch /\ arch'[o] = arch[o]
      BY <2>2
    <3>2. \A m : <<o, m>> \in Made(k + 1) <=> <<o, m>> \in Made(k)
      BY <1>3, <2>2
    <3>3. arch[o] \in [Members -> Values] /\ Set(arch[o], Made(k), o)
      BY <1>2, <3>1 DEF AfterCalls
    <3>4. Set(arch[o], Made(k + 1), o)
      BY <3>2, <3>3 DEF Set
    <3> QED
      BY <3>1, <3>3, <3>4
  <2> QED
    BY <2>1, <2>2
<1>17. AfterCalls(k + 1)'
  BY <1>4, <1>5, <1>6, <1>7, <1>16 DEF AfterCalls
<1> QED
  BY <1>1, <1>3, <1>4, <1>17 DEF ArchitectureInv

(***************************************************************************)
(* Every setter does so: an option that is not given leaves the member,    *)
(* and the setter of the clock leaves it or makes it one hertz.            *)
(***************************************************************************)
LEMMA ChangeKeeps ==
  ASSUME ArchitectureInv, Change \/ ChangeClock
  PROVE  ArchitectureInv'
<1> DEFINE s == arch[Object]
<1>1. todo # <<>> /\ Call \in Members /\ Returns
  BY DEF Change, ChangeClock, Members
<1>2. PICK k \in 0..Len(P) : AfterCalls(k)
  BY DEF ArchitectureInv
<1>3. Object \in DOMAIN arch
  <2>1. Call # "new"
    BY <1>1 DEF Members
  <2> QED
    BY <1>1, <1>2, <2>1, NextCall DEF ArchitectureInv
<1>4. s \in [Members -> Values] /\ Set(s, Made(k), Object)
  BY <1>2, <1>3 DEF AfterCalls
<1>5. <<Object, Call>> \notin Made(k)
  BY <1>1, <1>2, NextCall DEF ArchitectureInv
<1>6. arch = [arch EXCEPT ![Object] = [s EXCEPT ![Call] = s[Call]]]
  <2>1. s = [s EXCEPT ![Call] = s[Call]]
    BY <1>1, <1>4
  <2>2. DOMAIN arch = {c[1] : c \in Made(k)} /\ arch = [o \in DOMAIN arch |-> arch[o]]
    BY <1>2 DEF AfterCalls
  <2> QED
    BY <1>3, <2>1, <2>2
<1>7. CASE ~Given(Call)
  <2>1. arch' = arch
    BY <1>7 DEF Change, ChangeClock
  <2> QED
    BY <1>1, <1>6, <1>7, <2>1, SetterKeeps
<1>8. CASE Given(Call) /\ Call # "clk"
  <2>1. arch' = [arch EXCEPT ![Object] = [s EXCEPT ![Call] = ToUnsigned(opt[Call])]]
    BY <1>8 DEF Change, ChangeClock, SetMember
  <2> QED
    BY <1>1, <1>8, <2>1, SetterKeeps
<1>9. CASE Given(Call) /\ Call = "clk"
  <2>1. PICK t \in setClockRate(s, opt.clk) : arch' = [arch EXCEPT ![Object] = t]
    BY <1>9 DEF Change, ChangeClock
  <2>2. t = s \/ t = [s EXCEPT !["clk"] = 1]
    BY <2>1 DEF setClockRate
  <2>3. CASE t = s
    <3>1. arch' = arch
      BY <1>6, <2>1, <2>3
    <3> QED
      BY <1>1, <1>6, <1>9, <3>1, SetterKeeps
  <2>4. CASE t = [s EXCEPT !["clk"] = 1]
    BY <1>1, <1>9, <2>1, <2>4, SetterKeeps
  <2> QED
    BY <2>2, <2>3, <2>4
<1> QED
  BY <1>7, <1>8, <1>9

(***************************************************************************)
(* The inductive invariant holds in every reachable state.                 *)
(***************************************************************************)
LEMMA ArchitectureHolds ==
  ArchSpec => []ArchitectureInv
<1>1. ArchInit => ArchitectureInv
  BY InitSettings
<1>2. ArchitectureInv /\ [ArchNext]_archVars => ArchitectureInv'
  <2>1. ASSUME ArchitectureInv, ArchNext PROVE ArchitectureInv'
    BY <2>1, ConstructKeeps, ChangeKeeps DEF ArchNext
  <2>2. ASSUME ArchitectureInv, UNCHANGED archVars PROVE ArchitectureInv'
    <3>1. P' = P /\ Values' = Values /\ \A k : Made(k)' = Made(k)
      BY <2>2 DEF archVars, P, Made, Values, getArchitecture
    <3>2. \A t, made, o : Set(t, made, o)' = Set(t, made, o)
      BY <2>2 DEF archVars, Set, Given, Constructed, getArchitecture
    <3> QED
      BY <2>2, <3>1, <3>2 DEF archVars, ArchitectureInv, AfterCalls
  <2> QED
    BY <2>1, <2>2
<1> QED
  BY <1>1, <1>2, PTL DEF ArchSpec

(***************************************************************************)
(* It gives the types ...                                                  *)
(***************************************************************************)
LEMMA TypesHold ==
  ASSUME ArchitectureInv
  PROVE  ArchTypeOK
<1>1. PICK k \in 0..Len(P) : AfterCalls(k)
  BY DEF ArchitectureInv
<1>2. IsScript(P)
  BY ProgramIsScript DEF P, ArchitectureInv
<1>3. P \in Seq(Objects \X CallNames) /\ Len(P) \in Nat
  BY <1>2 DEF IsScript
<1>4. \A j \in 1..k : P[j] \in Objects \X CallNames
  BY <1>3
<1>5. DOMAIN arch \subseteq Objects
  BY <1>1, <1>4 DEF AfterCalls, Made
<1>6. \A o \in DOMAIN arch : arch[o] \in [Members -> Values]
  BY <1>1 DEF AfterCalls
<1>7. \E j \in 0..Len(P) : todo = SubSeq(P, j + 1, Len(P))
  BY <1>1 DEF AfterCalls
<1> QED
  BY <1>5, <1>6, <1>7 DEF ArchTypeOK, Values, P, ArchitectureInv

(***************************************************************************)
(* ... and, when no call is left, the settings that are in force.          *)
(***************************************************************************)
LEMMA InForce ==
  ASSUME ArchitectureInv
  PROVE  OptionsInForce
<1> SUFFICES ASSUME SetUp, NEW o \in DOMAIN arch, NEW m \in Members
             PROVE  IF m \in Applied(o) /\ Given(m)
                    THEN m # "clk" => arch[o][m] = ToUnsigned(opt[m])
                    ELSE \E s \in Constructed : arch[o][m] = s[m]
  BY DEF OptionsInForce
<1>1. PICK k \in 0..Len(P) : AfterCalls(k)
  BY DEF ArchitectureInv
<1>2. IsScript(P)
  BY ProgramIsScript DEF P, ArchitectureInv
<1>3. P \in Seq(Objects \X CallNames) /\ Len(P) \in Nat
  BY <1>2 DEF IsScript
<1>4. k = Len(P)
  <2> SUFFICES ASSUME k # Len(P) PROVE FALSE
    OBVIOUS
  <2>1. Len(SubSeq(P, k + 1, Len(P))) = Len(P) - k
    BY <1>3
  <2>2. Len(todo) = 0
    BY DEF SetUp
  <2> QED
    BY <1>1, <1>3, <2>1, <2>2 DEF AfterCalls
<1>5. m \in Applied(o) <=> <<o, m>> \in Made(k)
  <2>1. DOMAIN Program(pass) = 1..k /\ Program(pass) = P
    BY <1>3, <1>4 DEF P
  <2>2. m \in Applied(o) <=> \E j \in 1..k : P[j][1] = o /\ P[j][2] = m
    BY <2>1 DEF Applied
  <2>3. \A j \in 1..k : P[j] \in Objects \X CallNames
    BY <1>3
  <2>4. \A j \in 1..k : P[j] = <<o, m>> <=> P[j][1] = o /\ P[j][2] = m
    BY <2>3
  <2> QED
    BY <2>2, <2>4 DEF Made
<1>6. Set(arch[o], Made(k), o)
  BY <1>1 DEF AfterCalls
<1> QED
  BY <1>5, <1>6 DEF Set

(***************************************************************************)
(* A constant operand never takes longer, in either table.                 *)
(***************************************************************************)
LEMMA TableRows ==
  ASSUME NEW t \in {VirtualHw, VirtexHw}, NEW op \in DOMAIN t
  PROVE  t[op][1] \in Nat /\ t[op][2] \in Nat /\ t[op][1] <= t[op][2]
<1>1. CASE t = VirtualHw
  BY <1>1 DEF VirtualHw
<1>2. CASE t = VirtexHw
  BY <1>2 DEF VirtexHw
<1> QED
  BY <1>1, <1>2

(***************************************************************************)
(* The cases of the two functions of Timing exclude each other.            *)
(***************************************************************************)
LEMMA CasesApart ==
  /\ FreeCast \cap Binary = {} /\ NoOpCast \subseteq FreeCast
  /\ \A m \in {"virtex", "virtual"} : DOMAIN IntegerHw[m] \cap FreeCast = {}
  /\ FloatBinary \subseteq Binary /\ FloatBinary \cap Division = {}
  /\ Binary \cap (NoOpCast \cup Memory \cup {"Terminator"}) = {}
  /\ \A i \in Instruction : i.op \in Binary /\ i.float => i.op \in FloatBinary
<1>1. FreeCast \cap Binary = {} /\ NoOpCast \subseteq FreeCast
  BY DEF FreeCast, Binary, NoOpCast
<1>2. DOMAIN IntegerHw["virtex"] \cap FreeCast = {}
  BY DEF IntegerHw, VirtexHw, FreeCast, NoOpCast
<1>3. DOMAIN IntegerHw["virtual"] \cap FreeCast = {}
  BY DEF IntegerHw, VirtualHw, FreeCast, NoOpCast
<1>4. FloatBinary \subseteq Binary /\ FloatBinary \cap Division = {}
  BY DEF FloatBinary, Binary, Division
<1>5. Binary \cap (NoOpCast \cup Memory \cup {"Terminator"}) = {}
  BY DEF Binary, NoOpCast, Memory
<1>6. \A i \in Instruction : i.op \in Binary /\ i.float => i.op \in FloatBinary
  BY DEF Instruction, Binary, FloatBinary
<1> QED
  BY <1>1, <1>2, <1>3, <1>4, <1>5, <1>6

(***************************************************************************)
(* The tables agree with each other, for every instruction.                *)
(***************************************************************************)
LEMMA TablesAreRight ==
  TablesAgree
<1> SUFFICES ASSUME NEW i \in Instruction
             PROVE  LET m == getArchitecture
                        with(f, c) == [i EXCEPT !.float = f, !.const = c]
                    IN  /\ getHwInstructionTiming(m, with(i.float, TRUE))
                             <= getHwInstructionTiming(m, with(i.float, FALSE))
                        /\ i.op \in FloatBinary =>
                             /\ getHwInstructionTiming(m, with(FALSE, i.const))
                                  <= getHwInstructionTiming(m, with(TRUE, i.const))
                             /\ getSwInstructionTiming(m, with(FALSE, i.const))
                                  <= getSwInstructionTiming(m, with(TRUE, i.const))
                        /\ getSwInstructionTiming(m, i) = 0
                             => getHwInstructionTiming(m, i) = 0
  BY DEF TablesAgree
<1> DEFINE m == getArchitecture
           with(f, c) == [i EXCEPT !.float = f, !.const = c]
           table == IntegerHw[m]
           ints == DOMAIN table
<1>1. i \in [op : Operation, float : BOOLEAN, const : BOOLEAN]
  BY DEF Instruction
<1>2. m = "virtex" \/ m = "virtual"
  BY DEF getArchitecture
<1> HIDE DEF m
<1>3. \A f, c \in BOOLEAN : with(f, c).op = i.op /\ with(f, c).float = f /\ with(f, c).const = c
  BY <1>1
<1> HIDE DEF with
<1>4. table \in {VirtualHw, VirtexHw}
  BY <1>2 DEF IntegerHw
<1>5. getHwInstructionTiming(m, with(i.float, TRUE))
        <= getHwInstructionTiming(m, with(i.float, FALSE))
  <2> DEFINE a == with(i.float, TRUE)
             b == with(i.float, FALSE)
  <2>1. a.op = i.op /\ b.op = i.op /\ a.float = i.float /\ b.float = i.float
        /\ a.const = TRUE /\ b.const = FALSE
    BY <1>1, <1>3
  <2> HIDE DEF a, b
  <2> SUFFICES getHwInstructionTiming(m, a) <= getHwInstructionTiming(m, b)
    BY DEF a, b
  <2>2. CASE i.op \in FreeCast
    <3>1. i.op \notin Binary /\ i.op \notin ints
      BY <1>2, <2>2, CasesApart
    <3>2. getHwInstructionTiming(m, a) = 0 /\ getHwInstructionTiming(m, b) = 0
      BY <2>1, <2>2, <3>1 DEF getHwInstructionTiming
    <3> QED
      BY <3>2
  <2>3. CASE i.op \notin FreeCast /\ i.op \in Binary /\ i.float
    <3>1. getHwInstructionTiming(m, a) = FloatHw[m][i.op]
      BY <2>1, <2>3 DEF getHwInstructionTiming
    <3>2. getHwInstructionTiming(m, b) = FloatHw[m][i.op]
      BY <2>1, <2>3 DEF getHwInstructionTiming
    <3>3. FloatHw[m][i.op] \in Nat
      <4>1. i.op \in FloatBinary
        BY <2>3, CasesApart
      <4> QED
        BY <1>2, <4>1 DEF FloatHw, FloatBinary
    <3> QED
      BY <3>1, <3>2, <3>3
  <2>4. CASE i.op \notin FreeCast /\ ~(i.op \in Binary /\ i.float) /\ i.op \in ints
    <3>1. getHwInstructionTiming(m, a) = table[i.op][1]
      BY <2>1, <2>4 DEF getHwInstructionTiming
    <3>2. getHwInstructionTiming(m, b) = table[i.op][2]
      BY <2>1, <2>4 DEF getHwInstructionTiming
    <3> QED
      BY <1>4, <2>4, <3>1, <3>2, TableRows
  <2>5. CASE i.op \notin FreeCast /\ ~(i.op \in Binary /\ i.float) /\ i.op \notin ints
    <3>1. getHwInstructionTiming(m, a) = 10
      BY <2>1, <2>5 DEF getHwInstructionTiming
    <3>2. getHwInstructionTiming(m, b) = 10
      BY <2>1, <2>5 DEF getHwInstructionTiming
    <3> QED
      BY <3>1, <3>2
  <2> QED
    BY <2>2, <2>3, <2>4, <2>5
<1>6. ASSUME i.op \in FloatBinary
      PROVE  /\ getHwInstructionTiming(m, with(FALSE, i.const))
                  <= getHwInstructionTiming(m, with(TRUE, i.const))
             /\ getSwInstructionTiming(m, with(FALSE, i.const))
                  <= getSwInstructionTiming(m, with(TRUE, i.const))
  <2> DEFINE a == with(FALSE, i.const)
             b == with(TRUE, i.const)
  <2>1. a.op = i.op /\ b.op = i.op /\ a.float = FALSE /\ b.float = TRUE
        /\ a.const = i.const /\ b.const = i.const /\ i.const \in BOOLEAN
    BY <1>1, <1>3
  <2> HIDE DEF a, b
  <2> SUFFICES /\ getHwInstructionTiming(m, a) <= getHwInstructionTiming(m, b)
               /\ getSwInstructionTiming(m, a) <= getSwInstructionTiming(m, b)
    BY DEF a, b
  <2>2. i.op \in Binary /\ i.op \notin FreeCast /\ i.op \notin Memory
        /\ i.op # "Terminator" /\ i.op \notin NoOpCast /\ i.op \notin Division
    BY <1>6, CasesApart
  <2>3. /\ i.op \in ints
        /\ table[i.op][1] <= FloatHw[m][i.op] /\ table[i.op][2] <= FloatHw[m][i.op]
    <3>1. CASE m = "virtex"
      BY <1>6, <3>1 DEF IntegerHw, VirtexHw, FloatHw, FloatBinary
    <3>2. CASE m = "virtual"
      BY <1>6, <3>2 DEF IntegerHw, VirtualHw, FloatHw, FloatBinary
    <3> QED
      BY <1>2, <3>1, <3>2
  <2>4. getHwInstructionTiming(m, b) = FloatHw[m][i.op]
    BY <2>1, <2>2 DEF getHwInstructionTiming
  <2>5. getHwInstructionTiming(m, a) = table[i.op][IF i.const THEN 1 ELSE 2]
    BY <2>1, <2>2, <2>3 DEF getHwInstructionTiming
  <2>6. getSwInstructionTiming(m, b) = FloatSw[m][i.op]
    BY <2>1, <2>2 DEF getSwInstructionTiming
  <2>7. getSwInstructionTiming(m, a) \in {1, 5}
    BY <2>1, <2>2 DEF getSwInstructionTiming
  <2>8. FloatSw[m][i.op] \in Nat /\ FloatSw[m][i.op] >= 5
    BY <1>2, <1>6 DEF FloatSw, FloatBinary
  <2>9. getHwInstructionTiming(m, a) <= getHwInstructionTiming(m, b)
    BY <2>3, <2>4, <2>5
  <2>10. getSwInstructionTiming(m, a) <= getSwInstructionTiming(m, b)
    BY <2>6, <2>7, <2>8
  <2> QED
    BY <2>9, <2>10
<1>7. ASSUME getSwInstructionTiming(m, i) = 0 PROVE getHwInstructionTiming(m, i) = 0
  <2>1. i.op \in NoOpCast
    <3> SUFFICES ASSUME i.op \notin NoOpCast PROVE FALSE
      OBVIOUS
    <3>1. CASE i.op \in Binary /\ i.float
      <4>1. i.op \in FloatBinary
        BY <3>1, CasesApart
      <4>2. getSwInstructionTiming(m, i) = FloatSw[m][i.op]
        <5>1. i.op \notin Division \cup Memory \cup NoOpCast \cup {"Terminator"}
          BY <3>1, <4>1, CasesApart
        <5> QED
          BY <3>1, <5>1 DEF getSwInstructionTiming
      <4>3. FloatSw[m][i.op] >= 5 /\ FloatSw[m][i.op] \in Nat
        BY <1>2, <4>1 DEF FloatSw, FloatBinary
      <4> QED
        BY <1>7, <4>2, <4>3
    <3>2. CASE ~(i.op \in Binary /\ i.float)
      <4>1. getSwInstructionTiming(m, i) \in {DivisionSw[m], 5, 2, 3, 1}
        BY <3>2 DEF getSwInstructionTiming
      <4>2. DivisionSw[m] \in {15, 35}
        BY <1>2 DEF DivisionSw
      <4> QED
        BY <1>7, <4>1, <4>2
    <3> QED
      BY <3>1, <3>2
  <2>2. i.op \in FreeCast
    BY <2>1, CasesApart
  <2>3. i.op \notin Binary /\ i.op \notin ints
    BY <1>2, <2>2, CasesApart
  <2> QED
    BY <2>2, <2>3 DEF getHwInstructionTiming
<1> QED
  BY <1>5, <1>6, <1>7 DEF m, with

(***************************************************************************)
(* When a pass has set up its objects, every option it applies but the one *)
(* for the clock is in force in the object it applies it to, a member      *)
(* whose option is not given or not applied is as the constructor left it, *)
(* and the tables of times agree with each other (ISEPass.cpp,             *)
(* getArchitecture; Architecture.cpp).                                     *)
(***************************************************************************)
THEOREM SettingsAreInForce ==
  ArchSpec => []SettingsInv
<1>1. ArchitectureInv => SettingsInv
  BY TypesHold, InForce, TablesAreRight DEF SettingsInv
<1> QED
  BY <1>1, ArchitectureHolds, PTL

-----------------------------------------------------------------------------
(***************************************************************************)
(* What a division rounds down: q is the number of whole w in a.           *)
(***************************************************************************)
LEMMA Quotient ==
  ASSUME NEW a \in Nat, NEW w \in Nat \ {0}
  PROVE  /\ a \div w \in Nat
         /\ \E r \in 0..(w - 1) : a = w * (a \div w) + r
         /\ \A q \in Nat : \A r \in 0..(w - 1) : a = w * q + r => a \div w = q
<1>1. a \div w \in Nat
  OBVIOUS
<1>2. a % w \in 0..(w - 1) /\ a = w * (a \div w) + (a % w)
  OBVIOUS
<1>3. ASSUME NEW q \in Nat, NEW r \in 0..(w - 1), a = w * q + r PROVE a \div w = q
  <2> DEFINE p == a \div w
             s == a % w
  <2>1. w * p + s = w * q + r /\ s \in 0..(w - 1) /\ p \in Nat
    BY <1>1, <1>2, <1>3
  <2> HIDE DEF p, s
  <2>2. CASE p < q
    <3>1. p + 1 <= q
      BY <2>1, <2>2
    <3>2. w * (p + 1) <= w * q
      BY <2>1, <3>1
    <3>3. w * (p + 1) = w * p + w
      BY <2>1
    <3>4. w * p \in Nat /\ w * q \in Nat
      BY <2>1
    <3> QED
      BY <2>1, <3>2, <3>3, <3>4
  <2>3. CASE q < p
    <3>1. q + 1 <= p
      BY <2>1, <2>3
    <3>2. w * (q + 1) <= w * p
      BY <2>1, <3>1
    <3>3. w * (q + 1) = w * q + w
      BY <2>1
    <3>4. w * p \in Nat /\ w * q \in Nat
      BY <2>1
    <3> QED
      BY <2>1, <3>2, <3>3, <3>4
  <2> QED
    BY <2>1, <2>2, <2>3 DEF p
<1> QED
  BY <1>1, <1>2, <1>3

(***************************************************************************)
(* One more is at most one whole w more.                                   *)
(***************************************************************************)
LEMMA DivStep ==
  ASSUME NEW a \in Nat, NEW w \in Nat \ {0}
  PROVE  (a + 1) \div w \in {a \div w, a \div w + 1}
<1> DEFINE q == a \div w
<1>1. PICK r \in 0..(w - 1) : a = w * q + r
  BY Quotient
<1>2. q \in Nat
  BY Quotient
<1> HIDE DEF q
<1>3. CASE r + 1 <= w - 1
  <2>1. a + 1 = w * q + (r + 1) /\ r + 1 \in 0..(w - 1) /\ a + 1 \in Nat
    <3>1. w * q \in Nat
      BY <1>2
    <3> QED
      BY <1>1, <1>3, <3>1
  <2>2. (a + 1) \div w = q
    BY <1>2, <2>1, Quotient
  <2> QED
    BY <2>2 DEF q
<1>4. CASE ~(r + 1 <= w - 1)
  <2>1. a + 1 = w * (q + 1) + 0 /\ 0 \in 0..(w - 1) /\ a + 1 \in Nat /\ q + 1 \in Nat
    <3>1. w * q \in Nat /\ w * (q + 1) = w * q + w
      BY <1>2
    <3> QED
      BY <1>1, <1>2, <1>4, <3>1
  <2>2. (a + 1) \div w = q + 1
    BY <2>1, Quotient
  <2> QED
    BY <2>2 DEF q
<1> QED
  BY <1>3, <1>4

(***************************************************************************)
(* One operand more pays for at most one transfer more ...                 *)
(***************************************************************************)
LEMMA PaidStep ==
  ASSUME NEW n \in 0..9, NEW w \in Nat \ {0}, NEW free \in Nat, w * free < Word \div 2
  PROVE  Paid(n, w, free) \in Nat
         /\ Paid(n + 1, w, free) \in {Paid(n, w, free), Paid(n, w, free) + 1}
<1> DEFINE r == n - (w * free)
<1>1. w * free \in Nat
  OBVIOUS
<1>2. r \in Int /\ (n + 1) - (w * free) = r + 1
  BY <1>1
<1> HIDE DEF r
<1>3. Paid(n, w, free) = IF r > 0 THEN r \div w ELSE 0
  <2>1. r < Word \div 2 /\ r >= -(Word \div 2)
    BY <1>1, WordIs DEF r
  <2>2. ToInt(n - w * free) = r
    BY <1>2, <2>1, ToIntIs DEF r
  <2> QED
    BY <2>2 DEF Paid
<1>4. Paid(n + 1, w, free) = IF r + 1 > 0 THEN (r + 1) \div w ELSE 0
  <2>1. r + 1 < Word \div 2 /\ r + 1 >= -(Word \div 2)
    BY <1>1, WordIs DEF r
  <2>2. ToInt((n + 1) - w * free) = r + 1
    BY <1>2, <2>1, ToIntIs
  <2> QED
    BY <2>2 DEF Paid
<1>5. CASE r > 0
  <2>1. r \in Nat
    BY <1>2, <1>5
  <2>2. r \div w \in Nat /\ (r + 1) \div w \in {r \div w, r \div w + 1}
    BY <2>1, Quotient, DivStep
  <2> QED
    BY <1>2, <1>3, <1>4, <1>5, <2>2
<1>6. CASE r = 0
  <2>1. 0 \div w = 0
    <3>1. 0 = w * 0 + 0 /\ 0 \in 0..(w - 1)
      OBVIOUS
    <3> QED
      BY <3>1, Quotient
  <2>2. 1 \div w \in {0, 1}
    <3>1. (0 + 1) \div w \in {0 \div w, 0 \div w + 1}
      BY DivStep
    <3> QED
      BY <2>1, <3>1
  <2> QED
    BY <1>3, <1>4, <1>6, <2>2
<1>7. CASE r < 0
  BY <1>2, <1>3, <1>4, <1>7
<1> QED
  BY <1>2, <1>5, <1>6, <1>7

(***************************************************************************)
(* ... and so it does where every transfer is paid for.                    *)
(***************************************************************************)
LEMMA CeilStep ==
  ASSUME NEW n \in Nat, NEW w \in Nat \ {0}
  PROVE  CeilDiv(n, w) \in Nat
         /\ CeilDiv(n + 1, w) \in {CeilDiv(n, w), CeilDiv(n, w) + 1}
<1>1. n + w - 1 \in Nat /\ (n + 1) + w - 1 = (n + w - 1) + 1
  OBVIOUS
<1> QED
  BY <1>1, Quotient, DivStep DEF CeilDiv

(***************************************************************************)
(* The members the queries read: what a pass divides by is no zero.        *)
(***************************************************************************)
LEMMA MembersAre ==
  ASSUME ArchitectureInv, NEW o \in DOMAIN arch
  PROVE  /\ arch[o].clk \in {1, DefaultClock}
         /\ ~Virtual => /\ arch[o].inWidth \in Nat \ {0} /\ arch[o].outWidth \in Nat \ {0}
                          /\ arch[o].inFree \in Nat /\ arch[o].outFree \in Nat
                          /\ arch[o].inClk \in Nat /\ arch[o].outClk \in Nat
<1>1. PICK k \in 0..Len(P) : AfterCalls(k)
  BY DEF ArchitectureInv
<1>2. arch[o] \in [Members -> Values] /\ Set(arch[o], Made(k), o)
  BY <1>1 DEF AfterCalls
<1>3. arch[o].clk \in {1, DefaultClock}
  <2>1. "clk" \in Members
    BY DEF Members
  <2> QED
    BY <1>2, <2>1, ConstructedFits DEF Set
<1>4. ASSUME ~Virtual
      PROVE  /\ arch[o].inWidth \in Nat \ {0} /\ arch[o].outWidth \in Nat \ {0}
             /\ arch[o].inFree \in Nat /\ arch[o].outFree \in Nat
             /\ arch[o].inClk \in Nat /\ arch[o].outClk \in Nat
  <2>1. getArchitecture = "virtex"
    BY <1>4 DEF Virtual, getArchitecture
  <2>2. /\ arch[o].inWidth \in Nat /\ arch[o].outWidth \in Nat
        /\ arch[o].inFree \in Nat /\ arch[o].outFree \in Nat
        /\ arch[o].inClk \in Nat /\ arch[o].outClk \in Nat
    BY <1>2, <2>1 DEF Values, Members
  <2>3. ToUnsigned(opt.inWidth) # 0 /\ ToUnsigned(opt.outWidth) # 0
    <3>1. /\ opt.inWidth \in IntValues \ {0} /\ opt.outWidth \in IntValues \ {0}
      <4>1. IsOptions(opt)
        BY OptionsAssumption DEF ArchitectureInv
      <4>2. "inWidth" \in Members /\ "outWidth" \in Members
        BY DEF Members
      <4> QED
        BY <4>1, <4>2 DEF IsOptions
    <3>2. ASSUME NEW x \in IntValues \ {0} PROVE ToUnsigned(x) # 0
      <4>1. x \in Int /\ x # 0 /\ x > -Word /\ x < Word
        BY WordIs DEF IntValues
      <4> QED
        BY <4>1, Unsigned, WordIs
    <3> QED
      BY <3>1, <3>2
  <2>4. \A c \in Constructed : c.inWidth # 0 /\ c.outWidth # 0
    BY <2>1 DEF Constructed
  <2>5. "inWidth" \in Members /\ "outWidth" \in Members
    BY DEF Members
  <2> QED
    BY <1>2, <2>2, <2>3, <2>4, <2>5 DEF Set
<1> QED
  BY <1>3, <1>4

(***************************************************************************)
(* Operands that the free transfers carry are not paid for.                *)
(***************************************************************************)
LEMMA NothingPaid ==
  ASSUME NEW n \in Nat, NEW w \in Nat, NEW free \in Nat,
         w * free < Word \div 2, n <= w * free
  PROVE  Paid(n, w, free) = 0
<1>1. w * free \in Nat
  OBVIOUS
<1>2. n - w * free \in Int /\ n - w * free <= 0 /\ n - w * free >= -(Word \div 2)
  BY <1>1, WordIs
<1>3. ToInt(n - w * free) = n - w * free
  BY <1>2, WordIs, ToIntIs
<1>4. ~(n - w * free > 0)
  BY <1>2
<1> QED
  BY <1>3, <1>4 DEF Paid

(***************************************************************************)
(* Where the cost of two directions fits a word it is their sum.           *)
(***************************************************************************)
LEMMA SumFits ==
  ASSUME NEW a \in Nat, NEW b \in Nat, a + b < Word
  PROVE  ToUnsigned(ToUnsigned(a) + ToUnsigned(b)) = a + b
<1>1. ToUnsigned(a) = a /\ ToUnsigned(b) = b
  BY Unsigned, WordIs
<1>2. ToUnsigned(a + b) = a + b
  BY Unsigned, WordIs
<1> QED
  BY <1>1, <1>2

(***************************************************************************)
(* The cost of one more operand, where it is in range.                     *)
(***************************************************************************)
LEMMA OverheadSteps ==
  ASSUME ArchitectureInv, NEW o \in DOMAIN arch, NEW i \in 0..9, NEW j \in 0..9
  PROVE  LET cost == getExecutionOverhead(o, i, j)
             dearest(m) == IF Virtual THEN 1 ELSE arch[o][m]
         IN  /\ InRange(o, i + 1, j) =>
                  getExecutionOverhead(o, i + 1, j) - cost \in 0..dearest("inClk")
             /\ InRange(o, i, j + 1) =>
                  getExecutionOverhead(o, i, j + 1) - cost \in 0..dearest("outClk")
             /\ InRange(o, i, j) /\ CarriedFree(o, i, j) => cost = 0
<1>1. CASE Virtual
  <2> DEFINE in(n)  == CeilDiv(n, 4)
             out(n) == CeilDiv(n, 2)
  <2>1. in(i) \in Nat /\ in(i + 1) \in {in(i), in(i) + 1}
    BY CeilStep
  <2>2. out(j) \in Nat /\ out(j + 1) \in {out(j), out(j) + 1}
    BY CeilStep
  <2>3. \A n, m : getExecutionOverhead(o, n, m) = in(n) + out(m)
    BY <1>1 DEF getExecutionOverhead
  <2>4. ~CarriedFree(o, i, j)
    BY <1>1 DEF CarriedFree
  <2> HIDE DEF in, out
  <2> QED
    BY <1>1, <2>1, <2>2, <2>3, <2>4
<1>2. CASE ~Virtual
  <2> DEFINE s      == arch[o]
             in(n)  == Paid(n, s.inWidth, s.inFree)
             out(n) == Paid(n, s.outWidth, s.outFree)
  <2>1. /\ s.inWidth \in Nat \ {0} /\ s.outWidth \in Nat \ {0}
        /\ s.inFree \in Nat /\ s.outFree \in Nat
        /\ s.inClk \in Nat /\ s.outClk \in Nat
    BY <1>2, MembersAre
  <2>2. s.inClk = arch[o]["inClk"] /\ s.outClk = arch[o]["outClk"]
    OBVIOUS
  <2>3. \A n, m : /\ getExecutionOverhead(o, n, m)
                       = ToUnsigned(ToUnsigned(in(n) * s.inClk) + ToUnsigned(out(m) * s.outClk))
                  /\ InRange(o, n, m) <=> /\ s.inWidth * s.inFree < Word \div 2
                                          /\ s.outWidth * s.outFree < Word \div 2
                                          /\ in(n) * s.inClk + out(m) * s.outClk < Word
    BY <1>2 DEF getExecutionOverhead, TransferCost, InRange
  <2> SUFFICES ASSUME s.inWidth * s.inFree < Word \div 2, s.outWidth * s.outFree < Word \div 2
               PROVE  /\ InRange(o, i + 1, j) =>
                           getExecutionOverhead(o, i + 1, j) - getExecutionOverhead(o, i, j)
                             \in 0..s.inClk
                      /\ InRange(o, i, j + 1) =>
                           getExecutionOverhead(o, i, j + 1) - getExecutionOverhead(o, i, j)
                             \in 0..s.outClk
                      /\ InRange(o, i, j) /\ CarriedFree(o, i, j) =>
                           getExecutionOverhead(o, i, j) = 0
    BY <1>2, <2>2, <2>3
  <2>4. in(i) \in Nat /\ in(i + 1) \in {in(i), in(i) + 1}
    BY <2>1, PaidStep
  <2>5. out(j) \in Nat /\ out(j + 1) \in {out(j), out(j) + 1}
    BY <2>1, PaidStep
  <2>6. CarriedFree(o, i, j) => in(i) = 0 /\ out(j) = 0
    BY <2>1, NothingPaid DEF CarriedFree
  <2> HIDE DEF in, out, s
  <2> DEFINE a  == in(i) * s.inClk
             a1 == in(i + 1) * s.inClk
             b  == out(j) * s.outClk
             b1 == out(j + 1) * s.outClk
  <2>7. a \in Nat /\ a1 \in {a, a + s.inClk}
    <3>1. a \in Nat /\ (in(i) + 1) * s.inClk = a + s.inClk
      BY <2>1, <2>4
    <3> QED
      BY <2>4, <3>1
  <2>8. b \in Nat /\ b1 \in {b, b + s.outClk}
    <3>1. b \in Nat /\ (out(j) + 1) * s.outClk = b + s.outClk
      BY <2>1, <2>5
    <3> QED
      BY <2>5, <3>1
  <2>9. /\ getExecutionOverhead(o, i, j) = ToUnsigned(ToUnsigned(a) + ToUnsigned(b))
        /\ getExecutionOverhead(o, i + 1, j) = ToUnsigned(ToUnsigned(a1) + ToUnsigned(b))
        /\ getExecutionOverhead(o, i, j + 1) = ToUnsigned(ToUnsigned(a) + ToUnsigned(b1))
    BY <2>3
  <2>10. /\ InRange(o, i, j) => a + b < Word
         /\ InRange(o, i + 1, j) => a1 + b < Word
         /\ InRange(o, i, j + 1) => a + b1 < Word
    BY <2>3
  <2>11. CarriedFree(o, i, j) => a = 0 /\ b = 0
    BY <2>1, <2>6
  <2> HIDE DEF a, a1, b, b1
  <2>12. ASSUME InRange(o, i + 1, j)
         PROVE  getExecutionOverhead(o, i + 1, j) - getExecutionOverhead(o, i, j) \in 0..s.inClk
    <3>1. a1 \in Nat /\ a1 + b < Word /\ a + b < Word
      BY <2>1, <2>7, <2>8, <2>10, <2>12, WordIs
    <3> QED
      BY <2>1, <2>7, <2>8, <2>9, <3>1, SumFits
  <2>13. ASSUME InRange(o, i, j + 1)
         PROVE  getExecutionOverhead(o, i, j + 1) - getExecutionOverhead(o, i, j) \in 0..s.outClk
    <3>1. b1 \in Nat /\ a + b1 < Word /\ a + b < Word
      BY <2>1, <2>7, <2>8, <2>10, <2>13, WordIs
    <3> QED
      BY <2>1, <2>7, <2>8, <2>9, <3>1, SumFits
  <2>14. ASSUME InRange(o, i, j), CarriedFree(o, i, j)
         PROVE  getExecutionOverhead(o, i, j) = 0
    BY <2>7, <2>8, <2>9, <2>10, <2>11, <2>14, SumFits
  <2> QED
    BY <2>12, <2>13, <2>14
<1> QED
  BY <1>1, <1>2

(***************************************************************************)
(* Where the operands of the free transfers fit an int and the cost an     *)
(* unsigned int, one more operand never makes a custom instruction cheaper *)
(* and makes it dearer by one transfer at the most, and what the free      *)
(* transfers carry costs nothing (getExecutionOverhead).                   *)
(***************************************************************************)
THEOREM OverheadIsMonotone ==
  ArchSpec => []OverheadMonotone
<1>1. ArchitectureInv => OverheadMonotone
  BY OverheadSteps DEF OverheadMonotone, Operands
<1> QED
  BY <1>1, ArchitectureHolds, PTL

(***************************************************************************)
(* The cycles, at the two clocks an object can have.                       *)
(***************************************************************************)
LEMMA CyclesAre ==
  ASSUME ArchitectureInv, NEW o \in DOMAIN arch, NEW h \in Nat
  PROVE  convertHwToSwTiming(o, h) =
           IF Virtual THEN CeilDiv(h, 10)
           ELSE IF h = 0 THEN 0
           ELSE IF arch[o].clk = DefaultClock THEN (h * 100) \div 10000 + 1 ELSE 1
<1>1. CASE Virtual
  BY <1>1 DEF convertHwToSwTiming
<1>2. CASE ~Virtual /\ arch[o].clk = DefaultClock
  <2>1. 100000000 \div 1000000 = 100
    OBVIOUS
  <2> QED
    BY <1>2, <2>1 DEF convertHwToSwTiming, Cycles, DefaultClock
<1>3. CASE ~Virtual /\ arch[o].clk # DefaultClock
  <2>1. arch[o].clk = 1
    BY <1>3, MembersAre
  <2>2. 1 \div 1000000 = 0 /\ h * 0 = 0 /\ 0 \div 10000 = 0 /\ 0 + 1 = 1
    OBVIOUS
  <2> QED
    BY <1>3, <2>1, <2>2 DEF convertHwToSwTiming, Cycles
<1> QED
  BY <1>1, <1>2, <1>3

(***************************************************************************)
(* The cycles are enough, for every hardware time.                         *)
(***************************************************************************)
LEMMA CyclesCoverTime ==
  ASSUME ArchitectureInv, NEW o \in DOMAIN arch, NEW h \in Nat
  PROVE  LET unit   == IF Virtual THEN 10 ELSE 100
             cycles == convertHwToSwTiming(o, h)
         IN  /\ convertHwToSwTiming(o, h + 1) >= cycles
             /\ (Virtual \/ arch[o].clk = DefaultClock) =>
                  /\ cycles * unit >= h
                  /\ cycles <= CeilDiv(h, unit) + 1
<1>1. CASE Virtual
  <2>1. convertHwToSwTiming(o, h) = (h + 10 - 1) \div 10
    BY <1>1, CyclesAre DEF CeilDiv
  <2>2. convertHwToSwTiming(o, h + 1) = ((h + 1) + 10 - 1) \div 10
    BY <1>1, CyclesAre DEF CeilDiv
  <2>3. CeilDiv(h, 10) = (h + 10 - 1) \div 10
    BY DEF CeilDiv
  <2> QED
    BY <1>1, <2>1, <2>2, <2>3
<1>2. CASE ~Virtual /\ arch[o].clk = DefaultClock
  <2>1. convertHwToSwTiming(o, h) = IF h = 0 THEN 0 ELSE (h * 100) \div 10000 + 1
    BY <1>2, CyclesAre
  <2>2. convertHwToSwTiming(o, h + 1) = ((h + 1) * 100) \div 10000 + 1
    BY <1>2, CyclesAre
  <2>3. CeilDiv(h, 100) = (h + 100 - 1) \div 100
    BY DEF CeilDiv
  <2> QED
    BY <1>2, <2>1, <2>2, <2>3
<1>3. CASE ~Virtual /\ arch[o].clk # DefaultClock
  <2>1. convertHwToSwTiming(o, h) = IF h = 0 THEN 0 ELSE 1
    BY <1>3, CyclesAre
  <2>2. convertHwToSwTiming(o, h + 1) = 1
    BY <1>3, CyclesAre
  <2> QED
    BY <1>3, <2>1, <2>2
<1> QED
  BY <1>1, <1>2, <1>3

(***************************************************************************)
(* The cycles given to a hardware time are at least the time it takes, at  *)
(* most one more than needed, and never fewer for a longer time            *)
(* (convertHwToSwTiming).                                                  *)
(***************************************************************************)
THEOREM CyclesAreEnough ==
  ArchSpec => []CyclesCover
<1>1. ArchitectureInv => CyclesCover
  <2>1. \A h \in HwTimes : h \in Nat
    BY DEF HwTimes
  <2> QED
    BY <2>1, CyclesCoverTime DEF CyclesCover
<1> QED
  BY <1>1, ArchitectureHolds, PTL

-----------------------------------------------------------------------------
(***************************************************************************)
(* The graph of a block while it is built: the instructions that have a    *)
(* vertex, and the operands of an instruction that have an edge.           *)
(***************************************************************************)
Building == pc \in {"block", "operands", "failed"}

Visited ==
  IF pc = "block" THEN 1..(pos - 1)
  ELSE IF pc \in {"operands", "failed"} THEN 1..pos
  ELSE 1..(Len(block.insts) - 1)

Listed(k) == IF pc = "operands" /\ k = pos THEN 1..(nth - 1) ELSE DOMAIN Inst(k).ops

(* Where the loops are.                                                    *)
LoopInv ==
  /\ Building => pos \in DOMAIN block.insts
  /\ pc \in {"operands", "failed"} => pos \in Plain
  /\ pc = "operands" => nth \in 1..(Len(Inst(pos).ops) + 1)
  /\ pc = "split" => splits /\ pos \in 1..(last + 1) /\ last <= Len(graph.vertex)

(* What the value of a vertex says of its type.                            *)
TypeFits(x, t) ==
  /\ x[1] # "asm"
  /\ x[1] = "here" =>
       /\ x[2] \in Visited
       /\ t = IF x[2] \notin Plain THEN "INPUT"
              ELSE IF NeededAfter(x[2]) THEN "OUTPUT" ELSE "OPERATOR"
  /\ x[1] \in {"elsewhere", "argument"} => t = "INPUT"
  /\ x[1] = "constant" => t = "CONSTANT"

VertexInv ==
  /\ \A v \in DOMAIN graph.vertex : TypeFits(ValueOf(v), TypeOf(v))
  /\ \A k \in Visited : Known(graph, <<"here", k>>)
  /\ \A v, w \in DOMAIN graph.vertex :
       v # w /\ ValueOf(v) = ValueOf(w) => ~Building /\ splits /\ ValueOf(v)[1] = "constant"

(* Edges lead to later instructions.                                       *)
EdgeInv ==
  \A e \in DOMAIN graph.edge :
    /\ ValueOf(Target(e))[1] = "here" /\ ValueOf(Target(e))[2] \in Plain
    /\ ValueOf(Source(e))[1] = "here" => ValueOf(Source(e))[2] < ValueOf(Target(e))[2]

(* A constant is used, and once when it has been split.                    *)
ConstantInv ==
  \A v \in DOMAIN graph.vertex : TypeOf(v) = "CONSTANT" =>
    /\ From(graph, v) # {}
    /\ splits /\ ~Building /\ (pc = "split" => v < pos \/ v > last) =>
         \A e, f \in From(graph, v) : e = f

(* The phis passed so far have told what they need.                        *)
ForcedInv ==
  pc \in {"block", "operands"} =>
    \A k \in DOMAIN block.insts \ Visited :
      <<"here", k>> \in forcedOutputs <=>
        \E j \in Visited : Inst(j).kind = "phi" /\ <<"here", k>> \in OperandsOf(Inst(j).ops)

Times(k, x) == Cardinality({j \in Listed(k) : Inst(k).ops[j] = x})

UsesInv ==
  pc # "failed" =>
    \A v \in DOMAIN graph.vertex :
      ValueOf(v)[1] = "here" /\ ValueOf(v)[2] \in Plain =>
        \A x \in OperandsOf(Inst(ValueOf(v)[2]).ops) : Uses(graph, v, x) = Times(ValueOf(v)[2], x)

WholeInv == LoopInv /\ VertexInv /\ EdgeInv /\ ConstantInv /\ ForcedInv /\ UsesInv

-----------------------------------------------------------------------------
(***************************************************************************)
(* The graph of a pattern while it is built: whether the loops over edges  *)
(* have passed an edge at its source, or at its target, and which edges    *)
(* have a copy.                                                            *)
(***************************************************************************)
Matching == pc \in {"nodes", "edges", "outgoing", "incoming", "done"}
Joining  == pc \in {"edges", "outgoing", "incoming", "done"}

PassedOut(e) ==
  \/ Source(e) \notin rest
  \/ Source(e) = Member /\ pc = "outgoing" /\ e \notin left
  \/ Source(e) = Member /\ pc = "incoming"
PassedIn(e) ==
  \/ Target(e) \notin rest
  \/ Target(e) = Member /\ pc = "incoming" /\ e \notin left

Copied ==
  {e \in DOMAIN graph.edge :
     Target(e) \in bv /\ (IF Source(e) \in bv THEN PassedOut(e) ELSE PassedIn(e))}

(* Known to be an output of the pattern.                                   *)
Leaves(v) == TypeOf(v) # "CONSTANT" /\ \E e \in From(graph, v) : Target(e) \notin bv /\ PassedOut(e)
Mark(v)   == IF Leaves(v) THEN "OUTPUT" ELSE TypeOf(v)

ScanInv ==
  /\ pc \in {"outgoing", "incoming"} => rest # {}
  /\ pc = "outgoing" => left \subseteq From(graph, Member) /\ type = Mark(Member)
  /\ pc = "incoming" => left \subseteq Into(graph, Member)
  /\ pc = "done" => rest = {}
  /\ ~Matching => sub = Empty /\ bv = {} /\ rest = {}
  /\ Matching => Offered(bv)

(* The values it has, once each.                                           *)
HeldValues ==
  IF pc = "nodes" THEN {ValueOf(v) : v \in bv \ rest}
  ELSE MemberValues \cup {ValueOf(Source(e)) : e \in Copied}

SubInv ==
  Matching =>
    /\ ~sub.failed
    /\ {sub.vertex[u].value : u \in DOMAIN sub.vertex} = HeldValues
    /\ \A u, w \in DOMAIN sub.vertex : sub.vertex[u].value = sub.vertex[w].value => u = w
    /\ \A u \in DOMAIN sub.vertex :
         /\ sub.vertex[u].value \notin MemberValues => sub.vertex[u].op = "INPUT"
         /\ \A v \in bv : sub.vertex[u].value = ValueOf(v) =>
              sub.vertex[u].op = IF pc = "nodes" THEN TypeOf(v) ELSE Mark(v)

(* Every copied edge is a use.                                             *)
CopyInv ==
  Joining =>
    \A v \in bv, w \in DOMAIN graph.vertex :
      TypeOf(v) # "CONSTANT" =>
        Uses(sub, getVertex(sub, ValueOf(v)), ValueOf(w)) =
          Cardinality({e \in Copied : Target(e) = v /\ ValueOf(Source(e)) = ValueOf(w)})

NoEdgeInv == pc = "nodes" => sub.edge = <<>>

PatternInv == ScanInv /\ SubInv /\ CopyInv /\ NoEdgeInv

BuildInv == BuildTypeOK /\ WholeInv /\ PatternInv

-----------------------------------------------------------------------------
(***************************************************************************)
(* The lowest number of a set is one of it.                                *)
(***************************************************************************)
LEMMA LowestIs ==
  ASSUME NEW S, S \subseteq Nat, S # {}
  PROVE  Lowest(S) \in S /\ \A w \in S : Lowest(S) <= w
  BY LeastElement DEF Lowest

(***************************************************************************)
(* What a graph is made of.                                                *)
(***************************************************************************)
LEMMA GraphParts ==
  ASSUME NEW g, IsGraph(g)
  PROVE  /\ g.vertex \in Seq(Vertex) /\ g.edge \in Seq(Nat \X Nat)
         /\ g.inputs \in Nat /\ g.outputs \in Nat /\ g.failed \in BOOLEAN
         /\ Len(g.vertex) \in Nat /\ DOMAIN g.vertex = 1..Len(g.vertex)
         /\ Len(g.edge) \in Nat /\ DOMAIN g.edge = 1..Len(g.edge)
         /\ \A v \in DOMAIN g.vertex : g.vertex[v].value \in Value /\ g.vertex[v].op \in OpType
         /\ \A e \in DOMAIN g.edge : /\ g.edge[e] = <<g.edge[e][1], g.edge[e][2]>>
                                     /\ g.edge[e][1] \in DOMAIN g.vertex
                                     /\ g.edge[e][2] \in DOMAIN g.vertex
<1>1. g.vertex \in Seq(Vertex) /\ g.edge \in Seq(Nat \X Nat)
      /\ g.inputs \in Nat /\ g.outputs \in Nat /\ g.failed \in BOOLEAN
  BY DEF IsGraph
<1>2. /\ Len(g.vertex) \in Nat /\ DOMAIN g.vertex = 1..Len(g.vertex)
      /\ \A v \in DOMAIN g.vertex : g.vertex[v] \in Vertex
  BY <1>1
<1>3. /\ Len(g.edge) \in Nat /\ DOMAIN g.edge = 1..Len(g.edge)
      /\ \A e \in DOMAIN g.edge : g.edge[e] \in Nat \X Nat
  BY <1>1
<1>4. \A e \in DOMAIN g.edge : g.edge[e] \in (DOMAIN g.vertex) \X (DOMAIN g.vertex)
  BY DEF IsGraph
<1> QED
  BY <1>1, <1>2, <1>3, <1>4 DEF Vertex

(***************************************************************************)
(* The map leads to a vertex of the value.                                 *)
(***************************************************************************)
LEMMA VertexFound ==
  ASSUME NEW g, IsGraph(g), NEW x, Known(g, x)
  PROVE  getVertex(g, x) \in DOMAIN g.vertex /\ g.vertex[getVertex(g, x)].value = x
<1>1. VerticesOf(g, x) \subseteq Nat /\ VerticesOf(g, x) # {}
  BY GraphParts DEF VerticesOf, Known
<1>2. getVertex(g, x) \in VerticesOf(g, x)
  BY <1>1, LowestIs DEF getVertex
<1> QED
  BY <1>2 DEF VerticesOf

(***************************************************************************)
(* A value is known when a vertex has it, and found when no other has.     *)
(***************************************************************************)
LEMMA TheVertex ==
  ASSUME NEW g, IsGraph(g), NEW v \in DOMAIN g.vertex
  PROVE  /\ Known(g, g.vertex[v].value)
         /\ (\A w \in DOMAIN g.vertex : g.vertex[w].value = g.vertex[v].value => w = v)
              => getVertex(g, g.vertex[v].value) = v
<1>1. Known(g, g.vertex[v].value)
  BY DEF Known, VerticesOf
<1> QED
  BY <1>1, VertexFound

(***************************************************************************)
(* One more of a kind is counted once.                                     *)
(***************************************************************************)
LEMMA CountOneMore ==
  ASSUME NEW n \in Nat, NEW m, m = n + 1, NEW S \in SUBSET (1..n), NEW T \in SUBSET (1..m),
         \A k \in 1..n : k \in T <=> k \in S
  PROVE  /\ IsFiniteSet(S) /\ Cardinality(S) \in Nat
         /\ m \in T => Cardinality(T) = Cardinality(S) + 1
         /\ m \notin T => Cardinality(T) = Cardinality(S)
<1>1. IsFiniteSet(S) /\ Cardinality(S) \in Nat
  <2>1. IsFiniteSet(1..n)
    BY FS_Interval
  <2> QED
    BY <2>1, FS_Subset, FS_CardinalityType
<1>2. \A k \in T : k = m \/ k \in S
  OBVIOUS
<1>3. m \notin S /\ S \subseteq T
  OBVIOUS
<1>4. (m \in T => T = S \cup {m}) /\ (m \notin T => T = S)
  BY <1>2, <1>3
<1> QED
  BY <1>1, <1>3, <1>4, FS_AddElement

(***************************************************************************)
(* One more vertex comes behind the others.                                *)
(***************************************************************************)
Longer(g, h, r) == h.vertex = Append(g.vertex, r)

LEMMA VertexAppended ==
  ASSUME NEW g, IsGraph(g), NEW r \in Vertex,
         NEW h, Longer(g, h, r), NEW n, n = Len(g.vertex) + 1
  PROVE  /\ h.vertex \in Seq(Vertex) /\ Len(h.vertex) = n
         /\ DOMAIN h.vertex = (DOMAIN g.vertex) \cup {n} /\ n \notin DOMAIN g.vertex
         /\ h.vertex[n] = r /\ \A v \in DOMAIN g.vertex : h.vertex[v] = g.vertex[v]
         /\ \A o \in OpType : Count(h, o) = Count(g, o) + (IF r.op = o THEN 1 ELSE 0)
<1> DEFINE s == h.vertex
<1>1. Len(g.vertex) \in Nat /\ DOMAIN g.vertex = 1..Len(g.vertex)
  BY GraphParts
<1>2. /\ s \in Seq(Vertex)
      /\ Len(s) = n /\ DOMAIN s = 1..n /\ s[n] = r
      /\ \A v \in 1..Len(g.vertex) : s[v] = g.vertex[v]
  <2>1. g.vertex \in Seq(Vertex) /\ r \in Vertex
    BY GraphParts
  <2>2. /\ s \in Seq(Vertex) /\ Len(s) = n /\ s[n] = r
        /\ \A v \in 1..Len(g.vertex) : s[v] = g.vertex[v]
    BY <2>1, AppendProperties DEF Longer
  <2>3. DOMAIN s = 1..n
    BY <2>2
  <2> QED
    BY <2>2, <2>3
<1>3. DOMAIN s = (DOMAIN g.vertex) \cup {n} /\ n \notin DOMAIN g.vertex
  BY <1>1, <1>2
<1>4. ASSUME NEW o \in OpType
      PROVE  Count(h, o) = Count(g, o) + (IF r.op = o THEN 1 ELSE 0)
  <2> DEFINE S == {v \in DOMAIN g.vertex : g.vertex[v].op = o}
             T == {v \in DOMAIN s : s[v].op = o}
             l == Len(g.vertex)
  <2>1. l \in Nat /\ n = l + 1 /\ S \in SUBSET (1..l) /\ T \in SUBSET (1..n)
    BY <1>1, <1>2
  <2>2. r.op = o <=> n \in T
    BY <1>1, <1>2
  <2>3. \A k \in 1..l : k \in T <=> k \in S
    BY <1>1, <1>2
  <2> HIDE DEF S, T, l
  <2>4. /\ Cardinality(S) \in Nat
        /\ n \in T => Cardinality(T) = Cardinality(S) + 1
        /\ n \notin T => Cardinality(T) = Cardinality(S)
    BY <2>1, <2>3, CountOneMore
  <2>5. Cardinality(T) = Cardinality(S) + (IF r.op = o THEN 1 ELSE 0)
    BY <2>2, <2>4
  <2> QED
    BY <2>5 DEF S, T, Count
<1> QED
  BY <1>1, <1>2, <1>3, <1>4 DEF Vertex

(***************************************************************************)
(* A new value gets a vertex behind the others.                            *)
(***************************************************************************)
LEMMA NodeAdded ==
  ASSUME NEW g, IsGraph(g), NEW x \in Value, NEW t \in OpType, ~Known(g, x),
         NEW h, h = addNode(g, x, t), NEW n, n = Len(g.vertex) + 1
  PROVE  /\ IsGraph(h)
         /\ DOMAIN h.vertex = (DOMAIN g.vertex) \cup {n} /\ n \notin DOMAIN g.vertex
         /\ Len(h.vertex) = n
         /\ h.vertex[n].value = x /\ h.vertex[n].op = t
         /\ \A v \in DOMAIN g.vertex : h.vertex[v] = g.vertex[v]
         /\ h.edge = g.edge /\ h.failed = g.failed
<1> DEFINE r == [value |-> x, op |-> t]
<1>1. r \in Vertex /\ r.value = x /\ r.op = t
  BY DEF Vertex
<1>2. /\ h.vertex = Append(g.vertex, r)
      /\ h.inputs = g.inputs + (IF t = "INPUT" THEN 1 ELSE 0)
      /\ h.outputs = g.outputs + (IF t = "OUTPUT" THEN 1 ELSE 0)
      /\ h.edge = g.edge /\ h.failed = g.failed
      /\ h = [vertex |-> h.vertex, edge |-> h.edge, inputs |-> h.inputs,
              outputs |-> h.outputs, failed |-> h.failed]
  BY DEF addNode, IsGraph
<1> HIDE DEF r
<1>3. /\ h.vertex \in Seq(Vertex) /\ Len(h.vertex) = n
      /\ DOMAIN h.vertex = (DOMAIN g.vertex) \cup {n} /\ n \notin DOMAIN g.vertex
      /\ h.vertex[n] = r /\ \A v \in DOMAIN g.vertex : h.vertex[v] = g.vertex[v]
      /\ \A o \in OpType : Count(h, o) = Count(g, o) + (IF r.op = o THEN 1 ELSE 0)
  <2>1. r \in Vertex /\ Longer(g, h, r)
    BY <1>1, <1>2 DEF Longer
  <2> QED
    BY ONLY <2>1, IsGraph(g), n = Len(g.vertex) + 1, VertexAppended
<1>4. /\ h.inputs \in Nat /\ h.inputs = Count(h, "INPUT")
      /\ h.outputs \in Nat /\ h.outputs = Count(h, "OUTPUT")
  <2>1. "INPUT" \in OpType /\ "OUTPUT" \in OpType
    BY DEF OpType
  <2>2. /\ g.inputs = Count(g, "INPUT")
        /\ g.outputs = Count(g, "OUTPUT")
    BY DEF IsGraph
  <2>3. /\ h.inputs = Count(h, "INPUT")
        /\ h.outputs = Count(h, "OUTPUT")
    BY <1>1, <1>2, <1>3, <2>1, <2>2
  <2>4. h.inputs \in Nat /\ h.outputs \in Nat
    BY <1>2, GraphParts
  <2> QED
    BY <2>3, <2>4
<1>5. \A e \in DOMAIN h.edge : h.edge[e] \in (DOMAIN h.vertex) \X (DOMAIN h.vertex)
  BY <1>2, <1>3 DEF IsGraph
<1>6. h \in [vertex : Seq(Vertex), edge : Seq(Nat \X Nat),
             inputs : Nat, outputs : Nat, failed : BOOLEAN]
  BY <1>2, <1>3, <1>4, GraphParts
<1> QED
  BY <1>1, <1>2, <1>3, <1>4, <1>5, <1>6 DEF IsGraph

(***************************************************************************)
(* An edge between known values comes behind the others.                   *)
(***************************************************************************)
LEMMA EdgeAdded ==
  ASSUME NEW g, IsGraph(g), NEW x, NEW y, Known(g, x), Known(g, y),
         NEW h, h = addEdge(g, x, y), NEW n, n = Len(g.edge) + 1
  PROVE  /\ IsGraph(h) /\ h.vertex = g.vertex /\ h.failed = g.failed
         /\ DOMAIN h.edge = (DOMAIN g.edge) \cup {n} /\ n \notin DOMAIN g.edge
         /\ h.edge[n][1] = getVertex(g, x) /\ h.edge[n][2] = getVertex(g, y)
         /\ \A e \in DOMAIN g.edge : h.edge[e] = g.edge[e]
<1> DEFINE r == <<getVertex(g, x), getVertex(g, y)>>
<1>1. r \in (DOMAIN g.vertex) \X (DOMAIN g.vertex) /\ r \in Nat \X Nat
  BY VertexFound, GraphParts
<1>2. /\ h.edge = Append(g.edge, r)
      /\ h.vertex = g.vertex /\ h.inputs = g.inputs /\ h.outputs = g.outputs
      /\ h.failed = g.failed
      /\ h = [vertex |-> h.vertex, edge |-> h.edge, inputs |-> h.inputs,
              outputs |-> h.outputs, failed |-> h.failed]
  BY DEF addEdge, IsGraph
<1> HIDE DEF r
<1>3. /\ h.edge \in Seq(Nat \X Nat)
      /\ DOMAIN h.edge = (DOMAIN g.edge) \cup {n} /\ n \notin DOMAIN g.edge /\ h.edge[n] = r
      /\ \A e \in DOMAIN g.edge : h.edge[e] = g.edge[e]
  <2>1. Len(g.edge) \in Nat /\ DOMAIN g.edge = 1..Len(g.edge) /\ g.edge \in Seq(Nat \X Nat)
    BY GraphParts
  <2> DEFINE V == Nat \X Nat
  <2>2. g.edge \in Seq(V) /\ r \in V
    BY <1>1, <2>1
  <2> HIDE DEF V
  <2>3. /\ h.edge \in Seq(V) /\ Len(h.edge) = n
        /\ h.edge[n] = r /\ \A e \in 1..Len(g.edge) : h.edge[e] = g.edge[e]
    BY <1>2, <2>1, <2>2, AppendProperties
  <2>4. DOMAIN h.edge = 1..n
    BY <2>3
  <2>5. DOMAIN h.edge = (DOMAIN g.edge) \cup {n} /\ n \notin DOMAIN g.edge
    BY <2>1, <2>4
  <2>6. \A e \in DOMAIN g.edge : h.edge[e] = g.edge[e]
    BY <2>1, <2>3
  <2> QED
    BY <2>3, <2>5, <2>6 DEF V
<1>4. \A e \in DOMAIN h.edge : h.edge[e] \in (DOMAIN h.vertex) \X (DOMAIN h.vertex)
  BY <1>1, <1>2, <1>3 DEF IsGraph
<1>5. h \in [vertex : Seq(Vertex), edge : Seq(Nat \X Nat),
             inputs : Nat, outputs : Nat, failed : BOOLEAN]
  BY <1>2, <1>3, GraphParts
<1>6. \A t \in OpType : Count(h, t) = Count(g, t)
  BY <1>2 DEF Count
<1>7. IsGraph(h)
  BY <1>2, <1>4, <1>5, <1>6 DEF IsGraph, OpType
<1> QED
  BY <1>2, <1>3, <1>7 DEF r

(***************************************************************************)
(* The counts of an output more.                                           *)
(***************************************************************************)
LEMMA OutputMarked ==
  ASSUME NEW g, IsGraph(g), NEW x, Known(g, x), NEW u, u = getVertex(g, x),
         g.vertex[u].op \notin {"INPUT", "OUTPUT"}, NEW h, h = Marked(g, x)
  PROVE  /\ IsGraph(h) /\ u \in DOMAIN g.vertex
         /\ DOMAIN h.vertex = DOMAIN g.vertex
         /\ h.vertex[u].value = g.vertex[u].value /\ h.vertex[u].op = "OUTPUT"
         /\ \A v \in DOMAIN g.vertex : v # u => h.vertex[v] = g.vertex[v]
         /\ h.edge = g.edge /\ h.failed = g.failed
<1>1. u \in DOMAIN g.vertex
  BY VertexFound
<1>2. /\ h.vertex = [g.vertex EXCEPT ![u] = [g.vertex[u] EXCEPT !.op = "OUTPUT"]]
      /\ h.outputs = g.outputs + 1 /\ h.inputs = g.inputs
      /\ h.edge = g.edge /\ h.failed = g.failed
      /\ h = [vertex |-> h.vertex, edge |-> h.edge, inputs |-> h.inputs,
              outputs |-> h.outputs, failed |-> h.failed]
  BY DEF Marked, IsGraph
<1> DEFINE r == [g.vertex[u] EXCEPT !.op = "OUTPUT"]
<1>3. g.vertex \in Seq(Vertex) /\ g.vertex[u] \in Vertex
  <2>1. g.vertex \in Seq(Vertex)
    BY GraphParts
  <2> QED
    BY <1>1, <2>1
<1>4. r \in Vertex /\ r.value = g.vertex[u].value /\ r.op = "OUTPUT"
  BY <1>3 DEF OpType, Vertex
<1> HIDE DEF r
<1>5. /\ h.vertex \in Seq(Vertex) /\ DOMAIN h.vertex = DOMAIN g.vertex /\ h.vertex[u] = r
      /\ \A v \in DOMAIN g.vertex : v # u => h.vertex[v] = g.vertex[v]
  <2>1. h.vertex = [g.vertex EXCEPT ![u] = r]
    BY <1>2 DEF r
  <2> QED
    BY <1>1, <1>3, <1>4, <2>1
<1> DEFINE S(f, o) == {v \in DOMAIN f.vertex : f.vertex[v].op = o}
<1>6. S(h, "INPUT") = S(g, "INPUT")
  BY <1>4, <1>5
<1>7. S(h, "OUTPUT") = S(g, "OUTPUT") \cup {u} /\ u \notin S(g, "OUTPUT")
  BY <1>1, <1>4, <1>5
<1>8. IsFiniteSet(S(g, "OUTPUT"))
  <2>1. IsFiniteSet(1..Len(g.vertex))
    BY GraphParts, FS_Interval
  <2>2. S(g, "OUTPUT") \in SUBSET (1..Len(g.vertex))
    BY GraphParts
  <2> QED
    BY <2>1, <2>2, FS_Subset
<1>9. g.inputs = Cardinality(S(g, "INPUT")) /\ g.outputs = Cardinality(S(g, "OUTPUT"))
  BY DEF IsGraph, Count
<1>10. h.inputs = Cardinality(S(h, "INPUT")) /\ h.outputs = Cardinality(S(h, "OUTPUT"))
  <2> HIDE DEF S
  <2> QED
    BY <1>2, <1>6, <1>7, <1>8, <1>9, FS_AddElement
<1>11. h.inputs \in Nat /\ h.outputs \in Nat
  BY <1>2, GraphParts
<1>12. h \in [vertex : Seq(Vertex), edge : Seq(Nat \X Nat),
              inputs : Nat, outputs : Nat, failed : BOOLEAN]
  BY <1>2, <1>5, <1>11, GraphParts
<1>13. \A e \in DOMAIN h.edge : h.edge[e] \in (DOMAIN h.vertex) \X (DOMAIN h.vertex)
  BY <1>2, <1>5 DEF IsGraph
<1>14. IsGraph(h)
  BY <1>10, <1>12, <1>13 DEF IsGraph, Count
<1> QED
  BY <1>1, <1>2, <1>4, <1>5, <1>14

(***************************************************************************)
(* An edge of a constant is moved to a vertex of its own.                  *)
(***************************************************************************)
Split(g, v, d, n) == [g EXCEPT !.vertex = Append(@, @[v]), !.edge[d][1] = n]

LEMMA EdgeSplit ==
  ASSUME NEW g, IsGraph(g), NEW v \in DOMAIN g.vertex, g.vertex[v].op = "CONSTANT",
         NEW d \in DOMAIN g.edge, NEW n, n = Len(g.vertex) + 1, NEW h,
         h = Split(g, v, d, n)
  PROVE  /\ IsGraph(h) /\ n \notin DOMAIN g.vertex
         /\ DOMAIN h.vertex = (DOMAIN g.vertex) \cup {n} /\ Len(h.vertex) = n
         /\ h.vertex[n] = g.vertex[v] /\ \A w \in DOMAIN g.vertex : h.vertex[w] = g.vertex[w]
         /\ DOMAIN h.edge = DOMAIN g.edge /\ h.edge[d][1] = n /\ h.edge[d][2] = g.edge[d][2]
         /\ \A e \in DOMAIN g.edge : e # d => h.edge[e] = g.edge[e]
<1>1. /\ h.vertex = Append(g.vertex, g.vertex[v])
      /\ h.edge = [g.edge EXCEPT ![d] = [g.edge[d] EXCEPT ![1] = n]]
      /\ h.inputs = g.inputs /\ h.outputs = g.outputs /\ h.failed = g.failed
      /\ h = [vertex |-> h.vertex, edge |-> h.edge, inputs |-> h.inputs,
              outputs |-> h.outputs, failed |-> h.failed]
  BY DEF IsGraph, Split
<1>2. g.vertex[v] \in Vertex
  <2>1. g.vertex \in Seq(Vertex)
    BY GraphParts
  <2> QED
    BY <2>1
<1>3. /\ h.vertex \in Seq(Vertex) /\ Len(h.vertex) = n
      /\ DOMAIN h.vertex = (DOMAIN g.vertex) \cup {n} /\ n \notin DOMAIN g.vertex
      /\ h.vertex[n] = g.vertex[v] /\ \A w \in DOMAIN g.vertex : h.vertex[w] = g.vertex[w]
      /\ \A o \in OpType : Count(h, o) = Count(g, o) + (IF g.vertex[v].op = o THEN 1 ELSE 0)
  <2>1. g.vertex[v] \in Vertex /\ Longer(g, h, g.vertex[v])
    BY <1>1, <1>2 DEF Longer
  <2> QED
    BY ONLY <2>1, IsGraph(g), n = Len(g.vertex) + 1, VertexAppended
<1>4. /\ h.inputs = Count(h, "INPUT")
      /\ h.outputs = Count(h, "OUTPUT")
  <2>1. "INPUT" \in OpType /\ "OUTPUT" \in OpType
    BY DEF OpType
  <2>2. /\ g.inputs = Count(g, "INPUT")
        /\ g.outputs = Count(g, "OUTPUT")
    BY DEF IsGraph
  <2>3. g.inputs \in Nat /\ g.outputs \in Nat
    BY GraphParts
  <2> QED
    BY <1>1, <1>3, <2>1, <2>2, <2>3
<1> DEFINE r == <<n, g.edge[d][2]>>
<1>5. g.edge[d] = <<g.edge[d][1], g.edge[d][2]>> /\ g.edge[d][1] \in Nat /\ g.edge[d][2] \in DOMAIN g.vertex
  BY GraphParts
<1>6. [g.edge[d] EXCEPT ![1] = n] = r
  BY <1>5
<1>7. r \in Nat \X Nat /\ r[1] = n /\ r[2] = g.edge[d][2]
  <2>1. Len(g.vertex) \in Nat /\ DOMAIN g.vertex = 1..Len(g.vertex)
    BY GraphParts
  <2>2. n \in Nat /\ g.edge[d][2] \in Nat
    BY <1>5, <2>1
  <2> QED
    BY <2>2
<1> HIDE DEF r
<1>8. /\ h.edge \in Seq(Nat \X Nat) /\ DOMAIN h.edge = DOMAIN g.edge /\ h.edge[d] = r
      /\ \A e \in DOMAIN g.edge : e # d => h.edge[e] = g.edge[e]
  <2> DEFINE V == Nat \X Nat
  <2>1. g.edge \in Seq(V) /\ r \in V
    BY <1>7, GraphParts
  <2> HIDE DEF V
  <2>2. h.edge = [g.edge EXCEPT ![d] = r]
    BY <1>1, <1>6
  <2>3. h.edge \in Seq(V)
    BY <2>1, <2>2
  <2>4. /\ DOMAIN h.edge = DOMAIN g.edge /\ h.edge[d] = r
        /\ \A e \in DOMAIN g.edge : e # d => h.edge[e] = g.edge[e]
    BY <2>2
  <2> QED
    BY <2>3, <2>4 DEF V
<1>9. \A e \in DOMAIN h.edge : h.edge[e] \in (DOMAIN h.vertex) \X (DOMAIN h.vertex)
  <2>1. \A e \in DOMAIN g.edge : g.edge[e] \in (DOMAIN g.vertex) \X (DOMAIN g.vertex)
    BY DEF IsGraph
  <2>2. h.edge[d] \in (DOMAIN h.vertex) \X (DOMAIN h.vertex)
    <3>1. n \in DOMAIN h.vertex /\ g.edge[d][2] \in DOMAIN h.vertex
      BY <1>3, <1>5
    <3>2. h.edge[d] = <<n, g.edge[d][2]>>
      BY <1>8 DEF r
    <3>3. <<n, g.edge[d][2]>> \in (DOMAIN h.vertex) \X (DOMAIN h.vertex)
      BY ONLY <3>1
    <3> QED
      BY ONLY <3>2, <3>3
  <2> HIDE DEF r
  <2>3. ASSUME NEW e \in DOMAIN h.edge, e # d PROVE h.edge[e] \in (DOMAIN h.vertex) \X (DOMAIN h.vertex)
    <3>1. g.edge[e] \in (DOMAIN g.vertex) \X (DOMAIN g.vertex) /\ h.edge[e] = g.edge[e]
      BY <1>8, <2>1, <2>3
    <3> QED
      BY <1>3, <3>1
  <2> QED
    BY <2>2, <2>3
<1>10. h \in [vertex : Seq(Vertex), edge : Seq(Nat \X Nat),
              inputs : Nat, outputs : Nat, failed : BOOLEAN]
  BY <1>1, <1>3, <1>8, GraphParts
<1>11. IsGraph(h)
  BY <1>4, <1>9, <1>10 DEF IsGraph
<1> QED
  BY <1>3, <1>8, <1>11 DEF r

(***************************************************************************)
(* Sets of edges are finite.                                               *)
(***************************************************************************)
LEMMA EdgesFinite ==
  ASSUME NEW g, IsGraph(g), NEW S \in SUBSET DOMAIN g.edge
  PROVE  IsFiniteSet(S) /\ Cardinality(S) \in Nat
<1>1. Len(g.edge) \in Nat /\ DOMAIN g.edge = 1..Len(g.edge)
  BY GraphParts
<1>2. IsFiniteSet(DOMAIN g.edge)
  BY <1>1, FS_Interval
<1> QED
  <2>1. IsFiniteSet(S)
    BY <1>2, FS_Subset
  <2> QED
    BY <2>1, FS_CardinalityType

(***************************************************************************)
(* Without a new edge, uses stay, as long as values do.                    *)
(***************************************************************************)
LEMMA UsesStay ==
  ASSUME NEW g, IsGraph(g), NEW h, DOMAIN h.edge = DOMAIN g.edge,
         \A e \in DOMAIN g.edge : /\ h.edge[e][2] = g.edge[e][2]
                                  /\ h.vertex[h.edge[e][1]].value = g.vertex[g.edge[e][1]].value
  PROVE  \A v, x : Uses(h, v, x) = Uses(g, v, x)
<1> SUFFICES ASSUME NEW v, NEW x PROVE Uses(h, v, x) = Uses(g, v, x)
  OBVIOUS
<1>1. {e \in Into(h, v) : h.vertex[h.edge[e][1]].value = x}
        = {e \in Into(g, v) : g.vertex[g.edge[e][1]].value = x}
  <2>1. Into(h, v) = Into(g, v) /\ Into(g, v) \subseteq DOMAIN g.edge
    BY DEF Into
  <2>2. \A e \in Into(g, v) : h.vertex[h.edge[e][1]].value = g.vertex[g.edge[e][1]].value
    BY <2>1
  <2> QED
    BY ONLY <2>1, <2>2, Zenon
<1> QED
  BY <1>1 DEF Uses

(***************************************************************************)
(* A new edge is one more use of its source by its target.                 *)
(***************************************************************************)
LEMMA OneMoreUse ==
  ASSUME NEW g, IsGraph(g), NEW x, NEW y, Known(g, x), Known(g, y),
         NEW h, h = addEdge(g, x, y), NEW v, NEW z
  PROVE  /\ Uses(g, v, z) \in Nat
         /\ Uses(h, v, z) = Uses(g, v, z)
                              + (IF v = getVertex(g, y) /\ z = x THEN 1 ELSE 0)
<1> DEFINE n == Len(g.edge) + 1
           S == {e \in Into(g, v) : g.vertex[g.edge[e][1]].value = z}
           T == {e \in Into(h, v) : h.vertex[h.edge[e][1]].value = z}
<1>1. /\ h.vertex = g.vertex
      /\ DOMAIN h.edge = (DOMAIN g.edge) \cup {n} /\ n \notin DOMAIN g.edge
      /\ h.edge[n][1] = getVertex(g, x) /\ h.edge[n][2] = getVertex(g, y)
      /\ \A e \in DOMAIN g.edge : h.edge[e] = g.edge[e]
  BY EdgeAdded
<1> HIDE DEF n
<1>2. g.vertex[getVertex(g, x)].value = x
  BY VertexFound
<1>3. n \in T <=> v = getVertex(g, y) /\ z = x
  BY <1>1, <1>2 DEF Into
<1>4. T \ {n} = S /\ n \notin S
  BY <1>1 DEF Into
<1>5. IsFiniteSet(S) /\ Cardinality(S) \in Nat
  BY EdgesFinite DEF Into
<1> HIDE DEF S, T
<1>6. (n \in T => T = S \cup {n}) /\ (n \notin T => T = S)
  BY <1>4
<1>7. Cardinality(T) = Cardinality(S) + (IF v = getVertex(g, y) /\ z = x THEN 1 ELSE 0)
  <2>1. n \notin S
    BY <1>4
  <2>2. Cardinality(S \cup {n}) = Cardinality(S) + 1
    BY <1>5, <2>1, FS_AddElement
  <2>3. CASE n \in T
    <3>1. Cardinality(T) = Cardinality(S) + 1
      BY <1>6, <2>2, <2>3
    <3> QED
      BY <1>3, <2>3, <3>1
  <2>4. CASE n \notin T
    <3>1. Cardinality(T) = Cardinality(S) + 0
      BY <1>5, <1>6, <2>4
    <3> QED
      BY <1>3, <2>4, <3>1
  <2> QED
    BY <2>3, <2>4
<1> QED
  BY <1>5, <1>7, Zenon DEF S, T, Uses

(***************************************************************************)
(* A value is a class and a number.                                        *)
(***************************************************************************)
LEMMA ValueParts ==
  ASSUME NEW x \in Value
  PROVE  x = <<x[1], x[2]>> /\ x[1] \in Classes /\ x[2] \in Nat
  BY DEF Value

(***************************************************************************)
(* What a block is made of.                                                *)
(***************************************************************************)
LEMMA BlockParts ==
  ASSUME BuildTypeOK
  PROVE  /\ Len(block.insts) \in Nat \ {0} /\ DOMAIN block.insts = 1..Len(block.insts)
         /\ \A k \in DOMAIN block.insts :
              /\ Inst(k).kind \in Kinds
              /\ Len(Inst(k).ops) \in Nat /\ DOMAIN Inst(k).ops = 1..Len(Inst(k).ops)
              /\ \A j \in DOMAIN Inst(k).ops : Inst(k).ops[j] \in Value
              /\ Inst(k).kind = "terminator" <=> k = Len(block.insts)
         /\ Plain \subseteq 1..(Len(block.insts) - 1) /\ Plain \subseteq DOMAIN block.insts
         /\ \A k \in Plain : 1 \in DOMAIN Inst(k).ops
         /\ \A k \in Plain : \A x \in OperandsOf(Inst(k).ops) : x[1] = "here" => x[2] \in 1..(k - 1)
         /\ \A k \in Plain, j \in DOMAIN block.insts : Inst(j).kind = "phi" => j < k
<1> DEFINE I == [kind : Kinds, ops : Seq(Value)]
           s == block.insts
<1>1. IsBlock(block)
  BY BlocksAssumption DEF BuildTypeOK
<1>2. s \in Seq(I) /\ s # <<>>
  BY <1>1 DEF IsBlock
<1>3. \A i \in I : /\ i.kind \in Kinds /\ Len(i.ops) \in Nat /\ DOMAIN i.ops = 1..Len(i.ops)
                   /\ \A j \in DOMAIN i.ops : i.ops[j] \in Value
                   /\ i.ops # <<>> => 1 \in DOMAIN i.ops
  <2>1. \A i \in I : i.kind \in Kinds /\ i.ops \in Seq(Value)
    OBVIOUS
  <2> HIDE DEF I
  <2> QED
    BY <2>1, EmptySeq
<1>4. Len(s) \in Nat \ {0} /\ DOMAIN s = 1..Len(s) /\ \A k \in DOMAIN s : s[k] \in I
  <2> HIDE DEF I
  <2> QED
    BY <1>2, EmptySeq
<1> HIDE DEF I
<1>5. \A k \in DOMAIN s :
        /\ Inst(k).kind = "terminator" <=> k = Len(s)
        /\ Inst(k).kind \in {"store", "other"} =>
             Inst(k).ops # <<>>
             /\ \A x \in OperandsOf(Inst(k).ops) : x[1] = "here" => x[2] \in 1..(k - 1)
        /\ Inst(k).kind = "phi" => \A l \in 1..k : Inst(l).kind = "phi"
  BY <1>1 DEF IsBlock, Inst
<1>6. \A k \in DOMAIN s :
        /\ Inst(k).kind \in Kinds
        /\ Len(Inst(k).ops) \in Nat /\ DOMAIN Inst(k).ops = 1..Len(Inst(k).ops)
        /\ \A j \in DOMAIN Inst(k).ops : Inst(k).ops[j] \in Value
        /\ Inst(k).ops # <<>> => 1 \in DOMAIN Inst(k).ops
  BY <1>3, <1>4 DEF Inst
<1>7. Plain \subseteq DOMAIN s /\ \A k \in Plain : Inst(k).kind \in {"store", "other"}
  BY DEF Plain
<1>8. \A k \in Plain : k # Len(s)
  BY <1>5, <1>7
<1>9. Plain \subseteq 1..(Len(s) - 1)
  BY <1>4, <1>7, <1>8
<1>10. \A k \in Plain, j \in DOMAIN s : Inst(j).kind = "phi" => j < k
  BY <1>4, <1>5, <1>7
<1> QED
  BY <1>4, <1>5, <1>6, <1>7, <1>9, <1>10

(***************************************************************************)
(* The type of a vertex tells the class of its value, and vertices with    *)
(* one value have one type.                                                *)
(***************************************************************************)
LEMMA TypesOfValues ==
  ASSUME BuildTypeOK, VertexInv
  PROVE  /\ \A v \in DOMAIN graph.vertex : TypeOf(v) = "CONSTANT" <=> ValueOf(v)[1] = "constant"
         /\ \A v, w \in DOMAIN graph.vertex : ValueOf(v) = ValueOf(w) =>
              TypeOf(v) = TypeOf(w) /\ (v = w \/ TypeOf(v) = "CONSTANT")
<1>1. \A v \in DOMAIN graph.vertex : ValueOf(v)[1] \in Classes /\ TypeFits(ValueOf(v), TypeOf(v))
  BY GraphParts, ValueParts DEF BuildTypeOK, VertexInv, ValueOf
<1>2. \A v \in DOMAIN graph.vertex : TypeOf(v) = "CONSTANT" <=> ValueOf(v)[1] = "constant"
  BY <1>1 DEF TypeFits, Classes
<1>3. \A v, w \in DOMAIN graph.vertex : ValueOf(v) = ValueOf(w) => v = w \/ ValueOf(v)[1] = "constant"
  BY DEF VertexInv
<1> QED
  BY <1>2, <1>3

(***************************************************************************)
(* While the graph of the block is built there is no pattern.              *)
(***************************************************************************)
LEMMA NoPattern ==
  ASSUME PatternInv, ~Matching, ~Matching', UNCHANGED matching
  PROVE  PatternInv' /\ sub' = Empty /\ bv' = {} /\ rest' = {}
<1>1. sub' = Empty /\ bv' = {} /\ rest' = {}
  BY DEF PatternInv, ScanInv, matching
<1> QED
  BY <1>1 DEF PatternInv, ScanInv, SubInv, CopyInv, NoEdgeInv, Matching, Joining

(***************************************************************************)
(* The empty graph is one.                                                 *)
(***************************************************************************)
LEMMA EmptyIsGraph == IsGraph(Empty)
<1>1. Empty.vertex = <<>> /\ Empty.edge = <<>> /\ Empty.inputs = 0 /\ Empty.outputs = 0
      /\ Empty.failed = FALSE
  BY DEF Empty
<1>2. Empty \in [vertex : Seq(Vertex), edge : Seq(Nat \X Nat),
                 inputs : Nat, outputs : Nat, failed : BOOLEAN]
  BY DEF Empty
<1>3. DOMAIN Empty.vertex = {} /\ DOMAIN Empty.edge = {}
  BY <1>1
<1>4. Count(Empty, "INPUT") = 0 /\ Count(Empty, "OUTPUT") = 0
  BY <1>3, FS_EmptySet DEF Count
<1> QED
  BY <1>1, <1>2, <1>3, <1>4 DEF IsGraph

(***************************************************************************)
(* It holds of the start.                                                  *)
(***************************************************************************)
LEMMA BuildStarts ==
  ASSUME BuildInit
  PROVE  BuildInv
<1> USE DEF BuildInit
<1>1. BuildTypeOK
  BY EmptyIsGraph DEF BuildTypeOK, OpType
<1>2. DOMAIN graph.vertex = {} /\ DOMAIN graph.edge = {}
  BY DEF Empty
<1>3. LoopInv
  BY <1>1, BlockParts DEF LoopInv
<1>4. Visited = {}
  BY DEF Visited
<1>5. VertexInv /\ EdgeInv /\ ConstantInv /\ ForcedInv /\ UsesInv
  BY <1>2, <1>4 DEF VertexInv, EdgeInv, ConstantInv, ForcedInv, UsesInv
<1>6. PatternInv
  BY DEF PatternInv, ScanInv, SubInv, CopyInv, NoEdgeInv, Matching, Joining
<1> QED
  BY <1>1, <1>3, <1>5, <1>6 DEF BuildInv, WholeInv

(***************************************************************************)
(* An instruction's vertex changes nothing for the others.                 *)
(***************************************************************************)
LEMMA InstructionAdded ==
  ASSUME BuildTypeOK, VertexInv, EdgeInv, Building, UNCHANGED block,
         NEW x \in Value, NEW t \in OpType, ~Known(graph, x), graph' = addNode(graph, x, t),
         NEW n, n = Len(graph.vertex) + 1
  PROVE  /\ IsGraph(graph') /\ EdgeInv' /\ DOMAIN graph'.edge = DOMAIN graph.edge
         /\ DOMAIN graph'.vertex = (DOMAIN graph.vertex) \cup {n}
         /\ Known(graph', x) /\ \A y : Known(graph, y) => Known(graph', y)
         /\ ValueOf(n)' = x /\ TypeOf(n)' = t
         /\ \A v \in DOMAIN graph.vertex : ValueOf(v)' = ValueOf(v) /\ TypeOf(v)' = TypeOf(v)
                                           /\ From(graph', v) = From(graph, v)
         /\ \A v, w \in DOMAIN graph'.vertex : v # w => ValueOf(v)' # ValueOf(w)'
         /\ \A v, z : Uses(graph', v, z) = Uses(graph, v, z)
         /\ Into(graph', n) = {}
         /\ Plain' = Plain /\ \A k : Inst(k)' = Inst(k) /\ NeededAfter(k)' = NeededAfter(k)
<1>1. /\ IsGraph(graph')
      /\ DOMAIN graph'.vertex = (DOMAIN graph.vertex) \cup {n} /\ n \notin DOMAIN graph.vertex
      /\ graph'.vertex[n].value = x /\ graph'.vertex[n].op = t
      /\ \A v \in DOMAIN graph.vertex : graph'.vertex[v] = graph.vertex[v]
      /\ graph'.edge = graph.edge
  BY NodeAdded DEF BuildTypeOK
<1>2. \A v \in DOMAIN graph.vertex : ValueOf(v)' = ValueOf(v) /\ TypeOf(v)' = TypeOf(v)
                                     /\ From(graph', v) = From(graph, v)
  BY <1>1 DEF ValueOf, TypeOf, From
<1>3. ValueOf(n)' = x /\ TypeOf(n)' = t
  BY <1>1 DEF ValueOf, TypeOf
<1>4. Known(graph', x) /\ \A y : Known(graph, y) => Known(graph', y)
  BY <1>1 DEF Known, VerticesOf
<1>5. \A v, w \in DOMAIN graph'.vertex : v # w => ValueOf(v)' # ValueOf(w)'
  <2>1. \A v \in DOMAIN graph.vertex : ValueOf(v) # x
    BY DEF Known, VerticesOf, ValueOf
  <2>2. \A v, w \in DOMAIN graph.vertex : v # w => ValueOf(v) # ValueOf(w)
    BY DEF VertexInv
  <2> QED
    BY <1>1, <1>2, <1>3, <2>1, <2>2
<1>6. Plain' = Plain /\ \A k : Inst(k)' = Inst(k) /\ NeededAfter(k)' = NeededAfter(k)
  BY DEF Plain, Inst, NeededAfter
<1>7. IsGraph(graph) /\ \A e \in DOMAIN graph.edge : /\ graph.edge[e][1] \in DOMAIN graph.vertex
                                                     /\ graph.edge[e][2] \in DOMAIN graph.vertex
  BY GraphParts DEF BuildTypeOK
<1>8. EdgeInv'
  <2>1. \A e \in DOMAIN graph.edge : Source(e) \in DOMAIN graph.vertex /\ Target(e) \in DOMAIN graph.vertex
                                     /\ Source(e)' = Source(e) /\ Target(e)' = Target(e)
    BY <1>1, <1>7 DEF Source, Target
  <2> QED
    BY <1>1, <1>2, <1>6, <2>1 DEF EdgeInv
<1>9. \A v, z : Uses(graph', v, z) = Uses(graph, v, z)
  <2>1. \A e \in DOMAIN graph.edge :
          /\ graph'.edge[e][2] = graph.edge[e][2]
          /\ graph'.vertex[graph'.edge[e][1]].value = graph.vertex[graph.edge[e][1]].value
    BY <1>1, <1>7
  <2>2. DOMAIN graph'.edge = DOMAIN graph.edge
    BY <1>1
  <2> QED
    BY <1>7, <2>1, <2>2, UsesStay
<1>10. Into(graph', n) = {}
  BY <1>1, <1>7 DEF Into
<1> QED
  BY <1>1, <1>2, <1>3, <1>4, <1>5, <1>6, <1>8, <1>9, <1>10

(***************************************************************************)
(* The steps that build the graph of the block keep what is said of it.    *)
(***************************************************************************)
LEMMA PhiKeeps ==
  ASSUME BuildTypeOK, WholeInv, PatternInv, Phi
  PROVE  BuildTypeOK' /\ WholeInv' /\ PatternInv'
<1> USE DEF WholeInv
<1> DEFINE x == <<"here", pos>>
<1>1. pc = "block" /\ pc' = "block" /\ Inst(pos).kind = "phi" /\ pos' = pos + 1
      /\ graph' = addNode(graph, x, "INPUT")
      /\ UNCHANGED <<block, splits, nth, last, matching>>
  BY DEF Phi
<1>2. pos \in DOMAIN block.insts /\ pos \in Nat /\ pos' \in DOMAIN block.insts /\ pos \notin Plain
  BY <1>1, BlockParts DEF LoopInv, Building, Plain
<1>3. Visited = 1..(pos - 1) /\ Visited' = Visited \cup {pos} /\ pos \notin Visited
  BY <1>1, <1>2, BlockParts DEF Visited
<1>4. x \in Value /\ x[1] = "here" /\ x[2] = pos /\ "INPUT" \in OpType
  BY <1>2 DEF Value, Classes, OpType
<1> HIDE DEF x
<1>5. ~Known(graph, x)
  BY <1>3, <1>4 DEF VertexInv, TypeFits, Known, VerticesOf, ValueOf
<1>. PICK n : n = Len(graph.vertex) + 1
  OBVIOUS
<1>6. /\ IsGraph(graph') /\ EdgeInv' /\ DOMAIN graph'.edge = DOMAIN graph.edge
      /\ DOMAIN graph'.vertex = (DOMAIN graph.vertex) \cup {n}
      /\ Known(graph', x) /\ \A y : Known(graph, y) => Known(graph', y)
      /\ ValueOf(n)' = x /\ TypeOf(n)' = "INPUT"
      /\ \A v \in DOMAIN graph.vertex : ValueOf(v)' = ValueOf(v) /\ TypeOf(v)' = TypeOf(v)
                                        /\ From(graph', v) = From(graph, v)
      /\ \A v, w \in DOMAIN graph'.vertex : v # w => ValueOf(v)' # ValueOf(w)'
      /\ \A v, z : Uses(graph', v, z) = Uses(graph, v, z)
      /\ Plain' = Plain /\ \A k : Inst(k)' = Inst(k) /\ NeededAfter(k)' = NeededAfter(k)
  BY <1>1, <1>4, <1>5, InstructionAdded DEF Building
<1>7. PatternInv' /\ sub' = sub /\ bv' = {} /\ rest' = {}
  BY <1>1, NoPattern DEF Matching, matching
<1>8. BuildTypeOK'
  <2>1. \A z \in OperandsOf(Inst(pos).ops) : z \in Value
    BY <1>2, BlockParts DEF OperandsOf
  <2>2. forcedOutputs' = forcedOutputs \cup {z \in OperandsOf(Inst(pos).ops) : z[1] = "here"}
    BY DEF Phi
  <2>3. forcedOutputs' \subseteq {"here"} \X Nat
    BY <2>1, <2>2 DEF BuildTypeOK, Value
  <2> QED
    BY <1>1, <1>2, <1>6, <1>7, <2>3 DEF BuildTypeOK, matching
<1>9. LoopInv'
  BY <1>1, <1>2 DEF LoopInv
<1>10. VertexInv'
  <2>1. \A v \in DOMAIN graph.vertex : TypeFits(ValueOf(v), TypeOf(v))'
    BY <1>3, <1>6 DEF TypeFits, VertexInv
  <2>2. TypeFits(ValueOf(n), TypeOf(n))'
    BY <1>2, <1>3, <1>4, <1>6 DEF TypeFits
  <2>3. \A k \in Visited' : Known(graph', <<"here", k>>)
    BY <1>3, <1>6 DEF VertexInv, x
  <2> QED
    BY <1>6, <2>1, <2>2, <2>3 DEF VertexInv
<1>11. ConstantInv'
  <2>1. Building'
    BY <1>1 DEF Building
  <2> QED
    BY <1>6, <2>1 DEF ConstantInv
<1>12. ForcedInv'
  <2>1. \A k \in DOMAIN block.insts : <<"here", k>> \in forcedOutputs'
          <=> <<"here", k>> \in forcedOutputs \/ <<"here", k>> \in OperandsOf(Inst(pos).ops)
    BY DEF Phi
  <2>2. \A k \in DOMAIN block.insts \ Visited :
          <<"here", k>> \in forcedOutputs <=>
            \E j \in Visited : Inst(j).kind = "phi" /\ <<"here", k>> \in OperandsOf(Inst(j).ops)
    BY <1>1 DEF ForcedInv
  <2> QED
    BY <1>1, <1>3, <1>6, <2>1, <2>2 DEF ForcedInv
<1>13. UsesInv'
  <2>1. \A v \in DOMAIN graph'.vertex : ValueOf(v)'[1] = "here" /\ ValueOf(v)'[2] \in Plain =>
          v \in DOMAIN graph.vertex
    BY <1>2, <1>4, <1>6
  <2>2. \A k, z : Times(k, z)' = Times(k, z)
    BY <1>1, <1>6 DEF Listed, Times
  <2>3. \A v \in DOMAIN graph.vertex : ValueOf(v)[1] = "here" /\ ValueOf(v)[2] \in Plain =>
          \A z \in OperandsOf(Inst(ValueOf(v)[2]).ops) : Uses(graph, v, z) = Times(ValueOf(v)[2], z)
    BY <1>1 DEF UsesInv
  <2> QED
    BY <1>6, <2>1, <2>2, <2>3 DEF UsesInv
<1> QED
  BY <1>6, <1>7, <1>8, <1>9, <1>10, <1>11, <1>12, <1>13

(***************************************************************************)
(* A new vertex for an instruction has no uses yet, and the type the whole *)
(* block justifies: the phis are behind it (ForcedInv).                    *)
(***************************************************************************)
LEMMA AddInstructionKeeps ==
  ASSUME BuildTypeOK, WholeInv, PatternInv, AddInstruction
  PROVE  BuildTypeOK' /\ WholeInv' /\ PatternInv'
<1> USE DEF WholeInv
<1> DEFINE x == <<"here", pos>>
           t == IF x \in forcedOutputs \/ isOutput(pos) THEN "OUTPUT" ELSE "OPERATOR"
<1>1. pc = "block" /\ pc' = "operands" /\ pos \in Plain /\ pos' = pos /\ nth' = 1
      /\ graph' = addNode(graph, x, t) /\ forcedOutputs' = forcedOutputs \ {x}
      /\ UNCHANGED <<block, splits, last, matching>>
  BY DEF AddInstruction
<1>2. pos \in DOMAIN block.insts /\ pos \in Nat /\ Len(Inst(pos).ops) \in Nat
      /\ pos \in 1..(Len(block.insts) - 1)
  BY <1>1, BlockParts
<1>3. Visited = 1..(pos - 1) /\ Visited' = Visited \cup {pos} /\ pos \notin Visited
  BY <1>1, <1>2, BlockParts DEF Visited
<1>4. x \in Value /\ x[1] = "here" /\ x[2] = pos /\ t \in OpType
  BY <1>2 DEF Value, Classes, OpType
<1>5. \A k \in DOMAIN block.insts \ Visited :
        <<"here", k>> \in forcedOutputs <=>
          \E j \in Visited : Inst(j).kind = "phi" /\ <<"here", k>> \in OperandsOf(Inst(j).ops)
  BY <1>1 DEF ForcedInv
<1>6. t = IF NeededAfter(pos) THEN "OUTPUT" ELSE "OPERATOR"
  <2>1. x \in forcedOutputs <=>
          \E j \in Visited : Inst(j).kind = "phi" /\ x \in OperandsOf(Inst(j).ops)
    BY <1>2, <1>3, <1>5
  <2>2. \A j \in DOMAIN block.insts : Inst(j).kind = "phi" => j \in Visited
    BY <1>1, <1>3, BlockParts
  <2>3. Visited \subseteq DOMAIN block.insts
    BY <1>2, <1>3, BlockParts
  <2>4. Len(block.insts) \in DOMAIN block.insts
        /\ \A j \in DOMAIN block.insts : Inst(j).kind = "terminator" <=> j = Len(block.insts)
    BY BlockParts
  <2>5. x \in OperandsOf(Terminator.ops) <=>
          \E j \in DOMAIN block.insts : Inst(j).kind = "terminator" /\ x \in OperandsOf(Inst(j).ops)
    BY <2>4 DEF Terminator
  <2>6. NeededAfter(pos) <=> x \in forcedOutputs \/ isOutput(pos)
    BY <2>1, <2>2, <2>3, <2>5 DEF NeededAfter, isOutput
  <2> QED
    BY <2>6
<1> HIDE DEF x, t
<1>7. ~Known(graph, x)
  BY <1>3, <1>4 DEF VertexInv, TypeFits, Known, VerticesOf, ValueOf
<1>. PICK n : n = Len(graph.vertex) + 1
  OBVIOUS
<1>8. /\ IsGraph(graph') /\ EdgeInv' /\ DOMAIN graph'.edge = DOMAIN graph.edge
      /\ DOMAIN graph'.vertex = (DOMAIN graph.vertex) \cup {n}
      /\ Known(graph', x) /\ \A y : Known(graph, y) => Known(graph', y)
      /\ ValueOf(n)' = x /\ TypeOf(n)' = t
      /\ \A v \in DOMAIN graph.vertex : ValueOf(v)' = ValueOf(v) /\ TypeOf(v)' = TypeOf(v)
                                        /\ From(graph', v) = From(graph, v)
      /\ \A v, w \in DOMAIN graph'.vertex : v # w => ValueOf(v)' # ValueOf(w)'
      /\ \A v, z : Uses(graph', v, z) = Uses(graph, v, z)
      /\ Into(graph', n) = {}
      /\ Plain' = Plain /\ \A k : Inst(k)' = Inst(k) /\ NeededAfter(k)' = NeededAfter(k)
  BY <1>1, <1>4, <1>7, InstructionAdded DEF Building
<1>9. PatternInv' /\ sub' = sub /\ bv' = {} /\ rest' = {}
  BY <1>1, NoPattern DEF Matching, matching
<1>10. BuildTypeOK'
  BY <1>1, <1>2, <1>8, <1>9 DEF BuildTypeOK, matching
<1>11. LoopInv'
  BY <1>1, <1>2, <1>8 DEF LoopInv
<1>12. VertexInv'
  <2>1. \A v \in DOMAIN graph.vertex : TypeFits(ValueOf(v), TypeOf(v))'
    BY <1>3, <1>8 DEF TypeFits, VertexInv
  <2>2. TypeFits(ValueOf(n), TypeOf(n))'
    BY <1>1, <1>3, <1>4, <1>6, <1>8 DEF TypeFits
  <2>3. \A k \in Visited' : Known(graph', <<"here", k>>)
    BY <1>3, <1>8 DEF VertexInv, x
  <2> QED
    BY <1>8, <2>1, <2>2, <2>3 DEF VertexInv
<1>13. ConstantInv'
  <2>1. Building'
    BY <1>1 DEF Building
  <2>2. t # "CONSTANT"
    BY DEF t
  <2> QED
    BY <1>8, <2>1, <2>2 DEF ConstantInv
<1>14. ForcedInv'
  <2>1. \A k \in DOMAIN block.insts \ Visited' : <<"here", k>> \in forcedOutputs'
          <=> <<"here", k>> \in forcedOutputs
    BY <1>1, <1>3, <1>4
  <2>2. Inst(pos).kind # "phi"
    BY <1>1 DEF Plain
  <2> QED
    BY <1>1, <1>3, <1>5, <1>8, <2>1, <2>2 DEF ForcedInv
<1>15. UsesInv'
  <2>1. \A v \in DOMAIN graph.vertex : ValueOf(v)[1] = "here" => ValueOf(v)[2] # pos
    BY <1>3 DEF VertexInv, TypeFits
  <2>2. \A k, z : k # pos => Times(k, z)' = Times(k, z)
    BY <1>1, <1>8 DEF Listed, Times
  <2>3. \A z : Times(pos, z)' = 0
    <3>1. Listed(pos)' = {}
      BY <1>1, <1>8 DEF Listed
    <3> QED
      BY <1>1, <3>1, FS_EmptySet DEF Times
  <2>4. \A v \in DOMAIN graph.vertex : ValueOf(v)[1] = "here" /\ ValueOf(v)[2] \in Plain =>
          \A z \in OperandsOf(Inst(ValueOf(v)[2]).ops) : Uses(graph, v, z) = Times(ValueOf(v)[2], z)
    BY <1>1 DEF UsesInv
  <2>5. \A z : Uses(graph', n, z) = 0
    BY <1>8, FS_EmptySet DEF Uses
  <2> QED
    BY <1>1, <1>4, <1>8, <2>1, <2>2, <2>3, <2>4, <2>5 DEF UsesInv
<1> QED
  BY <1>8, <1>9, <1>10, <1>11, <1>12, <1>13, <1>14, <1>15

(***************************************************************************)
(* An operand that no vertex can have ends it.                             *)
(***************************************************************************)
LEMMA OperandFails ==
  ASSUME BuildTypeOK, WholeInv, PatternInv, AddOperand, Inst(pos).ops[nth][1] = "asm"
  PROVE  BuildTypeOK' /\ WholeInv' /\ PatternInv'
<1> USE DEF WholeInv
<1> DEFINE y == Inst(pos).ops[nth]
<1>1. pc = "operands" /\ pos' = pos /\ nth' = nth + 1 /\ graph' = addEdge(graph, y, <<"here", pos>>)
      /\ pc' = (IF graph'.failed THEN "failed" ELSE pc)
      /\ UNCHANGED <<block, splits, last, forcedOutputs, matching>>
  BY DEF AddOperand, WithOperand
<1>2. ~Known(graph, y)
  BY DEF VertexInv, TypeFits, Known, VerticesOf, ValueOf
<1>3. graph' = [graph EXCEPT !.failed = TRUE]
  BY <1>1, <1>2 DEF addEdge
<1>4. /\ graph'.vertex = graph.vertex /\ graph'.edge = graph.edge /\ graph'.failed = TRUE
      /\ IsGraph(graph')
  BY <1>3 DEF BuildTypeOK, IsGraph, Count
<1>5. pc' = "failed"
  BY <1>1, <1>4
<1>6. PatternInv' /\ sub' = sub /\ bv' = {} /\ rest' = {}
  BY <1>1, <1>5, NoPattern DEF Matching, matching
<1>7. BuildTypeOK'
  BY <1>1, <1>4, <1>5, <1>6 DEF BuildTypeOK, matching
<1>8. Plain' = Plain /\ \A k : Inst(k)' = Inst(k) /\ NeededAfter(k)' = NeededAfter(k)
  BY <1>1 DEF Plain, Inst, NeededAfter
<1>9. Visited' = Visited /\ Building /\ Building'
  BY <1>1, <1>5 DEF Visited, Building
<1>10. LoopInv'
  BY <1>1, <1>5, <1>8, <1>9 DEF LoopInv
<1>11. /\ \A v : ValueOf(v)' = ValueOf(v) /\ TypeOf(v)' = TypeOf(v) /\ From(graph', v) = From(graph, v)
       /\ \A x : Known(graph', x) = Known(graph, x)
       /\ \A e : Source(e)' = Source(e) /\ Target(e)' = Target(e)
  BY <1>4 DEF ValueOf, TypeOf, From, Known, VerticesOf, Source, Target
<1>12. VertexInv'
  BY <1>4, <1>8, <1>9, <1>11 DEF VertexInv, TypeFits
<1>13. EdgeInv' /\ ConstantInv'
  BY <1>4, <1>8, <1>9, <1>11 DEF EdgeInv, ConstantInv
<1>14. ForcedInv' /\ UsesInv'
  BY <1>5 DEF ForcedInv, UsesInv
<1> QED
  BY <1>6, <1>7, <1>10, <1>12, <1>13, <1>14

(***************************************************************************)
(* The vertex of any other operand is there, or comes behind the others.   *)
(***************************************************************************)
LEMMA OperandKnown ==
  ASSUME BuildTypeOK, LoopInv, VertexInv, pc = "operands", NEW y \in OperandsOf(Inst(pos).ops),
         y[1] # "asm", NEW x, x = <<"here", pos>>, NEW n, n = Len(graph.vertex) + 1, NEW g,
         g = IF y[1] \in {"elsewhere", "argument", "constant"}
             THEN addNode(graph, y, TypeOfOperand(y)) ELSE graph
  PROVE  /\ IsGraph(g) /\ Known(g, x) /\ Known(g, y)
         /\ y[1] = "here" => y[2] \in 1..(pos - 1)
         /\ g.edge = graph.edge /\ n \notin DOMAIN graph.vertex
         /\ \A v \in DOMAIN graph.vertex : g.vertex[v] = graph.vertex[v]
         /\ \/ DOMAIN g.vertex = DOMAIN graph.vertex
            \/ /\ DOMAIN g.vertex = (DOMAIN graph.vertex) \cup {n}
               /\ \A v \in DOMAIN graph.vertex : graph.vertex[v].value # y
               /\ g.vertex[n].value = y /\ g.vertex[n].op = TypeOfOperand(y)
               /\ y[1] \in {"elsewhere", "argument", "constant"}
<1>1. pos \in Plain /\ pos \in DOMAIN block.insts /\ pos \in Nat
  BY BlockParts DEF LoopInv, BuildTypeOK
<1>2. y \in Value /\ (y[1] = "here" => y[2] \in 1..(pos - 1))
  BY <1>1, BlockParts DEF OperandsOf
<1>3. y = <<y[1], y[2]>> /\ y[1] \in Classes
  BY <1>2, ValueParts
<1>4. \A k \in 1..pos : Known(graph, <<"here", k>>)
  <2>1. Visited = 1..pos
    BY DEF Visited
  <2>2. \A k \in Visited : Known(graph, <<"here", k>>)
    BY ONLY VertexInv DEF VertexInv
  <2> QED
    BY <1>1, <2>1, <2>2
<1>5. Known(graph, x)
  <2>1. pos \in 1..pos
    BY <1>1, BlockParts
  <2> QED
    BY <1>4, <2>1
<1>6. n \notin DOMAIN graph.vertex /\ IsGraph(graph)
  BY GraphParts DEF BuildTypeOK
<1>7. CASE y[1] = "here"
  <2>1. Known(graph, y)
    BY <1>1, <1>2, <1>3, <1>4, <1>7
  <2> QED
    BY <1>2, <1>5, <1>6, <1>7, <2>1
<1>8. CASE y[1] \in {"elsewhere", "argument", "constant"} /\ Known(graph, y)
  <2>1. g = graph
    BY <1>8 DEF addNode
  <2> QED
    BY <1>2, <1>5, <1>6, <1>8, <2>1
<1>9. CASE y[1] \in {"elsewhere", "argument", "constant"} /\ ~Known(graph, y)
  <2>1. TypeOfOperand(y) \in OpType /\ g = addNode(graph, y, TypeOfOperand(y))
    BY <1>9 DEF TypeOfOperand, OpType
  <2>2. /\ IsGraph(g)
        /\ DOMAIN g.vertex = (DOMAIN graph.vertex) \cup {n}
        /\ g.vertex[n].value = y /\ g.vertex[n].op = TypeOfOperand(y)
        /\ \A v \in DOMAIN graph.vertex : g.vertex[v] = graph.vertex[v]
        /\ g.edge = graph.edge
    BY <1>2, <1>6, <1>9, <2>1, NodeAdded
  <2>3. \A v \in DOMAIN graph.vertex : graph.vertex[v].value # y
    BY <1>9 DEF Known, VerticesOf
  <2>4. Known(g, y) /\ Known(g, x)
    BY <1>5, <2>2 DEF Known, VerticesOf
  <2> QED
    BY <1>6, <1>9, <2>2, <2>3, <2>4
<1> QED
  BY <1>3, <1>7, <1>8, <1>9 DEF Classes

(***************************************************************************)
(* An operand adds one edge, and its vertex if it had none; the use it is  *)
(* comes to those counted.                                                 *)
(***************************************************************************)
LEMMA AddOperandKeeps ==
  ASSUME BuildTypeOK, WholeInv, PatternInv, AddOperand, Inst(pos).ops[nth][1] # "asm"
  PROVE  BuildTypeOK' /\ WholeInv' /\ PatternInv'
<1> USE DEF WholeInv
<1>a. PICK y, x, n : y = Inst(pos).ops[nth] /\ x = <<"here", pos>> /\ n = Len(graph.vertex) + 1
  OBVIOUS
<1>b. PICK g : g = IF y[1] \in {"elsewhere", "argument", "constant"}
                  THEN addNode(graph, y, TypeOfOperand(y)) ELSE graph
  OBVIOUS
<1>1. pc = "operands" /\ pos' = pos /\ nth' = nth + 1 /\ graph' = addEdge(g, y, x)
      /\ pc' = (IF graph'.failed THEN "failed" ELSE pc) /\ nth <= Len(Inst(pos).ops)
      /\ UNCHANGED <<block, splits, last, forcedOutputs, matching>>
  BY <1>a, <1>b DEF AddOperand, WithOperand
<1>2. pos \in Plain /\ pos \in DOMAIN block.insts /\ pos \in Nat
      /\ Len(Inst(pos).ops) \in Nat /\ DOMAIN Inst(pos).ops = 1..Len(Inst(pos).ops)
      /\ nth \in Nat /\ nth \in DOMAIN Inst(pos).ops
  BY <1>1, BlockParts DEF LoopInv
<1>3. y \in OperandsOf(Inst(pos).ops) /\ y[1] # "asm"
  BY <1>2, <1>a DEF OperandsOf
<1>4. /\ IsGraph(g) /\ Known(g, x) /\ Known(g, y)
      /\ y[1] = "here" => y[2] \in 1..(pos - 1)
      /\ g.edge = graph.edge /\ n \notin DOMAIN graph.vertex
      /\ \A v \in DOMAIN graph.vertex : g.vertex[v] = graph.vertex[v]
      /\ \/ DOMAIN g.vertex = DOMAIN graph.vertex
         \/ /\ DOMAIN g.vertex = (DOMAIN graph.vertex) \cup {n}
            /\ \A v \in DOMAIN graph.vertex : graph.vertex[v].value # y
            /\ g.vertex[n].value = y /\ g.vertex[n].op = TypeOfOperand(y)
            /\ y[1] \in {"elsewhere", "argument", "constant"}
  BY <1>1, <1>3, <1>a, <1>b, OperandKnown
<1>c. PICK m : m = Len(g.edge) + 1
  OBVIOUS
<1>5. /\ IsGraph(graph') /\ graph'.vertex = g.vertex
      /\ DOMAIN graph'.edge = (DOMAIN graph.edge) \cup {m} /\ m \notin DOMAIN graph.edge
      /\ graph'.edge[m][1] = getVertex(g, y) /\ graph'.edge[m][2] = getVertex(g, x)
      /\ \A e \in DOMAIN graph.edge : graph'.edge[e] = graph.edge[e]
  <2>1. IsGraph(g) /\ Known(g, x) /\ Known(g, y) /\ graph' = addEdge(g, y, x) /\ g.edge = graph.edge
    BY <1>1, <1>4
  <2> QED
    BY <1>c, <2>1, EdgeAdded
<1>6. /\ getVertex(g, y) \in DOMAIN g.vertex /\ g.vertex[getVertex(g, y)].value = y
      /\ getVertex(g, x) \in DOMAIN g.vertex /\ g.vertex[getVertex(g, x)].value = x
  <2>1. IsGraph(g) /\ Known(g, x) /\ Known(g, y)
    BY <1>4
  <2> QED
    BY <2>1, VertexFound
<1>7. \A e \in DOMAIN graph.edge : /\ graph.edge[e][1] \in DOMAIN graph.vertex
                                   /\ graph.edge[e][2] \in DOMAIN graph.vertex
  BY GraphParts DEF BuildTypeOK
<1>8. \A v \in DOMAIN graph.vertex : ValueOf(v)' = ValueOf(v) /\ TypeOf(v)' = TypeOf(v)
  BY <1>4, <1>5 DEF ValueOf, TypeOf
<1>9. Plain' = Plain /\ \A k : Inst(k)' = Inst(k) /\ NeededAfter(k)' = NeededAfter(k)
  BY <1>1 DEF Plain, Inst, NeededAfter
<1>10. pc' \in {"operands", "failed"} /\ Visited' = Visited /\ Building /\ Building'
  BY <1>1 DEF Visited, Building
<1>11. PatternInv' /\ sub' = sub /\ bv' = {} /\ rest' = {}
  BY <1>1, <1>10, NoPattern DEF Matching, matching
<1>12. BuildTypeOK'
  BY <1>1, <1>2, <1>5, <1>10, <1>11 DEF BuildTypeOK, matching
<1>13. LoopInv'
  <2>1. nth' \in 1..(Len(Inst(pos).ops) + 1)
    BY <1>1, <1>2
  <2> QED
    BY <1>1, <1>2, <1>9, <1>10, <2>1 DEF LoopInv
<1>14. x[1] = "here" /\ x[2] = pos
  BY <1>a
<1>15. VertexInv'
  <2>1. \A v \in DOMAIN graph.vertex : TypeFits(ValueOf(v), TypeOf(v))'
    BY <1>8, <1>9, <1>10 DEF VertexInv, TypeFits
  <2>2. \A v \in DOMAIN graph'.vertex : v \notin DOMAIN graph.vertex => TypeFits(ValueOf(v), TypeOf(v))'
    BY <1>4, <1>5 DEF TypeFits, ValueOf, TypeOf, TypeOfOperand
  <2>3. \A z : Known(graph, z) => Known(graph', z)
    BY <1>4, <1>5 DEF Known, VerticesOf
  <2>4. \A v, w \in DOMAIN graph.vertex : v # w => ValueOf(v) # ValueOf(w)
    BY <1>10 DEF VertexInv
  <2>5. \A v, w \in DOMAIN graph'.vertex : v # w => ValueOf(v)' # ValueOf(w)'
    BY <1>4, <1>5, <1>8, <2>4 DEF ValueOf
  <2> QED
    BY <1>5, <1>10, <2>1, <2>2, <2>3, <2>5 DEF VertexInv
<1>16. EdgeInv'
  <2>1. \A e \in DOMAIN graph.edge : Source(e) \in DOMAIN graph.vertex /\ Target(e) \in DOMAIN graph.vertex
                                     /\ Source(e)' = Source(e) /\ Target(e)' = Target(e)
    BY <1>5, <1>7 DEF Source, Target
  <2>2. ValueOf(Source(m))' = y /\ ValueOf(Target(m))' = x
    BY <1>5, <1>6 DEF ValueOf, Source, Target
  <2>3. y[1] = "here" => y[2] < pos
    BY <1>2, <1>4
  <2> QED
    BY <1>2, <1>5, <1>8, <1>9, <1>14, <2>1, <2>2, <2>3 DEF EdgeInv
<1>17. ConstantInv'
  <2>1. \A v \in DOMAIN graph.vertex : From(graph, v) \subseteq From(graph', v)
    BY <1>5 DEF From
  <2>2. \A v \in DOMAIN graph'.vertex : v \notin DOMAIN graph.vertex => m \in From(graph', v)
    BY <1>4, <1>5, <1>6 DEF From
  <2> QED
    BY <1>8, <1>10, <2>1, <2>2 DEF ConstantInv
<1>18. ForcedInv'
  BY <1>1, <1>9, <1>10 DEF ForcedInv
<1>19. UsesInv'
  <2>1. \A v, z : Uses(g, v, z) = Uses(graph, v, z)
    <3>1. \A e \in DOMAIN graph.edge :
            /\ g.edge[e][2] = graph.edge[e][2]
            /\ g.vertex[g.edge[e][1]].value = graph.vertex[graph.edge[e][1]].value
      BY <1>4, <1>7
    <3>2. IsGraph(graph) /\ DOMAIN g.edge = DOMAIN graph.edge
      BY <1>4 DEF BuildTypeOK
    <3> QED
      BY <3>1, <3>2, UsesStay
  <2>2. \A v, z : /\ Uses(g, v, z) \in Nat
                  /\ Uses(graph', v, z)
                       = Uses(g, v, z) + (IF v = getVertex(g, x) /\ z = y THEN 1 ELSE 0)
    BY <1>1, <1>4, OneMoreUse
  <2>3. \A v \in DOMAIN graph'.vertex : ValueOf(v)'[1] = "here" =>
          v \in DOMAIN graph.vertex /\ (v = getVertex(g, x) <=> ValueOf(v)[2] = pos)
    <3>1. \A v \in DOMAIN graph'.vertex : ValueOf(v)'[1] = "here" => v \in DOMAIN graph.vertex
      BY <1>4, <1>5 DEF ValueOf
    <3>2. \A v \in DOMAIN graph.vertex : ValueOf(v) = <<ValueOf(v)[1], ValueOf(v)[2]>>
      BY GraphParts, ValueParts DEF BuildTypeOK, ValueOf
    <3>3. getVertex(g, x) \in DOMAIN graph.vertex /\ ValueOf(getVertex(g, x)) = x
      BY <1>4, <1>6, <1>14 DEF ValueOf
    <3>4. \A v, w \in DOMAIN graph.vertex : v # w => ValueOf(v) # ValueOf(w)
      BY <1>10 DEF VertexInv
    <3> QED
      BY <1>8, <1>14, <3>1, <3>2, <3>3, <3>4
  <2>4. \A v \in DOMAIN graph.vertex : ValueOf(v)[1] = "here" /\ ValueOf(v)[2] \in Plain =>
          \A z \in OperandsOf(Inst(ValueOf(v)[2]).ops) : Uses(graph, v, z) = Times(ValueOf(v)[2], z)
    BY <1>1 DEF UsesInv
  <2>5. ASSUME pc' = "operands", NEW z
        PROVE  /\ \A k : k # pos => Times(k, z)' = Times(k, z)
               /\ Times(pos, z)' = Times(pos, z) + (IF z = y THEN 1 ELSE 0)
    <3>1. \A k : k # pos => Times(k, z)' = Times(k, z)
      BY <1>1, <1>9, <2>5 DEF Times, Listed
    <3> DEFINE l == nth - 1
               S == {j \in 1..(nth - 1) : Inst(pos).ops[j] = z}
               T == {j \in 1..nth : Inst(pos).ops[j] = z}
    <3>2. l \in Nat /\ nth = l + 1 /\ S \in SUBSET (1..l) /\ T \in SUBSET (1..nth)
          /\ (\A k \in 1..l : k \in T <=> k \in S) /\ (nth \in T <=> z = y)
      BY <1>2, <1>a
    <3>3. Times(pos, z) = Cardinality(S)
      BY <1>1 DEF Times, Listed
    <3>4. Times(pos, z)' = Cardinality(T)
      <4>1. Listed(pos)' = 1..nth
        BY <1>1, <1>2, <2>5 DEF Listed
      <4> QED
        BY <1>1, <1>9, <4>1 DEF Times
    <3> HIDE DEF S, T, l
    <3>5. /\ nth \in T => Cardinality(T) = Cardinality(S) + 1
          /\ nth \notin T => Cardinality(T) = Cardinality(S)
          /\ Cardinality(S) \in Nat
      BY <3>2, CountOneMore
    <3> QED
      BY <3>1, <3>2, <3>3, <3>4, <3>5
  <2>6. ASSUME pc' = "operands", NEW v \in DOMAIN graph'.vertex,
               ValueOf(v)'[1] = "here", ValueOf(v)'[2] \in Plain,
               NEW z \in OperandsOf(Inst(ValueOf(v)'[2]).ops)
        PROVE  Uses(graph', v, z) = Times(ValueOf(v)[2], z)'
    <3>1. v \in DOMAIN graph.vertex /\ ValueOf(v)' = ValueOf(v)
          /\ (v = getVertex(g, x) <=> ValueOf(v)[2] = pos)
      BY <1>8, <2>3, <2>6
    <3>2. Uses(g, v, z) = Times(ValueOf(v)[2], z)
      BY <2>1, <2>4, <2>6, <3>1
    <3>3. CASE ValueOf(v)[2] = pos
      <4>1. Times(pos, z)' = Times(pos, z) + (IF z = y THEN 1 ELSE 0)
        BY <2>5, <2>6
      <4>2. Uses(graph', v, z) = Uses(g, v, z) + (IF z = y THEN 1 ELSE 0)
        BY <2>2, <3>1, <3>3
      <4>3. Times(ValueOf(v)[2], z)' = Times(pos, z)'
        BY <1>1, <3>1, <3>3
      <4> QED
        BY <3>2, <3>3, <4>1, <4>2, <4>3
    <3>4. CASE ValueOf(v)[2] # pos
      <4>1. Uses(graph', v, z) = Uses(g, v, z)
        BY <2>2, <3>1, <3>4
      <4>2. PICK k : k = ValueOf(v)[2]
        OBVIOUS
      <4>3. Times(k, z)' = Times(k, z)
        BY <2>5, <2>6, <3>4, <4>2
      <4> QED
        BY <3>1, <3>2, <4>1, <4>2, <4>3
    <3> QED
      BY <3>3, <3>4
  <2> QED
    BY <1>9, <1>10, <2>6 DEF UsesInv
<1> QED
  BY <1>11, <1>12, <1>13, <1>15, <1>16, <1>17, <1>18, <1>19

(***************************************************************************)
(* What is said of a graph that stays, stays.                              *)
(***************************************************************************)
LEMMA GraphKept ==
  ASSUME UNCHANGED <<block, graph>>
  PROVE  /\ Plain' = Plain /\ \A k : Inst(k)' = Inst(k) /\ NeededAfter(k)' = NeededAfter(k)
         /\ \A v : ValueOf(v)' = ValueOf(v) /\ TypeOf(v)' = TypeOf(v) /\ Store(v)' = Store(v)
                   /\ Users(v)' = Users(v)
         /\ \A e : Source(e)' = Source(e) /\ Target(e)' = Target(e)
         /\ EdgeInv' = EdgeInv
         /\ Visited' = Visited /\ Building' = Building /\ splits' = splits => VertexInv' = VertexInv
<1>1. Plain' = Plain /\ \A k : Inst(k)' = Inst(k) /\ NeededAfter(k)' = NeededAfter(k)
  BY DEF Plain, Inst, NeededAfter
<1>2. \A v : ValueOf(v)' = ValueOf(v) /\ TypeOf(v)' = TypeOf(v)
  BY DEF ValueOf, TypeOf
<1>3. \A v : Store(v)' = Store(v)
  BY <1>1, <1>2 DEF Store
<1>4. \A e : Source(e)' = Source(e) /\ Target(e)' = Target(e)
  BY DEF Source, Target
<1>5. \A v : Users(v)' = Users(v)
  BY <1>4 DEF Users
<1>6. EdgeInv' = EdgeInv
  BY <1>1, <1>2, <1>4 DEF EdgeInv
<1>7. Visited' = Visited /\ Building' = Building /\ splits' = splits => VertexInv' = VertexInv
  BY <1>1, <1>2 DEF VertexInv, TypeFits
<1> QED
  BY <1>1, <1>2, <1>3, <1>4, <1>5, <1>6, <1>7

(***************************************************************************)
(* After the last operand all of them are listed.                          *)
(***************************************************************************)
LEMMA EndOfOperandsKeeps ==
  ASSUME BuildTypeOK, WholeInv, PatternInv, EndOfOperands
  PROVE  BuildTypeOK' /\ WholeInv' /\ PatternInv'
<1> USE DEF WholeInv
<1>1. pc = "operands" /\ pc' = "block" /\ pos' = pos + 1 /\ nth > Len(Inst(pos).ops)
      /\ UNCHANGED <<block, splits, nth, last, forcedOutputs, graph, matching>>
  BY DEF EndOfOperands
<1>2. pos \in Plain /\ pos \in DOMAIN block.insts /\ pos' \in DOMAIN block.insts
      /\ pos \in Nat /\ pos' \in Nat /\ nth \in Nat
      /\ Len(Inst(pos).ops) \in Nat /\ DOMAIN Inst(pos).ops = 1..Len(Inst(pos).ops)
      /\ nth \in 1..(Len(Inst(pos).ops) + 1)
  BY <1>1, BlockParts DEF LoopInv, BuildTypeOK
<1>3. PatternInv' /\ sub' = sub /\ bv' = {} /\ rest' = {}
  BY <1>1, NoPattern DEF Matching, matching
<1>4. BuildTypeOK'
  BY <1>1, <1>2, <1>3 DEF BuildTypeOK, matching
<1>5. Building' = Building /\ Building /\ Visited' = Visited
  BY <1>1, <1>2 DEF Building, Visited
<1>6. LoopInv'
  BY <1>1, <1>2 DEF LoopInv
<1>7. VertexInv' /\ EdgeInv'
  BY <1>1, <1>5, GraphKept
<1>8. ConstantInv'
  BY <1>1, <1>5, GraphKept DEF ConstantInv
<1>9. ForcedInv'
  BY <1>1, <1>5, GraphKept DEF ForcedInv
<1>10. UsesInv'
  <2>1. \A k : Listed(k)' = Listed(k)
    <3>1. nth - 1 = Len(Inst(pos).ops)
      BY <1>1, <1>2
    <3> QED
      BY <1>1, <1>2, <3>1, GraphKept DEF Listed
  <2>2. \A k : Inst(k)' = Inst(k)
    BY <1>1, GraphKept
  <2>3. \A k, z : Times(k, z)' = Times(k, z)
    BY <2>1, <2>2 DEF Times
  <2> QED
    BY <1>1, <2>3, GraphKept DEF UsesInv
<1> QED
  BY <1>3, <1>4, <1>6, <1>7, <1>8, <1>9, <1>10

(***************************************************************************)
(* At the terminator every instruction has been visited.                   *)
(***************************************************************************)
LEMMA EndOfBlockKeeps ==
  ASSUME BuildTypeOK, WholeInv, PatternInv, EndOfBlock
  PROVE  BuildTypeOK' /\ WholeInv' /\ PatternInv'
<1> USE DEF WholeInv
<1>1. pc = "block" /\ pc' = (IF splits THEN "split" ELSE "choose") /\ pos' = 1
      /\ Inst(pos).kind = "terminator" /\ last' = Len(graph.vertex)
      /\ UNCHANGED <<block, splits, nth, forcedOutputs, graph, matching>>
  BY DEF EndOfBlock
<1>2. pos \in DOMAIN block.insts /\ pos = Len(block.insts) /\ pos \in Nat
  BY <1>1, BlockParts DEF LoopInv, Building
<1>3. PatternInv' /\ sub' = sub /\ bv' = {} /\ rest' = {}
  BY <1>1, NoPattern DEF Matching, matching
<1>4. Len(graph.vertex) \in Nat /\ DOMAIN graph.vertex = 1..Len(graph.vertex)
  BY GraphParts DEF BuildTypeOK
<1>5. BuildTypeOK'
  BY <1>1, <1>3, <1>4 DEF BuildTypeOK, matching
<1>6. Visited' = Visited /\ Building /\ ~Building' /\ splits \in BOOLEAN
  BY <1>1, <1>2 DEF Visited, Building, BuildTypeOK
<1>7. LoopInv'
  BY <1>1, <1>4, <1>6 DEF LoopInv
<1>8. VertexInv'
  BY <1>1, <1>6, GraphKept DEF VertexInv, TypeFits
<1>9. EdgeInv'
  BY <1>1, GraphKept
<1>10. ConstantInv'
  BY <1>1, <1>4, <1>6, GraphKept DEF ConstantInv
<1>11. ForcedInv'
  BY <1>1 DEF ForcedInv
<1>12. UsesInv'
  <2>1. \A k : Listed(k)' = Listed(k)
    BY <1>1, GraphKept DEF Listed
  <2>2. \A k : Inst(k)' = Inst(k)
    BY <1>1, GraphKept
  <2>3. \A k, z : Times(k, z)' = Times(k, z)
    BY <2>1, <2>2 DEF Times
  <2> QED
    BY <1>1, <2>3, GraphKept DEF UsesInv
<1> QED
  BY <1>3, <1>5, <1>7, <1>8, <1>9, <1>10, <1>11, <1>12

(***************************************************************************)
(* The steps that split constants.                                         *)
(***************************************************************************)
LEMMA SplitEdgeKeeps ==
  ASSUME BuildTypeOK, WholeInv, PatternInv, SplitEdge
  PROVE  BuildTypeOK' /\ WholeInv' /\ PatternInv'
<1> USE DEF WholeInv
<1>a. PICK d : d = Lowest(SplitOff(graph, pos))
  OBVIOUS
<1>b. PICK n : n = Len(graph.vertex) + 1
  OBVIOUS
<1>1. pc = "split" /\ pc' = "split" /\ pos <= last /\ SplitOff(graph, pos) # {}
      /\ graph' = Split(graph, pos, d, n)
      /\ UNCHANGED <<block, splits, pos, nth, last, forcedOutputs, matching>>
  BY <1>a, <1>b DEF SplitEdge, Split
<1>2. pos \in DOMAIN graph.vertex /\ pos \in Nat /\ last \in Nat /\ last < n /\ splits
      /\ DOMAIN graph.vertex \subseteq Nat /\ n \in Nat
  BY <1>1, <1>b, GraphParts DEF LoopInv, BuildTypeOK
<1>3. /\ TypeOf(pos) = "CONSTANT" /\ d \in From(graph, pos) /\ d \in DOMAIN graph.edge
      /\ \E f \in From(graph, pos) : f # d
  <2>1. graph.vertex[pos].op = "CONSTANT" /\ SplitOff(graph, pos) = Extra(graph, pos)
    BY <1>1 DEF SplitOff
  <2>2. SplitOff(graph, pos) \subseteq Nat
    BY <2>1, GraphParts DEF Extra, From, BuildTypeOK
  <2>3. d \in Extra(graph, pos)
    BY <1>1, <1>a, <2>1, <2>2, LowestIs
  <2>4. d \in From(graph, pos) /\ \E f \in From(graph, pos) : f < d
    BY <2>3 DEF Extra
  <2>5. From(graph, pos) \subseteq DOMAIN graph.edge /\ DOMAIN graph.edge \subseteq Nat
    BY GraphParts DEF From, BuildTypeOK
  <2> QED
    BY <2>1, <2>4, <2>5 DEF TypeOf
<1>4. /\ IsGraph(graph') /\ n \notin DOMAIN graph.vertex
      /\ DOMAIN graph'.vertex = (DOMAIN graph.vertex) \cup {n} /\ Len(graph'.vertex) = n
      /\ graph'.vertex[n] = graph.vertex[pos]
      /\ \A w \in DOMAIN graph.vertex : graph'.vertex[w] = graph.vertex[w]
      /\ DOMAIN graph'.edge = DOMAIN graph.edge
      /\ graph'.edge[d][1] = n /\ graph'.edge[d][2] = graph.edge[d][2]
      /\ \A e \in DOMAIN graph.edge : e # d => graph'.edge[e] = graph.edge[e]
  <2>1. IsGraph(graph) /\ graph.vertex[pos].op = "CONSTANT"
    BY <1>3 DEF TypeOf, BuildTypeOK
  <2> QED
    BY <1>1, <1>2, <1>3, <1>b, <2>1, EdgeSplit
<1>5. \A e \in DOMAIN graph.edge : /\ Source(e) \in DOMAIN graph.vertex
                                   /\ Target(e) \in DOMAIN graph.vertex
  BY GraphParts DEF BuildTypeOK, Source, Target
<1>6. /\ \A v \in DOMAIN graph.vertex : ValueOf(v)' = ValueOf(v) /\ TypeOf(v)' = TypeOf(v)
      /\ ValueOf(n)' = ValueOf(pos) /\ TypeOf(n)' = "CONSTANT"
  BY <1>3, <1>4 DEF ValueOf, TypeOf
<1>7. /\ \A e \in DOMAIN graph.edge : Target(e)' = Target(e)
      /\ \A e \in DOMAIN graph.edge : e # d => Source(e)' = Source(e)
      /\ Source(d)' = n /\ Source(d) = pos
  BY <1>3, <1>4 DEF Source, Target, From
<1>8. Plain' = Plain /\ \A k : Inst(k)' = Inst(k) /\ NeededAfter(k)' = NeededAfter(k)
  BY <1>1 DEF Plain, Inst, NeededAfter
<1>9. Visited' = Visited /\ ~Building /\ ~Building'
  BY <1>1 DEF Visited, Building
<1>10. PatternInv' /\ sub' = sub /\ bv' = {} /\ rest' = {}
  BY <1>1, NoPattern DEF Matching, matching
<1>11. BuildTypeOK'
  BY <1>1, <1>4, <1>10 DEF BuildTypeOK, matching
<1>12. LoopInv'
  BY <1>1, <1>2, <1>4, <1>9 DEF LoopInv
<1>13. VertexInv'
  <2>1. ValueOf(pos)[1] = "constant"
    BY <1>2, <1>3, TypesOfValues
  <2>2. \A v \in DOMAIN graph'.vertex : TypeFits(ValueOf(v), TypeOf(v))'
    <3>1. \A v \in DOMAIN graph.vertex : TypeFits(ValueOf(v), TypeOf(v))'
      BY <1>6, <1>8, <1>9 DEF VertexInv, TypeFits
    <3>2. TypeFits(ValueOf(n), TypeOf(n))'
      BY <1>6, <2>1 DEF TypeFits
    <3> QED
      BY <1>4, <3>1, <3>2
  <2>3. \A z : Known(graph, z) => Known(graph', z)
    BY <1>4 DEF Known, VerticesOf
  <2>4. \A v, w \in DOMAIN graph'.vertex : v # w /\ ValueOf(v)' = ValueOf(w)' => ValueOf(v)'[1] = "constant"
    BY <1>2, <1>4, <1>6, <2>1 DEF VertexInv
  <2> QED
    BY <1>1, <1>2, <1>9, <2>2, <2>3, <2>4 DEF VertexInv
<1>14. EdgeInv'
  <2>1. \A e \in DOMAIN graph.edge : ValueOf(Source(e))' = ValueOf(Source(e))
                                     /\ ValueOf(Target(e))' = ValueOf(Target(e))
    BY <1>4, <1>5, <1>6, <1>7 DEF ValueOf
  <2> QED
    BY <1>4, <1>8, <2>1 DEF EdgeInv
<1>15. ConstantInv'
  <2>1. \A v \in DOMAIN graph.vertex : v # pos => From(graph', v) = From(graph, v)
    BY <1>3, <1>4 DEF From
  <2>2. From(graph', n) = {d}
    BY <1>3, <1>4, <1>5 DEF From, Source
  <2>3. From(graph', pos) = From(graph, pos) \ {d}
    BY <1>2, <1>3, <1>4 DEF From
  <2>4. \A v \in DOMAIN graph.vertex : TypeOf(v)' = "CONSTANT" =>
          /\ From(graph', v) # {}
          /\ v < pos \/ v > last => \A e, f \in From(graph', v) : e = f
    BY <1>1, <1>2, <1>3, <1>6, <1>9, <2>1, <2>3 DEF ConstantInv
  <2>5. From(graph', n) # {} /\ \A e, f \in From(graph', n) : e = f
    BY <2>2
  <2>6. \A v \in DOMAIN graph'.vertex : TypeOf(v)' = "CONSTANT" =>
          /\ From(graph', v) # {}
          /\ v < pos \/ v > last => \A e, f \in From(graph', v) : e = f
    BY <1>4, <2>4, <2>5
  <2> QED
    BY <1>1, <2>6 DEF ConstantInv
<1>16. ForcedInv'
  BY <1>1 DEF ForcedInv
<1>17. UsesInv'
  <2>1. \A v, z : Uses(graph', v, z) = Uses(graph, v, z)
    <3>1. \A e \in DOMAIN graph.edge :
            /\ graph'.edge[e][2] = graph.edge[e][2]
            /\ graph'.vertex[graph'.edge[e][1]].value = graph.vertex[graph.edge[e][1]].value
      BY <1>4, <1>5, <1>7 DEF Source, Target
    <3>2. IsGraph(graph) /\ DOMAIN graph'.edge = DOMAIN graph.edge
      BY <1>4 DEF BuildTypeOK
    <3> QED
      BY <3>1, <3>2, UsesStay
  <2>2. \A k, z : Times(k, z)' = Times(k, z)
    BY <1>1, <1>8 DEF Times, Listed
  <2>3. \A v \in DOMAIN graph'.vertex : ValueOf(v)'[1] = "here" => v \in DOMAIN graph.vertex
    BY <1>2, <1>3, <1>4, <1>6, TypesOfValues
  <2> QED
    BY <1>1, <1>6, <1>8, <2>1, <2>2, <2>3 DEF UsesInv
<1> QED
  BY <1>10, <1>11, <1>12, <1>13, <1>14, <1>15, <1>16, <1>17

(***************************************************************************)
(* A vertex is left when its type is another or it has a single edge.      *)
(***************************************************************************)
LEMMA EndOfVertexKeeps ==
  ASSUME BuildTypeOK, WholeInv, PatternInv, EndOfVertex
  PROVE  BuildTypeOK' /\ WholeInv' /\ PatternInv'
<1> USE DEF WholeInv
<1>1. pc = "split" /\ pc' = "split" /\ pos <= last /\ SplitOff(graph, pos) = {} /\ pos' = pos + 1
      /\ UNCHANGED <<block, splits, nth, last, forcedOutputs, graph, matching>>
  BY DEF EndOfVertex
<1>2. pos \in Nat /\ last \in Nat /\ pos \in 1..(last + 1) /\ splits /\ last <= Len(graph.vertex)
      /\ DOMAIN graph.vertex \subseteq Nat
  BY <1>1, GraphParts DEF LoopInv, BuildTypeOK
<1>3. PatternInv' /\ sub' = sub /\ bv' = {} /\ rest' = {}
  BY <1>1, NoPattern DEF Matching, matching
<1>4. BuildTypeOK'
  BY <1>1, <1>2, <1>3 DEF BuildTypeOK, matching
<1>5. Visited' = Visited /\ Building' = Building /\ ~Building
  BY <1>1 DEF Visited, Building
<1>6. LoopInv'
  BY <1>1, <1>2, <1>5 DEF LoopInv
<1>7. VertexInv' /\ EdgeInv'
  BY <1>1, <1>5, GraphKept
<1>8. ConstantInv'
  <2>1. TypeOf(pos) = "CONSTANT" => \A e, f \in From(graph, pos) : e = f
    <3>1. From(graph, pos) \subseteq Nat
      BY GraphParts DEF From, BuildTypeOK
    <3>2. TypeOf(pos) = "CONSTANT" => Extra(graph, pos) = {}
      BY <1>1 DEF SplitOff, TypeOf
    <3> QED
      BY <3>1, <3>2 DEF Extra
  <2>2. \A v \in DOMAIN graph.vertex : v < pos' <=> v < pos \/ v = pos
    BY <1>1, <1>2
  <2> QED
    BY <1>1, <1>5, <2>1, <2>2, GraphKept DEF ConstantInv
<1>9. ForcedInv'
  BY <1>1 DEF ForcedInv
<1>10. UsesInv'
  <2>1. \A k, z : Times(k, z)' = Times(k, z)
    <3>1. \A k : Inst(k)' = Inst(k)
      BY <1>1, GraphKept
    <3> QED
      BY <1>1, <3>1 DEF Times, Listed
  <2> QED
    BY <1>1, <2>1, GraphKept DEF UsesInv
<1> QED
  BY <1>3, <1>4, <1>6, <1>7, <1>8, <1>9, <1>10

(***************************************************************************)
(* A finished graph stays what it is.                                      *)
(***************************************************************************)
LEMMA WholeStays ==
  ASSUME WholeInv, ~Building, ~Building', pc' # "split", UNCHANGED <<block, splits, graph>>,
         pc = "split" => \A v \in DOMAIN graph.vertex : v < pos \/ v > last
  PROVE  WholeInv'
<1> USE DEF WholeInv
<1>1. Visited' = Visited /\ Building' = Building
  BY DEF Visited, Building
<1>2. LoopInv'
  BY DEF LoopInv, Building
<1>3. VertexInv' /\ EdgeInv'
  BY <1>1, GraphKept
<1>4. ConstantInv'
  BY GraphKept DEF ConstantInv
<1>5. ForcedInv'
  BY DEF ForcedInv, Building
<1>6. UsesInv'
  <2>1. \A k, z : Times(k, z)' = Times(k, z)
    <3>1. \A k : Inst(k)' = Inst(k)
      BY GraphKept
    <3> QED
      BY <3>1 DEF Times, Listed, Building
  <2> QED
    BY <2>1, GraphKept DEF UsesInv, Building
<1> QED
  BY <1>2, <1>3, <1>4, <1>5, <1>6

(***************************************************************************)
(* Past the last vertex every constant has been split.                     *)
(***************************************************************************)
LEMMA EndOfSplitKeeps ==
  ASSUME BuildTypeOK, WholeInv, PatternInv, EndOfSplit
  PROVE  BuildTypeOK' /\ WholeInv' /\ PatternInv'
<1>1. pc = "split" /\ pc' = "choose" /\ pos > last /\ UNCHANGED <<block, splits, building, matching>>
  BY DEF EndOfSplit
<1>2. \A v \in DOMAIN graph.vertex : v < pos \/ v > last
  BY <1>1, GraphParts DEF BuildTypeOK
<1>3. WholeInv'
  BY <1>1, <1>2, WholeStays DEF building, Building
<1>4. PatternInv'
  BY <1>1, NoPattern DEF Matching
<1>5. BuildTypeOK'
  BY <1>1 DEF BuildTypeOK, building, matching
<1> QED
  BY <1>3, <1>4, <1>5

(***************************************************************************)
(* The member a loop of fromBitVector is at.                               *)
(***************************************************************************)
LEMMA MemberIs ==
  ASSUME BuildTypeOK, rest # {}
  PROVE  Member \in rest /\ Member \in bv /\ Member \in DOMAIN graph.vertex
<1>1. rest \subseteq Nat /\ rest \subseteq bv /\ bv \subseteq DOMAIN graph.vertex
  BY GraphParts DEF BuildTypeOK
<1> QED
  BY <1>1, LowestIs DEF Member

(***************************************************************************)
(* An edge joins vertices.                                                 *)
(***************************************************************************)
LEMMA EdgesJoin ==
  ASSUME BuildTypeOK
  PROVE  /\ \A e \in DOMAIN graph.edge : Source(e) \in DOMAIN graph.vertex
                                         /\ Target(e) \in DOMAIN graph.vertex
         /\ \A v : From(graph, v) = {e \in DOMAIN graph.edge : Source(e) = v}
         /\ \A v : Into(graph, v) = {e \in DOMAIN graph.edge : Target(e) = v}
         /\ \A v : Users(v) = {Target(e) : e \in From(graph, v)}
  BY GraphParts DEF BuildTypeOK, Source, Target, From, Into, Users

(***************************************************************************)
(* An algorithm offers a pattern of the finished graph; nothing has been   *)
(* added to the pattern's graph.                                           *)
(***************************************************************************)
LEMMA IdentifyKeeps ==
  ASSUME BuildTypeOK, WholeInv, PatternInv, Identify
  PROVE  BuildTypeOK' /\ WholeInv' /\ PatternInv'
<1>1. PICK S \in SUBSET DOMAIN graph.vertex : Offered(S) /\ bv' = S /\ rest' = S
  BY DEF Identify
<1>2. pc = "choose" /\ pc' = "nodes" /\ UNCHANGED <<block, splits, building, type, left, sub>>
  BY DEF Identify
<1>3. UNCHANGED <<block, splits, graph, pos, nth, last, forcedOutputs>>
  BY <1>2 DEF building
<1>4. BuildTypeOK'
  BY <1>1, <1>2, <1>3 DEF BuildTypeOK
<1>5. WholeInv'
  BY <1>2, <1>3, WholeStays DEF Building
<1>6. sub = Empty
  BY <1>2 DEF PatternInv, ScanInv, Matching
<1>7. ScanInv'
  <2>1. Offered(bv)'
    <3>1. \A v : ValueOf(v)' = ValueOf(v) /\ TypeOf(v)' = TypeOf(v) /\ Store(v)' = Store(v)
                 /\ Users(v)' = Users(v)
      BY <1>3, GraphKept
    <3> QED
      BY <1>1, <3>1 DEF Offered
  <2>2. pc' = "nodes" /\ Matching'
    BY <1>2 DEF Matching
  <2> QED
    BY <2>1, <2>2 DEF ScanInv
<1>8. SubInv'
  <2>1. ~sub'.failed /\ DOMAIN sub'.vertex = {}
    BY <1>2, <1>6 DEF Empty
  <2>2. HeldValues' = {}
    BY <1>1, <1>2 DEF HeldValues
  <2> QED
    BY <2>1, <2>2 DEF SubInv
<1>9. CopyInv' /\ NoEdgeInv'
  BY <1>2, <1>6 DEF CopyInv, NoEdgeInv, Joining, Empty
<1> QED
  BY <1>4, <1>5, <1>7, <1>8, <1>9 DEF PatternInv

(***************************************************************************)
(* What a step that leaves the graph of the block and the pattern keeps.   *)
(***************************************************************************)
LEMMA PatternKept ==
  ASSUME BuildTypeOK, WholeInv, PatternInv, Matching, Matching',
         UNCHANGED <<block, splits, building, bv>>
  PROVE  /\ WholeInv' /\ Offered(bv)' /\ Offered(bv) /\ MemberValues' = MemberValues
         /\ UNCHANGED <<block, splits, graph, pos, nth, last, forcedOutputs, bv>>
         /\ \A v : ValueOf(v)' = ValueOf(v) /\ TypeOf(v)' = TypeOf(v)
         /\ \A e : Source(e)' = Source(e) /\ Target(e)' = Target(e)
<1>1. UNCHANGED <<block, splits, graph, pos, nth, last, forcedOutputs, bv>>
  BY DEF building
<1>2. WholeInv'
  BY <1>1, WholeStays DEF Building, Matching
<1>3. /\ \A v : ValueOf(v)' = ValueOf(v) /\ TypeOf(v)' = TypeOf(v) /\ Store(v)' = Store(v)
                /\ Users(v)' = Users(v)
      /\ \A e : Source(e)' = Source(e) /\ Target(e)' = Target(e)
  BY <1>1, GraphKept
<1>4. Offered(bv)
  BY DEF PatternInv, ScanInv
<1>5. Offered(bv)'
  BY <1>1, <1>3, <1>4 DEF Offered
<1>6. MemberValues' = MemberValues
  BY <1>1, <1>3 DEF MemberValues
<1> QED
  BY <1>1, <1>2, <1>3, <1>4, <1>5, <1>6

(***************************************************************************)
(* A member is added under its own type, unless its value is held already; *)
(* then it is a constant like the one held.                                *)
(***************************************************************************)
LEMMA AddMemberKeeps ==
  ASSUME BuildTypeOK, WholeInv, PatternInv, AddMember
  PROVE  BuildTypeOK' /\ WholeInv' /\ PatternInv'
<1>. PICK m : m = Member
  OBVIOUS
<1>. PICK x : x = ValueOf(m)
  OBVIOUS
<1>1. /\ pc = "nodes" /\ pc' = "nodes" /\ rest # {} /\ rest' = rest \ {m}
      /\ sub' = addNode(sub, x, TypeOf(m))
      /\ UNCHANGED <<block, splits, building, bv, type, left>>
  BY DEF AddMember
<1>2. m \in rest /\ m \in bv /\ m \in DOMAIN graph.vertex /\ rest \subseteq bv
      /\ bv \subseteq DOMAIN graph.vertex
  BY <1>1, MemberIs DEF BuildTypeOK
<1>3. /\ WholeInv' /\ Offered(bv)' /\ MemberValues' = MemberValues
      /\ UNCHANGED <<block, splits, graph, pos, nth, last, forcedOutputs, bv>>
      /\ \A v : ValueOf(v)' = ValueOf(v) /\ TypeOf(v)' = TypeOf(v)
  BY <1>1, PatternKept DEF Matching
<1>4. x \in Value /\ TypeOf(m) \in OpType /\ IsGraph(sub)
  BY <1>2, GraphParts DEF BuildTypeOK, ValueOf, TypeOf
<1>5. /\ ~sub.failed
      /\ {sub.vertex[u].value : u \in DOMAIN sub.vertex} = {ValueOf(v) : v \in bv \ rest}
      /\ \A u, w \in DOMAIN sub.vertex : sub.vertex[u].value = sub.vertex[w].value => u = w
      /\ \A u \in DOMAIN sub.vertex : \A v \in bv :
           sub.vertex[u].value = ValueOf(v) => sub.vertex[u].op = TypeOf(v)
  BY <1>1 DEF PatternInv, SubInv, Matching, HeldValues
<1>. PICK n : n = Len(sub.vertex) + 1
  OBVIOUS
<1>6. \/ Known(sub, x) /\ sub' = sub
      \/ /\ ~Known(sub, x)
         /\ DOMAIN sub'.vertex = (DOMAIN sub.vertex) \cup {n} /\ n \notin DOMAIN sub.vertex
         /\ sub'.vertex[n].value = x /\ sub'.vertex[n].op = TypeOf(m)
         /\ \A u \in DOMAIN sub.vertex : sub'.vertex[u] = sub.vertex[u]
  <2>1. CASE Known(sub, x)
    BY <1>1, <2>1 DEF addNode
  <2>2. CASE ~Known(sub, x)
    <3>1. sub' = addNode(sub, x, TypeOf(m))
      BY <1>1
    <3> QED
      BY <1>4, <2>2, <3>1, NodeAdded
  <2> QED
    BY <2>1, <2>2
<1>7. IsGraph(sub') /\ sub'.edge = sub.edge /\ ~sub'.failed
  <2>1. CASE Known(sub, x)
    BY <1>1, <1>4, <1>5, <2>1 DEF addNode
  <2>2. CASE ~Known(sub, x)
    BY <1>1, <1>4, <1>5, <2>2, NodeAdded
  <2> QED
    BY <2>1, <2>2
<1>8. BuildTypeOK'
  BY <1>1, <1>2, <1>3, <1>7 DEF BuildTypeOK
<1>9. ScanInv'
  BY <1>1, <1>3 DEF ScanInv, Matching
<1>10. SubInv'
  <2>1. HeldValues' = {ValueOf(v) : v \in bv \ rest} \cup {x}
    <3>1. HeldValues' = {ValueOf(v) : v \in bv \ rest'}
      BY <1>1, <1>3 DEF HeldValues
    <3>2. bv \ rest' = (bv \ rest) \cup {m}
      BY <1>1, <1>2
    <3> QED
      BY <3>1, <3>2
  <2>2. {sub'.vertex[u].value : u \in DOMAIN sub'.vertex} = HeldValues'
    <3>1. {sub'.vertex[u].value : u \in DOMAIN sub'.vertex}
            = {sub.vertex[u].value : u \in DOMAIN sub.vertex} \cup {x}
      <4>1. CASE Known(sub, x) /\ sub' = sub
        <5>1. \E u \in DOMAIN sub.vertex : sub.vertex[u].value = x
          BY <4>1 DEF Known, VerticesOf
        <5> QED
          BY <4>1, <5>1
      <4>2. CASE ~Known(sub, x)
        BY <1>6, <4>2
      <4> QED
        BY <1>6, <4>1, <4>2
    <3> QED
      BY <1>5, <2>1, <3>1
  <2>3. \A u, w \in DOMAIN sub'.vertex : sub'.vertex[u].value = sub'.vertex[w].value => u = w
    BY <1>5, <1>6 DEF Known, VerticesOf
  <2>4. \A u \in DOMAIN sub'.vertex : sub'.vertex[u].value \in MemberValues
    <3>1. HeldValues' \subseteq MemberValues
      BY <1>2, <2>1 DEF MemberValues
    <3> QED
      BY <2>2, <3>1
  <2>5. \A u \in DOMAIN sub'.vertex : \A v \in bv :
          sub'.vertex[u].value = ValueOf(v) => sub'.vertex[u].op = TypeOf(v)
    <3>1. \A v \in bv : ValueOf(v) = x => TypeOf(v) = TypeOf(m)
      BY <1>2, TypesOfValues DEF WholeInv
    <3> QED
      BY <1>5, <1>6, <3>1
  <2> QED
    BY <1>1, <1>3, <1>7, <2>2, <2>3, <2>4, <2>5 DEF SubInv
<1>11. CopyInv' /\ NoEdgeInv'
  BY <1>1, <1>7 DEF CopyInv, Joining, PatternInv, NoEdgeInv
<1> QED
  BY <1>3, <1>8, <1>9, <1>10, <1>11 DEF PatternInv

(***************************************************************************)
(* Before the edges are scanned none is copied, and no member is marked.   *)
(***************************************************************************)
LEMMA AllAddedKeeps ==
  ASSUME BuildTypeOK, WholeInv, PatternInv, AllAdded
  PROVE  BuildTypeOK' /\ WholeInv' /\ PatternInv'
<1>1. /\ pc = "nodes" /\ pc' = "edges" /\ rest = {} /\ rest' = bv
      /\ UNCHANGED <<block, splits, building, bv, type, left, sub>>
  BY DEF AllAdded
<1>2. /\ WholeInv' /\ Offered(bv)' /\ MemberValues' = MemberValues
      /\ UNCHANGED <<block, splits, graph, pos, nth, last, forcedOutputs, bv>>
      /\ \A v : ValueOf(v)' = ValueOf(v) /\ TypeOf(v)' = TypeOf(v)
      /\ \A e : Source(e)' = Source(e) /\ Target(e)' = Target(e)
  BY <1>1, PatternKept DEF Matching
<1>3. BuildTypeOK'
  BY <1>1, <1>2 DEF BuildTypeOK
<1>4. ScanInv'
  BY <1>1, <1>2 DEF ScanInv, Matching
<1>5. /\ \A e \in DOMAIN graph.edge : Source(e) \in bv => ~PassedOut(e)'
      /\ \A e \in DOMAIN graph.edge : Target(e) \in bv => ~PassedIn(e)'
  BY <1>1, <1>2 DEF PassedOut, PassedIn
<1>6. Copied' = {}
  BY <1>2, <1>5 DEF Copied
<1>7. \A v \in bv : Mark(v)' = TypeOf(v)
  <2>1. \A v \in bv : \A e \in From(graph, v) : e \in DOMAIN graph.edge /\ Source(e) = v
    BY DEF From, Source
  <2>2. \A v \in bv : ~Leaves(v)'
    BY <1>2, <1>5, <2>1 DEF Leaves
  <2> QED
    BY <1>2, <2>2 DEF Mark
<1>8. SubInv'
  <2>1. HeldValues' = MemberValues
    BY <1>1, <1>2, <1>6 DEF HeldValues
  <2>2. HeldValues = MemberValues
    <3>1. bv \ rest = bv
      BY <1>1
    <3> QED
      BY <1>1, <3>1 DEF HeldValues, MemberValues
  <2>3. /\ ~sub.failed
        /\ {sub.vertex[u].value : u \in DOMAIN sub.vertex} = HeldValues
        /\ \A u, w \in DOMAIN sub.vertex : sub.vertex[u].value = sub.vertex[w].value => u = w
        /\ \A u \in DOMAIN sub.vertex :
             /\ sub.vertex[u].value \notin MemberValues => sub.vertex[u].op = "INPUT"
             /\ \A v \in bv : sub.vertex[u].value = ValueOf(v) => sub.vertex[u].op = TypeOf(v)
    BY <1>1 DEF PatternInv, SubInv, Matching
  <2> QED
    BY <1>1, <1>2, <1>7, <2>1, <2>2, <2>3 DEF SubInv
<1>9. CopyInv' /\ NoEdgeInv'
  <2>1. sub'.edge = <<>>
    BY <1>1 DEF PatternInv, NoEdgeInv
  <2>2. \A v, z : Uses(sub', v, z) = 0
    <3>1. \A v : Into(sub', v) = {}
      BY <2>1 DEF Into
    <3> QED
      BY <3>1, FS_EmptySet DEF Uses
  <2>3. \A v, w : Cardinality({e \in Copied' : Target(e)' = v /\ ValueOf(Source(e))' = ValueOf(w)'}) = 0
    BY <1>6, FS_EmptySet
  <2> QED
    BY <1>1, <2>2, <2>3 DEF CopyInv, NoEdgeInv
<1> QED
  BY <1>2, <1>3, <1>4, <1>8, <1>9 DEF PatternInv

(***************************************************************************)
(* A step of the loops over edges that passes none.                        *)
(***************************************************************************)
LEMMA ScanKept ==
  ASSUME BuildTypeOK, WholeInv, PatternInv, Joining, Joining',
         UNCHANGED <<block, splits, building, bv, sub>>,
         \A e \in DOMAIN graph.edge : PassedOut(e)' = PassedOut(e) /\ PassedIn(e)' = PassedIn(e)
  PROVE  /\ SubInv' /\ CopyInv' /\ NoEdgeInv' /\ \A v : Mark(v)' = Mark(v)
<1>1. /\ MemberValues' = MemberValues
      /\ UNCHANGED <<graph, bv>>
      /\ \A v : ValueOf(v)' = ValueOf(v) /\ TypeOf(v)' = TypeOf(v)
      /\ \A e : Source(e)' = Source(e) /\ Target(e)' = Target(e)
  BY PatternKept DEF Matching, Joining
<1>2. pc # "nodes" /\ pc' # "nodes" /\ Matching /\ Matching'
  BY DEF Joining, Matching
<1>3. Copied' = Copied
  BY <1>1 DEF Copied
<1>4. \A v : Mark(v)' = Mark(v)
  <2>1. \A v : Leaves(v)' = Leaves(v)
    BY <1>1 DEF Leaves, From
  <2> QED
    BY <1>1, <2>1 DEF Mark
<1>5. HeldValues' = HeldValues
  BY <1>1, <1>2, <1>3 DEF HeldValues
<1>6. SubInv'
  BY <1>1, <1>2, <1>4, <1>5 DEF PatternInv, SubInv
<1>7. CopyInv'
  BY <1>1, <1>3 DEF PatternInv, CopyInv
<1> QED
  BY <1>2, <1>4, <1>6, <1>7 DEF NoEdgeInv

(***************************************************************************)
(* A member that is met has no edge passed yet, so the type read from the  *)
(* block's graph is its mark.                                              *)
(***************************************************************************)
LEMMA NextMemberKeeps ==
  ASSUME BuildTypeOK, WholeInv, PatternInv, NextMember
  PROVE  BuildTypeOK' /\ WholeInv' /\ PatternInv'
<1>1. /\ pc = "edges" /\ pc' = "outgoing" /\ rest # {} /\ rest' = rest
      /\ type' = TypeOf(Member) /\ left' = From(graph, Member)
      /\ UNCHANGED <<block, splits, building, bv, sub>>
  BY DEF NextMember
<1>2. Member \in rest /\ Member \in bv /\ Member \in DOMAIN graph.vertex /\ Member' = Member
  BY <1>1, MemberIs DEF Member
<1>3. /\ WholeInv' /\ Offered(bv)'
      /\ UNCHANGED <<block, splits, graph, pos, nth, last, forcedOutputs, bv>>
      /\ \A v : ValueOf(v)' = ValueOf(v) /\ TypeOf(v)' = TypeOf(v)
      /\ \A e : Source(e)' = Source(e) /\ Target(e)' = Target(e)
  BY <1>1, PatternKept DEF Matching
<1>4. \A e \in DOMAIN graph.edge : Source(e) = Member <=> e \in From(graph, Member)
  BY EdgesJoin
<1>5. /\ \A e \in DOMAIN graph.edge : PassedOut(e)' = PassedOut(e) /\ PassedIn(e)' = PassedIn(e)
      /\ \A e \in From(graph, Member) : e \in DOMAIN graph.edge /\ ~PassedOut(e)
  BY <1>1, <1>2, <1>3, <1>4 DEF PassedOut, PassedIn, From
<1>6. SubInv' /\ CopyInv' /\ NoEdgeInv' /\ \A v : Mark(v)' = Mark(v)
  BY <1>1, <1>5, ScanKept DEF Joining
<1>7. BuildTypeOK'
  BY <1>1, <1>2, <1>3, GraphParts DEF BuildTypeOK, TypeOf, From
<1>8. ScanInv'
  <2>1. Mark(Member) = TypeOf(Member)
    BY <1>5 DEF Mark, Leaves
  <2>2. type' = Mark(Member)'
    BY <1>1, <1>2, <1>6, <2>1
  <2>3. left' \subseteq From(graph, Member)'
    BY <1>1, <1>2, <1>3
  <2> QED
    BY <1>1, <1>3, <2>2, <2>3 DEF ScanInv, Matching
<1> QED
  BY <1>3, <1>6, <1>7, <1>8 DEF PatternInv

(***************************************************************************)
(* The first loop has passed the edges that leave the member, the second   *)
(* none that enters it.                                                    *)
(***************************************************************************)
LEMMA EndOfOutgoingKeeps ==
  ASSUME BuildTypeOK, WholeInv, PatternInv, EndOfOutgoing
  PROVE  BuildTypeOK' /\ WholeInv' /\ PatternInv'
<1>1. /\ pc = "outgoing" /\ pc' = "incoming" /\ left = {} /\ left' = Into(graph, Member)
      /\ UNCHANGED <<block, splits, building, bv, rest, type, sub>>
  BY DEF EndOfOutgoing
<1>2. rest # {} /\ Member \in rest /\ Member' = Member
  BY <1>1, MemberIs DEF Member, PatternInv, ScanInv
<1>3. /\ WholeInv' /\ Offered(bv)'
      /\ UNCHANGED <<block, splits, graph, pos, nth, last, forcedOutputs, bv>>
      /\ \A e : Source(e)' = Source(e) /\ Target(e)' = Target(e)
  BY <1>1, PatternKept DEF Matching
<1>4. \A e \in DOMAIN graph.edge : Target(e) = Member <=> e \in Into(graph, Member)
  BY EdgesJoin
<1>5. \A e \in DOMAIN graph.edge : PassedOut(e)' = PassedOut(e) /\ PassedIn(e)' = PassedIn(e)
  BY <1>1, <1>2, <1>3, <1>4 DEF PassedOut, PassedIn
<1>6. SubInv' /\ CopyInv' /\ NoEdgeInv'
  BY <1>1, <1>5, ScanKept DEF Joining
<1>7. BuildTypeOK'
  BY <1>1, <1>3 DEF BuildTypeOK, Into
<1>8. ScanInv'
  BY <1>1, <1>2, <1>3 DEF ScanInv, Matching
<1> QED
  BY <1>3, <1>6, <1>7, <1>8 DEF PatternInv

(***************************************************************************)
(* A member that is done has all of its edges passed.                      *)
(***************************************************************************)
LEMMA EndOfIncomingKeeps ==
  ASSUME BuildTypeOK, WholeInv, PatternInv, EndOfIncoming
  PROVE  BuildTypeOK' /\ WholeInv' /\ PatternInv'
<1>1. /\ pc = "incoming" /\ pc' = "edges" /\ left = {} /\ rest' = rest \ {Member}
      /\ UNCHANGED <<block, splits, building, bv, type, left, sub>>
  BY DEF EndOfIncoming
<1>2. /\ WholeInv' /\ Offered(bv)'
      /\ UNCHANGED <<block, splits, graph, pos, nth, last, forcedOutputs, bv>>
      /\ \A e : Source(e)' = Source(e) /\ Target(e)' = Target(e)
  BY <1>1, PatternKept DEF Matching
<1>3. \A e \in DOMAIN graph.edge : PassedOut(e)' = PassedOut(e) /\ PassedIn(e)' = PassedIn(e)
  BY <1>1, <1>2 DEF PassedOut, PassedIn
<1>4. SubInv' /\ CopyInv' /\ NoEdgeInv'
  BY <1>1, <1>3, ScanKept DEF Joining
<1>5. BuildTypeOK'
  BY <1>1, <1>2 DEF BuildTypeOK
<1>6. ScanInv'
  BY <1>1, <1>2 DEF ScanInv, Matching
<1> QED
  BY <1>2, <1>4, <1>5, <1>6 DEF PatternInv

(***************************************************************************)
(* The graph of the pattern is left as it is.                              *)
(***************************************************************************)
LEMMA AllConnectedKeeps ==
  ASSUME BuildTypeOK, WholeInv, PatternInv, AllConnected
  PROVE  BuildTypeOK' /\ WholeInv' /\ PatternInv'
<1>1. /\ pc = "edges" /\ pc' = "done" /\ rest = {} /\ rest' = rest
      /\ UNCHANGED <<block, splits, building, bv, type, left, sub>>
  BY DEF AllConnected, matching
<1>2. /\ WholeInv' /\ Offered(bv)'
      /\ UNCHANGED <<block, splits, graph, pos, nth, last, forcedOutputs, bv>>
      /\ \A e : Source(e)' = Source(e) /\ Target(e)' = Target(e)
  BY <1>1, PatternKept DEF Matching
<1>3. \A e \in DOMAIN graph.edge : PassedOut(e)' = PassedOut(e) /\ PassedIn(e)' = PassedIn(e)
  BY <1>1, <1>2 DEF PassedOut, PassedIn
<1>4. SubInv' /\ CopyInv' /\ NoEdgeInv'
  BY <1>1, <1>3, ScanKept DEF Joining
<1>5. BuildTypeOK'
  BY <1>1, <1>2 DEF BuildTypeOK
<1>6. ScanInv'
  BY <1>1, <1>2 DEF ScanInv, Matching
<1> QED
  BY <1>2, <1>4, <1>5, <1>6 DEF PatternInv

(***************************************************************************)
(* One more copied edge is one more use.                                   *)
(***************************************************************************)
LEMMA OneMoreCopy ==
  ASSUME BuildTypeOK, WholeInv, PatternInv, Joining, UNCHANGED <<block, splits, building, bv>>, Matching',
         NEW e \in DOMAIN graph.edge, Target(e) \in bv, e \notin Copied, Copied' = Copied \cup {e},
         NEW g, IsGraph(g), Known(g, ValueOf(Source(e))),
         \A v \in bv : Known(g, ValueOf(v)) /\ getVertex(g, ValueOf(v)) = getVertex(sub, ValueOf(v)),
         \A v, x : Uses(g, v, x) = Uses(sub, v, x),
         sub' = addEdge(g, ValueOf(Source(e)), ValueOf(Target(e)))
  PROVE  CopyInv'
<1>1. /\ UNCHANGED <<graph, bv>>
      /\ \A v : ValueOf(v)' = ValueOf(v) /\ TypeOf(v)' = TypeOf(v)
      /\ \A f : Source(f)' = Source(f) /\ Target(f)' = Target(f)
  BY PatternKept DEF Matching, Joining
<1>. PICK x, y, h : x = ValueOf(Source(e)) /\ y = ValueOf(Target(e)) /\ h = sub'
  OBVIOUS
<1>2. IsGraph(g) /\ Known(g, x) /\ Known(g, y) /\ h = addEdge(g, x, y)
  OBVIOUS
<1>3. h.vertex = g.vertex
  BY <1>2, EdgeAdded
<1>4. \A v, z : Uses(h, v, z) = Uses(g, v, z) + (IF v = getVertex(g, y) /\ z = x THEN 1 ELSE 0)
  BY <1>2, OneMoreUse
<1>5. \A z : getVertex(h, z) = getVertex(g, z)
  BY <1>3 DEF getVertex, VerticesOf
<1>6. ASSUME NEW v \in bv, NEW w \in DOMAIN graph.vertex, TypeOf(v) # "CONSTANT"
      PROVE  Uses(h, getVertex(h, ValueOf(v)), ValueOf(w)) =
               Cardinality({f \in Copied \cup {e} : Target(f) = v /\ ValueOf(Source(f)) = ValueOf(w)})
  <2> DEFINE S == {f \in Copied : Target(f) = v /\ ValueOf(Source(f)) = ValueOf(w)}
             T == {f \in Copied \cup {e} : Target(f) = v /\ ValueOf(Source(f)) = ValueOf(w)}
  <2>. PICK u : u = getVertex(g, ValueOf(v))
    OBVIOUS
  <2>1. Uses(sub, u, ValueOf(w)) = Cardinality(S)
    <3>1. u = getVertex(sub, ValueOf(v))
      OBVIOUS
    <3>2. CopyInv
      BY DEF PatternInv
    <3> QED
      BY <1>6, <3>1, <3>2 DEF CopyInv
  <2>2. u = getVertex(g, y) <=> Target(e) = v
    <3>1. g.vertex[u].value = ValueOf(v) /\ g.vertex[getVertex(g, y)].value = y
      BY <1>2, VertexFound
    <3>2. ValueOf(v) = ValueOf(Target(e)) => v = Target(e)
      BY <1>6, TypesOfValues DEF WholeInv, BuildTypeOK
    <3> QED
      BY <3>1, <3>2
  <2>3. IsFiniteSet(S) /\ Cardinality(S) \in Nat
    BY EdgesFinite DEF Copied, BuildTypeOK
  <2>4. e \notin S /\ T = (IF Target(e) = v /\ x = ValueOf(w) THEN S \cup {e} ELSE S)
    OBVIOUS
  <2> HIDE DEF S, T
  <2>5. Cardinality(T) = Cardinality(S) + (IF Target(e) = v /\ x = ValueOf(w) THEN 1 ELSE 0)
    <3>1. CASE Target(e) = v /\ x = ValueOf(w)
      <4>1. T = S \cup {e} /\ e \notin S
        BY <2>4, <3>1
      <4>2. Cardinality(S \cup {e}) = Cardinality(S) + 1
        BY <2>3, <4>1, FS_AddElement
      <4> QED
        BY <3>1, <4>1, <4>2
    <3>2. CASE ~(Target(e) = v /\ x = ValueOf(w))
      BY <2>3, <2>4, <3>2
    <3> QED
      BY <3>1, <3>2
  <2>6. Uses(h, u, ValueOf(w)) = Cardinality(S) + (IF u = getVertex(g, y) /\ ValueOf(w) = x THEN 1 ELSE 0)
    BY <1>4, <2>1
  <2>7. Uses(h, u, ValueOf(w)) = Cardinality(T)
    BY <2>2, <2>5, <2>6
  <2> QED
    BY <1>5, <2>7 DEF T
<1> QED
  BY <1>1, <1>6 DEF CopyInv

(***************************************************************************)
(* The edge of a turn of the first loop leaves the member, and has not     *)
(* been passed.                                                            *)
(***************************************************************************)
LEMMA OutgoingEdge ==
  ASSUME BuildTypeOK, WholeInv, PatternInv, Outgoing
  PROVE  \E e \in left :
           /\ e \in DOMAIN graph.edge /\ Source(e) = Member /\ e \in From(graph, Member)
           /\ left' = left \ {e}
           /\ type' = (IF Marks(e) THEN "OUTPUT" ELSE type)
           /\ sub' = IF Target(e) \in bv THEN addEdge(sub, ValueOf(Member), ValueOf(Target(e)))
                     ELSE IF Marks(e) THEN Marked(sub, ValueOf(Member)) ELSE sub
           /\ ~PassedOut(e)
           /\ \A f \in DOMAIN graph.edge : (PassedOut(f)' <=> PassedOut(f) \/ f = e)
                                           /\ (PassedIn(f)' <=> PassedIn(f))
<1>1. pc = "outgoing" /\ pc' = "outgoing" /\ UNCHANGED <<block, splits, building, bv, rest>>
  BY DEF Outgoing
<1>2. PICK e \in left :
           /\ left' = left \ {e}
           /\ type' = (IF Marks(e) THEN "OUTPUT" ELSE type)
           /\ sub' = IF Target(e) \in bv THEN addEdge(sub, ValueOf(Member), ValueOf(Target(e)))
                     ELSE IF Marks(e) THEN Marked(sub, ValueOf(Member)) ELSE sub
  BY DEF Outgoing
<1>3. rest # {} /\ Member \in rest /\ Member' = Member /\ left \subseteq From(graph, Member)
  BY <1>1, MemberIs DEF Member, PatternInv, ScanInv
<1>4. e \in DOMAIN graph.edge /\ Source(e) = Member /\ e \in From(graph, Member)
  BY <1>3 DEF From, Source
<1>5. \A f : Source(f)' = Source(f) /\ Target(f)' = Target(f)
  BY <1>1, PatternKept DEF Matching
<1>6. ~PassedOut(e)
  BY <1>1, <1>3, <1>4 DEF PassedOut
<1>7. \A f \in DOMAIN graph.edge : (PassedOut(f)' <=> PassedOut(f) \/ f = e)
                                   /\ (PassedIn(f)' <=> PassedIn(f))
  BY <1>1, <1>2, <1>3, <1>4, <1>5 DEF PassedOut, PassedIn
<1> QED
  BY <1>2, <1>4, <1>6, <1>7

(***************************************************************************)
(* An edge to another member gets its copy; the first one to a user        *)
(* outside makes the member an output and counts it.                       *)
(***************************************************************************)
LEMMA OutgoingKeeps ==
  ASSUME BuildTypeOK, WholeInv, PatternInv, Outgoing
  PROVE  BuildTypeOK' /\ WholeInv' /\ PatternInv'
<1>. PICK m : m = Member
  OBVIOUS
<1>1. /\ pc = "outgoing" /\ pc' = "outgoing"
      /\ UNCHANGED <<block, splits, building, bv, rest>>
  BY DEF Outgoing
<1>2. PICK e \in left :
        /\ e \in DOMAIN graph.edge /\ Source(e) = m /\ e \in From(graph, m)
        /\ left' = left \ {e}
        /\ type' = (IF Marks(e) THEN "OUTPUT" ELSE type)
        /\ sub' = IF Target(e) \in bv THEN addEdge(sub, ValueOf(m), ValueOf(Target(e)))
                  ELSE IF Marks(e) THEN Marked(sub, ValueOf(m)) ELSE sub
        /\ ~PassedOut(e)
        /\ \A f \in DOMAIN graph.edge : (PassedOut(f)' <=> PassedOut(f) \/ f = e)
                                        /\ (PassedIn(f)' <=> PassedIn(f))
  BY OutgoingEdge
<1>3. rest # {} /\ m \in rest /\ m \in bv /\ m \in DOMAIN graph.vertex /\ m = Member'
      /\ left \subseteq From(graph, m) /\ type = Mark(m)
  BY <1>1, MemberIs DEF Member, PatternInv, ScanInv
<1>4. /\ WholeInv' /\ Offered(bv)' /\ Offered(bv) /\ MemberValues' = MemberValues
      /\ UNCHANGED <<block, splits, graph, pos, nth, last, forcedOutputs, bv>>
      /\ \A v : ValueOf(v)' = ValueOf(v) /\ TypeOf(v)' = TypeOf(v)
      /\ \A f : Source(f)' = Source(f) /\ Target(f)' = Target(f)
  BY <1>1, PatternKept DEF Matching
<1>5. /\ ~sub.failed /\ IsGraph(sub)
      /\ {sub.vertex[u].value : u \in DOMAIN sub.vertex} = HeldValues
      /\ \A u, w \in DOMAIN sub.vertex : sub.vertex[u].value = sub.vertex[w].value => u = w
      /\ \A u \in DOMAIN sub.vertex :
           /\ sub.vertex[u].value \notin MemberValues => sub.vertex[u].op = "INPUT"
           /\ \A v \in bv : sub.vertex[u].value = ValueOf(v) => sub.vertex[u].op = Mark(v)
  BY <1>1 DEF PatternInv, SubInv, Matching, BuildTypeOK
<1>6. HeldValues = MemberValues \cup {ValueOf(Source(f)) : f \in Copied}
      /\ HeldValues' = MemberValues \cup {ValueOf(Source(f)) : f \in Copied'}
  BY <1>1, <1>4 DEF HeldValues
<1>7. \A v \in bv : Known(sub, ValueOf(v))
  <2>1. \A v \in bv : ValueOf(v) \in {sub.vertex[u].value : u \in DOMAIN sub.vertex}
    BY <1>5, <1>6 DEF MemberValues
  <2> QED
    BY <2>1 DEF Known, VerticesOf
<1>8. Joining /\ Joining' /\ Matching' /\ pc' # "nodes" /\ bv \subseteq DOMAIN graph.vertex
  BY <1>1 DEF Joining, Matching, BuildTypeOK
<1>9. \A f : f \in From(graph, m) => f \in DOMAIN graph.edge /\ Source(f) = m
  BY DEF From, Source
<1>10. ASSUME IsGraph(sub'), type' \in OpType
       PROVE  BuildTypeOK'
  BY <1>1, <1>2, <1>4, <1>10 DEF BuildTypeOK
<1>11. ASSUME type' = Mark(m)'
       PROVE  ScanInv'
  <2>1. left' \subseteq From(graph, Member)'
    BY <1>2, <1>3, <1>4
  <2> QED
    BY <1>1, <1>3, <1>4, <1>11, <2>1 DEF ScanInv, Matching
<1>12. CASE Target(e) \in bv
  <2>1. ~Marks(e) /\ type' = type /\ sub' = addEdge(sub, ValueOf(m), ValueOf(Target(e)))
    BY <1>2, <1>12 DEF Marks
  <2>2. Known(sub, ValueOf(m)) /\ Known(sub, ValueOf(Target(e)))
    BY <1>3, <1>7, <1>12
  <2>3. IsGraph(sub') /\ sub'.vertex = sub.vertex /\ sub'.failed = sub.failed
    BY <1>5, <2>1, <2>2, EdgeAdded
  <2>4. e \notin Copied /\ Copied' = Copied \cup {e}
    BY <1>2, <1>3, <1>4, <1>12 DEF Copied
  <2>5. \A v : Mark(v)' = Mark(v)
    <3>1. \A v : Leaves(v)' = Leaves(v)
      BY <1>2, <1>4, <1>12 DEF Leaves, From
    <3> QED
      BY <1>4, <3>1 DEF Mark
  <2>6. HeldValues' = HeldValues
    <3>1. ValueOf(Source(e)) \in MemberValues
      BY <1>2, <1>3 DEF MemberValues
    <3>2. {ValueOf(Source(f)) : f \in Copied'} = {ValueOf(Source(f)) : f \in Copied} \cup {ValueOf(Source(e))}
      BY <2>4
    <3> QED
      BY <1>6, <3>1, <3>2
  <2>7. SubInv'
    BY <1>4, <1>5, <1>8, <2>3, <2>5, <2>6 DEF SubInv
  <2>8. CopyInv'
    BY <1>1, <1>2, <1>5, <1>7, <1>8, <1>12, <2>1, <2>2, <2>4, OneMoreCopy
  <2>9. BuildTypeOK'
    BY <1>10, <2>1, <2>3 DEF BuildTypeOK
  <2>10. ScanInv'
    BY <1>3, <1>11, <2>1, <2>5
  <2> QED
    BY <1>1, <1>4, <2>7, <2>8, <2>9, <2>10 DEF PatternInv, NoEdgeInv
<1>13. CASE Target(e) \notin bv
  <2>1. Copied' = Copied
    BY <1>2, <1>4, <1>13 DEF Copied
  <2>2. HeldValues' = HeldValues
    BY <1>4, <1>6, <2>1
  <2>3. \A v : v # m => Mark(v)' = Mark(v)
    <3>1. \A v : v # m => Leaves(v)' = Leaves(v)
      <4>1. \A v : v # m => \A f \in From(graph, v) : f \in DOMAIN graph.edge /\ f # e
        BY <1>2 DEF From, Source
      <4> QED
        BY <1>2, <1>4, <4>1 DEF Leaves
    <3> QED
      BY <1>4, <3>1 DEF Mark
  <2>4. Mark(m)' = IF TypeOf(m) # "CONSTANT" THEN "OUTPUT" ELSE "CONSTANT"
    <3>1. TypeOf(m) # "CONSTANT" => Leaves(m)'
      BY <1>2, <1>4, <1>13 DEF Leaves
    <3>2. TypeOf(m) = "CONSTANT" => ~Leaves(m)'
      BY <1>4 DEF Leaves
    <3> QED
      BY <1>4, <3>1, <3>2 DEF Mark
  <2>5. TypeOf(m) # "INPUT"
    <3>1. Target(e) \in Users(m)
      BY <1>2 DEF Users
    <3> QED
      BY <1>3, <1>4, <1>13, <3>1 DEF Offered
  <2>6. TypeOf(m) \in OpType /\ (type = TypeOf(m) \/ type = "OUTPUT") /\ (TypeOf(m) = "CONSTANT" => type = "CONSTANT")
    <3>1. TypeOf(m) \in OpType
      BY <1>3, GraphParts DEF TypeOf, BuildTypeOK
    <3> QED
      BY <1>3, <3>1 DEF Mark, Leaves
  <2>7. CASE Marks(e)
    <3>1. type' = "OUTPUT" /\ sub' = Marked(sub, ValueOf(m)) /\ type \notin {"CONSTANT", "OUTPUT"}
      BY <1>2, <1>13, <2>7 DEF Marks
    <3>2. TypeOf(m) = type /\ TypeOf(m) # "CONSTANT" /\ type \notin {"INPUT", "OUTPUT"}
      BY <2>5, <2>6, <3>1
    <3>. PICK u : u = getVertex(sub, ValueOf(m))
      OBVIOUS
    <3>3. u \in DOMAIN sub.vertex /\ sub.vertex[u].value = ValueOf(m)
      BY <1>3, <1>5, <1>7, VertexFound
    <3>4. sub.vertex[u].op = type
      BY <1>3, <1>5, <3>3
    <3>5. /\ IsGraph(sub') /\ DOMAIN sub'.vertex = DOMAIN sub.vertex
          /\ sub'.vertex[u].value = sub.vertex[u].value /\ sub'.vertex[u].op = "OUTPUT"
          /\ \A w \in DOMAIN sub.vertex : w # u => sub'.vertex[w] = sub.vertex[w]
          /\ sub'.edge = sub.edge /\ sub'.failed = sub.failed
      BY <1>3, <1>5, <1>7, <3>1, <3>2, <3>4, OutputMarked
    <3>6. \A w \in DOMAIN sub.vertex : sub'.vertex[w].value = sub.vertex[w].value
      BY <3>5
    <3>7. SubInv'
      <4>1. {sub'.vertex[w].value : w \in DOMAIN sub'.vertex} = HeldValues'
        BY <1>5, <2>2, <3>5, <3>6
      <4>2. \A w, z \in DOMAIN sub'.vertex : sub'.vertex[w].value = sub'.vertex[z].value => w = z
        BY <1>5, <3>5, <3>6
      <4>3. ValueOf(m) \in MemberValues
        BY <1>3 DEF MemberValues
      <4>4. \A w \in DOMAIN sub'.vertex : sub'.vertex[w].value \notin MemberValues => sub'.vertex[w].op = "INPUT"
        BY <1>5, <3>3, <3>5, <4>3
      <4>5. \A v \in bv : ValueOf(v) = ValueOf(m) => v = m
        BY <1>3, <1>8, <3>2, TypesOfValues DEF WholeInv
      <4>6. \A w \in DOMAIN sub'.vertex, v \in bv :
              sub'.vertex[w].value = ValueOf(v) => sub'.vertex[w].op = Mark(v)'
        <5>1. \A v \in bv : sub'.vertex[u].value = ValueOf(v) => sub'.vertex[u].op = Mark(v)'
          BY <2>4, <3>2, <3>3, <3>5, <4>5
        <5>2. \A w \in DOMAIN sub.vertex : w # u => sub.vertex[w].value # ValueOf(m)
          BY <1>5, <3>3
        <5>3. ASSUME NEW w \in DOMAIN sub'.vertex, NEW v \in bv, w # u, sub'.vertex[w].value = ValueOf(v)
              PROVE  sub'.vertex[w].op = Mark(v)'
          BY <1>5, <2>3, <3>5, <5>2, <5>3
        <5> QED
          BY <5>1, <5>3
      <4> QED
        BY <1>4, <1>5, <1>8, <3>5, <4>1, <4>2, <4>4, <4>6 DEF SubInv
    <3>8. CopyInv'
      <4>1. \A z : getVertex(sub', z) = getVertex(sub, z)
        <5>1. \A z : VerticesOf(sub', z) = VerticesOf(sub, z)
          BY <3>5, <3>6 DEF VerticesOf
        <5> QED
          BY <5>1 DEF getVertex
      <4>2. \A v, z : Uses(sub', v, z) = Uses(sub, v, z)
        <5>1. \A f \in DOMAIN sub.edge : sub.edge[f][1] \in DOMAIN sub.vertex
          BY <1>5, GraphParts
        <5>2. IsGraph(sub) /\ DOMAIN sub'.edge = DOMAIN sub.edge
          BY <1>5, <3>5
        <5>3. \A f \in DOMAIN sub.edge :
                /\ sub'.edge[f][2] = sub.edge[f][2]
                /\ sub'.vertex[sub'.edge[f][1]].value = sub.vertex[sub.edge[f][1]].value
          BY <3>5, <3>6, <5>1
        <5> QED
          BY <5>2, <5>3, UsesStay
      <4> QED
        BY <1>4, <1>8, <2>1, <4>1, <4>2 DEF PatternInv, CopyInv
    <3>9. BuildTypeOK'
      BY <1>10, <3>1, <3>5 DEF OpType
    <3>10. ScanInv'
      BY <1>11, <2>4, <3>1, <3>2
    <3> QED
      BY <1>1, <1>4, <3>7, <3>8, <3>9, <3>10 DEF PatternInv, NoEdgeInv
  <2>8. CASE ~Marks(e)
    <3>1. type' = type /\ sub' = sub /\ type \in {"CONSTANT", "OUTPUT"}
      BY <1>2, <1>13, <2>8 DEF Marks
    <3>2. Mark(m)' = Mark(m)
      BY <1>3, <2>4, <2>6, <3>1
    <3>3. \A v : Mark(v)' = Mark(v)
      BY <2>3, <3>2
    <3>4. SubInv'
      BY <1>4, <1>5, <1>8, <2>2, <3>1, <3>3 DEF SubInv
    <3>5. CopyInv'
      BY <1>4, <1>8, <2>1, <3>1 DEF PatternInv, CopyInv
    <3>6. BuildTypeOK'
      BY <1>10, <3>1 DEF BuildTypeOK
    <3>7. ScanInv'
      BY <1>3, <1>11, <3>1, <3>2
    <3> QED
      BY <1>1, <1>4, <3>4, <3>5, <3>6, <3>7 DEF PatternInv, NoEdgeInv
  <2> QED
    BY <2>7, <2>8
<1> QED
  BY <1>12, <1>13

(***************************************************************************)
(* The edge of a turn of the second loop enters the member, and has not    *)
(* been passed.                                                            *)
(***************************************************************************)
LEMMA IncomingEdge ==
  ASSUME BuildTypeOK, WholeInv, PatternInv, Incoming
  PROVE  \E e \in left :
           /\ e \in DOMAIN graph.edge /\ Target(e) = Member
           /\ left' = left \ {e}
           /\ sub' = IF Source(e) \in bv THEN sub ELSE Fed(sub, ValueOf(Source(e)), ValueOf(Member))
           /\ ~PassedIn(e)
           /\ \A f \in DOMAIN graph.edge : (PassedOut(f)' <=> PassedOut(f))
                                           /\ (PassedIn(f)' <=> PassedIn(f) \/ f = e)
<1>1. pc = "incoming" /\ pc' = "incoming" /\ UNCHANGED <<block, splits, building, bv, rest, type>>
  BY DEF Incoming
<1>2. PICK e \in left :
           /\ left' = left \ {e}
           /\ sub' = IF Source(e) \in bv THEN sub ELSE Fed(sub, ValueOf(Source(e)), ValueOf(Member))
  BY DEF Incoming
<1>3. rest # {} /\ Member \in rest /\ Member' = Member /\ left \subseteq Into(graph, Member)
  BY <1>1, MemberIs DEF Member, PatternInv, ScanInv
<1>4. e \in DOMAIN graph.edge /\ Target(e) = Member
  BY <1>3 DEF Into, Target
<1>5. \A f : Source(f)' = Source(f) /\ Target(f)' = Target(f)
  BY <1>1, PatternKept DEF Matching
<1>6. ~PassedIn(e)
  BY <1>1, <1>3, <1>4 DEF PassedIn
<1>7. \A f \in DOMAIN graph.edge : (PassedOut(f)' <=> PassedOut(f))
                                   /\ (PassedIn(f)' <=> PassedIn(f) \/ f = e)
  BY <1>1, <1>2, <1>3, <1>4, <1>5 DEF PassedOut, PassedIn
<1> QED
  BY <1>2, <1>4, <1>6, <1>7

(***************************************************************************)
(* The map leads where it led when a vertex of another value comes behind. *)
(***************************************************************************)
LEMMA StillFound ==
  ASSUME NEW g, IsGraph(g), NEW x \in Value, NEW t \in OpType, NEW h, h = addNode(g, x, t),
         NEW y, Known(g, y)
  PROVE  Known(h, y) /\ getVertex(h, y) = getVertex(g, y)
<1>1. CASE Known(g, x)
  BY <1>1 DEF addNode
<1>2. CASE ~Known(g, x)
  <2>. PICK n : n = Len(g.vertex) + 1
    OBVIOUS
  <2>1. /\ DOMAIN h.vertex = (DOMAIN g.vertex) \cup {n} /\ n \notin DOMAIN g.vertex
        /\ h.vertex[n].value = x
        /\ \A v \in DOMAIN g.vertex : h.vertex[v] = g.vertex[v]
    BY <1>2, NodeAdded
  <2>2. x # y
    BY <1>2
  <2>3. VerticesOf(h, y) = VerticesOf(g, y)
    BY <2>1, <2>2 DEF VerticesOf
  <2> QED
    BY <2>3 DEF Known, getVertex
<1> QED
  BY <1>1, <1>2

(***************************************************************************)
(* An edge from outside gets its copy, and its source a vertex if its      *)
(* value had none.                                                         *)
(***************************************************************************)
LEMMA IncomingKeeps ==
  ASSUME BuildTypeOK, WholeInv, PatternInv, Incoming
  PROVE  BuildTypeOK' /\ WholeInv' /\ PatternInv'
<1>. PICK m : m = Member
  OBVIOUS
<1>1. /\ pc = "incoming" /\ pc' = "incoming"
      /\ UNCHANGED <<block, splits, building, bv, rest, type>>
  BY DEF Incoming
<1>2. PICK e \in left :
        /\ e \in DOMAIN graph.edge /\ Target(e) = m
        /\ left' = left \ {e}
        /\ sub' = IF Source(e) \in bv THEN sub ELSE Fed(sub, ValueOf(Source(e)), ValueOf(m))
        /\ ~PassedIn(e)
        /\ \A f \in DOMAIN graph.edge : (PassedOut(f)' <=> PassedOut(f))
                                        /\ (PassedIn(f)' <=> PassedIn(f) \/ f = e)
  BY IncomingEdge
<1>3. rest # {} /\ m \in rest /\ m \in bv /\ m \in DOMAIN graph.vertex /\ m = Member'
      /\ left \subseteq Into(graph, m)
  BY <1>1, MemberIs DEF Member, PatternInv, ScanInv
<1>4. /\ WholeInv' /\ Offered(bv)' /\ MemberValues' = MemberValues
      /\ UNCHANGED <<block, splits, graph, pos, nth, last, forcedOutputs, bv>>
      /\ \A v : ValueOf(v)' = ValueOf(v) /\ TypeOf(v)' = TypeOf(v)
      /\ \A f : Source(f)' = Source(f) /\ Target(f)' = Target(f)
  BY <1>1, PatternKept DEF Matching
<1>5. /\ ~sub.failed /\ IsGraph(sub)
      /\ {sub.vertex[u].value : u \in DOMAIN sub.vertex} = HeldValues
      /\ \A u, w \in DOMAIN sub.vertex : sub.vertex[u].value = sub.vertex[w].value => u = w
      /\ \A u \in DOMAIN sub.vertex :
           /\ sub.vertex[u].value \notin MemberValues => sub.vertex[u].op = "INPUT"
           /\ \A v \in bv : sub.vertex[u].value = ValueOf(v) => sub.vertex[u].op = Mark(v)
  BY <1>1 DEF PatternInv, SubInv, Matching, BuildTypeOK
<1>6. HeldValues = MemberValues \cup {ValueOf(Source(f)) : f \in Copied}
      /\ HeldValues' = MemberValues \cup {ValueOf(Source(f)) : f \in Copied'}
  BY <1>1, <1>4 DEF HeldValues
<1>7. \A v \in bv : Known(sub, ValueOf(v))
  <2>1. \A v \in bv : ValueOf(v) \in {sub.vertex[u].value : u \in DOMAIN sub.vertex}
    BY <1>5, <1>6 DEF MemberValues
  <2> QED
    BY <2>1 DEF Known, VerticesOf
<1>8. Joining /\ Joining' /\ Matching' /\ pc' # "nodes" /\ bv \subseteq DOMAIN graph.vertex
  BY <1>1 DEF Joining, Matching, BuildTypeOK
<1>9. \A v : Mark(v)' = Mark(v)
  <2>1. \A v : \A f \in From(graph, v) : f \in DOMAIN graph.edge
    BY DEF From
  <2>2. \A v : Leaves(v)' = Leaves(v)
    BY <1>2, <1>4, <2>1 DEF Leaves
  <2> QED
    BY <1>4, <2>2 DEF Mark
<1>10. ASSUME IsGraph(sub')
       PROVE  BuildTypeOK'
  BY <1>1, <1>2, <1>4, <1>10 DEF BuildTypeOK
<1>11. ScanInv'
  <2>1. left' \subseteq Into(graph, Member)'
    BY <1>2, <1>3, <1>4
  <2> QED
    BY <1>1, <1>3, <1>4, <2>1 DEF ScanInv, Matching
<1>12. CASE Source(e) \in bv
  <2>1. sub' = sub
    BY <1>2, <1>12
  <2>2. Copied' = Copied
    BY <1>2, <1>4, <1>12 DEF Copied
  <2>3. HeldValues' = HeldValues
    BY <1>4, <1>6, <2>2
  <2>4. SubInv'
    BY <1>4, <1>5, <1>8, <1>9, <2>1, <2>3 DEF SubInv
  <2>5. CopyInv'
    BY <1>4, <1>8, <2>1, <2>2 DEF PatternInv, CopyInv
  <2> QED
    BY <1>1, <1>4, <1>5, <1>10, <1>11, <2>1, <2>4, <2>5 DEF PatternInv, NoEdgeInv
<1>13. CASE Source(e) \notin bv
  <2>. PICK x : x = ValueOf(Source(e))
    OBVIOUS
  <2>. PICK g : g = addNode(sub, x, "INPUT")
    OBVIOUS
  <2>. PICK n : n = Len(sub.vertex) + 1
    OBVIOUS
  <2>1. sub' = addEdge(g, x, ValueOf(m))
    BY <1>2, <1>13 DEF Fed
  <2>2. x \in Value /\ "INPUT" \in OpType
    BY <1>2, EdgesJoin, GraphParts DEF ValueOf, OpType, BuildTypeOK
  <2>3. \/ Known(sub, x) /\ g = sub
        \/ /\ ~Known(sub, x)
           /\ DOMAIN g.vertex = (DOMAIN sub.vertex) \cup {n} /\ n \notin DOMAIN sub.vertex
           /\ g.vertex[n].value = x /\ g.vertex[n].op = "INPUT"
           /\ \A u \in DOMAIN sub.vertex : g.vertex[u] = sub.vertex[u]
    <3>1. CASE Known(sub, x)
      BY <3>1 DEF addNode
    <3>2. CASE ~Known(sub, x)
      BY <1>5, <2>2, <3>2, NodeAdded
    <3> QED
      BY <3>1, <3>2
  <2>4. IsGraph(g) /\ g.edge = sub.edge /\ ~g.failed /\ Known(g, x)
    <3>1. CASE Known(sub, x)
      BY <1>5, <3>1 DEF addNode
    <3>2. CASE ~Known(sub, x)
      <4>1. IsGraph(g) /\ g.edge = sub.edge /\ ~g.failed
        BY <1>5, <2>2, <3>2, NodeAdded
      <4>2. Known(g, x)
        BY <2>3, <3>2 DEF Known, VerticesOf
      <4> QED
        BY <4>1, <4>2
    <3> QED
      BY <3>1, <3>2
  <2>5. \A v \in bv : Known(g, ValueOf(v)) /\ getVertex(g, ValueOf(v)) = getVertex(sub, ValueOf(v))
    BY <1>5, <1>7, <2>2, StillFound
  <2>6. IsGraph(sub') /\ sub'.vertex = g.vertex /\ ~sub'.failed
    BY <1>3, <2>1, <2>4, <2>5, EdgeAdded
  <2>7. e \notin Copied /\ Copied' = Copied \cup {e}
    BY <1>2, <1>3, <1>4, <1>13 DEF Copied
  <2>8. HeldValues' = HeldValues \cup {x}
    <3>1. {ValueOf(Source(f)) : f \in Copied'} = {ValueOf(Source(f)) : f \in Copied} \cup {x}
      BY <2>7
    <3> QED
      BY <1>6, <3>1
  <2>9. SubInv'
    <3>1. {g.vertex[u].value : u \in DOMAIN g.vertex} = HeldValues'
      <4>1. {g.vertex[u].value : u \in DOMAIN g.vertex}
              = {sub.vertex[u].value : u \in DOMAIN sub.vertex} \cup {x}
        <5>1. CASE Known(sub, x) /\ g = sub
          <6>1. \E u \in DOMAIN sub.vertex : sub.vertex[u].value = x
            BY <5>1 DEF Known, VerticesOf
          <6> QED
            BY <5>1, <6>1
        <5>2. CASE ~Known(sub, x)
          BY <2>3, <5>2
        <5> QED
          BY <2>3, <5>1, <5>2
      <4> QED
        BY <1>5, <2>8, <4>1
    <3>2. \A u, w \in DOMAIN g.vertex : g.vertex[u].value = g.vertex[w].value => u = w
      BY <1>5, <2>3 DEF Known, VerticesOf
    <3>3. ~Known(sub, x) => x \notin MemberValues
      BY <1>7 DEF MemberValues
    <3>4. \A u \in DOMAIN g.vertex : g.vertex[u].value \notin MemberValues => g.vertex[u].op = "INPUT"
      BY <1>5, <2>3
    <3>5. \A u \in DOMAIN g.vertex : \A v \in bv : g.vertex[u].value = ValueOf(v) => g.vertex[u].op = Mark(v)
      <4>1. \A v \in bv : ValueOf(v) \in MemberValues
        BY DEF MemberValues
      <4> QED
        BY <1>5, <2>3, <3>3, <4>1
    <3> QED
      BY <1>4, <1>8, <1>9, <2>6, <3>1, <3>2, <3>4, <3>5 DEF SubInv
  <2>10. CopyInv'
    <3>1. \A v, z : Uses(g, v, z) = Uses(sub, v, z)
      <4>1. \A f \in DOMAIN sub.edge : sub.edge[f][1] \in DOMAIN sub.vertex
        BY <1>5, GraphParts
      <4>2. IsGraph(sub) /\ DOMAIN g.edge = DOMAIN sub.edge
        BY <1>5, <2>4
      <4>3. \A f \in DOMAIN sub.edge :
              /\ g.edge[f][2] = sub.edge[f][2]
              /\ g.vertex[g.edge[f][1]].value = sub.vertex[sub.edge[f][1]].value
        BY <2>3, <2>4, <4>1
      <4> QED
        BY <4>2, <4>3, UsesStay
    <3>2. Target(e) \in bv /\ sub' = addEdge(g, ValueOf(Source(e)), ValueOf(Target(e)))
      BY <1>2, <1>3, <2>1
    <3>3. Known(g, ValueOf(Source(e)))
      BY <2>4
    <3> QED
      BY <1>1, <1>2, <1>8, <2>4, <2>5, <2>7, <3>1, <3>2, <3>3, OneMoreCopy
  <2> QED
    BY <1>1, <1>4, <1>10, <1>11, <2>6, <2>9, <2>10 DEF PatternInv, NoEdgeInv
<1> QED
  BY <1>12, <1>13

(***************************************************************************)
(* The invariant.                                                          *)
(***************************************************************************)
LEMMA BuildNextKeeps ==
  ASSUME BuildInv, [BuildNext]_buildVars
  PROVE  BuildInv'
<1> USE DEF BuildInv
<1>1. CASE UNCHANGED buildVars
  <2>1. UNCHANGED <<block, splits, pc, pos, nth, last, forcedOutputs, graph, bv, rest, type, left, sub>>
    BY <1>1 DEF buildVars, building, matching
  <2>2. BuildTypeOK'
    BY <2>1 DEF BuildTypeOK
  <2>3. \A k : Inst(k)' = Inst(k) /\ NeededAfter(k)' = NeededAfter(k) /\ Listed(k)' = Listed(k)
    BY <2>1 DEF Inst, NeededAfter, Listed
  <2>4. WholeInv'
    <3>1. Visited' = Visited /\ Building' = Building /\ Plain' = Plain
      BY <2>1 DEF Visited, Building, Plain, Inst
    <3>2. \A k, z : Times(k, z)' = Times(k, z)
      BY <2>3 DEF Times
    <3>3. LoopInv' /\ ForcedInv'
      BY <2>1, <2>3, <3>1 DEF WholeInv, LoopInv, ForcedInv
    <3>4. VertexInv' /\ EdgeInv'
      BY <2>1, <3>1, GraphKept DEF WholeInv
    <3>5. ConstantInv' /\ UsesInv'
      BY <2>1, <3>1, <3>2, GraphKept DEF WholeInv, ConstantInv, UsesInv
    <3> QED
      BY <3>3, <3>4, <3>5 DEF WholeInv
  <2>5. PatternInv'
    <3>1. Offered(bv)' = Offered(bv) /\ MemberValues' = MemberValues /\ Member' = Member
      BY <2>1 DEF Offered, MemberValues, Member, ValueOf, TypeOf, Store, Users, Inst, Target
    <3>2. Matching' = Matching /\ Joining' = Joining
      BY <2>1 DEF Matching, Joining
    <3>3. \A e : PassedOut(e)' = PassedOut(e) /\ PassedIn(e)' = PassedIn(e)
      BY <2>1, <3>1 DEF PassedOut, PassedIn, Source, Target
    <3>4. \A v : ValueOf(v)' = ValueOf(v) /\ TypeOf(v)' = TypeOf(v)
      BY <2>1 DEF ValueOf, TypeOf
    <3>5. \A v : Mark(v)' = Mark(v)
      BY <2>1, <3>3, <3>4 DEF Mark, Leaves, Target
    <3>6. Copied' = Copied
      BY <2>1, <3>3 DEF Copied, Source, Target
    <3>7. HeldValues' = HeldValues
      BY <2>1, <3>1, <3>4, <3>6 DEF HeldValues, Source
    <3>8. ScanInv'
      BY <2>1, <3>1, <3>2, <3>5 DEF PatternInv, ScanInv
    <3>9. SubInv'
      BY <2>1, <3>1, <3>2, <3>4, <3>5, <3>7 DEF PatternInv, SubInv
    <3>10. CopyInv' /\ NoEdgeInv'
      BY <2>1, <3>2, <3>4, <3>6 DEF PatternInv, CopyInv, NoEdgeInv, Source, Target
    <3> QED
      BY <3>8, <3>9, <3>10 DEF PatternInv
  <2> QED
    BY <2>2, <2>4, <2>5
<1>2. CASE AddOperand
  BY <1>2, OperandFails, AddOperandKeeps
<1>3. CASE Phi \/ AddInstruction \/ EndOfOperands \/ EndOfBlock
  BY <1>3, PhiKeeps, AddInstructionKeeps, EndOfOperandsKeeps, EndOfBlockKeeps
<1>4. CASE SplitEdge \/ EndOfVertex \/ EndOfSplit
  BY <1>4, SplitEdgeKeeps, EndOfVertexKeeps, EndOfSplitKeeps
<1>5. CASE Identify \/ AddMember \/ AllAdded
  BY <1>5, IdentifyKeeps, AddMemberKeeps, AllAddedKeeps
<1>6. CASE NextMember \/ Outgoing \/ EndOfOutgoing \/ Incoming \/ EndOfIncoming \/ AllConnected
  BY <1>6, NextMemberKeeps, OutgoingKeeps, EndOfOutgoingKeeps, IncomingKeeps, EndOfIncomingKeeps,
     AllConnectedKeeps
<1> QED
  BY <1>1, <1>2, <1>3, <1>4, <1>5, <1>6 DEF BuildNext

(***************************************************************************)
(* So the invariant of construction holds in every state.                  *)
(***************************************************************************)
LEMMA BuildInvHolds == BuildSpec => []BuildInv
<1>1. BuildInit => BuildInv
  BY BuildStarts
<1>2. BuildInv /\ [BuildNext]_buildVars => BuildInv'
  BY BuildNextKeeps
<1> QED
  BY <1>1, <1>2, PTL DEF BuildSpec

-----------------------------------------------------------------------------
(***************************************************************************)
(* The first n steps of a walk that G leads.                               *)
(***************************************************************************)
Walks(w, V, a, G, n) ==
  /\ w \in [0..n -> V] /\ w[0] = a
  /\ \A k \in 0..(n - 1) : w[k + 1] = G[w[k]]

(***************************************************************************)
(* Walks from one place agree.                                             *)
(***************************************************************************)
LEMMA WalksAgree ==
  ASSUME NEW V, NEW a, NEW G, NEW m \in Nat, NEW n \in Nat, m <= n, NEW v, NEW w,
         Walks(v, V, a, G, m), Walks(w, V, a, G, n)
  PROVE  \A k \in 0..m : v[k] = w[k]
<1> DEFINE T == {k \in Nat : k <= m /\ v[k] # w[k]}
<1>1. T \subseteq Nat /\ 0 \notin T
  BY DEF Walks
<1>2. ASSUME NEW k \in Nat, k + 1 \in T PROVE k \in T
  <2>1. k \in 0..(m - 1) /\ k \in 0..(n - 1)
    BY <1>2
  <2>2. v[k + 1] = G[v[k]] /\ w[k + 1] = G[w[k]]
    BY <2>1 DEF Walks
  <2> QED
    BY <1>2, <2>1, <2>2
<1>3. T = {}
  <2> HIDE DEF T
  <2> QED
    BY <1>1, <1>2, NoExceptions
<1> QED
  BY <1>3

(***************************************************************************)
(* There are walks of every length.                                        *)
(***************************************************************************)
LEMMA WalksExist ==
  ASSUME NEW V, NEW a \in V, NEW G \in [V -> V], NEW n \in Nat
  PROVE  \E w : Walks(w, V, a, G, n)
<1> DEFINE T == {k \in Nat : ~ \E w : Walks(w, V, a, G, k)}
<1>1. T \subseteq Nat /\ 0 \notin T
  <2>1. Walks([i \in 0..0 |-> a], V, a, G, 0)
    BY DEF Walks
  <2> QED
    BY <2>1
<1>2. ASSUME NEW k \in Nat, k \notin T PROVE k + 1 \notin T
  <2>1. PICK w : Walks(w, V, a, G, k)
    BY <1>2
  <2>2. w[k] \in V /\ G[w[k]] \in V
    BY <2>1 DEF Walks
  <2> DEFINE u == [i \in 0..(k + 1) |-> IF i <= k THEN w[i] ELSE G[w[k]]]
  <2>3. u \in [0..(k + 1) -> V] /\ u[0] = a
    BY <2>1, <2>2 DEF Walks
  <2>4. ASSUME NEW i \in 0..k PROVE u[i + 1] = G[u[i]]
    <3>1. u[i] = w[i]
      BY <2>4
    <3>2. CASE i = k
      BY <3>1, <3>2
    <3>3. CASE i # k
      <4>1. i \in 0..(k - 1) /\ u[i + 1] = w[i + 1]
        BY <3>3
      <4> QED
        BY <2>1, <3>1, <4>1 DEF Walks
    <3> QED
      BY <3>2, <3>3
  <2>5. (k + 1) - 1 = k
    OBVIOUS
  <2> HIDE DEF u
  <2>6. Walks(u, V, a, G, k + 1)
    BY <2>3, <2>4, <2>5 DEF Walks
  <2> QED
    BY <2>6
<1>3. T = {}
  <2> HIDE DEF T
  <2> QED
    BY <1>1, <1>2, NoExceptions
<1> QED
  BY <1>3

(***************************************************************************)
(* There is an endless one.                                                *)
(***************************************************************************)
LEMMA EndlessWalk ==
  ASSUME NEW V, NEW a \in V, NEW G \in [V -> V]
  PROVE  \E w \in [Nat -> V] : w[0] = a /\ \A k \in Nat : w[k + 1] = G[w[k]]
<1> DEFINE u(n) == CHOOSE w : Walks(w, V, a, G, n)
           w == [n \in Nat |-> u(n)[n]]
<1>1. \A n \in Nat : Walks(u(n), V, a, G, n)
  BY WalksExist
<1> HIDE DEF u
<1>2. w \in [Nat -> V] /\ w[0] = a
  BY <1>1 DEF Walks
<1>3. ASSUME NEW k \in Nat PROVE w[k + 1] = G[w[k]]
  <2>1. u(k)[k] = u(k + 1)[k]
    <3>1. \A i \in 0..k : u(k)[i] = u(k + 1)[i]
      BY <1>1, WalksAgree
    <3> QED
      BY <3>1
  <2>2. u(k + 1)[k + 1] = G[u(k + 1)[k]]
    <3>1. Walks(u(k + 1), V, a, G, k + 1) /\ k \in 0..((k + 1) - 1)
      BY <1>1
    <3> QED
      BY <3>1 DEF Walks
  <2> QED
    BY <2>1, <2>2
<1> HIDE DEF w
<1> QED
  BY <1>2, <1>3

(***************************************************************************)
(* What is reached from S along edges stays in a set that has S and that   *)
(* no edge leaves.                                                         *)
(***************************************************************************)
LEMMA DescendantsStay ==
  ASSUME NEW g, IsFiniteSet(g.node), \A e \in g.edge : g.dst[e] \in g.node,
         NEW T \in SUBSET g.node, NEW S \in SUBSET T,
         \A e \in g.edge : g.src[e] \in T => g.dst[e] \in T
  PROVE  Descendants(g, S) \subseteq T
<1> DEFINE V == SUBSET T
           next(X) == X \cup {g.dst[e] : e \in {f \in g.edge : g.src[f] \in X}}
           G == [X \in V |-> next(X)]
           eq(w) == w = [k \in Nat |-> IF k = 0 THEN S ELSE next(w[k - 1])]
           w == CHOOSE u : eq(u)
<1>1. \A X \in V : next(X) \in V
  OBVIOUS
<1>2. Descendants(g, S) = w[Cardinality(g.node)]
  BY DEF Descendants
<1>3. G \in [V -> V] /\ \A X \in V : G[X] = next(X)
  BY <1>1
<1>4. S \in V
  OBVIOUS
<1> HIDE DEF next, V, G
<1>5. PICK u \in [Nat -> V] : u[0] = S /\ \A k \in Nat : u[k + 1] = G[u[k]]
  <2>1. G \in [V -> V]
    BY <1>3
  <2> QED
    BY ONLY <1>4, <2>1, EndlessWalk
<1>6. eq(u)
  <2>1. ASSUME NEW k \in Nat, k # 0 PROVE u[k] = next(u[k - 1])
    <3>1. k - 1 \in Nat /\ (k - 1) + 1 = k
      BY <2>1
    <3>2. u[k - 1] \in V /\ u[(k - 1) + 1] = G[u[k - 1]]
      BY <1>5, <3>1
    <3> QED
      BY <1>3, <3>1, <3>2
  <2> QED
    BY <1>5, <2>1
<1>7. eq(w)
  <2> HIDE DEF eq
  <2> QED
    BY <1>6
<1> HIDE DEF w
<1>8. w[0] = S /\ \A k \in Nat : w[k + 1] = next(w[k])
  <2>1. w[0] = S
    BY <1>7
  <2>2. ASSUME NEW k \in Nat PROVE w[k + 1] = next(w[k])
    <3>1. k + 1 \in Nat /\ k + 1 # 0 /\ (k + 1) - 1 = k
      OBVIOUS
    <3> QED
      BY <1>7, <3>1
  <2> QED
    BY <2>1, <2>2
<1> HIDE DEF eq
<1>9. \A k \in Nat : w[k] \in V
  <2> DEFINE B == {k \in Nat : w[k] \notin V}
  <2>1. B \subseteq Nat /\ 0 \notin B /\ \A k \in Nat : k + 1 \in B => k \in B
    BY <1>1, <1>4, <1>8 DEF V
  <2>2. B = {}
    <3> HIDE DEF B
    <3> QED
      BY <2>1, NoExceptions
  <2> QED
    BY <2>2
<1>10. Cardinality(g.node) \in Nat
  BY FS_CardinalityType
<1> QED
  BY <1>2, <1>9, <1>10 DEF V

-----------------------------------------------------------------------------
(***************************************************************************)
(* What is said of the finished graph of a block follows.                  *)
(***************************************************************************)
LEMMA UsesAreKept ==
  ASSUME BuildInv
  PROVE  UsesKept
<1> USE DEF BuildInv, WholeInv
<1>1. SUFFICES ASSUME pc = "choose" PROVE UsesKept
  BY DEF UsesKept
<1>2. Visited = 1..(Len(block.insts) - 1) /\ Plain \subseteq Visited
  BY <1>1, BlockParts DEF Visited
<1>3. ASSUME NEW k \in Plain, NEW x \in OperandsOf(Inst(k).ops)
      PROVE  Uses(graph, getVertex(graph, <<"here", k>>), x)
               = Cardinality({j \in DOMAIN Inst(k).ops : Inst(k).ops[j] = x})
  <2>. PICK y : y = <<"here", k>>
    OBVIOUS
  <2>1. Known(graph, y)
    BY <1>2 DEF VertexInv
  <2>. PICK v : v = getVertex(graph, y)
    OBVIOUS
  <2>2. v \in DOMAIN graph.vertex /\ ValueOf(v) = y
    BY <2>1, VertexFound DEF BuildTypeOK, ValueOf
  <2>3. ValueOf(v)[1] = "here" /\ ValueOf(v)[2] = k
    BY <2>2
  <2>4. Uses(graph, v, x) = Times(k, x)
    BY <1>1, <2>2, <2>3 DEF UsesInv
  <2>5. Times(k, x) = Cardinality({j \in DOMAIN Inst(k).ops : Inst(k).ops[j] = x})
    BY <1>1 DEF Times, Listed
  <2> QED
    BY <2>4, <2>5
<1>4. \A v, w \in DOMAIN graph.vertex :
        v # w /\ ValueOf(v) = ValueOf(w) => splits /\ TypeOf(v) = "CONSTANT"
  BY TypesOfValues DEF VertexInv
<1> QED
  BY <1>3, <1>4 DEF UsesKept

(***************************************************************************)
(* The type of a vertex is the one its instruction justifies.              *)
(***************************************************************************)
LEMMA OutputsAreTold ==
  ASSUME BuildInv
  PROVE  OutputsAreNeeded
<1> USE DEF BuildInv, WholeInv
<1>1. SUFFICES ASSUME pc = "choose", NEW k \in Plain
               PROVE  NeededAfter(k) <=> TypeOf(getVertex(graph, <<"here", k>>)) = "OUTPUT"
  BY DEF OutputsAreNeeded
<1>2. Visited = 1..(Len(block.insts) - 1) /\ Plain \subseteq Visited
  BY <1>1, BlockParts DEF Visited
<1>. PICK y : y = <<"here", k>>
  OBVIOUS
<1>3. Known(graph, y)
  BY <1>2 DEF VertexInv
<1>. PICK v : v = getVertex(graph, y)
  OBVIOUS
<1>4. v \in DOMAIN graph.vertex /\ ValueOf(v) = y
  BY <1>3, VertexFound DEF BuildTypeOK, ValueOf
<1>5. ValueOf(v)[1] = "here" /\ ValueOf(v)[2] = k
  BY <1>4
<1>6. TypeFits(ValueOf(v), TypeOf(v))
  BY <1>4 DEF VertexInv
<1>7. TypeOf(v) = IF NeededAfter(k) THEN "OUTPUT" ELSE "OPERATOR"
  BY <1>5, <1>6 DEF TypeFits
<1> QED
  BY <1>7

(***************************************************************************)
(* It is a graph as the algorithms are given.                              *)
(***************************************************************************)
LEMMA GraphIsFit ==
  ASSUME BuildInv, pc = "choose"
  PROVE  /\ IsDFG(AsDFG(graph))
         /\ splits => FromBasicBlock(AsDFG(graph))
<1> USE DEF BuildInv, WholeInv
<1>. PICK g : g = AsDFG(graph)
  OBVIOUS
<1>1. /\ g.node = DOMAIN graph.vertex /\ g.edge = DOMAIN graph.edge
      /\ g.src = [e \in DOMAIN graph.edge |-> Source(e)]
      /\ g.dst = [e \in DOMAIN graph.edge |-> Target(e)]
      /\ g.op = [v \in DOMAIN graph.vertex |-> TypeOf(v)]
      /\ g.instr = [v \in DOMAIN graph.vertex |-> ValueOf(v)[1] \in {"here", "elsewhere"}]
      /\ g.legal = [v \in DOMAIN graph.vertex |-> ValueOf(v)[1] \in {"here", "elsewhere"} /\ ~Store(v)]
  BY DEF AsDFG, Source, Target, TypeOf, ValueOf
<1>2. IsFiniteSet(g.node) /\ IsFiniteSet(g.edge)
  <2>1. g.node = 1..Len(graph.vertex) /\ g.edge = 1..Len(graph.edge)
        /\ Len(graph.vertex) \in Nat /\ Len(graph.edge) \in Nat
    BY <1>1, GraphParts DEF BuildTypeOK
  <2> QED
    BY <2>1, FS_Interval
<1>3. \A v \in DOMAIN graph.vertex : /\ TypeOf(v) \in OpType /\ ValueOf(v) \in Value
                                     /\ ValueOf(v)[1] \in Classes /\ TypeFits(ValueOf(v), TypeOf(v))
  BY GraphParts, ValueParts DEF BuildTypeOK, VertexInv, ValueOf, TypeOf
<1>4. IsDFG(g)
  <2>1. g.src \in [g.edge -> g.node] /\ g.dst \in [g.edge -> g.node]
    BY <1>1, EdgesJoin
  <2>2. g.op \in [g.node -> OpType]
    BY <1>1, <1>3
  <2>3. g.instr \in [g.node -> BOOLEAN]
    BY <1>1
  <2>4. g.legal \in [g.node -> BOOLEAN]
    BY <1>1
  <2> QED
    BY <1>2, <2>1, <2>2, <2>3, <2>4 DEF IsDFG
<1>5. \A v \in DOMAIN graph.vertex : InEdges(g, v) = Into(graph, v) /\ OutEdges(g, v) = From(graph, v)
  BY <1>1 DEF InEdges, OutEdges, From, Into, Source, Target
<1>6. \A v \in DOMAIN graph.vertex : TypeOf(v) \in {"OPERATOR", "OUTPUT"} <=>
        ValueOf(v)[1] = "here" /\ ValueOf(v)[2] \in Plain
  BY <1>3 DEF TypeFits, Classes
<1>7. ASSUME NEW v \in DOMAIN graph.vertex, Into(graph, v) # {}
      PROVE  TypeOf(v) \in {"OPERATOR", "OUTPUT"}
  BY <1>6, <1>7 DEF Into, Target, EdgeInv
<1>8. ASSUME NEW v \in DOMAIN graph.vertex, TypeOf(v) \in {"OPERATOR", "OUTPUT"}
      PROVE  Into(graph, v) # {}
  <2>. PICK k : k = ValueOf(v)[2]
    OBVIOUS
  <2>1. ValueOf(v)[1] = "here" /\ k \in Plain
    BY <1>6, <1>8
  <2>2. k \in DOMAIN block.insts /\ 1 \in DOMAIN Inst(k).ops /\ Len(Inst(k).ops) \in Nat
        /\ DOMAIN Inst(k).ops = 1..Len(Inst(k).ops)
    BY <2>1, BlockParts
  <2>. PICK x : x = Inst(k).ops[1]
    OBVIOUS
  <2>3. Uses(graph, v, x) = Times(k, x)
    BY <2>1, <2>2 DEF UsesInv, OperandsOf
  <2> DEFINE S == {j \in DOMAIN Inst(k).ops : Inst(k).ops[j] = x}
  <2>4. Times(k, x) = Cardinality(S)
    BY DEF Times, Listed
  <2>5. S \subseteq 1..Len(Inst(k).ops) /\ S # {} /\ IsFiniteSet(1..Len(Inst(k).ops))
    <3>1. 1 \in S
      BY <2>2
    <3>2. IsFiniteSet(1..Len(Inst(k).ops))
      BY <2>2, FS_Interval
    <3> QED
      BY <2>2, <3>1, <3>2
  <2> HIDE DEF S
  <2>6. Cardinality(S) # 0
    BY <2>5, FS_Subset, FS_EmptySet
  <2>7. ASSUME Into(graph, v) = {} PROVE Uses(graph, v, x) = 0
    BY <2>7, FS_EmptySet DEF Uses
  <2> QED
    BY <2>3, <2>4, <2>6, <2>7
<1>9. ASSUME NEW v \in DOMAIN graph.vertex, TypeOf(v) = "CONSTANT", splits
      PROVE  Cardinality(From(graph, v)) = 1
  <2>1. From(graph, v) # {} /\ \A e, f \in From(graph, v) : e = f
    BY <1>9 DEF ConstantInv, Building
  <2>2. PICK e : From(graph, v) = {e}
    BY <2>1
  <2> QED
    BY <2>2, FS_Singleton
<1>10. \A v \in DOMAIN graph.vertex : TypeOf(v) = "CONSTANT" => ValueOf(v)[1] \notin {"here", "elsewhere"}
  BY TypesOfValues
<1>11. splits => FromBasicBlock(g)
  <2>1. ASSUME splits, NEW v \in g.node
        PROVE  /\ (g.op[v] \in {"OPERATOR", "OUTPUT"}) <=> (InEdges(g, v) # {})
               /\ g.op[v] \in {"OPERATOR", "OUTPUT"} => g.instr[v]
               /\ g.op[v] = "CONSTANT" => (~g.instr[v] /\ OutDegree(g, v) = 1)
               /\ g.legal[v] => g.instr[v]
    <3>1. v \in DOMAIN graph.vertex /\ g.op[v] = TypeOf(v)
          /\ (g.instr[v] <=> ValueOf(v)[1] \in {"here", "elsewhere"})
      BY <1>1, <2>1
    <3>2. (g.op[v] \in {"OPERATOR", "OUTPUT"}) <=> (InEdges(g, v) # {})
      BY <1>5, <1>7, <1>8, <3>1
    <3>3. g.op[v] \in {"OPERATOR", "OUTPUT"} => g.instr[v]
      BY <1>6, <3>1
    <3>4. g.op[v] = "CONSTANT" => (~g.instr[v] /\ OutDegree(g, v) = 1)
      BY <1>5, <1>9, <1>10, <2>1, <3>1 DEF OutDegree
    <3>5. g.legal[v] => g.instr[v]
      BY <1>1, <3>1
    <3> QED
      BY <3>2, <3>3, <3>4, <3>5
  <2> QED
    BY <1>4, <2>1 DEF FromBasicBlock
<1> QED
  BY <1>4, <1>11

(***************************************************************************)
(* Positions rise along edges, so no vertex is reached from its users.     *)
(***************************************************************************)
LEMMA GraphHasNoCycle ==
  ASSUME BuildInv, pc = "choose", NEW v \in DOMAIN graph.vertex
  PROVE  v \notin Descendants(AsDFG(graph), Users(v))
<1> USE DEF BuildInv, WholeInv
<1>. PICK g : g = AsDFG(graph)
  OBVIOUS
<1>1. /\ g.node = DOMAIN graph.vertex /\ g.edge = DOMAIN graph.edge
      /\ \A e \in g.edge : g.src[e] = Source(e) /\ g.dst[e] = Target(e)
  BY DEF AsDFG, Source, Target
<1>2. IsFiniteSet(g.node) /\ \A e \in g.edge : g.dst[e] \in g.node
  BY <1>1, GraphIsFit, EdgesJoin DEF IsDFG
<1> DEFINE T == {w \in DOMAIN graph.vertex : /\ ValueOf(w)[1] = "here"
                                             /\ ValueOf(v)[1] = "here" => ValueOf(v)[2] < ValueOf(w)[2]}
<1>3. \A w \in DOMAIN graph.vertex : ValueOf(w)[2] \in Nat
  BY GraphParts, ValueParts DEF BuildTypeOK, ValueOf
<1>4. \A e \in DOMAIN graph.edge :
        /\ Source(e) \in DOMAIN graph.vertex /\ Target(e) \in DOMAIN graph.vertex
        /\ ValueOf(Target(e))[1] = "here"
        /\ ValueOf(Source(e))[1] = "here" => ValueOf(Source(e))[2] < ValueOf(Target(e))[2]
  BY EdgesJoin DEF EdgeInv
<1>5. Users(v) \subseteq T
  BY <1>4 DEF Users, From, Source
<1>6. \A e \in g.edge : g.src[e] \in T => g.dst[e] \in T
  BY <1>1, <1>3, <1>4
<1>7. v \notin T
  BY <1>3
<1>8. T \in SUBSET g.node
  BY <1>1
<1> HIDE DEF T
<1>9. Descendants(g, Users(v)) \subseteq T
  BY <1>2, <1>5, <1>6, <1>8, DescendantsStay
<1> QED
  BY <1>7, <1>9

-----------------------------------------------------------------------------
(***************************************************************************)
(* Two finite sets with a function that tells the members of the one apart *)
(* and reaches all of the other have the same size.                        *)
(***************************************************************************)
LEMMA SameSize ==
  ASSUME NEW S, IsFiniteSet(S), NEW T, NEW f \in [S -> T],
         \A s, t \in S : f[s] = f[t] => s = t, \A t \in T : \E s \in S : f[s] = t
  PROVE  IsFiniteSet(T) /\ Cardinality(T) = Cardinality(S)
<1>1. f \in Bijection(S, T)
  BY DEF Bijection, Injection, Surjection, IsInjective
<1> QED
  BY <1>1, FS_Bijection DEF ExistsBijection

(***************************************************************************)
(* When the loops over the edges are through, every edge into the pattern  *)
(* has been passed, and every member that is needed outside is known to    *)
(* be.                                                                     *)
(***************************************************************************)
LEMMA AllPassed ==
  ASSUME BuildInv, pc = "done"
  PROVE  /\ Copied = {e \in DOMAIN graph.edge : Target(e) \in bv}
         /\ \A v \in bv : /\ Mark(v) = "OUTPUT" <=> v \in Needed
                          /\ Mark(v) = "INPUT" <=> v \in Arguments
<1> USE DEF BuildInv, WholeInv, PatternInv
<1>1. rest = {} /\ Offered(bv)
  BY DEF ScanInv, Matching
<1>2. \A e : PassedOut(e) /\ PassedIn(e)
  BY <1>1 DEF PassedOut, PassedIn
<1>3. \A v : Leaves(v) <=> TypeOf(v) # "CONSTANT" /\ ~(Users(v) \subseteq bv)
  BY <1>2 DEF Leaves, Users
<1>4. \A v \in bv : TypeOf(v) = "INPUT" => ~Leaves(v)
  BY <1>1, <1>3 DEF Offered
<1> QED
  BY <1>2, <1>3, <1>4 DEF Copied, Mark, Needed, Arguments

(***************************************************************************)
(* The values the graph of the pattern then has.                           *)
(***************************************************************************)
LEMMA ValuesHeld ==
  ASSUME BuildInv, pc = "done"
  PROVE  /\ HeldValues = {ValueOf(v) : v \in Feeding \cup bv}
         /\ HeldValues \ MemberValues = {ValueOf(s) : s \in Feeding} \ MemberValues
<1>1. Copied = {e \in DOMAIN graph.edge : Target(e) \in bv}
  BY AllPassed
<1>2. HeldValues = MemberValues \cup {ValueOf(Source(e)) : e \in Copied}
  BY DEF HeldValues
<1>3. \A e \in Copied : Source(e) \in Feeding \cup bv
  BY <1>1 DEF Feeding, Sources, Into, Target
<1>4. \A s \in Feeding : \E e \in Copied : s = Source(e)
  BY <1>1 DEF Feeding, Sources, Into, Target
<1>5. MemberValues = {ValueOf(v) : v \in bv}
  BY DEF MemberValues
<1>6. ASSUME NEW x
      PROVE  x \in HeldValues <=> x \in {ValueOf(v) : v \in Feeding \cup bv}
  BY <1>2, <1>3, <1>4, <1>5
<1>7. ASSUME NEW x
      PROVE  x \in HeldValues \ MemberValues <=> x \in {ValueOf(s) : s \in Feeding} \ MemberValues
  BY <1>5, <1>6
<1> QED
  BY <1>6, <1>7

(***************************************************************************)
(* So it has exactly the vertices, counts and uses it should have.         *)
(***************************************************************************)
LEMMA PatternIsExact ==
  ASSUME BuildInv
  PROVE  PatternGraphExact
<1> USE DEF BuildInv, WholeInv, PatternInv
<1>1. SUFFICES ASSUME pc = "done" PROVE PatternGraphExact
  BY DEF PatternGraphExact
<1>2. Matching /\ Joining /\ pc # "nodes"
  BY <1>1 DEF Matching, Joining
<1>3. /\ \A v \in bv : /\ v \in DOMAIN graph.vertex
                       /\ Mark(v) = "OUTPUT" <=> v \in Needed
                       /\ Mark(v) = "INPUT" <=> v \in Arguments
      /\ Needed \subseteq bv /\ Arguments \subseteq bv
      /\ \A v \in Needed \cup Arguments : TypeOf(v) # "CONSTANT"
  BY <1>1, AllPassed DEF BuildTypeOK, Needed, Arguments
<1>. PICK U : U = DOMAIN sub.vertex
  OBVIOUS
<1>. PICK f : f = [u \in U |-> sub.vertex[u].value]
  OBVIOUS
<1>4. /\ \A u, w \in U : f[u] = f[w] => u = w
      /\ \A u \in U : f[u] \in HeldValues
      /\ \A x \in HeldValues : \E u \in U : f[u] = x
      /\ \A u \in U : f[u] \notin MemberValues => sub.vertex[u].op = "INPUT"
      /\ \A u \in U : \A v \in bv : f[u] = ValueOf(v) => sub.vertex[u].op = Mark(v)
  BY <1>2 DEF SubInv
<1>5. U = 1..Len(sub.vertex) /\ Len(sub.vertex) \in Nat /\ IsFiniteSet(U)
      /\ Cardinality(U) = Len(sub.vertex)
  BY GraphParts, FS_Interval DEF BuildTypeOK
<1>6. \A x \in MemberValues : \E v \in bv : x = ValueOf(v)
  BY DEF MemberValues
<1>7. \A v \in bv : ValueOf(v) \in MemberValues /\ ValueOf(v) \in HeldValues
  BY <1>2 DEF MemberValues, HeldValues
<1>8. \A v, w \in DOMAIN graph.vertex : ValueOf(v) = ValueOf(w) /\ TypeOf(v) # "CONSTANT" => v = w
  BY TypesOfValues DEF VertexInv
<1>9. ASSUME NEW N \in SUBSET bv,
             \A v \in N : TypeOf(v) # "CONSTANT"
      PROVE  /\ IsFiniteSet(N) /\ IsFiniteSet({ValueOf(v) : v \in N})
             /\ Cardinality({ValueOf(v) : v \in N}) = Cardinality(N)
  <2>. PICK T : T = {ValueOf(v) : v \in N}
    OBVIOUS
  <2>. PICK h : h = [v \in N |-> ValueOf(v)]
    OBVIOUS
  <2>1. DOMAIN graph.vertex = 1..Len(graph.vertex) /\ Len(graph.vertex) \in Nat
    BY GraphParts DEF BuildTypeOK
  <2>2. N \subseteq 1..Len(graph.vertex) /\ IsFiniteSet(1..Len(graph.vertex))
    BY <1>3, <2>1, FS_Interval
  <2>3. IsFiniteSet(N)
    BY <2>2, FS_Subset
  <2>4. \A v, w \in N : h[v] = h[w] => v = w
    BY <1>3, <1>8, <1>9
  <2>5. h \in [N -> T] /\ \A t \in T : \E v \in N : h[v] = t
    OBVIOUS
  <2>6. IsFiniteSet(T) /\ Cardinality(T) = Cardinality(N)
    BY ONLY <2>3, <2>4, <2>5, SameSize
  <2> QED
    BY <2>3, <2>6
<1>10. ASSUME NEW A \in SUBSET U, NEW T \in SUBSET HeldValues,
              \A u \in U : u \in A <=> f[u] \in T
       PROVE  IsFiniteSet(T) /\ Cardinality(T) = Cardinality(A)
  <2>. PICK h : h = [u \in A |-> f[u]]
    OBVIOUS
  <2>1. h \in [A -> T]
    BY <1>10
  <2>2. \A u, w \in A : h[u] = h[w] => u = w
    BY <1>4
  <2>3. ASSUME NEW t \in T
        PROVE  \E u \in A : h[u] = t
    <3>1. PICK u \in U : f[u] = t
      BY <1>4
    <3>2. u \in A
      BY <1>10, <3>1
    <3> QED
      BY <3>1, <3>2
  <2>4. IsFiniteSet(A)
    BY <1>5, FS_Subset
  <2> QED
    BY ONLY <2>1, <2>2, <2>3, <2>4, SameSize
<1>11. ~sub.failed
  BY <1>2 DEF SubInv
<1>12. sub.outputs = Cardinality(Needed)
  <2>. PICK A : A = {u \in U : sub.vertex[u].op = "OUTPUT"}
    OBVIOUS
  <2>. PICK T : T = {ValueOf(v) : v \in Needed}
    OBVIOUS
  <2>1. ASSUME NEW u \in U, u \in A PROVE f[u] \in T
    <3>1. f[u] \in MemberValues
      BY <1>4, <2>1
    <3>2. PICK v \in bv : f[u] = ValueOf(v)
      BY <1>6, <3>1
    <3> QED
      BY <1>3, <1>4, <2>1, <3>2
  <2>2. ASSUME NEW u \in U, f[u] \in T PROVE u \in A
    BY <1>3, <1>4, <2>2
  <2>3. T \subseteq HeldValues
    BY <1>3, <1>7
  <2>4. Cardinality(T) = Cardinality(A)
    BY <1>10, <2>1, <2>2, <2>3
  <2>5. Cardinality(T) = Cardinality(Needed)
    BY <1>3, <1>9
  <2>6. sub.outputs = Cardinality(A)
    BY DEF BuildTypeOK, IsGraph, Count
  <2> QED
    BY <2>4, <2>5, <2>6
<1>13. sub.inputs = Cardinality({ValueOf(s) : s \in Feeding} \ MemberValues) + Cardinality(Arguments)
  <2>. PICK A : A = {u \in U : sub.vertex[u].op = "INPUT"}
    OBVIOUS
  <2>. PICK B : B = {ValueOf(s) : s \in Feeding} \ MemberValues
    OBVIOUS
  <2>. PICK C : C = {ValueOf(v) : v \in Arguments}
    OBVIOUS
  <2>0. B = HeldValues \ MemberValues
    BY <1>1, ValuesHeld
  <2>1. ASSUME NEW u \in U, u \in A PROVE f[u] \in B \cup C
    <3>1. CASE f[u] \notin MemberValues
      BY <1>4, <2>0, <3>1
    <3>2. CASE f[u] \in MemberValues
      <4>1. PICK v \in bv : f[u] = ValueOf(v)
        BY <1>6, <3>2
      <4> QED
        BY <1>3, <1>4, <2>1, <4>1
    <3> QED
      BY <3>1, <3>2
  <2>2. ASSUME NEW u \in U, f[u] \in B \cup C PROVE u \in A
    <3>1. CASE f[u] \in B
      BY <1>4, <2>0, <3>1
    <3>2. CASE f[u] \in C
      <4>1. PICK v \in Arguments : f[u] = ValueOf(v)
        BY <3>2
      <4> QED
        BY <1>3, <1>4, <4>1
    <3> QED
      BY <2>2, <3>1, <3>2
  <2>3. C \subseteq MemberValues /\ C \subseteq HeldValues
    BY <1>3, <1>7
  <2>4. B \cup C \subseteq HeldValues /\ B \cap C = {}
    BY <2>0, <2>3
  <2>5. IsFiniteSet(B \cup C) /\ Cardinality(B \cup C) = Cardinality(A)
    BY <1>10, <2>1, <2>2, <2>4
  <2>6. IsFiniteSet(B) /\ IsFiniteSet(C)
    BY <2>5, FS_Subset
  <2>7. Cardinality(B \cup C) = Cardinality(B) + Cardinality(C) - Cardinality({})
    BY <2>4, <2>6, FS_Union
  <2>8. Cardinality(C) = Cardinality(Arguments)
    BY <1>3, <1>9
  <2>9. Cardinality(B) \in Nat /\ Cardinality(C) \in Nat /\ Cardinality({}) = 0
    BY <2>6, FS_CardinalityType, FS_EmptySet
  <2>10. sub.inputs = Cardinality(A)
    BY DEF BuildTypeOK, IsGraph, Count
  <2> QED
    BY <2>5, <2>7, <2>8, <2>9, <2>10
<1>14. Len(sub.vertex) = Cardinality({ValueOf(v) : v \in Feeding \cup bv})
  <2>1. HeldValues = {ValueOf(v) : v \in Feeding \cup bv}
    BY <1>1, ValuesHeld
  <2>2. Cardinality(HeldValues) = Cardinality(U)
    BY <1>4, <1>10
  <2> QED
    BY <1>5, <2>1, <2>2
<1>15. ASSUME NEW v \in bv, NEW w \in DOMAIN graph.vertex, TypeOf(v) # "CONSTANT"
       PROVE  Uses(sub, getVertex(sub, ValueOf(v)), ValueOf(w)) = Uses(graph, v, ValueOf(w))
  <2>. PICK x : x = ValueOf(w)
    OBVIOUS
  <2>. PICK S : S = {e \in Copied : Target(e) = v /\ ValueOf(Source(e)) = x}
    OBVIOUS
  <2>1. Uses(sub, getVertex(sub, ValueOf(v)), x) = Cardinality(S)
    BY <1>2, <1>15 DEF CopyInv
  <2>2. Copied = {e \in DOMAIN graph.edge : Target(e) \in bv}
    BY <1>1, AllPassed
  <2>3. S = {e \in Into(graph, v) : graph.vertex[graph.edge[e][1]].value = x}
    BY <2>2 DEF Into, Target, Source, ValueOf
  <2> QED
    BY <2>1, <2>3 DEF Uses
<1> QED
  BY <1>11, <1>12, <1>13, <1>14, <1>15 DEF PatternGraphExact

-----------------------------------------------------------------------------
(***************************************************************************)
(* The graphs stay well formed: edges join vertices and the counters of    *)
(* inputs and outputs are right at every step; and a vertex of the         *)
(* finished graph uses each value as often as its instruction lists it,    *)
(* split constants or not.                                                 *)
(***************************************************************************)
THEOREM GraphsAreWellFormed == BuildSpec => []GraphInv
<1>1. BuildInv => GraphInv
  BY UsesAreKept DEF GraphInv, BuildInv
<1> QED
  BY <1>1, BuildInvHolds, PTL

(***************************************************************************)
(* The outputs of a block are the values needed after it, and no others,   *)
(* whatever its phis, its terminator and the other blocks use.             *)
(***************************************************************************)
THEOREM OutputsAreExact == BuildSpec => []OutputsAreNeeded
<1>1. BuildInv => OutputsAreNeeded
  BY OutputsAreTold
<1> QED
  BY <1>1, BuildInvHolds, PTL

(***************************************************************************)
(* fromBasicBlock and splitConstants give the identification algorithms    *)
(* graphs of the form their runs are given, FromBasicBlock, and these have *)
(* no cycles.                                                              *)
(***************************************************************************)
THEOREM BuildsWhatAlgorithmsTake == BuildSpec => []BuildsFromBasicBlock
<1>1. BuildInv => BuildsFromBasicBlock
  BY GraphIsFit, GraphHasNoCycle DEF BuildsFromBasicBlock
<1> QED
  BY <1>1, BuildInvHolds, PTL

(***************************************************************************)
(* Split or not, the finished graph meets what the proofs about the        *)
(* identification algorithms assume of a graph: it is well formed and its  *)
(* vertices are numbered.                                                  *)
(***************************************************************************)
THEOREM AlgorithmsGetGraphs ==
  BuildSpec => [](pc = "choose" => LET g == AsDFG(graph)
                                   IN  IsDFG(g) /\ g.node = 1..Cardinality(g.node))
<1> DEFINE Fit == pc = "choose" => LET g == AsDFG(graph)
                                   IN  IsDFG(g) /\ g.node = 1..Cardinality(g.node)
<1>1. ASSUME BuildInv, pc = "choose"
      PROVE  AsDFG(graph).node = 1..Cardinality(AsDFG(graph).node)
  <2>1. AsDFG(graph).node = DOMAIN graph.vertex
    BY DEF AsDFG
  <2>2. DOMAIN graph.vertex = 1..Len(graph.vertex) /\ Len(graph.vertex) \in Nat
    BY <1>1, GraphParts DEF BuildInv, BuildTypeOK
  <2>3. Cardinality(1..Len(graph.vertex)) = Len(graph.vertex)
    BY <2>2, FS_Interval
  <2> QED
    BY <2>1, <2>2, <2>3
<1>2. BuildInv => Fit
  BY <1>1, GraphIsFit
<1> QED
  BY <1>2, BuildInvHolds, PTL

(***************************************************************************)
(* fromBitVector never aborts, and the graph it builds of a pattern has    *)
(* the vertices, the inputs, the outputs and the uses of the pattern,      *)
(* whatever the order of the edges.                                        *)
(***************************************************************************)
THEOREM PatternGraphIsExact == BuildSpec => []PatternGraphExact
<1>1. BuildInv => PatternGraphExact
  BY PatternIsExact
<1> QED
  BY <1>1, BuildInvHolds, PTL
=============================================================================
