--------------------------- MODULE DataFlowGraph ---------------------------
(***************************************************************************)
(* The data-flow graph of one basic block (src/ise/include/DataFlowGraph.h)*)
(* as a value, and the queries the identification algorithms make of it.   *)
(*                                                                         *)
(* A graph is a record                                                     *)
(*    node   the vertex descriptors                                        *)
(*    edge   the operand slots: one edge per operand, so two edges may     *)
(*           join the same two vertices (add x, x)                         *)
(*    src    [edge -> node], the operand                                   *)
(*    dst    [edge -> node], the instruction that uses it                  *)
(*    op     [node -> OpType], the operator_t of the vertex                *)
(*    instr  [node -> BOOLEAN], isa<Instruction>(getValue(v))              *)
(*    legal  [node -> BOOLEAN], Architecture::isValidInstruction           *)
(* The graph is an argument of every operator: a module that runs an       *)
(* algorithm holds it in a variable that Init chooses.                     *)
(***************************************************************************)
EXTENDS Integers, Sequences, FiniteSets

OpType == {"INPUT", "OUTPUT", "OPERATOR", "CONSTANT"}

InEdges(g, v)  == {e \in g.edge : g.dst[e] = v}
OutEdges(g, v) == {e \in g.edge : g.src[e] = v}

InVertices(g, v)  == {g.src[e] : e \in InEdges(g, v)}
OutVertices(g, v) == {g.dst[e] : e \in OutEdges(g, v)}

OutDegree(g, v) == Cardinality(OutEdges(g, v))

(***************************************************************************)
(* The shape every algorithm may rely on, whatever the basic block.        *)
(***************************************************************************)
IsDFG(g) ==
  /\ IsFiniteSet(g.node)
  /\ IsFiniteSet(g.edge)
  /\ g.src \in [g.edge -> g.node]
  /\ g.dst \in [g.edge -> g.node]
  /\ g.op \in [g.node -> OpType]
  /\ g.instr \in [g.node -> BOOLEAN]
  /\ g.legal \in [g.node -> BOOLEAN]

(***************************************************************************)
(* What fromBasicBlock followed by splitConstants builds: instructions of  *)
(* the block have operands, nothing else has, only instructions are legal, *)
(* constants are not instructions and have exactly one use.                *)
(***************************************************************************)
FromBasicBlock(g) ==
  /\ IsDFG(g)
  /\ \A v \in g.node :
       /\ (g.op[v] \in {"OPERATOR", "OUTPUT"}) <=> (InEdges(g, v) # {})
       /\ g.op[v] \in {"OPERATOR", "OUTPUT"} => g.instr[v]
       /\ g.op[v] = "CONSTANT" => (~g.instr[v] /\ OutDegree(g, v) = 1)
       /\ g.legal[v] => g.instr[v]

(***************************************************************************)
(* The orders boost::topological_sort may leave in its back_inserter:      *)
(* every vertex once, users before their operands.                         *)
(***************************************************************************)
IsReverseTopologicalSort(g, t) ==
  /\ t \in Seq(g.node)
  /\ \A i, j \in DOMAIN t : i < j => t[i] # t[j]
  /\ \A v \in g.node : \E i \in DOMAIN t : t[i] = v
  /\ \A i, j \in DOMAIN t : i <= j => t[j] \notin OutVertices(g, t[i])

(* All of them: first a vertex whose users are all placed, then the rest.  *)
ReverseTopologicalSorts(g) ==
  LET from[S \in SUBSET g.node] ==
        IF S = {} THEN {<<>>}
        ELSE UNION {{<<v>> \o t : t \in from[S \ {v}]} :
                      v \in {u \in S : OutVertices(g, u) \cap S = {}}}
  IN  {t \in from[g.node] : IsReverseTopologicalSort(g, t)}

(***************************************************************************)
(* Every vertex reachable from S along the edges, S included.              *)
(***************************************************************************)
Descendants(g, S) ==
  LET step[k \in Nat] ==
        IF k = 0 THEN S
        ELSE LET prev == step[k - 1]
             IN  prev \cup {g.dst[e] : e \in {f \in g.edge : g.src[f] \in prev}}
  IN  step[Cardinality(g.node)]

(***************************************************************************)
(* A set of vertices is convex when no path leaves it and comes back: it   *)
(* can then be executed as one instruction.                                *)
(***************************************************************************)
Convex(g, S) ==
  LET leaving == (UNION {OutVertices(g, v) : v \in S}) \ S
  IN  \A x \in Descendants(g, leaving) \ S : OutVertices(g, x) \cap S = {}
=============================================================================
