--------------------------- MODULE MCDataFlowGraph ---------------------------
(***************************************************************************)
(* Bounded sets of data-flow graphs for TLC.  Vertices are 1..n and every  *)
(* edge goes from a higher vertex to a lower one: each acyclic graph of n  *)
(* vertices has such a numbering, so nothing is lost but renamings.        *)
(***************************************************************************)
EXTENDS DataFlowGraph

Pairs(n) == {p \in (1..n) \X (1..n) : p[1] > p[2]}

(* The edges of the simple graph P, with a parallel edge for each pair of D. *)
Edges(P, D) ==
  {<<p[1], p[2], 1>> : p \in P} \cup {<<p[1], p[2], 2>> : p \in D}

Graph(n, E, kind) ==
  [node  |-> 1..n,
   edge  |-> E,
   src   |-> [e \in E |-> e[1]],
   dst   |-> [e \in E |-> e[2]],
   op    |-> [v \in 1..n |-> kind[v].op],
   instr |-> [v \in 1..n |-> kind[v].instr],
   legal |-> [v \in 1..n |-> kind[v].legal]]

Kind(op, instr, legal) == [op |-> op, instr |-> instr, legal |-> legal]

(* Vertices with operands: instructions of the block. *)
InnerKinds == {Kind("OPERATOR", TRUE, TRUE), Kind("OUTPUT", TRUE, TRUE),
               Kind("OPERATOR", TRUE, FALSE)}

(* Vertices without: a phi or an instruction of another block, an argument *)
(* or global, a constant.                                                  *)
LeafKinds == {Kind("INPUT", TRUE, TRUE), Kind("INPUT", FALSE, FALSE),
              Kind("CONSTANT", FALSE, FALSE)}

KindsOf(E, v) ==
  IF \E e \in E : e[2] = v THEN InnerKinds
  ELSE IF Cardinality({e \in E : e[1] = v}) = 1 THEN LeafKinds
  ELSE {k \in LeafKinds : k.op = "INPUT"}

(* All graphs of n vertices with at most d pairs joined by parallel edges. *)
GraphsOf(n, d) ==
  UNION {
    LET E == Edges(P, D)
    IN  {Graph(n, E, k) :
           k \in {f \in [1..n -> InnerKinds \cup LeafKinds] :
                    \A v \in 1..n : f[v] \in KindsOf(E, v)}} :
    <<P, D>> \in {x \in (SUBSET Pairs(n)) \X (SUBSET Pairs(n)) :
                    x[2] \subseteq x[1] /\ Cardinality(x[2]) <= d}}
=============================================================================
