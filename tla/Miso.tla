-------------------------------- MODULE Miso --------------------------------
(***************************************************************************)
(* What a multiple-input single-output subgraph (MISO) of a data-flow      *)
(* graph is.                                                               *)
(***************************************************************************)
EXTENDS DataFlowGraph

(***************************************************************************)
(* The vertices AlgoMaxMiso::run marks invalid: instructions the           *)
(* architecture does not support and instructions that are inputs of the   *)
(* block.  Arguments, globals and constants are not marked.                *)
(***************************************************************************)
Invalid(g, v) == g.instr[v] /\ (~g.legal[v] \/ g.op[v] = "INPUT")

(***************************************************************************)
(* M has the single output r: the value of every other member is used, and *)
(* used only inside M.                                                     *)
(***************************************************************************)
SingleOutputAt(g, M, r) ==
  \A v \in M \ {r} : /\ g.op[v] # "OUTPUT"
                     /\ OutEdges(g, v) # {}
                     /\ OutVertices(g, v) \subseteq M

IsMiso(g, M) ==
  /\ \A v \in M : ~Invalid(g, v)
  /\ \E r \in M : SingleOutputAt(g, M, r)

MaximalMisos(g) ==
  LET misos == {M \in SUBSET g.node : IsMiso(g, M)}
  IN  {M \in misos : \A L \in misos : M \subseteq L => L = M}

(***************************************************************************)
(* What run() hands out of the MISO M: nothing in a benchmark run, and no  *)
(* pattern of one vertex.                                                  *)
(***************************************************************************)
Offered(M, benchmark) ==
  IF Cardinality(M) > 1 /\ ~benchmark THEN {M} ELSE {}
=============================================================================
