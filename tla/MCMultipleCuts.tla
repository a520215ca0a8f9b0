--------------------------- MODULE MCMultipleCuts ---------------------------
EXTENDS MultipleCuts, MCDataFlowGraph

OneKindOfInput(g) == \A v \in g.node : g.op[v] = "INPUT" => g.instr[v]

UpTo3 ==
  {g \in GraphsOf(1, 0) \cup GraphsOf(2, 1) \cup GraphsOf(3, 1) :
     FromBasicBlock(g) /\ OneKindOfInput(g)}

(* And of four vertices with four operand slots. *)
UpTo4 ==
  UpTo3 \cup {g \in GraphsOf(4, 0) :
               FromBasicBlock(g) /\ OneKindOfInput(g) /\ Cardinality(g.edge) = 4}

MCPorts == {<<1, 2>>, <<2, 1>>}
=============================================================================
