------------------------------ MODULE MCMaxMiso ------------------------------
EXTENDS MaxMiso, MCDataFlowGraph

(* Every graph of at most three vertices, and of four with simple edges. *)
MCGraphs ==
  {g \in GraphsOf(1, 0) \cup GraphsOf(2, 1) \cup GraphsOf(3, 1) \cup GraphsOf(4, 0) :
     FromBasicBlock(g)}
=============================================================================
