----------------------------- MODULE MCSingleCut -----------------------------
EXTENDS SingleCut, MCDataFlowGraph

(* The search tells the two kinds of INPUT apart no more than two constants. *)
OneKindOfInput(g) == \A v \in g.node : g.op[v] = "INPUT" => g.instr[v]

(* Every graph of at most three vertices, and of four with simple edges. *)
MCGraphs ==
  {g \in GraphsOf(1, 0) \cup GraphsOf(2, 1) \cup GraphsOf(3, 1) \cup GraphsOf(4, 0) :
     FromBasicBlock(g) /\ OneKindOfInput(g)}

(* Fewer inputs than outputs, and fewer outputs than inputs. *)
MCPorts == {<<1, 2>>, <<2, 1>>}

(* A value used along a chain of four instructions. *)
Chain ==
  LET op == Kind("OPERATOR", TRUE, TRUE)
  IN  Graph(5, {<<2, 1, 1>>, <<3, 2, 1>>, <<4, 3, 1>>, <<5, 4, 1>>},
            <<Kind("OUTPUT", TRUE, TRUE), op, op, op, Kind("INPUT", TRUE, TRUE)>>)

ChainGraphs == {Chain}

ChainPorts == {<<8, 2>>}
=============================================================================
