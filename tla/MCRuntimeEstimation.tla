------------------------- MODULE MCRuntimeEstimation -------------------------
(***************************************************************************)
(* Graphs of three vertices, a few of four, and instructions slow, fast    *)
(* and free, for RuntimeEstimation.                                        *)
(***************************************************************************)
EXTENDS RuntimeEstimation, MCDataFlowGraph

Insn(op, float) == [op |-> op, float |-> float, const |-> FALSE]
Few == {Insn("Add", FALSE), Insn("FDiv", TRUE), Insn("BitCast", FALSE)}

(* Instructions of the block take any; the others are timed by nobody.     *)
Inner(g) == {v \in g.node : InEdges(g, v) # {}}

WithInstructions(G) ==
  UNION {{[dfg |-> g, insn |-> [v \in g.node |-> IF v \in Inner(g) THEN f[v]
                                                  ELSE Insn("Mul", FALSE)]] :
            f \in [Inner(g) -> Few]} : g \in G}

Plain(n, E) ==
  Graph(n, E, [v \in 1..n |-> IF \E e \in E : e[2] = v
                              THEN Kind(IF v = 1 THEN "OUTPUT" ELSE "OPERATOR", TRUE, TRUE)
                              ELSE Kind("INPUT", TRUE, TRUE)])

UpTo4 == WithInstructions(GraphsOf(3, 1))
           \cup WithInstructions({Plain(4, Edges(P, {})) : P \in SUBSET Pairs(4)})
=============================================================================
