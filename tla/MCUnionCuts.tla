----------------------------- MODULE MCUnionCuts -----------------------------
EXTENDS UnionCuts, MCDataFlowGraph

(* The search tells the two kinds of INPUT apart no more than two constants. *)
OneKindOfInput(g) == \A v \in g.node : g.op[v] = "INPUT" => g.instr[v]

(* The same graph with its descriptors in the order of the instructions.   *)
Mirror(g) ==
  LET m(v) == Cardinality(g.node) + 1 - v
  IN  [g EXCEPT !.src = [e \in g.edge |-> m(g.src[e])],
                !.dst = [e \in g.edge |-> m(g.dst[e])],
                !.op = [v \in g.node |-> g.op[m(v)]],
                !.instr = [v \in g.node |-> g.instr[m(v)]],
                !.legal = [v \in g.node |-> g.legal[m(v)]]]

UpTo3 ==
  {g \in GraphsOf(1, 0) \cup GraphsOf(2, 1) \cup GraphsOf(3, 1) :
     FromBasicBlock(g) /\ OneKindOfInput(g)}

(* Graphs whose leaves are constants where they may be and whose results   *)
(* without users are live; one more result may be live, or illegal.        *)
LiveGraph(n, P, out, bad) ==
  LET inner == {p[2] : p \in P}
      used  == {p[1] : p \in P}
      once  == {v \in 1..n : Cardinality({p \in P : p[1] = v}) = 1}
  IN  Graph(n, Edges(P, {}),
            [v \in 1..n |-> IF v \in inner \cap bad THEN Kind("OPERATOR", TRUE, FALSE)
                            ELSE IF v \in inner \ (used \ out) THEN Kind("OUTPUT", TRUE, TRUE)
                            ELSE IF v \in inner THEN Kind("OPERATOR", TRUE, TRUE)
                            ELSE IF v \in once THEN Kind("CONSTANT", FALSE, FALSE)
                            ELSE Kind("INPUT", TRUE, TRUE)])

LiveGraphs(n, k) ==
  UNION {{LiveGraph(n, P, {v}, {}), LiveGraph(n, P, {}, {v}), LiveGraph(n, P, {}, {})} :
           P \in kSubset(k, Pairs(n)), v \in 2..n}

Four == UNION {LiveGraphs(4, k) : k \in 2..6}

Out == Kind("OUTPUT", TRUE, TRUE)
Opr == Kind("OPERATOR", TRUE, TRUE)
Bad == Kind("OPERATOR", TRUE, FALSE)
Inp == Kind("INPUT", TRUE, TRUE)
Con == Kind("CONSTANT", FALSE, FALSE)

(* 4 is used by 1 directly and along a chain of two instructions.          *)
Detour ==
  {Graph(5, {<<2, 1, 1>>, <<3, 2, 1>>, <<4, 3, 1>>, <<4, 1, 1>>, <<5, 4, 1>>},
         <<Out, Opr, Opr, Opr, Inp>>)}

(* 7 leads to 3 through the illegal instruction 5.                         *)
Conflict ==
  {Graph(8, {<<2, 1, 1>>, <<6, 2, 1>>, <<7, 2, 1>>, <<6, 3, 1>>, <<4, 3, 1>>,
             <<5, 4, 1>>, <<7, 5, 1>>, <<8, 6, 1>>, <<8, 7, 1>>},
         <<Bad, Opr, Out, Opr, Bad, Opr, Opr, Inp>>)}

(* 3 has a user of its own operand 2 besides, and a constant operand.      *)
Zigzag ==
  {Graph(5, {<<2, 1, 1>>, <<2, 3, 1>>, <<4, 3, 1>>, <<5, 2, 1>>},
         <<Out, Opr, Out, Con, Inp>>)}

(* For 2 the pattern {2, 4} is extended below 4 by 3, and that above 3 by  *)
(* 5: a call of Union within a call, with some more operands.              *)
Nested ==
  LET uses == {<<4, 2>>, <<4, 3>>, <<5, 3>>, <<3, 1>>, <<6, 4>>}
  IN  {LiveGraph(6, uses \cup more, {}, bad) :
         more \in SUBSET {<<3, 2>>, <<4, 1>>, <<5, 4>>, <<6, 3>>}, bad \in {{}, {1}}}

(* And that once more below 6 by 3: three calls deep.                      *)
NestedTwice ==
  {Graph(8, {<<5, 2, 1>>, <<5, 4, 1>>, <<6, 4, 1>>, <<4, 1, 1>>, <<6, 3, 1>>,
             <<8, 5, 1>>, <<8, 6, 1>>},
         <<Bad, Out, Out, Opr, Opr, Opr, Inp, Inp>>)}

MCGraphs ==
  {Graph(0, {}, <<>>)} \cup UpTo3 \cup Four \cup {Mirror(g) : g \in Four}
  \cup {LiveGraph(5, P, {2}, {}) : P \in kSubset(4, Pairs(5))} \cup Detour \cup Zigzag
  \cup Nested \cup NestedTwice

MCPorts == {<<1, 2>>, <<2, 1>>}

SmallGraphs == {Graph(0, {}, <<>>)} \cup UpTo3

WidePorts == {<<2, 3>>}
=============================================================================
