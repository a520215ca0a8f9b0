------------------------------ MODULE BlockDfg ------------------------------
(***************************************************************************)
(* How the data-flow graph of a basic block is built from its list of      *)
(* instructions (fromBasicBlock), how constants with several uses are      *)
(* split (splitConstants), and how the graph of a pattern, a set of its    *)
(* vertices, is built from it (fromBitVector), all in                      *)
(* src/ise/lib/common/DataFlowGraph.cpp.  Each turn of an inner loop, over *)
(* operands or over edges, is a step of its own.                           *)
(*                                                                         *)
(* A value is a pair of a class and a number; <<"here", k>> is the k-th    *)
(* instruction of the block.  A block is a record                          *)
(*    insts    a sequence of [kind, ops], ops a sequence of values, the    *)
(*             last instruction and no other a terminator                  *)
(*    outside  the positions of the instructions other blocks use          *)
(* A graph under construction is a record of the members of DataFlowGraph: *)
(* vertices as a sequence of [value, op], edges as a sequence of pairs of  *)
(* descriptors, and the two counters; failed stands for the abort by the   *)
(* assertion of addEdge.                                                   *)
(***************************************************************************)
EXTENDS DataFlowGraph

CONSTANT Blocks

VARIABLES block,          \* the basic block
          splits,         \* constants are split (not -ise-no-split-constants)
          pc,
          pos,            \* the next instruction, or the next vertex
          nth,            \* the next operand of an instruction
          last,           \* the last vertex when splitConstants was called
          forcedOutputs,
          graph,          \* the graph of the block
          bv,             \* the pattern
          rest,           \* the members the running loop of fromBitVector has yet to see
          type,           \* the operator_t of the member, as the loop over its edges knows it
          left,           \* the edges that loop has yet to see
          sub             \* the graph of the pattern

building  == <<pos, nth, last, forcedOutputs, graph>>
matching  == <<bv, rest, type, left, sub>>
buildVars == <<block, splits, pc, building, matching>>

Classes == {"here", "elsewhere", "argument", "constant", "asm"}
Kinds   == {"phi", "store", "other", "terminator"}
Value   == Classes \X Nat
Vertex  == [value : Value, op : OpType]

OperandsOf(ops) == {ops[j] : j \in DOMAIN ops}

(* What the verifier of LLVM asks of a block that can be reached: phis     *)
(* come first, a terminator ends the block and only there is one, and an   *)
(* instruction but a phi has operands and uses those before it only.       *)
IsBlock(b) ==
  /\ b.insts \in Seq([kind : Kinds, ops : Seq(Value)]) /\ b.insts # <<>>
  /\ b.outside \subseteq Nat
  /\ \A k \in DOMAIN b.insts :
       LET inst == b.insts[k]
       IN  /\ inst.kind = "terminator" <=> k = Len(b.insts)
           /\ inst.kind \in {"store", "other"} =>
                inst.ops # <<>> /\ \A x \in OperandsOf(inst.ops) : x[1] = "here" => x[2] \in 1..(k - 1)
           /\ inst.kind = "phi" => \A l \in 1..k : b.insts[l].kind = "phi"

ASSUME BlocksAssumption == \A b \in Blocks : IsBlock(b)

Empty == [vertex |-> <<>>, edge |-> <<>>, inputs |-> 0, outputs |-> 0, failed |-> FALSE]

BuildInit ==
  /\ block \in Blocks
  /\ splits \in BOOLEAN
  /\ pc = "block"
  /\ pos = 1
  /\ nth = 1
  /\ last = 0
  /\ forcedOutputs = {}
  /\ graph = Empty
  /\ bv = {}
  /\ rest = {}
  /\ type = "INPUT"
  /\ left = {}
  /\ sub = Empty

-----------------------------------------------------------------------------
Lowest(S) == CHOOSE v \in S : \A w \in S : v <= w

(***************************************************************************)
(* vertexMap knows the first vertex of each value only.                    *)
(***************************************************************************)
VerticesOf(g, x) == {v \in DOMAIN g.vertex : g.vertex[v].value = x}
Known(g, x)      == VerticesOf(g, x) # {}
getVertex(g, x)  == Lowest(VerticesOf(g, x))

addNodeFault(g, x, t) ==
  [g EXCEPT !.vertex  = Append(@, [value |-> x, op |-> t]),
            !.inputs  = @ + (IF t = "INPUT" THEN 1 ELSE 0),
            !.outputs = @ + (IF t = "OUTPUT" THEN 1 ELSE 0)]
addNode(g, x, t) ==
  IF Known(g, x) THEN g
  ELSE [g EXCEPT !.vertex  = Append(@, [value |-> x, op |-> t]),
                 !.inputs  = @ + (IF t = "INPUT" THEN 1 ELSE 0),
                 !.outputs = @ + (IF t = "OUTPUT" THEN 1 ELSE 0)]

(* Its assertion wants both values known.                                  *)
addEdge(g, x, y) ==
  IF Known(g, x) /\ Known(g, y)
  THEN [g EXCEPT !.edge = Append(@, <<getVertex(g, x), getVertex(g, y)>>)]
  ELSE [g EXCEPT !.failed = TRUE]

(* The edges that leave a vertex and those that enter it.                  *)
From(g, v) == {e \in DOMAIN g.edge : g.edge[e][1] = v}
Into(g, v) == {e \in DOMAIN g.edge : g.edge[e][2] = v}

-----------------------------------------------------------------------------
Inst(k)     == block.insts[k]
Plain       == {k \in DOMAIN block.insts : Inst(k).kind \in {"store", "other"}}
Terminator  == Inst(Len(block.insts))

(* Primitives::isOutputForBasicBlock.                                      *)
isOutputFault(k) == Inst(k).kind = "store" \/ k \in block.outside
isOutput(k) ==
  \/ Inst(k).kind = "store"
  \/ k \in block.outside
  \/ <<"here", k>> \in OperandsOf(Terminator.ops)

TypeOfOperand(x) == IF x[1] = "constant" THEN "CONSTANT" ELSE "INPUT"

Phi ==
  /\ pc = "block" /\ Inst(pos).kind = "phi"
  /\ graph' = addNode(graph, <<"here", pos>>, "INPUT")
  /\ forcedOutputs' = forcedOutputs \cup {x \in OperandsOf(Inst(pos).ops) : x[1] = "here"}
  /\ pos' = pos + 1
  /\ UNCHANGED <<block, splits, pc, nth, last, matching>>

AddInstruction ==
  /\ pc = "block" /\ pos \in Plain
  /\ LET x == <<"here", pos>>
         t == IF x \in forcedOutputs \/ isOutput(pos) THEN "OUTPUT" ELSE "OPERATOR"
     IN  /\ graph' = addNode(graph, x, t)
         /\ forcedOutputs' = forcedOutputs \ {x}
  /\ pc' = "operands"
  /\ nth' = 1
  /\ UNCHANGED <<block, splits, pos, last, matching>>

(* The operands that are not in the block become vertices when they are    *)
(* first met.                                                              *)
WithOperand(x) ==
  addEdge(IF x[1] \in {"elsewhere", "argument", "constant"}
          THEN addNode(graph, x, TypeOfOperand(x)) ELSE graph,
          x, <<"here", pos>>)

AddOperand ==
  /\ pc = "operands" /\ nth <= Len(Inst(pos).ops)
  /\ graph' = WithOperand(Inst(pos).ops[nth])
  /\ pc' = IF graph'.failed THEN "failed" ELSE pc
  /\ nth' = nth + 1
  /\ UNCHANGED <<block, splits, pos, last, forcedOutputs, matching>>

EndOfOperands ==
  /\ pc = "operands" /\ nth > Len(Inst(pos).ops)
  /\ pc' = "block"
  /\ pos' = pos + 1
  /\ UNCHANGED <<block, splits, nth, last, forcedOutputs, graph, matching>>

EndOfBlock ==
  /\ pc = "block" /\ Inst(pos).kind = "terminator"
  /\ pc' = IF splits THEN "split" ELSE "choose"
  /\ pos' = 1
  /\ last' = Len(graph.vertex)
  /\ UNCHANGED <<block, splits, nth, forcedOutputs, graph, matching>>

-----------------------------------------------------------------------------
(***************************************************************************)
(* splitConstants: every edge of a constant but the first gets a vertex of *)
(* its own; the map still leads to the first.  The code removes the edge   *)
(* and adds one; here it stays in its place in the sequence.  The order of *)
(* the edges that enter a vertex, which this changes, is left open below.  *)
(***************************************************************************)
ExtraFault(g, v) == {e \in From(g, v) : \E f, h \in From(g, v) : f < h /\ h < e}
Extra(g, v)      == {e \in From(g, v) : \E f \in From(g, v) : f < e}

SplitOff(g, v) == IF g.vertex[v].op = "CONSTANT" THEN Extra(g, v) ELSE {}

SplitEdge ==
  /\ pc = "split" /\ pos <= last /\ SplitOff(graph, pos) # {}
  /\ graph' = [graph EXCEPT !.vertex = Append(@, @[pos]),
                            !.edge[Lowest(SplitOff(graph, pos))][1] = Len(graph.vertex) + 1]
  /\ UNCHANGED <<block, splits, pc, pos, nth, last, forcedOutputs, matching>>

EndOfVertex ==
  /\ pc = "split" /\ pos <= last /\ SplitOff(graph, pos) = {}
  /\ pos' = pos + 1
  /\ UNCHANGED <<block, splits, pc, nth, last, forcedOutputs, graph, matching>>

EndOfSplit ==
  /\ pc = "split" /\ pos > last
  /\ pc' = "choose"
  /\ UNCHANGED <<block, splits, building, matching>>

-----------------------------------------------------------------------------
(***************************************************************************)
(* What the algorithms offer: no instruction of another block, no phi and  *)
(* no store, but perhaps constants, and (MaxMISO) an argument of which     *)
(* every user is in the pattern.                                           *)
(***************************************************************************)
ValueOf(v) == graph.vertex[v].value
TypeOf(v)  == graph.vertex[v].op
Store(v)   == ValueOf(v)[1] = "here" /\ Inst(ValueOf(v)[2]).kind = "store"
Source(e)  == graph.edge[e][1]
Target(e)  == graph.edge[e][2]
Users(v)   == {Target(e) : e \in From(graph, v)}
Sources(v) == {Source(e) : e \in Into(graph, v)}

Offered(S) ==
  /\ S # {}
  /\ \A v \in S : /\ ~Store(v)
                  /\ TypeOf(v) = "INPUT" => ValueOf(v)[1] = "argument" /\ Users(v) \subseteq S

Identify ==
  /\ pc = "choose"
  /\ \E S \in {T \in SUBSET DOMAIN graph.vertex : Offered(T)} : bv' = S /\ rest' = S
  /\ pc' = "nodes"
  /\ UNCHANGED <<block, splits, building, type, left, sub>>

Member == Lowest(rest)

AddMember ==
  /\ pc = "nodes" /\ rest # {}
  /\ sub' = addNode(sub, ValueOf(Member), TypeOf(Member))
  /\ rest' = rest \ {Member}
  /\ UNCHANGED <<block, splits, pc, building, bv, type, left>>

AllAdded ==
  /\ pc = "nodes" /\ rest = {}
  /\ rest' = bv
  /\ pc' = "edges"
  /\ UNCHANGED <<block, splits, building, bv, type, left, sub>>

NextMember ==
  /\ pc = "edges" /\ rest # {}
  /\ type' = TypeOf(Member)
  /\ left' = From(graph, Member)
  /\ pc' = "outgoing"
  /\ UNCHANGED <<block, splits, building, bv, rest, sub>>

(* The first edge to a user outside makes an output of a member.           *)
Marks(e) == Target(e) \notin bv /\ type \notin {"CONSTANT", "OUTPUT"}

Marked(g, x) == [g EXCEPT !.vertex[getVertex(g, x)].op = "OUTPUT", !.outputs = @ + 1]

Outgoing ==
  /\ pc = "outgoing"
  /\ \E e \in left :
       /\ left' = left \ {e}
       /\ type' = IF Marks(e) THEN "OUTPUT" ELSE type
       /\ sub'  = IF Target(e) \in bv THEN addEdge(sub, ValueOf(Member), ValueOf(Target(e)))
                  ELSE IF Marks(e) THEN Marked(sub, ValueOf(Member))
                  ELSE sub
  /\ UNCHANGED <<block, splits, pc, building, bv, rest>>

EndOfOutgoing ==
  /\ pc = "outgoing" /\ left = {}
  /\ left' = Into(graph, Member)
  /\ pc' = "incoming"
  /\ UNCHANGED <<block, splits, building, bv, rest, type, sub>>

(* Operands from outside become inputs when they are first met.            *)
FedFault(g, x, y) == addNode(g, x, "INPUT")
Fed(g, x, y)      == addEdge(addNode(g, x, "INPUT"), x, y)

Incoming ==
  /\ pc = "incoming"
  /\ \E e \in left :
       /\ left' = left \ {e}
       /\ sub'  = IF Source(e) \in bv THEN sub ELSE Fed(sub, ValueOf(Source(e)), ValueOf(Member))
  /\ UNCHANGED <<block, splits, pc, building, bv, rest, type>>

EndOfIncoming ==
  /\ pc = "incoming" /\ left = {}
  /\ rest' = rest \ {Member}
  /\ pc' = "edges"
  /\ UNCHANGED <<block, splits, building, bv, type, left, sub>>

AllConnected ==
  /\ pc = "edges" /\ rest = {}
  /\ pc' = "done"
  /\ UNCHANGED <<block, splits, building, matching>>

BuildNext ==
  \/ Phi \/ AddInstruction \/ AddOperand \/ EndOfOperands \/ EndOfBlock
  \/ SplitEdge \/ EndOfVertex \/ EndOfSplit
  \/ Identify \/ AddMember \/ AllAdded
  \/ NextMember \/ Outgoing \/ EndOfOutgoing \/ Incoming \/ EndOfIncoming \/ AllConnected

BuildSpec == BuildInit /\ [][BuildNext]_buildVars

-----------------------------------------------------------------------------
Count(g, t) == Cardinality({v \in DOMAIN g.vertex : g.vertex[v].op = t})

IsGraph(g) ==
  /\ g \in [vertex : Seq(Vertex), edge : Seq(Nat \X Nat),
            inputs : Nat, outputs : Nat, failed : BOOLEAN]
  /\ \A e \in DOMAIN g.edge : g.edge[e] \in (DOMAIN g.vertex) \X (DOMAIN g.vertex)
  /\ g.inputs = Count(g, "INPUT")
  /\ g.outputs = Count(g, "OUTPUT")

BuildTypeOK ==
  /\ block \in Blocks /\ splits \in BOOLEAN
  /\ pc \in {"block", "operands", "failed", "split", "choose",
             "nodes", "edges", "outgoing", "incoming", "done"}
  /\ pos \in Nat /\ nth \in Nat /\ last \in Nat
  /\ IsGraph(graph) /\ IsGraph(sub)
  /\ forcedOutputs \subseteq {"here"} \X Nat
  /\ bv \subseteq DOMAIN graph.vertex /\ rest \subseteq bv
  /\ type \in OpType
  /\ left \subseteq DOMAIN graph.edge

(***************************************************************************)
(* The finished graph of a block as the value the algorithms are modelled  *)
(* on.                                                                     *)
(***************************************************************************)
AsDFG(g) ==
  [node  |-> DOMAIN g.vertex,
   edge  |-> DOMAIN g.edge,
   src   |-> [e \in DOMAIN g.edge |-> g.edge[e][1]],
   dst   |-> [e \in DOMAIN g.edge |-> g.edge[e][2]],
   op    |-> [v \in DOMAIN g.vertex |-> g.vertex[v].op],
   instr |-> [v \in DOMAIN g.vertex |-> g.vertex[v].value[1] \in {"here", "elsewhere"}],
   legal |-> [v \in DOMAIN g.vertex |-> g.vertex[v].value[1] \in {"here", "elsewhere"}
                                          /\ ~Store(v)]]

(***************************************************************************)
(* With constants split, construction gives what the identification        *)
(* algorithms rely on, the assumption FromBasicBlock of their runs; and    *)
(* the graph has a topological order.                                      *)
(***************************************************************************)
BuildsFromBasicBlock ==
  pc = "choose" =>
    /\ splits => FromBasicBlock(AsDFG(graph))
    /\ \A v \in DOMAIN graph.vertex : v \notin Descendants(AsDFG(graph), Users(v))

(***************************************************************************)
(* A vertex of the block is an output exactly when somebody needs its      *)
(* value after the block: memory, another block, the terminator, or a phi  *)
(* of the block itself the next time round.                                *)
(***************************************************************************)
NeededAfter(k) ==
  \/ Inst(k).kind = "store"
  \/ k \in block.outside
  \/ \E j \in DOMAIN block.insts :
       Inst(j).kind \in {"phi", "terminator"} /\ <<"here", k>> \in OperandsOf(Inst(j).ops)

OutputsAreNeeded ==
  pc = "choose" =>
    \A k \in Plain : NeededAfter(k) <=> TypeOf(getVertex(graph, <<"here", k>>)) = "OUTPUT"

(***************************************************************************)
(* How often a vertex uses a value.  Splitting changes neither what an     *)
(* instruction uses nor how often: it uses the value of an operand as many *)
(* times as the operand is listed, and every value but a split constant    *)
(* has one vertex.                                                         *)
(***************************************************************************)
Uses(g, v, x) == Cardinality({e \in Into(g, v) : g.vertex[g.edge[e][1]].value = x})

UsesKept ==
  pc = "choose" =>
    /\ \A k \in Plain : \A x \in OperandsOf(Inst(k).ops) :
         Uses(graph, getVertex(graph, <<"here", k>>), x)
           = Cardinality({j \in DOMAIN Inst(k).ops : Inst(k).ops[j] = x})
    /\ \A v, w \in DOMAIN graph.vertex :
         v # w /\ ValueOf(v) = ValueOf(w) => splits /\ TypeOf(v) = "CONSTANT"

(***************************************************************************)
(* The graphs are well formed, and a block's has the uses of the block.    *)
(***************************************************************************)
GraphInv ==
  /\ BuildTypeOK
  /\ UsesKept

(***************************************************************************)
(* The graph of a pattern has each value once, asks for the values that    *)
(* come from outside and offers those that are needed outside, counts both *)
(* right, and leaves no member short of an operand: it uses each value as  *)
(* often as it does in the block.                                          *)
(***************************************************************************)
MemberValues == {ValueOf(v) : v \in bv}
Arguments    == {v \in bv : TypeOf(v) = "INPUT"}
Feeding      == (UNION {Sources(v) : v \in bv}) \ bv
Needed       == {v \in bv : TypeOf(v) = "OUTPUT"
                            \/ (TypeOf(v) # "CONSTANT" /\ ~(Users(v) \subseteq bv))}

PatternGraphExact ==
  pc = "done" =>
    /\ ~sub.failed
    /\ sub.inputs = Cardinality({ValueOf(s) : s \in Feeding} \ MemberValues)
                      + Cardinality(Arguments)
    /\ sub.outputs = Cardinality(Needed)
    /\ Len(sub.vertex) = Cardinality({ValueOf(v) : v \in Feeding \cup bv})
    /\ \A v \in bv, w \in DOMAIN graph.vertex :
         TypeOf(v) # "CONSTANT" =>
           Uses(sub, getVertex(sub, ValueOf(v)), ValueOf(w)) = Uses(graph, v, ValueOf(w))

(***************************************************************************)
(* The assertion of addEdge at DataFlowGraph.cpp:170,                      *)
(* "assert(it_from != vertexMap.end() && it_to != vertexMap.end())":       *)
(* operands are instructions, arguments, globals and constants.            *)
(***************************************************************************)
EdgesJoinNodes == ~graph.failed /\ ~sub.failed
=============================================================================
