------------------------------- MODULE MaxMiso -------------------------------
(***************************************************************************)
(* AlgoMaxMiso (src/ise/lib/common/AlgoMaxMiso.cpp): linear-time search    *)
(* for the maximal multiple-input single-output subgraphs of a data-flow   *)
(* graph.                                                                  *)
(*                                                                         *)
(* run() walks the vertices in reverse topological order.  A vertex that   *)
(* no MISO has taken yet becomes the root of a new one, and                *)
(* generateMaxMiso() climbs depth first to the operands: each edge it      *)
(* passes takes one from the fanout of the operand, and an operand whose   *)
(* fanout drops to zero has no user outside the MISO and joins it.         *)
(*                                                                         *)
(* The recursion is kept as the stack of active calls; `todo` holds the    *)
(* in-edges the active calls have still to pass.  A call passes its edges  *)
(* in any order, which covers the one order of the edge iterator.          *)
(*                                                                         *)
(* An operator whose name ends in Fault is no part of the model: it is the *)
(* operator below it with a plausible mistake, and shows which property    *)
(* notices that mistake.                                                   *)
(***************************************************************************)
EXTENDS Miso

CONSTANT Graphs        \* the data-flow graphs a run may be given

ASSUME GraphsAssumption == \A g \in Graphs : IsDFG(g)

VARIABLES
  dfg, topo, benchmark,  \* the inputs of run(), never changed
  it,                    \* position of the iterator in topo
  processed,             \* vertices taken by some MISO or used as a root
  fanout,                \* users of each vertex not yet passed
  result,                \* the MISO being generated
  nodes,                 \* the count generateMaxMiso returns
  stack,                 \* vertices of the active calls, innermost first
  todo,                  \* in-edges the active calls have not passed
  maxMisos               \* the set of patterns found

inputs == <<dfg, topo, benchmark>>
vars   == <<dfg, topo, benchmark, it, processed, fanout, result, nodes,
            stack, todo, maxMisos>>

FanoutOrg(g) ==
  [v \in g.node |-> OutDegree(g, v) + (IF g.op[v] = "OUTPUT" THEN 1 ELSE 0)]

Start == 1            \* topo.begin()

Init ==
  /\ dfg \in Graphs
  /\ topo \in ReverseTopologicalSorts(dfg)
  /\ benchmark \in BOOLEAN
  /\ it = Start
  /\ processed = {}
  /\ fanout = FanoutOrg(dfg)
  /\ result = {}
  /\ nodes = 0
  /\ stack = <<>>
  /\ todo = {}
  /\ maxMisos = {}

InLoop == stack = <<>> /\ it <= Len(topo)
Done   == stack = <<>> /\ it > Len(topo)

ResetFanoutFault == fanout
ResetFanout == FanoutOrg(dfg)

(***************************************************************************)
(* The inner while loop: step over a vertex that has been processed.       *)
(***************************************************************************)

Advance ==
  /\ InLoop
  /\ topo[it] \in processed
  /\ it' = it + 1
  /\ UNCHANGED <<inputs, processed, fanout, result, nodes, stack, todo, maxMisos>>

(***************************************************************************)
(* The body of the for loop up to the call of generateMaxMiso.  An invalid *)
(* vertex is only marked; a valid one is the root of a new MISO.           *)
(***************************************************************************)
SkipInvalid ==
  /\ InLoop
  /\ topo[it] \notin processed
  /\ Invalid(dfg, topo[it])
  /\ processed' = processed \cup {topo[it]}
  /\ fanout' = ResetFanout
  /\ UNCHANGED <<inputs, it, result, nodes, stack, todo, maxMisos>>

StartRoot ==
  /\ InLoop
  /\ topo[it] \notin processed
  /\ ~Invalid(dfg, topo[it])
  /\ processed' = processed \cup {topo[it]}
  /\ fanout' = ResetFanout
  /\ result' = {topo[it]}
  /\ nodes' = 1
  /\ stack' = <<topo[it]>>
  /\ todo' = InEdges(dfg, topo[it])
  /\ UNCHANGED <<inputs, it, maxMisos>>

(***************************************************************************)
(* One round of the edge loop of the innermost generateMaxMiso call.       *)
(***************************************************************************)
OwnEdges == {e \in todo : dfg.dst[e] = Head(stack)}

TakeFanout(p) == [fanout EXCEPT ![p] = @ - 1]

JoinsFault(p)     == ~Invalid(dfg, p)
JoinsLateFault(p) == ~Invalid(dfg, p) /\ fanout[p] = 0
Joins(p) == ~Invalid(dfg, p) /\ TakeFanout(p)[p] = 0

RemainingFault(e) == todo
Remaining(e) == todo \ {e}

PassEdge(e) ==
  /\ stack # <<>>
  /\ e \in OwnEdges
  /\ ~Joins(dfg.src[e])
  /\ fanout' = TakeFanout(dfg.src[e])
  /\ todo' = Remaining(e)
  /\ UNCHANGED <<inputs, it, processed, result, nodes, stack, maxMisos>>

Counted == nodes + 1

AbsorbParent(e) ==
  LET parent == dfg.src[e] IN
  /\ stack # <<>>
  /\ e \in OwnEdges
  /\ Joins(parent)
  /\ fanout' = TakeFanout(parent)
  /\ result' = result \cup {parent}
  /\ processed' = processed \cup {parent}
  /\ nodes' = Counted
  /\ stack' = <<parent>> \o stack
  /\ todo' = Remaining(e) \cup InEdges(dfg, parent)
  /\ UNCHANGED <<inputs, it, maxMisos>>

(***************************************************************************)
(* A call that has passed all its edges returns; when it is the outermost  *)
(* one, run() keeps the pattern if it has more than one vertex and the     *)
(* run is not a benchmark.                                                 *)
(***************************************************************************)
ReturnToCaller ==
  /\ Len(stack) > 1
  /\ OwnEdges = {}
  /\ stack' = Tail(stack)
  /\ UNCHANGED <<inputs, it, processed, fanout, result, nodes, todo, maxMisos>>

KeepFault(S, n) == IF n > 2 /\ ~benchmark THEN {S} ELSE {}
Keep(S, n) == IF n > 1 /\ ~benchmark THEN {S} ELSE {}

ReturnToRun ==
  /\ Len(stack) = 1
  /\ OwnEdges = {}
  /\ stack' = <<>>
  /\ maxMisos' = maxMisos \cup Keep(result, nodes)
  /\ UNCHANGED <<inputs, it, processed, fanout, result, nodes, todo>>

Climb == \E e \in todo : PassEdge(e) \/ AbsorbParent(e)

Next ==
  \/ Advance
  \/ SkipInvalid
  \/ StartRoot
  \/ Climb
  \/ ReturnToCaller
  \/ ReturnToRun
  \/ Done /\ UNCHANGED vars

Spec == Init /\ [][Next]_vars

(* run() is sequential code: it never stops while it can take a step. *)
FairSpec == Spec /\ WF_vars(Next)

(* The MISO that generateMaxMiso is working on, if there is one. *)
InProgress == IF stack = <<>> THEN {} ELSE result

-----------------------------------------------------------------------------
(***************************************************************************)
(* Type invariant.  fanout is kept in Int, not in Nat: the code decrements *)
(* an unsigned int, and that it never passes zero is NoUnderflow below.    *)
(***************************************************************************)
TypeOK ==
  /\ IsDFG(dfg)
  /\ IsReverseTopologicalSort(dfg, topo)
  /\ benchmark \in BOOLEAN
  /\ it \in 1..(Len(topo) + 1)
  /\ processed \subseteq dfg.node
  /\ fanout \in [dfg.node -> Int]
  /\ result \subseteq dfg.node
  /\ nodes \in Nat
  /\ stack \in Seq(dfg.node)
  /\ todo \subseteq dfg.edge
  /\ maxMisos \subseteq SUBSET dfg.node

(***************************************************************************)
(* The shared array `fanout` is reset once per root and decremented by     *)
(* every call of the recursion.  No sequence of calls takes an entry below *)
(* zero, where the unsigned counter would wrap and a later edge could find *)
(* it at zero again.                                                       *)
(***************************************************************************)
NoUnderflow == \A v \in dfg.node : fanout[v] >= 0

(***************************************************************************)
(* The patterns found so far, and the one being generated, are pairwise    *)
(* disjoint although the fanout array forgets between two roots which      *)
(* vertices were taken: no instruction is offered to two custom            *)
(* instructions.                                                           *)
(***************************************************************************)
Disjoint ==
  \A A, B \in maxMisos \cup {result} : A # B => A \cap B = {}

(***************************************************************************)
(* Every pattern found is a single-output subgraph of at least two         *)
(* vertices, none of them invalid.                                         *)
(***************************************************************************)
SingleOutput ==
  \A M \in maxMisos : /\ \E r \in M : SingleOutputAt(dfg, M, r)
                      /\ \A v \in M : ~Invalid(dfg, v)

(***************************************************************************)
(* The count returned through the recursion is the size of the pattern, so *)
(* the test size > 1 in run() discards exactly the single vertices.        *)
(***************************************************************************)
CountIsSize == nodes = Cardinality(result)

(***************************************************************************)
(* When run() ends, the patterns are exactly the inclusion-maximal         *)
(* single-output sets of valid vertices with at least two members, and     *)
(* none in a benchmark run: the linear walk misses none and cuts none      *)
(* short, whichever topological order boost picked.                        *)
(***************************************************************************)
FindsAllMaximal ==
  Done => maxMisos = UNION {Offered(M, benchmark) : M \in MaximalMisos(dfg)}

(***************************************************************************)
(* The walk implements MisoCover: each call of generateMaxMiso, whatever   *)
(* its recursion does, amounts to taking one whole maximal MISO out of     *)
(* what is left of the graph, and in the end nothing is left.              *)
(***************************************************************************)
Cover == INSTANCE MisoCover WITH left <- dfg.node \ (processed \ InProgress),
                                 offered <- maxMisos

ImplementsCover == Cover!CoverSpec

-----------------------------------------------------------------------------
(***************************************************************************)
(* The inductive invariant behind NoUnderflow, Disjoint and SingleOutput   *)
(* (WalkInv), and, with BoundaryInv and CoveredInv, behind FindsAllMaximal *)
(* and the refinement of MisoCover.                                        *)
(***************************************************************************)
Root     == topo[it]
Elements(s) == {s[i] : i \in 1..Len(s)}
StackSet == Elements(stack)
Earlier  == processed \ InProgress
Passed(v) == {e \in OutEdges(dfg, v) : dfg.dst[e] \in result /\ e \notin todo}

(* What lies before the iterator has been processed. *)
OrderInv == \A i \in 1..(it - 1) : topo[i] \in processed

(* The users of what earlier roots took were taken by earlier roots. *)
EarlierInv == \A v \in Earlier : OutVertices(dfg, v) \subseteq Earlier

(* The root of the MISO in progress is used by earlier vertices only. *)
RootInv ==
  stack # <<>> => /\ it <= Len(topo)
                  /\ Root \in result
                  /\ OutVertices(dfg, Root) \subseteq Earlier
                  /\ result \subseteq processed

(* All uses of the other members were passed, and lie in the MISO. *)
MemberInv ==
  stack # <<>> =>
    \A v \in result :
      /\ ~Invalid(dfg, v)
      /\ v # Root => /\ dfg.op[v] # "OUTPUT"
                     /\ OutEdges(dfg, v) # {}
                     /\ OutEdges(dfg, v) \subseteq Passed(v)

(* fanout counts the uses that were not passed. *)
FanoutInv ==
  stack # <<>> =>
    \A v \in dfg.node : fanout[v] = FanoutOrg(dfg)[v] - Cardinality(Passed(v))

(* Edges are left only to active calls, which are calls on members. *)
StackInv == /\ StackSet \subseteq result
            /\ \A e \in todo : dfg.dst[e] \in StackSet

FoundInv == \A M \in maxMisos : M \subseteq Earlier

WalkInv ==
  /\ TypeOK
  /\ OrderInv
  /\ EarlierInv
  /\ RootInv
  /\ MemberInv
  /\ FanoutInv
  /\ StackInv
  /\ FoundInv
  /\ NoUnderflow
  /\ CountIsSize
  /\ Disjoint
  /\ SingleOutput

(* A vertex with a passed use that did not join has a reason that lasts. *)
BoundaryInv ==
  stack # <<>> =>
    \A v \in dfg.node \ result :
      Passed(v) # {} => \/ Invalid(dfg, v)
                       \/ dfg.op[v] = "OUTPUT"
                       \/ ~(OutEdges(dfg, v) \subseteq Passed(v))

(* What earlier roots took is whole maximal MISOs, all of them offered, *)
(* and nothing else was offered.                                        *)
CoveredInv ==
  /\ \A v \in Earlier :
       ~Invalid(dfg, v) =>
         \E M \in MaximalMisos(dfg) : /\ v \in M /\ M \subseteq Earlier
                                     /\ Offered(M, benchmark) \subseteq maxMisos
  /\ \A M \in maxMisos : M \in MaximalMisos(dfg) /\ M \in Offered(M, benchmark)

IInv == WalkInv /\ BoundaryInv /\ CoveredInv
=============================================================================
