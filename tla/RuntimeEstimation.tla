-------------------------- MODULE RuntimeEstimation --------------------------
(***************************************************************************)
(* The estimates of a data-flow graph or of a pattern                      *)
(* (src/ise/lib/common/RuntimeEstimation.cpp): in software the sum of the  *)
(* times of its instructions, in hardware the time of its critical path,   *)
(* found in one sweep in reverse topological order over an array dist      *)
(* indexed by vertex.  getLongestPath of DataFlowGraph.cpp is the same     *)
(* sweep with weights on the edges and the distances kept in the graph.    *)
(*                                                                         *)
(* dfg, the model and the instruction of every vertex are inputs of a run. *)
(***************************************************************************)
EXTENDS DataFlowGraph, Timing, FiniteSetsExt

CONSTANT Inputs     \* records [dfg, insn]

(* Instructions have operands, and nothing else has.                       *)
ASSUME InputsAssumption ==
  \A x \in Inputs :
    /\ IsDFG(x.dfg) /\ x.dfg.node = 1..Cardinality(x.dfg.node)
    /\ \A v \in x.dfg.node :
         /\ x.dfg.op[v] \in {"OPERATOR", "OUTPUT"} <=> InEdges(x.dfg, v) # {}
         /\ x.dfg.op[v] \in {"OPERATOR", "OUTPUT"} => x.dfg.instr[v]
    /\ x.insn \in [x.dfg.node -> Instruction]

VARIABLES dfg,      \* the graph
          insn,     \* [vertex -> Instruction]
          model,    \* the architecture
          topo,     \* the order topological_sort has found
          ii,       \* the position of the sweep
          dist,     \* [vertex -> time], zero at first
          maxDist,
          seen,     \* vertices the software loop has passed
          runtime,  \* the sum of the software loop
          jj,       \* the position of getLongestPath's sweep
          distance, \* [vertex -> edges], kept in the graph
          longest   \* maxDist of getLongestPath

input    == <<dfg, insn, model, topo>>
software == <<seen, runtime>>
hardware == <<ii, dist, maxDist>>
edges    == <<jj, distance, longest>>
vars     == <<input, software, hardware, edges>>

Init ==
  /\ \E x \in Inputs : dfg = x.dfg /\ insn = x.insn
  /\ model \in Models
  /\ topo \in ReverseTopologicalSorts(dfg)
  /\ ii = 1
  /\ dist = [v \in dfg.node |-> 0]
  /\ maxDist = 0
  /\ seen = {}
  /\ runtime = 0
  /\ jj = 1
  /\ distance = [v \in dfg.node |-> 0]
  /\ longest = 0

(* Inputs and constants are of no cost: their instructions are elsewhere.  *)
TimedFault(v) == dfg.instr[v]
Timed(v) == dfg.op[v] \in {"OPERATOR", "OUTPUT"} /\ dfg.instr[v]

SwTime(v) == IF Timed(v) THEN getSwInstructionTiming(model, insn[v]) ELSE 0
HwTime(v) == IF Timed(v) THEN getHwInstructionTiming(model, insn[v]) ELSE 0

(* estimateSwRuntime: the loop runs over the vertices in their order.      *)
AddVertex ==
  /\ seen # dfg.node
  /\ LET v == Min(dfg.node \ seen)
     IN  /\ runtime' = runtime + SwTime(v)
         /\ seen' = seen \cup {v}
  /\ UNCHANGED <<input, hardware, edges>>

(* estimateHwRuntime: one vertex, after all that use it.                   *)
DistanceFault(v) == HwTime(v) + SumSet({dist[w] : w \in OutVertices(dfg, v)})
Distance(v) == HwTime(v) + Max({0} \cup {dist[w] : w \in OutVertices(dfg, v)})

Sweep ==
  /\ ii <= Len(topo)
  /\ LET v == topo[ii]
     IN  /\ dist' = [dist EXCEPT ![v] = Distance(v)]
         /\ maxDist' = Max({maxDist, Distance(v)})
  /\ ii' = ii + 1
  /\ UNCHANGED <<input, software, edges>>

(* getLongestPath: the same with every edge of weight one.                 *)
EdgeDistancesFault(v) == {distance[w] : w \in OutVertices(dfg, v)}
EdgeDistances(v) == {distance[w] + 1 : w \in OutVertices(dfg, v)}

SweepEdges ==
  /\ jj <= Len(topo)
  /\ LET v == topo[jj]
     IN  /\ distance' = [distance EXCEPT ![v] = Max({@} \cup EdgeDistances(v))]
         /\ longest' = Max({longest} \cup EdgeDistances(v))
  /\ jj' = jj + 1
  /\ UNCHANGED <<input, software, hardware>>

Done == seen = dfg.node /\ ii > Len(topo) /\ jj > Len(topo)

(* One call after the other, on the same graph.                            *)
Next ==
  \/ AddVertex
  \/ seen = dfg.node /\ Sweep
  \/ ii > Len(topo) /\ SweepEdges
  \/ Done /\ UNCHANGED vars

Spec == Init /\ [][Next]_vars

estimateSwRuntime == runtime
estimateHwRuntime == maxDist

-----------------------------------------------------------------------------
TypeOK ==
  /\ seen \subseteq dfg.node
  /\ ii \in 1..(Len(topo) + 1)
  /\ dist \in [dfg.node -> Nat]
  /\ runtime \in Nat
  /\ maxDist \in Nat
  /\ jj \in 1..(Len(topo) + 1)
  /\ distance \in [dfg.node -> Nat]
  /\ longest \in Nat

(***************************************************************************)
(* The paths that start at v, as the sets of their vertices: each vertex   *)
(* but the last leads to the next.                                         *)
(***************************************************************************)
IsPathFrom(v, S) ==
  /\ v \in S
  /\ \E o \in [1..Cardinality(S) -> S] :
       /\ o[1] = v
       /\ \A i \in 1..(Cardinality(S) - 1) : o[i + 1] \in OutVertices(dfg, o[i])
       /\ \A w \in S : \E i \in DOMAIN o : o[i] = w

PathsFrom(v)  == {S \in SUBSET dfg.node : IsPathFrom(v, S)}
Weight(S)     == MapThenSumSet(HwTime, S)
Heaviest(v)   == Max({Weight(S) : S \in PathsFrom(v)})
MostEdges(v)  == Max({Cardinality(S) - 1 : S \in PathsFrom(v)})

(***************************************************************************)
(* The entry of a vertex the sweep has passed is final: it is the weight   *)
(* of the heaviest path from that vertex, whatever order was found, and    *)
(* the maximum so far is that of the passed vertices.                      *)
(***************************************************************************)
Passed(k) == {topo[i] : i \in 1..(k - 1)}

DistIsHeaviestPath ==
  /\ \A v \in Passed(ii) : dist[v] = Heaviest(v)
  /\ maxDist = Max({0} \cup {dist[v] : v \in Passed(ii)})

(***************************************************************************)
(* The invariant of the sweep.                                             *)
(***************************************************************************)
SweepInv ==
  /\ TypeOK
  /\ DistIsHeaviestPath

(***************************************************************************)
(* getLongestPath keeps in each vertex it has passed the number of edges   *)
(* of the longest path from there, and returns the largest.                *)
(***************************************************************************)
DistanceIsLongestPath ==
  /\ \A v \in Passed(jj) : distance[v] = MostEdges(v)
  /\ longest = Max({0} \cup {distance[v] : v \in Passed(jj)})

(***************************************************************************)
(* In hardware no graph takes longer than all its instructions one after   *)
(* the other, nor less than its slowest one; the software loop sums the    *)
(* instructions of the block, each once, and no input.                     *)
(***************************************************************************)
EstimatesBounded ==
  Done =>
    LET block == {v \in dfg.node : InEdges(dfg, v) # {}}
    IN  /\ estimateHwRuntime <= Weight(block)
        /\ \A v \in block : getHwInstructionTiming(model, insn[v]) <= estimateHwRuntime
        /\ estimateSwRuntime =
             MapThenSumSet(LAMBDA v : getSwInstructionTiming(model, insn[v]), block)
=============================================================================
