------------------------------ MODULE SingleCut ------------------------------
(***************************************************************************)
(* AlgoSingleCut (src/ise/lib/common/AlgoSingleCut.cpp): exact enumeration *)
(* of the subgraphs (cuts) that fit the ports of the architecture.         *)
(*                                                                         *)
(* search() decides the vertices one by one in reverse topological order,  *)
(* first in, then out of the cut.  The counters inputs, outputs and        *)
(* perm_inputs travel as arguments; cut, lti and inputVector are members   *)
(* of the object that all calls of the recursion share: a call that        *)
(* returns leaves its changes behind, and only the call that decides the   *)
(* same vertex the other way takes them back.                              *)
(*                                                                         *)
(* `calls` is the stack of active calls, outermost first.  Its first frame *)
(* is run() itself; frame j + 1 is the call that decided the vertex        *)
(* topo[j].  A frame holds the counters the call has computed and how many *)
(* of its two recursive calls it has made.                                 *)
(*                                                                         *)
(* An operator whose name ends in Fault is no part of the model: it is the *)
(* operator below it with a plausible mistake.                             *)
(***************************************************************************)
EXTENDS DataFlowGraph

CONSTANTS
  Graphs,      \* the data-flow graphs a run may be given
  Ports        \* pairs <<getMaxInputs, getMaxOutputs>> of architectures

ASSUME GraphsAssumption == \A g \in Graphs : IsDFG(g) /\ g.node # {}
ASSUME PortsAssumption == Ports \subseteq Nat \X Nat

VARIABLES
  dfg, topo, ports, benchmark,  \* the inputs of run(), never changed
  cut,          \* positions in topo that are in the current cut
  lti,          \* positions that lead to a position in the cut
  inputVector,  \* references to each position from the current cut
  calls,        \* active calls
  allCuts,      \* feasible cuts found, as sets of positions
  result        \* what run() returns, as sets of vertices

inputs == <<dfg, topo, ports, benchmark>>
vars == <<dfg, topo, ports, benchmark, cut, lti, inputVector, calls, allCuts, result>>

Positions  == 1..Len(topo)
maxInputs  == ports[1]
maxOutputs == ports[2]

topoVector(v) == CHOOSE i \in Positions : topo[i] = v

(* Positions that use the value at k, and how often k uses the value at i. *)
Users(k)   == {topoVector(u) : u \in OutVertices(dfg, topo[k])}
Uses(k, i) == Cardinality({e \in InEdges(dfg, topo[k]) : topoVector(dfg.src[e]) = i})

isValidNode(v) ==
  \/ dfg.op[v] = "CONSTANT"
  \/ dfg.op[v] # "INPUT" /\ (dfg.instr[v] => dfg.legal[v])

invalid == {k \in Positions : ~isValidNode(topo[k])}

If(b) == IF b THEN 1 ELSE 0

-----------------------------------------------------------------------------
NewCall(in, out, perm) ==
  [made |-> 0, inputs |-> in, outputs |-> out, perm_inputs |-> perm]

Begin ==
  /\ cut = {}
  /\ lti = {}
  /\ inputVector = [i \in Positions |-> 0]
  /\ calls = <<NewCall(0, 0, 0)>>
  /\ allCuts = {}
  /\ result = {}

Init ==
  /\ dfg \in Graphs
  /\ topo \in ReverseTopologicalSorts(dfg)
  /\ ports \in Ports
  /\ benchmark \in BOOLEAN
  /\ Begin

Depth  == Len(calls)
Caller == calls[Depth]

(* The order of the two recursive calls. *)
Choice(n) == n = 0

(***************************************************************************)
(* The innermost call goes on to decide position k, one way or the other.  *)
(***************************************************************************)
Decides(k, choice) ==
  /\ calls # <<>>
  /\ k = Depth /\ k <= Len(topo)
  /\ Caller.made < 2
  /\ choice = Choice(Caller.made)

CallerMade == [calls EXCEPT ![Depth].made = @ + 1]

(***************************************************************************)
(* search(true, k, ...)                                                    *)
(***************************************************************************)
ConvexAtFault(k) == \A t \in Users(k) : t \notin lti
ConvexAt(k)   == \A t \in Users(k) \ cut : t \notin lti
LeadsToCut(k) == Users(k) \cap cut # {}
IsOutput(k)   == ~(Users(k) \subseteq cut) \/ dfg.op[topo[k]] = "OUTPUT"
NewInputs(k)  == {i \in Positions : Uses(k, i) > 0 /\ inputVector[i] = 0}

Included(k) ==
  NewCall(Caller.inputs - If(LeadsToCut(k)) + Cardinality(NewInputs(k)),
          Caller.outputs + If(IsOutput(k)),
          Caller.perm_inputs + Cardinality(NewInputs(k) \cap invalid))

Pruned(k) ==
  \/ ~ConvexAt(k)
  \/ Included(k).outputs > maxOutputs
  \/ Included(k).perm_inputs > maxInputs
  \/ k \in invalid

(* What every call with choice true does to the shared members. *)
Refer(k) == [i \in Positions |-> inputVector[i] + Uses(k, i)]

MarkFault(k) == IF LeadsToCut(k) THEN lti \cup {k} ELSE lti
Mark(k) == IF LeadsToCut(k) THEN lti \cup {k} ELSE lti \ {k}

Choose(k) ==
  /\ cut' = cut \cup {k}
  /\ lti' = Mark(k)
  /\ inputVector' = Refer(k)

(* A constraint is violated: the call returns at once. *)
IncludePruned(k) ==
  /\ Decides(k, TRUE)
  /\ Pruned(k)
  /\ Choose(k)
  /\ calls' = CallerMade
  /\ UNCHANGED <<inputs, allCuts, result>>

(* The call records the cut if it has enough inputs, and goes deeper. *)
Include(k) ==
  /\ Decides(k, TRUE)
  /\ ~Pruned(k)
  /\ Choose(k)
  /\ calls' = Append(CallerMade, Included(k))
  /\ allCuts' = IF Included(k).inputs <= maxInputs /\ ~benchmark
                THEN allCuts \cup {cut \cup {k}} ELSE allCuts
  /\ UNCHANGED <<inputs, result>>

(***************************************************************************)
(* search(false, k, ...): drops the references that the call with choice   *)
(* true made from k.  A valid position that the cut refers to can now only *)
(* be an input: it is a permanent one.                                     *)
(***************************************************************************)
Excluded(k) ==
  NewCall(Caller.inputs, Caller.outputs,
          Caller.perm_inputs + If(inputVector[k] # 0 /\ k \notin invalid))

Exclude(k) ==
  /\ Decides(k, FALSE)
  /\ cut' = cut \ {k}
  /\ inputVector' = [i \in Positions |-> inputVector[i] - Uses(k, i)]
  /\ calls' = Append(CallerMade, Excluded(k))
  /\ UNCHANGED <<inputs, lti, allCuts, result>>

(***************************************************************************)
(* A call returns when it has decided the last position, or has made both  *)
(* its recursive calls.                                                    *)
(***************************************************************************)
Popped == SubSeq(calls, 1, Depth - 1)

CanReturn == Depth > Len(topo) \/ Caller.made = 2

Return ==
  /\ Depth > 1
  /\ CanReturn
  /\ calls' = Popped
  /\ UNCHANGED <<inputs, cut, lti, inputVector, allCuts, result>>

(* run() turns positions back into vertices. *)
Finish ==
  /\ Depth = 1
  /\ Caller.made = 2
  /\ calls' = <<>>
  /\ result' = {{topo[i] : i \in S} : S \in allCuts}
  /\ UNCHANGED <<inputs, cut, lti, inputVector, allCuts>>

Done == calls = <<>>

Next ==
  \/ \E k \in Positions : IncludePruned(k) \/ Include(k) \/ Exclude(k)
  \/ Return
  \/ Finish
  \/ Done /\ UNCHANGED vars

Spec == Init /\ [][Next]_vars

-----------------------------------------------------------------------------
(***************************************************************************)
(* Type invariant.  The counters are unsigned in the code and two of its   *)
(* assertions guard their decrements (inputs > 0, inputVector[..] > 0):    *)
(* they are natural numbers in every state.                                *)
(***************************************************************************)
Call == [made : 0..2, inputs : Nat, outputs : Nat, perm_inputs : Nat]

TypeOK ==
  /\ IsDFG(dfg)
  /\ IsReverseTopologicalSort(dfg, topo)
  /\ ports \in Nat \X Nat
  /\ benchmark \in BOOLEAN
  /\ cut \subseteq Positions
  /\ lti \subseteq Positions
  /\ inputVector \in [Positions -> Nat]
  /\ calls \in Seq(Call)
  /\ allCuts \subseteq SUBSET Positions
  /\ result \subseteq SUBSET dfg.node

(***************************************************************************)
(* The members that calls share are what a fresh computation from the      *)
(* current cut would give, at every moment of the recursion: inputVector   *)
(* counts the references from the cut, no position beyond the innermost    *)
(* call is still marked from an earlier branch, and lti tells of every     *)
(* decided position whether a user of it is in the cut.  lti is never      *)
(* cleared: that it is right for excluded positions rests on every         *)
(* position being tried in the cut first.                                  *)
(***************************************************************************)
References(i) ==
  Cardinality({e \in dfg.edge : /\ topoVector(dfg.src[e]) = i
                                /\ topoVector(dfg.dst[e]) \in cut})

SharedStateFresh ==
  /\ \A i \in Positions : inputVector[i] = References(i)
  /\ ~Done => /\ cut \subseteq 1..Depth
              /\ \A k \in 1..(Depth - 1) : k \in lti <=> LeadsToCut(k)

(***************************************************************************)
(* The counters a call carries agree with the definitions, for each active *)
(* call and the cut decided down to it: inputs are the values the cut uses *)
(* from outside, outputs its members used outside of it, and permanent     *)
(* inputs the inputs no later choice can draw into the cut.  (The code     *)
(* asserts perm_inputs <= inputs, which follows.)                          *)
(***************************************************************************)
CutOf(j)     == cut \cap 1..(j - 1)
InputsOf(C)  == {i \in Positions \ C : Users(i) \cap C # {}}
OutputsOf(C) == {k \in C : dfg.op[topo[k]] = "OUTPUT" \/ ~(Users(k) \subseteq C)}
PermInputsOf(j) == {i \in InputsOf(CutOf(j)) : i < j \/ i \in invalid}

CountersExact ==
  \A j \in 1..Depth :
    /\ calls[j].inputs = Cardinality(InputsOf(CutOf(j)))
    /\ calls[j].outputs = Cardinality(OutputsOf(CutOf(j)))
    /\ calls[j].perm_inputs = Cardinality(PermInputsOf(j))

(***************************************************************************)
(* The frames tell the cut: a call that has made its first recursive call  *)
(* has its position in the cut until it makes the second.  So lti is right *)
(* for the innermost position as soon as it was tried.                     *)
(***************************************************************************)
FramesInv ==
  ~Done =>
    /\ Depth \in 1..(Len(topo) + 1)
    /\ \A j \in 1..(Depth - 1) : calls[j].made > 0
    /\ \A j \in 1..Depth : calls[j].made = 1 <=> j \in cut
    /\ Depth \in Positions /\ Caller.made = 1 => (Depth \in lti <=> LeadsToCut(Depth))

(***************************************************************************)
(* The cuts run() is to find.                                              *)
(***************************************************************************)
NoTwoEdgeDetour(C) == \A k \in C : \A t \in Users(k) \ C : Users(t) \cap C = {}

FeasibleCuts ==
  {C \in SUBSET (Positions \ invalid) :
     /\ C # {}
     /\ Cardinality(InputsOf(C)) <= maxInputs
     /\ Cardinality(OutputsOf(C)) <= maxOutputs
     /\ NoTwoEdgeDetour(C)}

(***************************************************************************)
(* The cut decided down to an active call is valid and without a detour,   *)
(* only feasible cuts are recorded, and a feasible cut that is not         *)
(* recorded has its branch still to come, at some active call that agrees  *)
(* with it so far.                                                         *)
(***************************************************************************)
PathInv ==
  \A j \in 1..Depth : CutOf(j) \cap invalid = {} /\ NoTwoEdgeDetour(CutOf(j))

StillToCome(C) ==
  \E j \in 1..Depth :
    /\ C \cap 1..(j - 1) = CutOf(j)
    /\ \E i \in C : i >= j
    /\ calls[j].made = 0 \/ (calls[j].made = 1 /\ j \notin C)

ExploredInv ==
  /\ \A C \in allCuts : C \in FeasibleCuts /\ ~benchmark
  /\ \A C \in FeasibleCuts : C \in allCuts \/ benchmark \/ StillToCome(C)
  /\ Done => result = {{topo[i] : i \in S} : S \in allCuts}

(***************************************************************************)
(* The invariant of the search: whatever branches were tried and taken     *)
(* back before, the shared members and the counters are exact, and no      *)
(* feasible cut is lost.                                                   *)
(***************************************************************************)
SearchInv ==
  /\ TypeOK
  /\ SharedStateFresh
  /\ CountersExact
  /\ FramesInv
  /\ PathInv
  /\ ExploredInv

(***************************************************************************)
(* When run() ends it returns exactly the non-empty sets of valid vertices *)
(* that respect the ports and that no path of two edges leaves and         *)
(* re-enters: pruning a branch early never loses a cut that a deeper       *)
(* choice would have repaired.  A benchmark run returns none.              *)
(***************************************************************************)
FindsAllFeasible ==
  Done => result = IF benchmark THEN {}
                   ELSE {{topo[i] : i \in C} : C \in FeasibleCuts}

(***************************************************************************)
(* Every cut returned can be executed as one instruction.  The comment at  *)
(* AlgoSingleCut.h:62 says that lti marks the nodes "that lead to nodes    *)
(* that are included in the current cut"; the code marks only the direct   *)
(* operands of such nodes, so that a path through two excluded vertices    *)
(* is not seen.                                                            *)
(***************************************************************************)
ConvexCuts == \A S \in result : Convex(dfg, S)
=============================================================================
