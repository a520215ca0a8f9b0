---------------------------- MODULE MultipleCuts ----------------------------
(***************************************************************************)
(* AlgoMultipleCuts (src/ise/lib/common/AlgoMultipleCuts.cpp): the search  *)
(* of AlgoSingleCut over k cuts at once.  It only counts.                  *)
(*                                                                         *)
(* search() decides the vertices in reverse topological order: into cut k, *)
(* ..., into cut 1, into none.  The parameters of the cuts travel by       *)
(* value; cut, ltis and inputVectors are shared by all calls.  What the    *)
(* call with choice c has added to inputVectors for a vertex, the call     *)
(* with choice c - 1 for the same vertex takes back.                       *)
(*                                                                         *)
(* `calls` is the stack of active calls, as in SingleCut: the first frame  *)
(* is run(), frame j + 1 the call that decided topo[j].                    *)
(*                                                                         *)
(* An operator whose name ends in Fault is no part of the model: it is the *)
(* operator below it with a plausible mistake.                             *)
(***************************************************************************)
EXTENDS DataFlowGraph

CONSTANTS
  Graphs,      \* the data-flow graphs a run may be given
  Ports,       \* pairs <<getMaxInputs, getMaxOutputs>> of architectures
  NumCuts      \* the numbers of cuts a run may be asked for (setNumCuts)

ASSUME GraphsAssumption == \A g \in Graphs : IsDFG(g) /\ g.node # {}
ASSUME PortsAssumption == Ports \subseteq Nat \X Nat
ASSUME NumCutsAssumption == NumCuts \subseteq Nat \ {0}

VARIABLES
  dfg, topo, ports, k,  \* the inputs of run(), never changed
  cut,                  \* [position -> number of its cut, 0 for none]
  ltis,                 \* [cut -> positions marked as leading to it]
  inputVectors,         \* [cut -> [position -> references from the cut]]
  calls,                \* active calls
  n_cuts, feasibleCuts

inputs == <<dfg, topo, ports, k>>
shared == <<cut, ltis, inputVectors>>
vars   == <<inputs, shared, calls, n_cuts, feasibleCuts>>

Positions  == 1..Len(topo)
maxInputs  == ports[1]
maxOutputs == ports[2]

topoVector(v) == CHOOSE i \in Positions : topo[i] = v

Users(i)   == {topoVector(u) : u \in OutVertices(dfg, topo[i])}
Uses(i, s) == Cardinality({e \in InEdges(dfg, topo[i]) : topoVector(dfg.src[e]) = s})

isValidNode(v) ==
  \/ dfg.op[v] = "CONSTANT"
  \/ dfg.op[v] # "INPUT" /\ (dfg.instr[v] => dfg.legal[v])

invalid == {i \in Positions : ~isValidNode(topo[i])}

If(b) == IF b THEN 1 ELSE 0

-----------------------------------------------------------------------------
CutParams == [inputs |-> 0, outputs |-> 0, perm_inputs |-> 0]

NewCall(params) == [made |-> 0, params |-> params]

Init ==
  /\ dfg \in Graphs
  /\ topo \in ReverseTopologicalSorts(dfg)
  /\ ports \in Ports
  /\ k \in NumCuts
  /\ cut = [i \in Positions |-> 0]
  /\ ltis = [c \in 1..k |-> {}]
  /\ inputVectors = [c \in 1..k |-> [i \in Positions |-> 0]]
  /\ calls = <<NewCall([c \in 1..k |-> CutParams])>>
  /\ n_cuts = 0
  /\ feasibleCuts = 0

Depth  == Len(calls)
Caller == calls[Depth]

(* The innermost call goes on to decide position i: into cut c, or none.   *)
Decides(i, c) ==
  /\ calls # <<>>
  /\ i = Depth /\ i <= Len(topo)
  /\ Caller.made <= k
  /\ c = k - Caller.made

CallerMade == [calls EXCEPT ![Depth].made = @ + 1]

(***************************************************************************)
(* if (curChoice < k): the position leaves cut c + 1.  If that cut refers  *)
(* to it, it is from now on one of its inputs.                             *)
(***************************************************************************)
LeftFault(i, c) ==
  [Caller.params EXCEPT ![c + 1].perm_inputs = @ + If(i \notin invalid)]
Left(i, c) ==
  [Caller.params EXCEPT ![c + 1].perm_inputs =
     @ + If(inputVectors[c + 1][i] # 0 /\ i \notin invalid)]

Params(i, c) == IF c < k THEN Left(i, c) ELSE Caller.params

(***************************************************************************)
(* if (curChoice > 0): the position joins cut c.                           *)
(***************************************************************************)
InCut(c) == {i \in Positions : cut[i] = c}

ConvexAt(i, c)   == \A t \in Users(i) \ InCut(c) : t \notin ltis[c]
LeadsToCut(i, c) == Users(i) \cap InCut(c) # {}
IsOutput(i, c)   == ~(Users(i) \subseteq InCut(c)) \/ dfg.op[topo[i]] = "OUTPUT"
NewInputs(i, c)  == {s \in Positions : Uses(i, s) > 0 /\ inputVectors[c][s] = 0}

Joined(i, c) ==
  LET p == Params(i, c)[c]
      new == NewInputs(i, c)
  IN  [inputs |-> p.inputs - If(LeadsToCut(i, c)) + Cardinality(new),
       outputs |-> p.outputs + If(IsOutput(i, c)),
       perm_inputs |-> p.perm_inputs + Cardinality(new \cap invalid)]

NewParams(i, c) ==
  IF c = 0 THEN Params(i, c) ELSE [Params(i, c) EXCEPT ![c] = Joined(i, c)]

Pruned(i, c) ==
  /\ c > 0
  /\ \/ ~ConvexAt(i, c)
     \/ Joined(i, c).outputs > maxOutputs
     \/ Joined(i, c).perm_inputs > maxInputs
     \/ i \in invalid

IsFeasible(i, c) == c > 0 /\ Joined(i, c).inputs <= maxInputs

(* What every call does to the shared members. *)
ReferFault(i, c) ==
  [d \in 1..k |->
     [s \in Positions |-> inputVectors[d][s] + (IF d = c THEN Uses(i, s) ELSE 0)]]
Refer(i, c) ==
  [d \in 1..k |->
     [s \in Positions |-> inputVectors[d][s] + (IF d = c THEN Uses(i, s) ELSE 0)
                                             - (IF d = c + 1 THEN Uses(i, s) ELSE 0)]]

MarkFault(i, c) ==
  [d \in 1..k |-> IF d # c THEN ltis[d] ELSE ltis[d] \cup {i}]
Mark(i, c) ==
  [d \in 1..k |-> IF d # c THEN ltis[d]
                  ELSE IF LeadsToCut(i, c) THEN ltis[d] \cup {i} ELSE ltis[d] \ {i}]

Choose(i, c) ==
  /\ n_cuts' = n_cuts + 1
  /\ cut' = [cut EXCEPT ![i] = c]
  /\ inputVectors' = Refer(i, c)
  /\ ltis' = Mark(i, c)
  /\ UNCHANGED inputs

SearchPruned(i, c) ==
  /\ Decides(i, c)
  /\ Pruned(i, c)
  /\ Choose(i, c)
  /\ calls' = CallerMade
  /\ UNCHANGED feasibleCuts

Search(i, c) ==
  /\ Decides(i, c)
  /\ ~Pruned(i, c)
  /\ Choose(i, c)
  /\ calls' = Append(CallerMade, NewCall(NewParams(i, c)))
  /\ feasibleCuts' = feasibleCuts + If(IsFeasible(i, c))

(* A call returns after the last position, or after all its k + 1 calls.   *)
Return ==
  /\ Depth > 1
  /\ Depth > Len(topo) \/ Caller.made > k
  /\ calls' = SubSeq(calls, 1, Depth - 1)
  /\ UNCHANGED <<inputs, shared, n_cuts, feasibleCuts>>

Finish ==
  /\ Depth = 1
  /\ Caller.made > k
  /\ calls' = <<>>
  /\ UNCHANGED <<inputs, shared, n_cuts, feasibleCuts>>

Done == calls = <<>>

Next ==
  \/ \E i \in Positions, c \in 0..k : SearchPruned(i, c) \/ Search(i, c)
  \/ Return
  \/ Finish
  \/ Done /\ UNCHANGED vars

Spec == Init /\ [][Next]_vars

-----------------------------------------------------------------------------
(***************************************************************************)
(* Type invariant.  The counters are unsigned in the code.                 *)
(***************************************************************************)
Counters == [inputs : Nat, outputs : Nat, perm_inputs : Nat]

Call == [made : 0..(k + 1), params : [1..k -> Counters]]

TypeOK ==
  /\ IsDFG(dfg)
  /\ IsReverseTopologicalSort(dfg, topo)
  /\ ports \in Nat \X Nat
  /\ k \in Nat \ {0}
  /\ cut \in [Positions -> 0..k]
  /\ ltis \in [1..k -> SUBSET Positions]
  /\ inputVectors \in [1..k -> [Positions -> Nat]]
  /\ calls \in Seq(Call)
  /\ n_cuts \in Nat /\ feasibleCuts \in 0..n_cuts

(***************************************************************************)
(* However many choices were tried and taken back before, inputVectors     *)
(* counts the references from each cut, and the parameters that a call     *)
(* carries give the inputs and outputs of each cut as decided down to it.  *)
(* Permanent inputs are never overestimated (a position that goes to       *)
(* another cut is not counted): no branch is given up for an input that a  *)
(* later choice could still draw in.                                       *)
(***************************************************************************)
CutOf(c, j)  == InCut(c) \cap 1..(j - 1)
InputsOf(C)  == {i \in Positions \ C : Users(i) \cap C # {}}
OutputsOf(C) == {i \in C : dfg.op[topo[i]] = "OUTPUT" \/ ~(Users(i) \subseteq C)}

References(c, s) ==
  Cardinality({e \in dfg.edge : /\ topoVector(dfg.src[e]) = s
                                /\ topoVector(dfg.dst[e]) \in InCut(c)})

CountersExact ==
  \A c \in 1..k :
    /\ \A s \in Positions : inputVectors[c][s] = References(c, s)
    /\ \A j \in 1..Depth :
         LET p == calls[j].params[c]
             C == CutOf(c, j)
         IN  /\ p.inputs = Cardinality(InputsOf(C))
             /\ p.outputs = Cardinality(OutputsOf(C))
             /\ p.perm_inputs <=
                  Cardinality({i \in InputsOf(C) : i < j \/ i \in invalid})

(***************************************************************************)
(* The frames tell the cuts: a position is in the cut its call has chosen  *)
(* last, and in none before the first choice and beyond the innermost      *)
(* call.                                                                   *)
(***************************************************************************)
FramesInv ==
  ~Done =>
    /\ Depth \in 1..(Len(topo) + 1)
    /\ \A j \in Positions :
         cut[j] = IF j <= Depth /\ calls[j].made > 0 THEN k + 1 - calls[j].made ELSE 0

(***************************************************************************)
(* The invariant of the search.                                            *)
(***************************************************************************)
SearchInv ==
  /\ TypeOK
  /\ CountersExact
  /\ FramesInv

(***************************************************************************)
(* The assertions of lines 65 and 150 never fail: when a call has taken a  *)
(* position out of a cut, or has added one to it, the cut has no more      *)
(* permanent inputs than inputs.                                           *)
(***************************************************************************)
AssertionsHold ==
  \A i \in Positions, c \in 0..k :
    Decides(i, c) =>
      /\ c < k => Left(i, c)[c + 1].perm_inputs <= Left(i, c)[c + 1].inputs
      /\ c > 0 /\ ~Pruned(i, c) => Joined(i, c).perm_inputs <= Joined(i, c).inputs

(***************************************************************************)
(* With one cut, AlgoMultipleCuts is AlgoSingleCut run as a benchmark: on  *)
(* the same graph and order it begins as that does, and every step it      *)
(* takes is a step of that, or leaves all that the other knows unchanged.  *)
(***************************************************************************)
SingleCutSearch == INSTANCE SingleCut WITH
  benchmark <- TRUE,
  cut <- InCut(1),
  lti <- ltis[1],
  inputVector <- inputVectors[1],
  calls <- [j \in 1..Depth |->
              [made |-> calls[j].made,
               inputs |-> calls[j].params[1].inputs,
               outputs |-> calls[j].params[1].outputs,
               perm_inputs |-> calls[j].params[1].perm_inputs]],
  allCuts <- {},
  result <- {}

ImplementsSingleCut ==
  /\ k = 1 => SingleCutSearch!Begin
  /\ [][k = 1 => SingleCutSearch!Next]_(SingleCutSearch!vars)

(***************************************************************************)
(* The comment at AlgoMultipleCuts.h:68-69: "entries set to true for nodes *)
(* that lead to nodes that are included in the current cut", for the       *)
(* positions decided so far.                                               *)
(***************************************************************************)
LtisFresh ==
  \A c \in 1..k : \A i \in 1..(Depth - 1) : i \in ltis[c] => LeadsToCut(i, c)
=============================================================================
