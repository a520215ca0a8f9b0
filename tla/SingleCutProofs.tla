--------------------------- MODULE SingleCutProofs ---------------------------
(***************************************************************************)
(* Proofs about AlgoSingleCut for every set of graphs and ports, and every *)
(* reverse topological order.                                              *)
(***************************************************************************)
EXTENDS SingleCut, FiniteSetTheorems, SequenceTheorems, TLAPS

Ordered == IsDFG(dfg) /\ IsReverseTopologicalSort(dfg, topo)

(***************************************************************************)
(* topo and topoVector are inverse to each other.                          *)
(***************************************************************************)
LEMMA TopoFacts ==
  ASSUME Ordered
  PROVE  /\ Len(topo) \in Nat /\ Positions = DOMAIN topo
         /\ \A i \in Positions : i \in Nat /\ i >= 1 /\ i <= Len(topo)
         /\ \A i \in Positions : topo[i] \in dfg.node /\ topoVector(topo[i]) = i
         /\ \A v \in dfg.node : topoVector(v) \in Positions /\ topo[topoVector(v)] = v
<1>1. topo \in Seq(dfg.node) /\ Len(topo) \in Nat /\ DOMAIN topo = 1..Len(topo)
  BY DEF Ordered, IsReverseTopologicalSort
<1>2. Positions = DOMAIN topo
  BY <1>1 DEF Positions
<1>3. \A i \in Positions : topo[i] \in dfg.node
  BY <1>1, <1>2
<1>4. ASSUME NEW v \in dfg.node
      PROVE  topoVector(v) \in Positions /\ topo[topoVector(v)] = v
  <2>1. \E i \in Positions : topo[i] = v
    BY <1>2 DEF Ordered, IsReverseTopologicalSort
  <2> QED
    BY <2>1 DEF topoVector
<1>5. \A i, j \in Positions : topo[i] = topo[j] => i = j
  BY <1>1, <1>2 DEF Ordered, IsReverseTopologicalSort
<1>6. ASSUME NEW i \in Positions PROVE topoVector(topo[i]) = i
  BY <1>3, <1>4, <1>5
<1> QED
  BY <1>1, <1>2, <1>3, <1>4, <1>6

(***************************************************************************)
(* Users come first, and what uses i are the positions with a use of it.   *)
(***************************************************************************)
LEMMA UsersFacts ==
  ASSUME Ordered
  PROVE  /\ \A i \in Positions : Users(i) \subseteq Positions
         /\ \A i \in Positions : \A t \in Users(i) : t < i
         /\ \A k, i \in Positions :
              /\ IsFiniteSet({e \in InEdges(dfg, topo[k]) : topoVector(dfg.src[e]) = i})
              /\ Uses(k, i) \in Nat
              /\ Uses(k, i) > 0 <=> k \in Users(i)
<1> USE TopoFacts
<1>1. ASSUME NEW i \in Positions, NEW t \in Users(i)
      PROVE  t \in Positions /\ t < i
  <2>1. PICK u \in OutVertices(dfg, topo[i]) : t = topoVector(u)
    BY <1>1 DEF Users
  <2>2. u \in dfg.node
    BY <2>1 DEF OutVertices, OutEdges, Ordered, IsDFG
  <2>3. t \in Positions /\ topo[t] = u
    BY <2>1, <2>2
  <2>4. ~(i <= t)
    BY <2>1, <2>3 DEF Ordered, IsReverseTopologicalSort
  <2> QED
    BY <2>3, <2>4
<1>2. ASSUME NEW k \in Positions, NEW i \in Positions
      PROVE  /\ IsFiniteSet({e \in InEdges(dfg, topo[k]) : topoVector(dfg.src[e]) = i})
             /\ Uses(k, i) \in Nat
             /\ Uses(k, i) > 0 <=> k \in Users(i)
  <2> DEFINE slots == {e \in InEdges(dfg, topo[k]) : topoVector(dfg.src[e]) = i}
  <2>1. IsFiniteSet(slots)
    BY FS_Subset DEF InEdges, Ordered, IsDFG
  <2>2. Cardinality(slots) \in Nat /\ (Cardinality(slots) = 0 <=> slots = {})
    BY <2>1, FS_CardinalityType, FS_EmptySet
  <2>3. ASSUME NEW e \in slots PROVE k \in Users(i)
    <3>1. e \in dfg.edge /\ dfg.src[e] \in dfg.node /\ dfg.dst[e] = topo[k]
      BY DEF InEdges, Ordered, IsDFG
    <3>2. dfg.src[e] = topo[i]
      BY <3>1
    <3>3. topo[k] \in OutVertices(dfg, topo[i])
      BY <3>1, <3>2 DEF OutVertices, OutEdges
    <3> QED
      BY <3>3 DEF Users
  <2>4. ASSUME k \in Users(i) PROVE slots # {}
    <3>1. PICK e \in dfg.edge : dfg.src[e] = topo[i] /\ k = topoVector(dfg.dst[e])
      BY <2>4 DEF Users, OutVertices, OutEdges
    <3>2. dfg.dst[e] = topo[k]
      BY <3>1 DEF Ordered, IsDFG
    <3>3. e \in slots
      BY <3>1, <3>2 DEF InEdges
    <3> QED
      BY <3>3
  <2>5. Uses(k, i) = Cardinality(slots)
    BY DEF Uses
  <2> HIDE DEF slots
  <2>6. Uses(k, i) \in Nat /\ (Uses(k, i) > 0 <=> slots # {})
    BY <2>2, <2>5
  <2>7. slots # {} <=> k \in Users(i)
    BY <2>3, <2>4
  <2> QED
    BY <2>1, <2>6, <2>7, Zenon DEF slots
<1> QED
  BY <1>1, <1>2

(***************************************************************************)
(* Sets of positions are finite, and more positions are not fewer.         *)
(***************************************************************************)
LEMMA PositionSets ==
  ASSUME Ordered, NEW S, S \subseteq Positions
  PROVE  /\ IsFiniteSet(S) /\ Cardinality(S) \in Nat
         /\ \A T \in SUBSET S : Cardinality(T) <= Cardinality(S)
         /\ \A x \in Positions \ S : Cardinality(S \cup {x}) = Cardinality(S) + 1
         /\ \A x \in S : Cardinality(S \ {x}) = Cardinality(S) - 1
<1>1. IsFiniteSet(Positions)
  BY TopoFacts, FS_Interval DEF Positions
<1>2. IsFiniteSet(S) /\ Cardinality(S) \in Nat
  BY <1>1, FS_Subset, FS_CardinalityType
<1> QED
  BY <1>2, FS_Subset, FS_AddElement, FS_RemoveElement

(***************************************************************************)
(* Sets of positions add up when they have nothing in common.              *)
(***************************************************************************)
LEMMA DisjointSets ==
  ASSUME Ordered, NEW S, S \subseteq Positions, NEW T, T \subseteq Positions,
         S \cap T = {}
  PROVE  Cardinality(S \cup T) = Cardinality(S) + Cardinality(T)
<1>1. IsFiniteSet(S) /\ IsFiniteSet(T)
  BY PositionSets
<1>2. Cardinality(S) \in Nat /\ Cardinality(T) \in Nat
  BY PositionSets
<1>3. Cardinality(S \cup T) = Cardinality(S) + Cardinality(T) - Cardinality(S \cap T)
  BY <1>1, FS_Union
<1> QED
  BY <1>2, <1>3, FS_EmptySet

(***************************************************************************)
(* The values k brings in from outside a cut of positions before it.       *)
(***************************************************************************)
FirstUses(k, C) == {i \in Positions : k \in Users(i) /\ Users(i) \cap C = {}}

(***************************************************************************)
(* What k changes when it joins a cut of positions before it: it stops to  *)
(* be an input, brings in the values only it uses, and is an output if it  *)
(* is used elsewhere.                                                      *)
(***************************************************************************)
LEMMA JoinCounts ==
  ASSUME Ordered, NEW k \in Positions, NEW C \in SUBSET Positions,
         \A c \in C : c < k
  PROVE  /\ InputsOf(C \cup {k}) = (InputsOf(C) \ {k}) \cup FirstUses(k, C)
         /\ (InputsOf(C) \ {k}) \cap FirstUses(k, C) = {}
         /\ k \in InputsOf(C) <=> Users(k) \cap C # {}
         /\ \A i \in FirstUses(k, C) : i > k
         /\ OutputsOf(C \cup {k}) =
              OutputsOf(C) \cup (IF dfg.op[topo[k]] = "OUTPUT" \/ ~(Users(k) \subseteq C)
                                 THEN {k} ELSE {})
         /\ k \notin OutputsOf(C)
<1>1. \A i \in Positions : i \in Nat /\ \A t \in Users(i) : t < i /\ t \in Nat
  BY TopoFacts, UsersFacts
<1>2. k \notin C /\ k \notin Users(k)
  BY <1>1
<1>3. \A i \in C : k \notin Users(i)
  BY <1>1
<1>4. \A i \in FirstUses(k, C) : i > k /\ i \notin C /\ i \notin InputsOf(C)
  BY <1>1 DEF FirstUses, InputsOf
<1>5. InputsOf(C \cup {k}) = (InputsOf(C) \ {k}) \cup FirstUses(k, C)
  BY <1>2, <1>4 DEF InputsOf, FirstUses
<1>6. k \in InputsOf(C) <=> Users(k) \cap C # {}
  BY <1>2 DEF InputsOf
<1>7. k \notin OutputsOf(C)
  BY <1>2 DEF OutputsOf
<1>8. OutputsOf(C \cup {k}) =
        OutputsOf(C) \cup (IF dfg.op[topo[k]] = "OUTPUT" \/ ~(Users(k) \subseteq C)
                           THEN {k} ELSE {})
  BY <1>2, <1>3 DEF OutputsOf
<1> QED
  BY <1>4, <1>5, <1>6, <1>7, <1>8

(***************************************************************************)
(* What is settled at k stays: a cut D has the outputs of its part up to   *)
(* k, the inputs of that part that lie before k or are invalid, and no     *)
(* detour less.                                                            *)
(***************************************************************************)
LEMMA PrefixFacts ==
  ASSUME Ordered, NEW k \in Positions, NEW D \in SUBSET Positions,
         NEW C, C = D \cap 1..k
  PROVE  /\ OutputsOf(C) \subseteq OutputsOf(D)
         /\ D \cap invalid = {} =>
              {i \in InputsOf(C) : i < k + 1 \/ i \in invalid} \subseteq InputsOf(D)
         /\ NoTwoEdgeDetour(D) => NoTwoEdgeDetour(C)
<1>1. \A i \in Positions : i \in 1..k <=> i < k + 1
  BY TopoFacts
<1>2. \A i \in 1..k : \A t \in Users(i) : t \in 1..k
  <2> SUFFICES ASSUME NEW i \in 1..k, NEW t \in Users(i) PROVE t \in 1..k
    OBVIOUS
  <2>1. i \in Positions
    BY TopoFacts DEF Positions
  <2>2. t \in Positions /\ t < i
    BY <2>1, UsersFacts
  <2> QED
    BY <2>1, <2>2, TopoFacts
<1>3. OutputsOf(C) \subseteq OutputsOf(D)
  BY <1>2 DEF OutputsOf
<1>4. ASSUME NEW i \in InputsOf(C), D \cap invalid = {}, i < k + 1 \/ i \in invalid
      PROVE  i \in InputsOf(D)
  BY <1>1, <1>4 DEF InputsOf
<1>5. ASSUME NoTwoEdgeDetour(D) PROVE NoTwoEdgeDetour(C)
  <2> SUFFICES ASSUME NEW i \in C, NEW t \in Users(i) \ C, Users(t) \cap C # {}
               PROVE  FALSE
    BY DEF NoTwoEdgeDetour
  <2>1. t \in Users(i) \ D
    BY <1>2
  <2> QED
    BY <1>5, <2>1 DEF NoTwoEdgeDetour
<1> QED
  BY <1>3, <1>4, <1>5

-----------------------------------------------------------------------------
(***************************************************************************)
(* The invariant, with the counters of a frame and the cut of a call as    *)
(* operators of their own.                                                 *)
(***************************************************************************)
Part(S, j) == S \cap 1..(j - 1)

ExactFrame(f, C, j) ==
  /\ f.inputs = Cardinality(InputsOf(C))
  /\ f.outputs = Cardinality(OutputsOf(C))
  /\ f.perm_inputs = Cardinality({i \in InputsOf(C) : i < j \/ i \in invalid})

Clean(C) == C \cap invalid = {} /\ NoTwoEdgeDetour(C)

Ahead(C, S, f, j) ==
  /\ C \cap 1..(j - 1) = Part(S, j)
  /\ \E i \in C : i >= j
  /\ f.made = 0 \/ (f.made = 1 /\ j \notin C)

(***************************************************************************)
(* The parts of the invariant, of the stack and cut as parameters.         *)
(***************************************************************************)
LEMMA InvariantRestated ==
  /\ CountersExact <=> \A j \in 1..Depth : ExactFrame(calls[j], Part(cut, j), j)
  /\ PathInv <=> \A j \in 1..Depth : Clean(Part(cut, j))
  /\ \A C : StillToCome(C) <=> \E j \in 1..Depth : Ahead(C, cut, calls[j], j)
  BY DEF CountersExact, ExactFrame, Part, CutOf, PermInputsOf, PathInv, Clean,
         StillToCome, Ahead

(***************************************************************************)
(* A step that leaves the inputs of run() alone leaves the graph as the    *)
(* positions see it.                                                       *)
(***************************************************************************)
LEMMA SameGraph ==
  ASSUME UNCHANGED inputs
  PROVE  /\ Positions' = Positions /\ invalid' = invalid
         /\ (Ordered <=> Ordered')
         /\ maxInputs' = maxInputs /\ maxOutputs' = maxOutputs
         /\ FeasibleCuts' = FeasibleCuts
         /\ \A i : Users(i)' = Users(i)
         /\ \A i, k : Uses(k, i)' = Uses(k, i)
         /\ \A C : InputsOf(C)' = InputsOf(C) /\ OutputsOf(C)' = OutputsOf(C)
         /\ \A C : NoTwoEdgeDetour(C)' <=> NoTwoEdgeDetour(C)
<1> USE DEF inputs
<1>1. Positions' = Positions /\ \A v : topoVector(v)' = topoVector(v)
  BY DEF Positions, topoVector
<1>2. \A i : Users(i)' = Users(i)
  BY <1>1 DEF Users, OutVertices, OutEdges
<1>3. \A i, k : Uses(k, i)' = Uses(k, i)
  BY <1>1 DEF Uses, InEdges
<1>4. invalid' = invalid
  BY <1>1 DEF invalid, isValidNode
<1>5. \A C : InputsOf(C)' = InputsOf(C) /\ OutputsOf(C)' = OutputsOf(C)
  BY <1>1, <1>2 DEF InputsOf, OutputsOf
<1>6. \A C : NoTwoEdgeDetour(C)' <=> NoTwoEdgeDetour(C)
  BY <1>2 DEF NoTwoEdgeDetour
<1>7. maxInputs' = maxInputs /\ maxOutputs' = maxOutputs
  BY DEF maxInputs, maxOutputs
<1>8. FeasibleCuts' = FeasibleCuts
  BY <1>1, <1>4, <1>5, <1>6, <1>7 DEF FeasibleCuts
<1>9. Ordered <=> Ordered'
  BY DEF Ordered, IsDFG, IsReverseTopologicalSort, OutVertices, OutEdges
<1> QED
  BY <1>1, <1>2, <1>3, <1>4, <1>5, <1>6, <1>7, <1>8, <1>9

(***************************************************************************)
(* The same of the next state.                                             *)
(***************************************************************************)
LEMMA NextInvariant ==
  ASSUME UNCHANGED inputs
  PROVE  /\ CountersExact' <=>
              \A j \in 1..Len(calls') : ExactFrame(calls'[j], Part(cut', j), j)
         /\ PathInv' <=> \A j \in 1..Len(calls') : Clean(Part(cut', j))
         /\ \A C : StillToCome(C)' <=>
              \E j \in 1..Len(calls') : Ahead(C, cut', calls'[j], j)
<1>1. \A S, j : /\ InputsOf(S)' = InputsOf(S)
                /\ OutputsOf(S)' = OutputsOf(S)
                /\ invalid' = invalid
                /\ NoTwoEdgeDetour(S)' <=> NoTwoEdgeDetour(S)
  BY SameGraph
<1>2. ASSUME NEW j
      PROVE  /\ InputsOf(CutOf(j))' = InputsOf(Part(cut', j))
             /\ OutputsOf(CutOf(j))' = OutputsOf(Part(cut', j))
             /\ NoTwoEdgeDetour(CutOf(j))' <=> NoTwoEdgeDetour(Part(cut', j))
             /\ CutOf(j)' = Part(cut', j)
  BY SameGraph DEF InputsOf, OutputsOf, NoTwoEdgeDetour, CutOf, Part, inputs
<1>3. CountersExact' <=>
        \A j \in 1..Len(calls') : ExactFrame(calls'[j], Part(cut', j), j)
  BY <1>1, <1>2 DEF CountersExact, ExactFrame, PermInputsOf, Depth
<1>4. PathInv' <=> \A j \in 1..Len(calls') : Clean(Part(cut', j))
  BY <1>1, <1>2 DEF PathInv, Clean, Depth
<1>5. \A C : StillToCome(C)' <=>
        \E j \in 1..Len(calls') : Ahead(C, cut', calls'[j], j)
  BY <1>2 DEF StillToCome, Ahead, Depth
<1> QED
  BY <1>3, <1>4, <1>5

(***************************************************************************)
(* Counting references: a position that joins a cut adds its uses, and a   *)
(* cut refers to i when it has a user of it.                               *)
(***************************************************************************)
RefSlots(C, i) == {e \in dfg.edge : /\ topoVector(dfg.src[e]) = i
                                    /\ topoVector(dfg.dst[e]) \in C}

(***************************************************************************)
(* References are counted one operand slot at a time.                      *)
(***************************************************************************)
LEMMA ReferenceCounts ==
  ASSUME Ordered, NEW C, NEW i \in Positions
  PROVE  /\ Cardinality(RefSlots(C, i)) \in Nat
         /\ Cardinality(RefSlots(C, i)) = 0 <=> Users(i) \cap C = {}
         /\ \A k \in Positions \ C :
              Cardinality(RefSlots(C \cup {k}, i)) =
                Cardinality(RefSlots(C, i)) + Uses(k, i)
<1> DEFINE refs == RefSlots(C, i)
<1>1. IsFiniteSet(refs) /\ Cardinality(refs) \in Nat /\ (Cardinality(refs) = 0 <=> refs = {})
  <2>1. refs \subseteq dfg.edge
    BY DEF RefSlots
  <2>2. IsFiniteSet(refs)
    BY <2>1, FS_Subset DEF Ordered, IsDFG
  <2> QED
    BY <2>2, FS_CardinalityType, FS_EmptySet
<1>2. \A e \in dfg.edge : dfg.src[e] \in dfg.node /\ dfg.dst[e] \in dfg.node
  BY DEF Ordered, IsDFG
<1>3. refs = {} <=> Users(i) \cap C = {}
  <2>1. ASSUME NEW e \in refs PROVE Users(i) \cap C # {}
    <3>1. /\ e \in dfg.edge /\ topoVector(dfg.src[e]) = i
          /\ topoVector(dfg.dst[e]) \in C
      BY DEF RefSlots
    <3>2. dfg.src[e] = topo[i]
      BY <1>2, <3>1, TopoFacts
    <3>3. topoVector(dfg.dst[e]) \in Users(i)
      BY <3>1, <3>2 DEF Users, OutVertices, OutEdges
    <3> QED
      BY <3>1, <3>3
  <2>2. ASSUME NEW t \in Users(i) \cap C PROVE refs # {}
    <3>1. PICK e \in dfg.edge : dfg.src[e] = topo[i] /\ t = topoVector(dfg.dst[e])
      BY <2>2 DEF Users, OutVertices, OutEdges
    <3>2. e \in refs
      BY <3>1, TopoFacts DEF RefSlots
    <3> QED
      BY <3>2
  <2> QED
    BY <2>1, <2>2
<1>4. ASSUME NEW k \in Positions \ C
      PROVE  Cardinality(RefSlots(C \cup {k}, i)) = Cardinality(refs) + Uses(k, i)
  <2> DEFINE slots == {e \in InEdges(dfg, topo[k]) : topoVector(dfg.src[e]) = i}
  <2>1. RefSlots(C \cup {k}, i) = refs \cup slots
    <3>1. \A e \in dfg.edge : topoVector(dfg.dst[e]) = k <=> dfg.dst[e] = topo[k]
      BY <1>2, TopoFacts
    <3> QED
      BY <3>1 DEF RefSlots, InEdges
  <2>2. refs \cap slots = {}
    BY TopoFacts DEF RefSlots, InEdges
  <2>3. IsFiniteSet(slots) /\ Cardinality(slots) = Uses(k, i) /\ Uses(k, i) \in Nat
    BY UsersFacts DEF Uses
  <2> HIDE DEF slots, refs
  <2>4. Cardinality(refs \cup slots) =
          Cardinality(refs) + Cardinality(slots) - Cardinality(refs \cap slots)
    BY <1>1, <2>3, FS_Union
  <2>5. Cardinality(refs \cap slots) = 0
    BY <2>2, FS_EmptySet
  <2>6. Cardinality(RefSlots(C \cup {k}, i)) = Cardinality(refs \cup slots)
    BY <2>1
  <2> QED
    BY <1>1, <2>3, <2>4, <2>5, <2>6
<1> QED
  BY <1>1, <1>3, <1>4

(***************************************************************************)
(* The innermost call and the frames after it has made one more call.      *)
(***************************************************************************)
LEMMA DecidesFacts ==
  ASSUME SearchInv, NEW k \in Positions, NEW choice \in BOOLEAN, Decides(k, choice)
  PROVE  /\ Ordered /\ ~Done
         /\ k = Len(calls) /\ calls \in Seq(Call) /\ calls[k] \in Call /\ Caller = calls[k]
         /\ choice => calls[k].made = 0 /\ k \notin cut /\ \A c \in cut : c < k
         /\ ~choice => calls[k].made = 1 /\ k \in cut /\ \A c \in cut : c <= k
         /\ CallerMade \in Seq(Call) /\ Len(CallerMade) = k
         /\ CallerMade[k].made = calls[k].made + 1
         /\ \A j \in 1..k : /\ j # k => CallerMade[j] = calls[j]
                            /\ CallerMade[j].inputs = calls[j].inputs
                            /\ CallerMade[j].outputs = calls[j].outputs
                            /\ CallerMade[j].perm_inputs = calls[j].perm_inputs
<1>1. Ordered /\ calls \in Seq(Call) /\ cut \subseteq Positions
  BY DEF SearchInv, TypeOK, Ordered
<1>2. ~Done /\ k = Len(calls) /\ Caller = calls[k] /\ k \in 1..Len(calls)
  BY <1>1, TopoFacts DEF Decides, Done, Depth, Caller
<1>3. calls[k] \in Call
  BY <1>1, <1>2
<1>4. calls[k].made \in {0, 1} /\ (choice <=> calls[k].made = 0)
  <2>1. calls[k].made \in 0..2 /\ calls[k].made < 2
    BY <1>2, <1>3 DEF Decides, Call
  <2>2. choice = (calls[k].made = 0)
    BY <1>2 DEF Decides, Choice
  <2>3. calls[k].made \in {0, 1}
    BY <2>1
  <2>4. choice <=> calls[k].made = 0
    BY <2>2, Zenon
  <2> QED
    BY <2>3, <2>4
<1>5. (calls[k].made = 1 <=> k \in cut) /\ cut \subseteq 1..k
  BY <1>2 DEF SearchInv, FramesInv, SharedStateFresh, Depth
<1>6. \A c \in cut : c <= k /\ c \in Nat
  BY <1>5
<1>7. k \notin cut => \A c \in cut : c < k
  BY <1>1, <1>6, TopoFacts
<1> DEFINE f == [calls[k] EXCEPT !.made = @ + 1]
<1>8. CallerMade = [calls EXCEPT ![k] = f]
  BY <1>2 DEF CallerMade, Depth
<1>9. /\ f \in Call /\ f.made = calls[k].made + 1
      /\ f.inputs = calls[k].inputs /\ f.outputs = calls[k].outputs
      /\ f.perm_inputs = calls[k].perm_inputs
  BY <1>3, <1>4 DEF Call
<1> HIDE DEF f
<1>10. /\ CallerMade \in Seq(Call) /\ Len(CallerMade) = k
       /\ CallerMade[k] = f
       /\ \A j \in 1..k : j # k => CallerMade[j] = calls[j]
  BY <1>1, <1>2, <1>8, <1>9, ExceptSeq
<1>11. ASSUME NEW j \in 1..k
       PROVE  /\ CallerMade[j].inputs = calls[j].inputs
              /\ CallerMade[j].outputs = calls[j].outputs
              /\ CallerMade[j].perm_inputs = calls[j].perm_inputs
  BY <1>9, <1>10
<1> QED
  BY <1>1, <1>2, <1>3, <1>4, <1>5, <1>6, <1>7, <1>9, <1>10, <1>11

(***************************************************************************)
(* Parts of the cut before and after position k is decided.                *)
(***************************************************************************)
LEMMA PartFacts ==
  ASSUME Ordered, NEW k \in Positions, NEW S, \A c \in S : c \in Positions /\ c <= k
  PROVE  /\ \A j \in 1..k : /\ Part(S \cup {k}, j) = Part(S, j)
                            /\ Part(S \ {k}, j) = Part(S, j)
         /\ Part(S, k) = S \ {k}
         /\ Part(S, k + 1) = S
         /\ Part(S \cup {k}, k + 1) = S \cup {k}
         /\ Part(S \ {k}, k + 1) = S \ {k}
<1>1. \A c \in S \cup {k} : c \in Nat /\ c >= 1 /\ c <= k
  BY TopoFacts
<1>2. k \in Nat /\ k >= 1
  BY TopoFacts
<1>3. \A j \in 1..k : ~(k <= j - 1)
  BY <1>2
<1> QED
  BY <1>1, <1>2, <1>3 DEF Part

(***************************************************************************)
(* What search(true, k, ...) computes is exact for the cut with k.         *)
(***************************************************************************)
LEMMA IncludedIsExact ==
  ASSUME SearchInv, NEW k \in Positions, Decides(k, TRUE)
  PROVE  /\ Included(k).made = 0
         /\ Included(k).inputs = Cardinality(InputsOf(cut \cup {k}))
         /\ Included(k).outputs = Cardinality(OutputsOf(cut \cup {k}))
         /\ k \notin invalid => ExactFrame(Included(k), cut \cup {k}, k + 1)
         /\ k \notin invalid => Included(k) \in Call
<1>1. /\ Ordered /\ ~Done /\ k = Len(calls) /\ Caller = calls[k] /\ calls[k] \in Call
      /\ k \notin cut /\ \A c \in cut : c < k
      /\ cut \in SUBSET Positions
  BY DecidesFacts DEF SearchInv, TypeOK
<1> DEFINE new == FirstUses(k, cut)
           ins == InputsOf(cut)
           out == OutputsOf(cut)
           big == cut \cup {k}
           prm(S, j) == {i \in InputsOf(S) : i < j \/ i \in invalid}
<1>2. /\ InputsOf(big) = (ins \ {k}) \cup new
      /\ (ins \ {k}) \cap new = {}
      /\ k \in ins <=> LeadsToCut(k)
      /\ \A i \in new : i > k
      /\ OutputsOf(big) = out \cup (IF IsOutput(k) THEN {k} ELSE {})
      /\ k \notin out
  BY <1>1, JoinCounts DEF LeadsToCut, IsOutput
<1>3. NewInputs(k) = new
  <2>1. \A i \in Positions : inputVector[i] = Cardinality(RefSlots(cut, i))
    BY DEF SearchInv, SharedStateFresh, References, RefSlots
  <2>2. \A i \in Positions : inputVector[i] = 0 <=> Users(i) \cap cut = {}
    BY <1>1, <2>1, ReferenceCounts
  <2>3. \A i \in Positions : Uses(k, i) > 0 <=> k \in Users(i)
    BY <1>1, UsersFacts
  <2> QED
    BY <2>2, <2>3 DEF NewInputs, FirstUses
<1>4. ins \subseteq Positions /\ new \subseteq Positions /\ out \subseteq Positions
      /\ prm(cut, k) \subseteq Positions
  BY <1>1 DEF InputsOf, OutputsOf, FirstUses
<1>5. ExactFrame(calls[k], cut, k)
  <2>1. k \in 1..Depth
    BY <1>1, TopoFacts DEF Depth
  <2>2. \A c \in cut : c \in Positions /\ c <= k
    BY <1>1, TopoFacts
  <2>3. Part(cut, k) = cut \ {k}
    BY <1>1, <2>2, PartFacts
  <2>4. cut \ {k} = cut
    BY <1>1
  <2> QED
    BY <1>1, <2>1, <2>3, <2>4, InvariantRestated DEF SearchInv
<1>6. /\ calls[k].inputs = Cardinality(ins) /\ calls[k].outputs = Cardinality(out)
      /\ calls[k].perm_inputs = Cardinality(prm(cut, k))
  BY <1>5 DEF ExactFrame
<1>7. /\ Included(k).made = 0
      /\ Included(k).inputs = calls[k].inputs - If(LeadsToCut(k)) + Cardinality(new)
      /\ Included(k).outputs = calls[k].outputs + If(IsOutput(k))
      /\ Included(k).perm_inputs = calls[k].perm_inputs + Cardinality(new \cap invalid)
  BY <1>1, <1>3 DEF Included, NewCall
<1>8. Cardinality(ins \ {k}) = Cardinality(ins) - If(k \in ins)
  <2>1. CASE k \in ins
    BY <1>1, <1>4, <2>1, PositionSets DEF If
  <2>2. CASE k \notin ins
    <3>1. ins \ {k} = ins
      BY <2>2
    <3>2. Cardinality(ins) \in Nat
      BY <1>1, <1>4, PositionSets
    <3> QED
      BY <2>2, <3>1, <3>2 DEF If
  <2> QED
    BY <2>1, <2>2
<1>9. Included(k).inputs = Cardinality(InputsOf(big))
  <2> HIDE DEF ins, new, big
  <2>1. Cardinality((ins \ {k}) \cup new) = Cardinality(ins \ {k}) + Cardinality(new)
    BY <1>1, <1>2, <1>4, DisjointSets
  <2>2. If(k \in ins) = If(LeadsToCut(k))
    BY <1>2 DEF If
  <2>3. calls[k].inputs - If(LeadsToCut(k)) = Cardinality(ins \ {k})
    BY <1>6, <1>8, <2>2
  <2> QED
    BY <1>2, <1>7, <2>1, <2>3
<1>10. Included(k).outputs = Cardinality(OutputsOf(big))
  <2> HIDE DEF out, big
  <2>1. CASE IsOutput(k)
    <3>1. Cardinality(out \cup {k}) = Cardinality(out) + 1
      BY <1>1, <1>2, <1>4, PositionSets
    <3> QED
      BY <1>2, <1>6, <1>7, <2>1, <3>1 DEF If
  <2>2. CASE ~IsOutput(k)
    <3>1. Cardinality(out) \in Nat
      BY <1>1, <1>4, PositionSets
    <3> QED
      BY <1>2, <1>6, <1>7, <2>2, <3>1 DEF If
  <2> QED
    BY <2>1, <2>2
<1>11. ASSUME k \notin invalid
       PROVE  Included(k).perm_inputs = Cardinality(prm(big, k + 1))
  <2>1. \A i \in Positions : i # k => (i < k + 1 <=> i < k)
    BY TopoFacts, <1>1
  <2>2. \A i \in Positions : i > k => ~(i < k + 1)
    BY TopoFacts, <1>1
  <2>3. k \notin prm(cut, k)
    BY <1>11, TopoFacts, <1>1
  <2>4. prm(big, k + 1) = prm(cut, k) \cup (new \cap invalid)
    BY <1>2, <1>4, <2>1, <2>2, <2>3
  <2>5. prm(cut, k) \cap (new \cap invalid) = {}
    BY <1>2, <2>3
  <2>6. Cardinality(prm(cut, k) \cup (new \cap invalid)) =
          Cardinality(prm(cut, k)) + Cardinality(new \cap invalid)
    <3> HIDE DEF prm, new
    <3> QED BY <1>1, <1>4, <2>5, DisjointSets
  <2> QED
    BY <1>6, <1>7, <2>4, <2>6
<1>12. ASSUME k \notin invalid PROVE Included(k) \in Call
  <2>1. /\ Cardinality(InputsOf(big)) \in Nat /\ Cardinality(OutputsOf(big)) \in Nat
        /\ Cardinality(prm(big, k + 1)) \in Nat
    <3>1. /\ InputsOf(big) \subseteq Positions /\ OutputsOf(big) \subseteq Positions
          /\ prm(big, k + 1) \subseteq Positions
      BY <1>1 DEF InputsOf, OutputsOf
    <3> QED
      BY <1>1, <3>1, PositionSets
  <2> QED
    BY <1>9, <1>10, <1>11, <1>12, <2>1 DEF Call, Included, NewCall
<1> QED
  BY <1>7, <1>9, <1>10, <1>11, <1>12 DEF ExactFrame

(***************************************************************************)
(* A branch is given up only when no feasible cut lies in it: each of the  *)
(* constraints that search() tests is settled by the positions decided.    *)
(***************************************************************************)
LEMMA PrunedIsInfeasible ==
  ASSUME SearchInv, NEW k \in Positions, Decides(k, TRUE), Pruned(k),
         NEW C \in FeasibleCuts, C \cap 1..(k - 1) = cut
  PROVE  k \notin C
<1> SUFFICES ASSUME k \in C PROVE FALSE
  OBVIOUS
<1>1. /\ Ordered /\ ~Done /\ k = Len(calls) /\ k \notin cut
      /\ \A c \in cut : c < k
  BY DecidesFacts
<1>2. /\ C \in SUBSET Positions /\ C \cap invalid = {}
      /\ Cardinality(InputsOf(C)) <= maxInputs
      /\ Cardinality(OutputsOf(C)) <= maxOutputs
      /\ NoTwoEdgeDetour(C)
  BY DEF FeasibleCuts
<1>3. k \notin invalid
  BY <1>2
<1> DEFINE big == cut \cup {k}
<1>4. big = C \cap 1..k
  <2>1. \A c \in C : c \in 1..k <=> (c \in 1..(k - 1) \/ c = k)
    BY <1>1, <1>2, TopoFacts
  <2> QED
    BY <2>1
<1> HIDE DEF big
<1>5. /\ OutputsOf(big) \subseteq OutputsOf(C)
      /\ {i \in InputsOf(big) : i < k + 1 \/ i \in invalid} \subseteq InputsOf(C)
  BY <1>1, <1>2, <1>4, PrefixFacts
<1>6. InputsOf(C) \subseteq Positions /\ OutputsOf(C) \subseteq Positions
  BY <1>2 DEF InputsOf, OutputsOf
<1>7. /\ Cardinality(InputsOf(C)) \in Nat /\ Cardinality(OutputsOf(C)) \in Nat
      /\ maxInputs \in Nat /\ maxOutputs \in Nat
  BY <1>1, <1>6, PositionSets DEF SearchInv, TypeOK, maxInputs, maxOutputs
<1>8. /\ Included(k).outputs = Cardinality(OutputsOf(big))
      /\ Included(k).perm_inputs =
           Cardinality({i \in InputsOf(big) : i < k + 1 \/ i \in invalid})
      /\ Included(k) \in Call
  BY <1>3, IncludedIsExact DEF ExactFrame, big
<1>9. CASE ~ConvexAt(k)
  <2>1. PICK t \in Users(k) \ cut : t \in lti
    BY <1>9 DEF ConvexAt
  <2>2. t \in Positions /\ t < k
    BY <1>1, <2>1, UsersFacts
  <2>3. t \in 1..(k - 1)
    BY <1>1, <2>2, TopoFacts
  <2>4. Users(t) \cap cut # {}
    BY <1>1, <2>1, <2>3 DEF SearchInv, SharedStateFresh, Depth, LeadsToCut
  <2>5. t \in Users(k) \ C /\ Users(t) \cap C # {}
    BY <2>1, <2>3, <2>4
  <2> QED
    BY <1>2, <2>5 DEF NoTwoEdgeDetour
<1>10. CASE Included(k).outputs > maxOutputs
  <2>1. Cardinality(OutputsOf(big)) <= Cardinality(OutputsOf(C))
    BY <1>1, <1>5, <1>6, PositionSets
  <2>2. Included(k).outputs \in Nat
    BY <1>8 DEF Call
  <2> QED
    BY <1>2, <1>7, <1>8, <1>10, <2>1, <2>2
<1>11. CASE Included(k).perm_inputs > maxInputs
  <2>1. Cardinality({i \in InputsOf(big) : i < k + 1 \/ i \in invalid})
          <= Cardinality(InputsOf(C))
    BY <1>1, <1>5, <1>6, PositionSets
  <2>2. Included(k).perm_inputs \in Nat
    BY <1>8 DEF Call
  <2> QED
    BY <1>2, <1>7, <1>8, <1>11, <2>1, <2>2
<1> QED
  BY <1>3, <1>9, <1>10, <1>11 DEF Pruned

(***************************************************************************)
(* A branch that is not given up has a cut without detour.                 *)
(***************************************************************************)
LEMMA IncludedIsClean ==
  ASSUME SearchInv, NEW k \in Positions, Decides(k, TRUE), ~Pruned(k)
  PROVE  Clean(cut \cup {k})
<1>1. /\ Ordered /\ ~Done /\ k = Len(calls) /\ k \notin cut
      /\ \A c \in cut : c < k
      /\ cut \in SUBSET Positions
  BY DecidesFacts DEF SearchInv, TypeOK
<1>2. Clean(cut)
  <2>1. \A c \in cut : c \in Positions /\ c <= k
    BY <1>1, TopoFacts
  <2>2. Part(cut, k) = cut \ {k}
    BY <1>1, <2>1, PartFacts
  <2>3. k \in 1..Depth /\ cut \ {k} = cut
    BY <1>1, TopoFacts DEF Depth
  <2> QED
    BY <2>2, <2>3, InvariantRestated DEF SearchInv
<1>3. \A i \in Positions : \A t \in Users(i) : t \in Positions /\ t < i
  BY <1>1, UsersFacts
<1>4. \A i \in Positions : i <= k => k \notin Users(i)
  BY <1>1, <1>3, TopoFacts
<1>5. ASSUME NEW i \in cut \cup {k}, NEW t \in Users(i) \ (cut \cup {k})
      PROVE  Users(t) \cap (cut \cup {k}) = {}
  <2>1. t \in Positions /\ t < k
    <3>1. i \in Positions /\ i <= k
      BY <1>1, <1>5, TopoFacts
    <3> QED
      BY <1>1, <1>3, <1>5, <3>1, TopoFacts
  <2>2. k \notin Users(t)
    BY <1>1, <1>4, <2>1, TopoFacts
  <2>3. Users(t) \cap cut = {}
    <3>1. CASE i \in cut
      BY <1>2, <1>5, <3>1 DEF Clean, NoTwoEdgeDetour
    <3>2. CASE i = k
      <4>1. t \notin lti
        BY <1>5, <3>2 DEF Pruned, ConvexAt
      <4>2. t \in 1..(k - 1)
        BY <1>1, <2>1, TopoFacts
      <4> QED
        BY <1>1, <4>1, <4>2 DEF SearchInv, SharedStateFresh, Depth, LeadsToCut
    <3> QED
      BY <1>5, <3>1, <3>2
  <2> QED
    BY <2>2, <2>3
<1>6. k \notin invalid
  BY DEF Pruned
<1> QED
  BY <1>2, <1>5, <1>6 DEF Clean, NoTwoEdgeDetour

(***************************************************************************)
(* The shared members after a call with choice true, and after one with    *)
(* choice false.                                                           *)
(***************************************************************************)
SharedAfter(k) ==
  /\ cut' \subseteq Positions
  /\ lti' \subseteq Positions
  /\ inputVector' \in [Positions -> Nat]
  /\ \A i \in Positions : inputVector'[i] = References(i)'
  /\ \A c \in cut' : c \in 1..k
  /\ \A j \in 1..k : j \in lti' <=> LeadsToCut(j)'

(***************************************************************************)
(* References after a step are those of the cut after it.                  *)
(***************************************************************************)
LEMMA ReferencesAfter ==
  ASSUME UNCHANGED inputs, NEW i
  PROVE  References(i)' = Cardinality(RefSlots(cut', i))
BY SameGraph DEF References, RefSlots, inputs, topoVector, Positions

(***************************************************************************)
(* The shared members after position k joins the cut ...                   *)
(***************************************************************************)
LEMMA SharedAfterChoose ==
  ASSUME SearchInv, NEW k \in Positions, Decides(k, TRUE), Choose(k), UNCHANGED inputs
  PROVE  SharedAfter(k)
<1>1. /\ Ordered /\ ~Done /\ k = Len(calls) /\ k \notin cut
      /\ \A c \in cut : c < k
      /\ cut \subseteq Positions /\ lti \subseteq Positions
      /\ inputVector \in [Positions -> Nat]
      /\ cut' = cut \cup {k} /\ lti' = Mark(k) /\ inputVector' = Refer(k)
  BY DecidesFacts DEF SearchInv, TypeOK, Choose
<1>2. lti' \subseteq Positions
  BY <1>1 DEF Mark
<1>3. ASSUME NEW i \in Positions
      PROVE  inputVector'[i] \in Nat /\ inputVector'[i] = References(i)'
  <2>1. inputVector'[i] = inputVector[i] + Uses(k, i)
    BY <1>1 DEF Refer
  <2>2. inputVector[i] = Cardinality(RefSlots(cut, i))
    BY DEF SearchInv, SharedStateFresh, References, RefSlots
  <2>3. Cardinality(RefSlots(cut \cup {k}, i)) = Cardinality(RefSlots(cut, i)) + Uses(k, i)
    BY <1>1, ReferenceCounts
  <2>4. Uses(k, i) \in Nat /\ Cardinality(RefSlots(cut, i)) \in Nat
    BY <1>1, UsersFacts, ReferenceCounts
  <2>5. References(i)' = Cardinality(RefSlots(cut', i))
    BY ReferencesAfter
  <2> QED
    BY <1>1, <2>1, <2>2, <2>3, <2>4, <2>5
<1>4. inputVector' \in [Positions -> Nat]
  BY <1>1, <1>3 DEF Refer
<1>5. \A c \in cut' : c \in 1..k
  BY <1>1, TopoFacts
<1>6. ASSUME NEW j \in 1..k PROVE j \in lti' <=> LeadsToCut(j)'
  <2>1. j \in Positions /\ k \notin Users(j)
    <3>1. j \in Positions
      BY <1>1, TopoFacts DEF Positions
    <3> QED
      BY <1>1, <3>1, UsersFacts, TopoFacts
  <2>2. LeadsToCut(j)' <=> LeadsToCut(j)
    BY <1>1, <2>1, SameGraph DEF LeadsToCut
  <2>3. CASE j = k
    BY <1>1, <2>2, <2>3 DEF Mark
  <2>4. CASE j # k
    <3>1. j \in 1..(k - 1)
      BY <1>1, <2>4, TopoFacts
    <3>2. j \in lti <=> LeadsToCut(j)
      BY <1>1, <3>1 DEF SearchInv, SharedStateFresh, Depth
    <3> QED
      BY <1>1, <2>2, <2>4, <3>2 DEF Mark
  <2> QED
    BY <2>3, <2>4
<1> QED
  BY <1>1, <1>2, <1>3, <1>4, <1>5, <1>6 DEF SharedAfter

(***************************************************************************)
(* ... and after it leaves the cut.                                        *)
(***************************************************************************)
LEMMA SharedAfterExclude ==
  ASSUME SearchInv, NEW k \in Positions, Exclude(k)
  PROVE  SharedAfter(k)
<1>1. /\ Ordered /\ ~Done /\ k = Len(calls) /\ k \in cut /\ Caller = calls[k]
      /\ calls[k].made = 1
      /\ \A c \in cut : c <= k
      /\ cut \subseteq Positions /\ lti \subseteq Positions
      /\ inputVector \in [Positions -> Nat]
      /\ cut' = cut \ {k} /\ lti' = lti
      /\ inputVector' = [i \in Positions |-> inputVector[i] - Uses(k, i)]
      /\ UNCHANGED inputs
  BY DecidesFacts DEF SearchInv, TypeOK, Exclude
<1> DEFINE rest == cut \ {k}
<1>2. rest \cup {k} = cut /\ k \in Positions \ rest /\ cut' = rest
  BY <1>1
<1> HIDE DEF rest
<1>3. ASSUME NEW i \in Positions
      PROVE  inputVector'[i] \in Nat /\ inputVector'[i] = References(i)'
  <2>1. inputVector'[i] = inputVector[i] - Uses(k, i)
    BY <1>1
  <2>2. inputVector[i] = Cardinality(RefSlots(cut, i))
    BY DEF SearchInv, SharedStateFresh, References, RefSlots
  <2>3. Cardinality(RefSlots(cut, i)) =
          Cardinality(RefSlots(rest, i)) + Uses(k, i)
    <3>1. Cardinality(RefSlots(rest \cup {k}, i)) =
            Cardinality(RefSlots(rest, i)) + Uses(k, i)
      BY <1>1, <1>2, ReferenceCounts
    <3> QED
      BY <1>2, <3>1
  <2>4. Uses(k, i) \in Nat /\ Cardinality(RefSlots(rest, i)) \in Nat
    BY <1>1, UsersFacts, ReferenceCounts
  <2>5. References(i)' = Cardinality(RefSlots(cut', i))
    BY <1>1, ReferencesAfter
  <2> QED
    BY <1>1, <1>2, <2>1, <2>2, <2>3, <2>4, <2>5
<1>4. inputVector' \in [Positions -> Nat]
  BY <1>1, <1>3
<1>5. \A c \in cut' : c \in 1..k
  BY <1>1, TopoFacts
<1>6. ASSUME NEW j \in 1..k PROVE j \in lti' <=> LeadsToCut(j)'
  <2>1. j \in Positions /\ k \notin Users(j)
    <3>1. j \in Positions
      BY <1>1, TopoFacts DEF Positions
    <3> QED
      BY <1>1, <3>1, UsersFacts, TopoFacts
  <2>2. LeadsToCut(j)' <=> LeadsToCut(j)
    BY <1>1, <2>1, SameGraph DEF LeadsToCut
  <2>3. j \in lti <=> LeadsToCut(j)
    <3>1. CASE j = k
      BY <1>1, <3>1 DEF SearchInv, FramesInv, Depth
    <3>2. CASE j # k
      <4>1. j \in 1..(k - 1)
        BY <1>1, <3>2, TopoFacts
      <4> QED
        BY <1>1, <4>1 DEF SearchInv, SharedStateFresh, Depth
    <3> QED
      BY <3>1, <3>2
  <2> QED
    BY <1>1, <2>2, <2>3
<1> QED
  BY <1>1, <1>3, <1>4, <1>5, <1>6 DEF SharedAfter

(***************************************************************************)
(* What search(false, k, ...) computes is exact for the cut without k.     *)
(***************************************************************************)
LEMMA ExcludedIsExact ==
  ASSUME SearchInv, NEW k \in Positions, Decides(k, FALSE)
  PROVE  /\ Excluded(k).made = 0 /\ Excluded(k) \in Call
         /\ ExactFrame(Excluded(k), cut \ {k}, k + 1)
<1> DEFINE rest == cut \ {k}
           prm(j) == {i \in InputsOf(rest) : i < j \/ i \in invalid}
<1>1. /\ Ordered /\ ~Done /\ k = Len(calls) /\ Caller = calls[k] /\ calls[k] \in Call
      /\ k \in cut /\ \A c \in cut : c <= k
      /\ cut \in SUBSET Positions
  BY DecidesFacts DEF SearchInv, TypeOK
<1>2. rest \in SUBSET Positions /\ \A c \in rest : c < k
  BY <1>1, TopoFacts
<1>3. ExactFrame(calls[k], rest, k)
  <2>1. Part(cut, k) = rest
    BY <1>1, PartFacts
  <2>2. k \in 1..Depth
    BY <1>1, TopoFacts DEF Depth
  <2> QED
    BY <1>1, <2>1, <2>2, InvariantRestated DEF SearchInv
<1>4. /\ calls[k].inputs = Cardinality(InputsOf(rest))
      /\ calls[k].outputs = Cardinality(OutputsOf(rest))
      /\ calls[k].perm_inputs = Cardinality(prm(k))
  BY <1>3 DEF ExactFrame
<1>5. inputVector[k] # 0 <=> k \in InputsOf(rest)
  <2>1. inputVector[k] = Cardinality(RefSlots(cut, k))
    BY DEF SearchInv, SharedStateFresh, References, RefSlots
  <2>2. Cardinality(RefSlots(cut, k)) = 0 <=> Users(k) \cap cut = {}
    BY <1>1, ReferenceCounts
  <2>3. k \notin Users(k)
    BY <1>1, UsersFacts, TopoFacts
  <2>4. k \in InputsOf(rest) <=> Users(k) \cap rest # {}
    BY <1>1, <1>2, JoinCounts
  <2> QED
    BY <2>1, <2>2, <2>3, <2>4
<1>6. InputsOf(rest) \subseteq Positions /\ OutputsOf(rest) \subseteq Positions
  BY <1>2 DEF InputsOf, OutputsOf
<1>7. /\ Cardinality(InputsOf(rest)) \in Nat /\ Cardinality(OutputsOf(rest)) \in Nat
      /\ Cardinality(prm(k)) \in Nat
  BY <1>1, <1>6, PositionSets
<1>8. /\ Excluded(k).made = 0
      /\ Excluded(k).inputs = Cardinality(InputsOf(rest))
      /\ Excluded(k).outputs = Cardinality(OutputsOf(rest))
      /\ Excluded(k).perm_inputs =
           Cardinality(prm(k)) + If(k \in InputsOf(rest) /\ k \notin invalid)
  BY <1>1, <1>4, <1>5 DEF Excluded, NewCall
<1>9. \A i \in Positions : i < k + 1 <=> (i < k \/ i = k)
  BY <1>1, TopoFacts
<1>10. Excluded(k).perm_inputs = Cardinality(prm(k + 1))
  <2>1. CASE k \in InputsOf(rest) /\ k \notin invalid
    <3>1. prm(k + 1) = prm(k) \cup {k}
      BY <1>6, <1>9, <2>1
    <3>2. prm(k) \subseteq Positions /\ k \in Positions \ prm(k)
      <4>1. ~(k < k)
        BY <1>1, TopoFacts
      <4> QED
        BY <1>6, <2>1, <4>1
    <3>3. Cardinality(prm(k) \cup {k}) = Cardinality(prm(k)) + 1
      <4> HIDE DEF prm
      <4> QED BY <1>1, <3>2, PositionSets
    <3> QED
      BY <1>8, <2>1, <3>1, <3>3 DEF If
  <2>2. CASE ~(k \in InputsOf(rest) /\ k \notin invalid)
    <3>1. prm(k + 1) = prm(k)
      BY <1>6, <1>9, <2>2
    <3>2. If(k \in InputsOf(rest) /\ k \notin invalid) = 0
      BY <2>2 DEF If
    <3> HIDE DEF prm, rest
    <3> QED
      BY <1>7, <1>8, <3>1, <3>2
  <2> QED
    BY <2>1, <2>2
<1>11. Excluded(k) \in Call
  <2>1. /\ Excluded(k).inputs \in Nat /\ Excluded(k).outputs \in Nat
        /\ Excluded(k).perm_inputs \in Nat
    BY <1>7, <1>8 DEF If
  <2> QED
    BY <2>1 DEF Call, Excluded, NewCall
<1> QED
  BY <1>8, <1>10, <1>11 DEF ExactFrame

(***************************************************************************)
(* The calls that were active stay exact and clean, and a cut ahead of an  *)
(* outer one is still ahead of it, whichever way position k is decided.    *)
(***************************************************************************)
LEMMA OuterCalls ==
  ASSUME SearchInv, NEW k \in Positions, NEW choice \in BOOLEAN, Decides(k, choice),
         NEW S, S = cut \cup {k} \/ S = cut \ {k}
  PROVE  \A j \in 1..k :
           /\ Part(S, j) = Part(cut, j)
           /\ ExactFrame(CallerMade[j], Part(S, j), j)
           /\ Clean(Part(S, j))
           /\ \A C : j # k /\ Ahead(C, cut, calls[j], j) => Ahead(C, S, CallerMade[j], j)
<1>1. /\ Ordered /\ k = Len(calls)
      /\ \A j \in 1..k : /\ j # k => CallerMade[j] = calls[j]
                         /\ CallerMade[j].inputs = calls[j].inputs
                         /\ CallerMade[j].outputs = calls[j].outputs
                         /\ CallerMade[j].perm_inputs = calls[j].perm_inputs
  BY DecidesFacts
<1>2. \A c \in cut : c \in Positions /\ c <= k
  BY DecidesFacts, TopoFacts DEF SearchInv, TypeOK
<1>3. ASSUME NEW j \in 1..k PROVE Part(S, j) = Part(cut, j)
  <2>1. \A l \in 1..k : /\ Part(cut \cup {k}, l) = Part(cut, l)
                        /\ Part(cut \ {k}, l) = Part(cut, l)
    <3>1. Ordered
      BY <1>1
    <3> QED
      BY <1>2, <3>1, PartFacts, Zenon
  <2> QED
    BY <2>1
<1>4. ASSUME NEW j \in 1..k
      PROVE  ExactFrame(calls[j], Part(cut, j), j) /\ Clean(Part(cut, j))
  BY <1>1, InvariantRestated DEF SearchInv, Depth
<1>5. ASSUME NEW j \in 1..k
      PROVE  ExactFrame(CallerMade[j], Part(S, j), j)
  BY <1>1, <1>3, <1>4 DEF ExactFrame
<1>6. ASSUME NEW j \in 1..k, j # k, NEW C, Ahead(C, cut, calls[j], j)
      PROVE  Ahead(C, S, CallerMade[j], j)
  <2>1. Part(S, j) = Part(cut, j)
    BY <1>3
  <2>2. CallerMade[j] = calls[j]
    BY <1>1, <1>6
  <2> QED
    BY <1>6, <2>1, <2>2 DEF Ahead
<1> QED
  BY <1>3, <1>4, <1>5, <1>6

(***************************************************************************)
(* A position is tried in the cut and a constraint is violated.            *)
(***************************************************************************)
LEMMA IncludePrunedPreserves ==
  ASSUME SearchInv, NEW k \in Positions, IncludePruned(k)
  PROVE  SearchInv'
<1> DEFINE big == cut \cup {k}
<1>1. /\ Decides(k, TRUE) /\ Pruned(k) /\ Choose(k) /\ UNCHANGED inputs
      /\ cut' = big /\ calls' = CallerMade /\ allCuts' = allCuts /\ result' = result
  BY DEF IncludePruned, Choose
<1>2. /\ Ordered /\ ~Done /\ k = Len(calls) /\ calls \in Seq(Call)
      /\ calls[k].made = 0 /\ k \notin cut /\ \A c \in cut : c < k
      /\ CallerMade \in Seq(Call) /\ Len(CallerMade) = k
      /\ CallerMade[k].made = calls[k].made + 1
      /\ \A j \in 1..k : j # k => CallerMade[j] = calls[j]
  BY <1>1, DecidesFacts
<1>3. k \in Nat /\ k >= 1 /\ k <= Len(topo) /\ Len(topo) \in Nat
  BY <1>2, TopoFacts
<1>4. Len(calls') = k /\ calls' # <<>> /\ ~Done' /\ Depth' = k
  BY <1>1, <1>2, <1>3, EmptySeq DEF Done, Depth
<1>5. SharedAfter(k)
  BY <1>1, SharedAfterChoose
<1>6. Positions' = Positions /\ FeasibleCuts' = FeasibleCuts
  BY <1>1, SameGraph
<1>7. TypeOK'
  BY <1>1, <1>2, <1>5, <1>6 DEF SearchInv, TypeOK, SharedAfter, inputs
<1>8. SharedStateFresh'
  BY <1>3, <1>4, <1>5, <1>6 DEF SharedStateFresh, SharedAfter
<1>9. \A j \in 1..k : /\ Part(big, j) = Part(cut, j)
                      /\ ExactFrame(CallerMade[j], Part(big, j), j)
                      /\ Clean(Part(big, j))
                      /\ \A C : j # k /\ Ahead(C, cut, calls[j], j)
                                  => Ahead(C, big, CallerMade[j], j)
  BY <1>1, OuterCalls
<1>10. CountersExact' /\ PathInv'
  BY <1>1, <1>2, <1>9, NextInvariant
<1>11. FramesInv'
  <2>1. \A j \in 1..(k - 1) : calls'[j].made > 0
    BY <1>1, <1>2, <1>3 DEF SearchInv, FramesInv, Depth
  <2>2. \A j \in 1..k : calls'[j].made = 1 <=> j \in cut'
    BY <1>1, <1>2, <1>3 DEF SearchInv, FramesInv, Depth
  <2>3. k \in lti' <=> LeadsToCut(k)'
    BY <1>3, <1>5 DEF SharedAfter
  <2>4. topo' = topo
    BY <1>1 DEF inputs
  <2> QED
    BY <1>3, <1>4, <2>1, <2>2, <2>3, <2>4 DEF FramesInv
<1>12. ASSUME NEW C \in FeasibleCuts, StillToCome(C) PROVE StillToCome(C)'
  <2>1. PICK j \in 1..k : Ahead(C, cut, calls[j], j)
    BY <1>2, <1>12, InvariantRestated DEF Depth
  <2>2. CASE j # k
    BY <1>1, <1>2, <1>9, <2>1, <2>2, NextInvariant
  <2>3. CASE j = k
    <3>1. Part(cut, k) = cut
      BY <1>2, <1>3 DEF SearchInv, SharedStateFresh, Depth, Part
    <3>2. k \notin C
      BY <1>1, <2>1, <2>3, <3>1, PrunedIsInfeasible DEF Ahead
    <3>3. Ahead(C, big, CallerMade[k], k)
      <4>1. /\ C \cap 1..(k - 1) = Part(cut, k)
            /\ \E i \in C : i >= k
        BY <2>1, <2>3 DEF Ahead
      <4>2. Part(big, k) = Part(cut, k) /\ CallerMade[k].made = 1
        <5>1. k \in 1..k
          BY <1>3
        <5>2. Part(big, k) = Part(cut, k)
          BY <1>9, <5>1
        <5> QED
          BY <1>2, <5>2
      <4> QED
        BY <3>2, <4>1, <4>2 DEF Ahead
    <3>4. k \in 1..Len(calls') /\ Ahead(C, cut', calls'[k], k)
      BY <1>1, <1>3, <1>4, <3>3
    <3> QED
      BY <1>1, <3>4, NextInvariant
  <2> QED
    BY <2>2, <2>3
<1>13. ExploredInv'
  <2>1. benchmark' = benchmark
    BY <1>1 DEF inputs
  <2> QED
    BY <1>1, <1>4, <1>6, <1>12, <2>1 DEF SearchInv, ExploredInv
<1> QED
  BY <1>7, <1>8, <1>10, <1>11, <1>13 DEF SearchInv

(***************************************************************************)
(* A position is decided and the search goes on behind it: `call` is the   *)
(* new innermost frame and S the cut.  Everything the invariant says of    *)
(* the frames follows from what it says of the new one.                    *)
(***************************************************************************)
LEMMA DeeperPreserves ==
  ASSUME SearchInv, NEW k \in Positions, NEW choice \in BOOLEAN, Decides(k, choice),
         UNCHANGED inputs,
         cut' = IF choice THEN cut \cup {k} ELSE cut \ {k},
         NEW call \in Call, call.made = 0, calls' = Append(CallerMade, call),
         ExactFrame(call, cut', k + 1), Clean(cut'), SharedAfter(k)
  PROVE  /\ ~Done' /\ Depth' = k + 1
         /\ calls' \in Seq(Call)
         /\ SharedStateFresh' /\ CountersExact' /\ FramesInv' /\ PathInv'
         /\ \A C \in FeasibleCuts :
              StillToCome(C) => \/ StillToCome(C)'
                                \/ choice /\ C = cut \cup {k}
<1>1. /\ Ordered /\ ~Done /\ k = Len(calls) /\ calls \in Seq(Call)
      /\ choice => calls[k].made = 0 /\ k \notin cut /\ \A c \in cut : c < k
      /\ ~choice => calls[k].made = 1 /\ k \in cut /\ \A c \in cut : c <= k
      /\ CallerMade \in Seq(Call) /\ Len(CallerMade) = k
      /\ CallerMade[k].made = calls[k].made + 1
      /\ \A j \in 1..k : j # k => CallerMade[j] = calls[j]
  BY DecidesFacts
<1>2. k \in Nat /\ k >= 1 /\ k <= Len(topo) /\ Len(topo) \in Nat /\ k \in 1..k
  BY <1>1, TopoFacts
<1>3. /\ calls' \in Seq(Call) /\ Len(calls') = k + 1
      /\ calls'[k + 1] = call
      /\ \A j \in 1..k : calls'[j] = CallerMade[j]
  BY <1>1, AppendProperties
<1>4. calls' # <<>> /\ ~Done' /\ Depth' = k + 1
  BY <1>2, <1>3, EmptySeq DEF Done, Depth
<1>5. \A j : j \in 1..(k + 1) <=> (j \in 1..k \/ j = k + 1)
  BY <1>2
<1>6. cut' = cut \cup {k} \/ cut' = cut \ {k}
  OBVIOUS
<1>7. \A j \in 1..k : /\ Part(cut', j) = Part(cut, j)
                      /\ ExactFrame(CallerMade[j], Part(cut', j), j)
                      /\ Clean(Part(cut', j))
                      /\ \A C : j # k /\ Ahead(C, cut, calls[j], j)
                                  => Ahead(C, cut', CallerMade[j], j)
  BY <1>6, OuterCalls
<1>8. Part(cut', k + 1) = cut'
  <2>1. (k + 1) - 1 = k
    BY <1>2
  <2>2. \A c \in cut' : c \in 1..k
    BY DEF SharedAfter
  <2> QED
    BY <2>1, <2>2 DEF Part
<1>9. CountersExact'
  <2>1. \A j \in 1..Len(calls') : ExactFrame(calls'[j], Part(cut', j), j)
    BY <1>3, <1>5, <1>7, <1>8
  <2> QED
    BY <2>1, NextInvariant
<1>10. PathInv'
  <2>1. \A j \in 1..Len(calls') : Clean(Part(cut', j))
    BY <1>3, <1>5, <1>7, <1>8
  <2> QED
    BY <2>1, NextInvariant
<1>11. Positions' = Positions /\ FeasibleCuts' = FeasibleCuts
  BY SameGraph
<1>12. SharedStateFresh'
  <2>1. \A c \in cut' : c \in 1..(k + 1)
    BY <1>5 DEF SharedAfter
  <2> QED
    BY <1>2, <1>4, <1>11, <2>1 DEF SharedStateFresh, SharedAfter
<1>13. FramesInv'
  <2>1. \A j \in 1..k : calls'[j].made > 0
    <3>1. calls'[k].made > 0
      BY <1>1, <1>2, <1>3
    <3>2. \A j \in 1..(k - 1) : calls'[j].made > 0
      BY <1>1, <1>2, <1>3 DEF SearchInv, FramesInv, Depth
    <3> QED
      BY <1>2, <3>1, <3>2
  <2>2. ASSUME NEW j \in 1..k PROVE calls'[j].made = 1 <=> j \in cut'
    <3>1. CASE j = k
      <4>1. CASE choice
        BY <1>1, <1>2, <1>3, <3>1, <4>1
      <4>2. CASE ~choice
        BY <1>1, <1>2, <1>3, <3>1, <4>2
      <4> QED
        BY <4>1, <4>2
    <3>2. CASE j # k
      <4>1. calls'[j].made = 1 <=> j \in cut
        BY <1>1, <1>3, <3>2 DEF SearchInv, FramesInv, Depth
      <4> QED
        BY <3>2, <4>1
    <3> QED
      BY <3>1, <3>2
  <2>3. calls'[k + 1].made = 1 <=> k + 1 \in cut'
    BY <1>2, <1>3 DEF SharedAfter
  <2>4. topo' = topo
    BY DEF inputs
  <2>5. Depth' \in 1..(Len(topo') + 1)
    BY <1>2, <1>4, <2>4
  <2>6. \A j \in 1..(Depth' - 1) : calls'[j].made > 0
    BY <1>2, <1>4, <2>1
  <2>7. \A j \in 1..Depth' : calls'[j].made = 1 <=> j \in cut'
    BY <1>4, <1>5, <2>2, <2>3
  <2>8. Caller'.made # 1
    BY <1>3, <1>4 DEF Caller, Depth
  <2> QED
    BY <1>4, <2>5, <2>6, <2>7, <2>8 DEF FramesInv
<1>14. ASSUME NEW C \in FeasibleCuts, StillToCome(C)
       PROVE  StillToCome(C)' \/ (choice /\ C = cut \cup {k})
  <2>1. PICK j \in 1..k : Ahead(C, cut, calls[j], j)
    BY <1>1, <1>14, InvariantRestated DEF Depth
  <2>2. CASE j # k
    <3>1. j \in 1..Len(calls') /\ Ahead(C, cut', calls'[j], j)
      BY <1>3, <1>5, <1>7, <2>1, <2>2
    <3> QED
      BY <3>1, NextInvariant
  <2>3. CASE j = k
    <3>1. /\ C \cap 1..(k - 1) = Part(cut, k) /\ \E i \in C : i >= k
          /\ calls[k].made = 0 \/ (calls[k].made = 1 /\ k \notin C)
      BY <2>1, <2>3 DEF Ahead
    <3>2. C \subseteq Positions
      BY DEF FeasibleCuts
    <3>3. \A c \in Positions : /\ c \in 1..k <=> (c \in 1..(k - 1) \/ c = k)
                               /\ c >= k <=> c = k \/ c >= k + 1
                               /\ c \in 1..k \/ c >= k + 1
      BY <1>1, <1>2, TopoFacts
    <3>4. Part(cut, k) = cut \ {k}
      <4>1. \A c \in cut : c \in 1..k
        BY <1>1 DEF SearchInv, SharedStateFresh, Depth
      <4> QED
        BY <1>2, <4>1 DEF Part
    <3>5. CASE ~choice \/ k \in C
      <4>1. k \in C <=> choice
        BY <1>1, <3>1, <3>5
      <4>2. C \cap 1..k = cut'
        BY <3>1, <3>2, <3>3, <3>4, <4>1
      <4>3. CASE \E i \in C : i >= k + 1
        <5>1. Ahead(C, cut', calls'[k + 1], k + 1)
          BY <1>2, <1>3, <1>8, <4>2, <4>3 DEF Ahead
        <5>2. k + 1 \in 1..Len(calls')
          BY <1>2, <1>3
        <5> QED
          BY <5>1, <5>2, NextInvariant
      <4>4. CASE ~\E i \in C : i >= k + 1
        <5>1. C \cap 1..k = C
          BY <3>2, <3>3, <4>4
        <5>2. k \in C
          BY <3>1, <3>2, <3>3, <4>4
        <5> QED
          BY <4>1, <4>2, <5>1, <5>2
      <4> QED
        BY <4>3, <4>4
    <3>6. CASE choice /\ k \notin C
      <4>1. calls'[k].made = 1
        BY <1>1, <1>2, <1>3, <3>6
      <4>2. Part(cut', k) = Part(cut, k)
        BY <1>2, <1>7
      <4>3. Ahead(C, cut', calls'[k], k)
        BY <3>1, <3>6, <4>1, <4>2 DEF Ahead
      <4>4. k \in 1..Len(calls')
        BY <1>2, <1>3
      <4> QED
        BY <4>3, <4>4, NextInvariant
    <3> QED
      BY <3>5, <3>6
  <2> QED
    BY <2>2, <2>3
<1> QED
  BY <1>3, <1>4, <1>9, <1>10, <1>12, <1>13, <1>14

(***************************************************************************)
(* A position joins the cut, the cut is recorded if it has enough inputs,  *)
(* and the search goes deeper.                                             *)
(***************************************************************************)
LEMMA IncludePreserves ==
  ASSUME SearchInv, NEW k \in Positions, Include(k)
  PROVE  SearchInv'
<1> DEFINE big == cut \cup {k}
<1>1. /\ Decides(k, TRUE) /\ ~Pruned(k) /\ Choose(k) /\ UNCHANGED inputs
      /\ cut' = big /\ calls' = Append(CallerMade, Included(k)) /\ result' = result
      /\ allCuts' = IF Included(k).inputs <= maxInputs /\ ~benchmark
                    THEN allCuts \cup {big} ELSE allCuts
  BY DEF Include, Choose
<1>2. Ordered /\ k \notin cut /\ cut \subseteq Positions
  BY <1>1, DecidesFacts DEF SearchInv, TypeOK
<1>3. /\ Included(k).made = 0 /\ Included(k) \in Call
      /\ ExactFrame(Included(k), big, k + 1)
      /\ Included(k).inputs = Cardinality(InputsOf(big))
      /\ Included(k).outputs = Cardinality(OutputsOf(big))
  <2>1. k \notin invalid
    BY <1>1 DEF Pruned
  <2> QED
    BY <1>1, <2>1, IncludedIsExact
<1>4. Clean(big)
  BY <1>1, IncludedIsClean
<1>5. SharedAfter(k)
  BY <1>1, SharedAfterChoose
<1>6. /\ ~Done' /\ calls' \in Seq(Call)
      /\ SharedStateFresh' /\ CountersExact' /\ FramesInv' /\ PathInv'
      /\ \A C \in FeasibleCuts : StillToCome(C) => StillToCome(C)' \/ C = big
  <2> HIDE DEF big
  <2>1. cut' = IF TRUE THEN cut \cup {k} ELSE cut \ {k}
    BY <1>1 DEF big
  <2> QED
    BY <1>1, <1>3, <1>4, <1>5, <2>1, DeeperPreserves DEF big
<1>7. /\ Positions' = Positions /\ FeasibleCuts' = FeasibleCuts
      /\ benchmark' = benchmark /\ dfg' = dfg
  BY <1>1, SameGraph DEF inputs
<1>8. big \subseteq Positions
  BY <1>2
<1>9. TypeOK'
  BY <1>1, <1>5, <1>6, <1>7, <1>8 DEF SearchInv, TypeOK, SharedAfter, inputs
<1>10. big \in FeasibleCuts <=> Included(k).inputs <= maxInputs
  <2>1. ~(Included(k).outputs > maxOutputs)
    BY <1>1 DEF Pruned
  <2>2. Included(k).outputs \in Nat /\ maxOutputs \in Nat
    BY <1>3 DEF Call, SearchInv, TypeOK, maxOutputs
  <2>3. Cardinality(OutputsOf(big)) <= maxOutputs
    BY <1>3, <2>1, <2>2
  <2>4. big \in SUBSET (Positions \ invalid) /\ big # {} /\ NoTwoEdgeDetour(big)
    BY <1>4, <1>8 DEF Clean
  <2> QED
    BY <1>3, <2>3, <2>4 DEF FeasibleCuts
<1>11. ExploredInv'
  <2>1. ASSUME NEW C \in allCuts' PROVE C \in FeasibleCuts /\ ~benchmark
    BY <1>1, <1>10, <2>1 DEF SearchInv, ExploredInv
  <2>2. ASSUME NEW C \in FeasibleCuts
        PROVE  C \in allCuts' \/ benchmark \/ StillToCome(C)'
    <3>1. C \in allCuts \/ benchmark \/ StillToCome(C)
      BY DEF SearchInv, ExploredInv
    <3>2. C \in allCuts => C \in allCuts'
      BY <1>1
    <3>3. C = big => C \in allCuts' \/ benchmark
      BY <1>1, <1>10
    <3> QED
      BY <1>6, <3>1, <3>2, <3>3
  <2> QED
    BY <1>6, <1>7, <2>1, <2>2 DEF ExploredInv
<1> QED
  BY <1>6, <1>9, <1>11 DEF SearchInv

(***************************************************************************)
(* A position leaves the cut, and the search goes deeper.                  *)
(***************************************************************************)
LEMMA ExcludePreserves ==
  ASSUME SearchInv, NEW k \in Positions, Exclude(k)
  PROVE  SearchInv'
<1> DEFINE rest == cut \ {k}
<1>1. /\ Decides(k, FALSE) /\ UNCHANGED inputs
      /\ cut' = rest /\ calls' = Append(CallerMade, Excluded(k))
      /\ result' = result /\ allCuts' = allCuts
  BY DEF Exclude
<1>2. /\ Ordered /\ k \in cut /\ cut \subseteq Positions
      /\ k = Len(calls) /\ \A c \in cut : c <= k
  BY <1>1, DecidesFacts DEF SearchInv, TypeOK
<1>3. /\ Excluded(k).made = 0 /\ Excluded(k) \in Call
      /\ ExactFrame(Excluded(k), rest, k + 1)
  BY <1>1, ExcludedIsExact
<1>4. Clean(rest)
  <2>1. \A c \in cut : c \in Positions /\ c <= k
    BY <1>2
  <2>2. Part(cut, k) = rest
    BY <1>2, <2>1, PartFacts
  <2>3. k \in 1..Depth
    BY <1>2, TopoFacts DEF Depth
  <2> QED
    BY <2>2, <2>3, InvariantRestated DEF SearchInv
<1>5. SharedAfter(k)
  BY SharedAfterExclude
<1>6. /\ ~Done' /\ calls' \in Seq(Call)
      /\ SharedStateFresh' /\ CountersExact' /\ FramesInv' /\ PathInv'
      /\ \A C \in FeasibleCuts : StillToCome(C) => StillToCome(C)'
  <2> HIDE DEF rest
  <2>1. cut' = IF FALSE THEN cut \cup {k} ELSE cut \ {k}
    BY <1>1 DEF rest
  <2> QED
    BY <1>1, <1>3, <1>4, <1>5, <2>1, DeeperPreserves
<1>7. /\ Positions' = Positions /\ FeasibleCuts' = FeasibleCuts
      /\ benchmark' = benchmark /\ dfg' = dfg
  BY <1>1, SameGraph DEF inputs
<1>8. TypeOK'
  BY <1>1, <1>2, <1>5, <1>6, <1>7 DEF SearchInv, TypeOK, SharedAfter, inputs
<1>9. ExploredInv'
  BY <1>1, <1>6, <1>7 DEF SearchInv, ExploredInv
<1> QED
  BY <1>6, <1>8, <1>9 DEF SearchInv

(***************************************************************************)
(* A call returns.  It has decided its position both ways, or there was    *)
(* none to decide: nothing was still to come below it.                     *)
(***************************************************************************)
LEMMA ReturnPreserves == SearchInv /\ Return => SearchInv'
<1> SUFFICES ASSUME SearchInv, Return PROVE SearchInv'
  OBVIOUS
<1> DEFINE d == Len(calls)
<1>1. /\ UNCHANGED inputs /\ d > 1 /\ calls' = SubSeq(calls, 1, d - 1)
      /\ d > Len(topo) \/ calls[d].made = 2
      /\ cut' = cut /\ lti' = lti /\ inputVector' = inputVector
      /\ allCuts' = allCuts /\ result' = result
  BY DEF Return, Popped, CanReturn, Depth, Caller
<1>2. /\ calls \in Seq(Call) /\ d \in Nat /\ Ordered /\ ~Done
      /\ cut \subseteq Positions
  <2>1. calls \in Seq(Call) /\ d \in Nat
    BY DEF SearchInv, TypeOK
  <2>2. ~Done
    BY <1>1, <2>1, EmptySeq DEF Done
  <2> QED
    BY <2>1, <2>2 DEF SearchInv, TypeOK, Ordered
<1>3. /\ calls' \in Seq(Call) /\ Len(calls') = d - 1
      /\ \A j \in 1..(d - 1) : calls'[j] = calls[j]
  <2>1. d - 1 \in Nat /\ \A j \in 1..(d - 1) : calls[j] \in Call
    BY <1>1, <1>2
  <2> DEFINE m == d - 1
  <2>2. m \in Int /\ 1 \in Int /\ 1 <= m /\ m - 1 + 1 = m /\ \A j \in 1..m : 1 + j - 1 = j
    BY <1>1, <1>2
  <2>3. \A j \in 1..m : calls[j] \in Call
    BY <2>1
  <2> HIDE DEF d, m
  <2>4. /\ SubSeq(calls, 1, m) \in Seq(Call)
        /\ Len(SubSeq(calls, 1, m)) = IF 1 <= m THEN m - 1 + 1 ELSE 0
        /\ \A j \in 1..(m - 1 + 1) : SubSeq(calls, 1, m)[j] = calls[1 + j - 1]
    BY <2>2, <2>3, SubSeqProperties
  <2>5. /\ SubSeq(calls, 1, m) \in Seq(Call) /\ Len(SubSeq(calls, 1, m)) = m
        /\ \A j \in 1..m : SubSeq(calls, 1, m)[j] = calls[j]
    BY <2>2, <2>4
  <2> QED
    BY <1>1, <2>5 DEF m
<1>4. ~Done' /\ Depth' = d - 1
  <2>1. Depth' = d - 1
    BY <1>3 DEF Depth
  <2>2. d - 1 # 0
    BY <1>1, <1>2
  <2>3. calls' # <<>>
    BY <1>3, <2>2, EmptySeq
  <2> QED
    BY <2>1, <2>3 DEF Done
<1>5. /\ Positions' = Positions /\ FeasibleCuts' = FeasibleCuts
      /\ benchmark' = benchmark /\ dfg' = dfg /\ topo' = topo
  BY <1>1, SameGraph DEF inputs
<1>6. \A j \in 1..(d - 1) : j \in 1..d
  BY <1>2
<1>7. TypeOK'
  BY <1>1, <1>3, <1>5 DEF SearchInv, TypeOK, inputs
<1>8. d \notin cut
  <2>1. d \in 1..d
    BY <1>1, <1>2
  <2>2. calls[d].made = 1 <=> d \in cut
    BY <1>2, <2>1 DEF SearchInv, FramesInv, Depth
  <2>3. d > Len(topo) => d \notin Positions
    BY <1>2, TopoFacts
  <2> QED
    BY <1>1, <1>2, <2>2, <2>3
<1>9. \A j \in 1..(d - 1) : LeadsToCut(j)' <=> LeadsToCut(j)
  BY <1>1, SameGraph DEF LeadsToCut
<1>10. \A j \in 1..(d - 1) : j \in lti <=> LeadsToCut(j)
  BY <1>2 DEF SearchInv, SharedStateFresh, Depth
<1>11. SharedStateFresh'
  <2>1. cut \subseteq 1..(d - 1)
    <3>1. cut \subseteq 1..d
      BY <1>2 DEF SearchInv, SharedStateFresh, Depth
    <3> QED
      BY <1>2, <1>8, <3>1
  <2>2. ASSUME NEW i \in Positions PROVE inputVector[i] = References(i)'
    <3>1. References(i)' = Cardinality(RefSlots(cut, i))
      BY <1>1, ReferencesAfter
    <3> QED
      BY <3>1 DEF SearchInv, SharedStateFresh, References, RefSlots
  <2>3. \A j \in 1..((d - 1) - 1) : j \in 1..(d - 1)
    BY <1>2
  <2> QED
    BY <1>1, <1>4, <1>5, <1>9, <1>10, <2>1, <2>2, <2>3 DEF SharedStateFresh
<1>12. CountersExact' /\ PathInv'
  <2>1. \A j \in 1..(d - 1) : ExactFrame(calls[j], Part(cut, j), j) /\ Clean(Part(cut, j))
    BY <1>6, InvariantRestated DEF SearchInv, Depth
  <2> QED
    BY <1>1, <1>3, <2>1, NextInvariant
<1>13. FramesInv'
  <2>1. \A j \in 1..(d - 1) : /\ calls'[j].made > 0
                              /\ calls'[j].made = 1 <=> j \in cut
    BY <1>2, <1>3, <1>6 DEF SearchInv, FramesInv, Depth
  <2>2. \A j \in 1..((d - 1) - 1) : j \in 1..(d - 1)
    BY <1>2
  <2>3. d - 1 \in 1..(Len(topo) + 1)
    BY <1>1, <1>2, TopoFacts DEF SearchInv, FramesInv, Depth
  <2>4. d - 1 \in 1..(d - 1)
    BY <1>1, <1>2
  <2> QED
    BY <1>1, <1>4, <1>5, <1>9, <1>10, <2>1, <2>2, <2>3, <2>4 DEF FramesInv
<1>14. ASSUME NEW C \in FeasibleCuts, StillToCome(C) PROVE StillToCome(C)'
  <2>1. PICK j \in 1..d : Ahead(C, cut, calls[j], j)
    BY <1>14, InvariantRestated DEF Depth
  <2>2. j # d
    <3>1. calls[d].made # 2 \/ j # d
      BY <2>1 DEF Ahead
    <3>2. d > Len(topo) => ~\E i \in C : i >= d
      BY <1>2, TopoFacts DEF FeasibleCuts
    <3> QED
      BY <1>1, <2>1, <3>1, <3>2 DEF Ahead
  <2>3. j \in 1..Len(calls') /\ Ahead(C, cut', calls'[j], j)
    BY <1>1, <1>2, <1>3, <2>1, <2>2
  <2> QED
    BY <1>1, <2>3, NextInvariant
<1>15. ExploredInv'
  BY <1>1, <1>4, <1>5, <1>14 DEF SearchInv, ExploredInv
<1> QED
  BY <1>7, <1>11, <1>12, <1>13, <1>15 DEF SearchInv

(***************************************************************************)
(* run() ends: the frame of run() itself has made both its calls, and no   *)
(* cut is still to come.                                                   *)
(***************************************************************************)
LEMMA FinishPreserves == SearchInv /\ Finish => SearchInv'
<1> SUFFICES ASSUME SearchInv, Finish PROVE SearchInv'
  OBVIOUS
<1>1. /\ UNCHANGED inputs /\ Len(calls) = 1 /\ calls[1].made = 2 /\ calls' = <<>>
      /\ cut' = cut /\ lti' = lti /\ inputVector' = inputVector /\ allCuts' = allCuts
      /\ result' = {{topo[i] : i \in S} : S \in allCuts}
  BY DEF Finish, Depth, Caller
<1>2. Ordered /\ cut \subseteq Positions /\ allCuts \subseteq SUBSET Positions
  BY DEF SearchInv, TypeOK, Ordered
<1>3. /\ Positions' = Positions /\ FeasibleCuts' = FeasibleCuts
      /\ benchmark' = benchmark /\ dfg' = dfg /\ topo' = topo
  BY <1>1, SameGraph DEF inputs
<1>4. Done' /\ Len(calls') = 0 /\ calls' \in Seq(Call)
  BY <1>1, EmptySeq DEF Done
<1>5. TypeOK'
  <2>1. \A S \in allCuts : {topo[i] : i \in S} \subseteq dfg.node
    BY <1>2, TopoFacts
  <2>2. result' \subseteq SUBSET dfg.node
    BY <1>1, <2>1
  <2> QED
    BY <1>1, <1>3, <1>4, <2>2 DEF SearchInv, TypeOK, inputs
<1>6. SharedStateFresh'
  <2>1. ASSUME NEW i \in Positions PROVE inputVector[i] = References(i)'
    <3>1. References(i)' = Cardinality(RefSlots(cut, i))
      BY <1>1, ReferencesAfter
    <3> QED
      BY <3>1 DEF SearchInv, SharedStateFresh, References, RefSlots
  <2> QED
    BY <1>1, <1>3, <1>4, <2>1 DEF SharedStateFresh
<1>7. CountersExact' /\ PathInv'
  BY <1>1, <1>4, NextInvariant
<1>8. FramesInv'
  BY <1>4 DEF FramesInv
<1>9. ExploredInv'
  <2>1. ASSUME NEW C \in FeasibleCuts PROVE ~StillToCome(C)
    <3>1. \A j \in 1..Len(calls) : ~Ahead(C, cut, calls[j], j)
      BY <1>1 DEF Ahead
    <3> QED
      BY <3>1, InvariantRestated DEF Depth
  <2> QED
    BY <1>1, <1>3, <1>4, <2>1 DEF SearchInv, ExploredInv
<1> QED
  BY <1>5, <1>6, <1>7, <1>8, <1>9 DEF SearchInv

(***************************************************************************)
(* A step that changes nothing.                                            *)
(***************************************************************************)
LEMMA StutterPreserves == SearchInv /\ UNCHANGED vars => SearchInv'
<1> SUFFICES ASSUME SearchInv, UNCHANGED vars PROVE SearchInv'
  OBVIOUS
<1>1. /\ UNCHANGED inputs /\ cut' = cut /\ lti' = lti /\ inputVector' = inputVector
      /\ calls' = calls /\ allCuts' = allCuts /\ result' = result
  BY DEF vars, inputs
<1>2. /\ Positions' = Positions /\ FeasibleCuts' = FeasibleCuts
      /\ benchmark' = benchmark /\ dfg' = dfg /\ topo' = topo
      /\ \A i : Users(i)' = Users(i)
  BY <1>1, SameGraph DEF inputs
<1>3. Done' <=> Done
  BY <1>1 DEF Done
<1>4. \A j : LeadsToCut(j)' <=> LeadsToCut(j)
  BY <1>1, SameGraph DEF LeadsToCut
<1>5. TypeOK'
  BY <1>1, <1>2 DEF SearchInv, TypeOK, inputs
<1>6. \A i : References(i)' = References(i)
  BY <1>1 DEF References, topoVector, Positions, inputs
<1>7. SharedStateFresh'
  BY <1>1, <1>2, <1>3, <1>4, <1>6 DEF SearchInv, SharedStateFresh, Depth
<1>8. CountersExact' /\ PathInv' /\ \A C : StillToCome(C)' <=> StillToCome(C)
  BY <1>1, NextInvariant, InvariantRestated DEF SearchInv, Depth
<1>9. FramesInv'
  BY <1>1, <1>2, <1>3, <1>4 DEF SearchInv, FramesInv, Depth, Caller
<1>10. ExploredInv'
  BY <1>1, <1>2, <1>3, <1>8 DEF SearchInv, ExploredInv
<1> QED
  BY <1>5, <1>7, <1>8, <1>9, <1>10 DEF SearchInv

(***************************************************************************)
(* run() begins: the empty cut uses nothing, and every feasible cut is     *)
(* still to come.                                                          *)
(***************************************************************************)
LEMMA BeginEstablishes ==
  ASSUME IsDFG(dfg), IsReverseTopologicalSort(dfg, topo), dfg.node # {},
         ports \in Nat \X Nat, benchmark \in BOOLEAN, Begin
  PROVE  SearchInv
<1>1. /\ cut = {} /\ lti = {} /\ inputVector = [i \in Positions |-> 0]
      /\ calls = <<NewCall(0, 0, 0)>> /\ allCuts = {} /\ result = {}
  BY DEF Begin
<1>2. Ordered
  BY DEF Ordered
<1>3. /\ Len(calls) = 1 /\ calls \in Seq(Call) /\ ~Done
      /\ calls[1].made = 0 /\ calls[1].inputs = 0 /\ calls[1].outputs = 0
      /\ calls[1].perm_inputs = 0
  BY <1>1 DEF NewCall, Call, Done
<1>4. \A j \in 1..1 : j = 1
  OBVIOUS
<1>5. Len(topo) \in Nat /\ Len(topo) >= 1 /\ \A i \in Positions : i \in Nat /\ i >= 1
  BY <1>2, TopoFacts
<1>6. TypeOK
  BY <1>1, <1>3 DEF TypeOK
<1>7. SharedStateFresh
  <2>1. ASSUME NEW i \in Positions PROVE References(i) = 0
    BY <1>1, <1>2, ReferenceCounts DEF References, RefSlots
  <2>2. \A k \in 1..0 : FALSE
    OBVIOUS
  <2> QED
    BY <1>1, <1>3, <2>1, <2>2 DEF SharedStateFresh, Depth
<1>8. Part(cut, 1) = {} /\ InputsOf({}) = {} /\ OutputsOf({}) = {} /\ Clean({})
  BY <1>1 DEF Part, InputsOf, OutputsOf, Clean, NoTwoEdgeDetour
<1>9. CountersExact /\ PathInv
  <2>1. ExactFrame(calls[1], {}, 1)
    BY <1>3, <1>8, FS_EmptySet DEF ExactFrame
  <2> QED
    BY <1>3, <1>4, <1>8, <2>1, InvariantRestated DEF Depth
<1>10. FramesInv
  <2>1. 1 \in 1..(Len(topo) + 1) /\ \A j \in 1..0 : FALSE
    BY <1>5
  <2> QED
    BY <1>1, <1>3, <1>4, <2>1 DEF FramesInv, Depth, Caller
<1>11. ExploredInv
  <2>1. ASSUME NEW C \in FeasibleCuts PROVE StillToCome(C)
    <3>1. PICK i \in C : i \in Positions
      BY DEF FeasibleCuts
    <3>2. C \cap 1..(1 - 1) = Part(cut, 1) /\ i >= 1
      BY <1>5, <1>8, <3>1
    <3>3. Ahead(C, cut, calls[1], 1)
      BY <1>3, <3>2 DEF Ahead
    <3> QED
      BY <1>3, <1>4, <3>3, InvariantRestated DEF Depth
  <2> QED
    BY <1>1, <1>3, <2>1 DEF ExploredInv
<1> QED
  BY <1>6, <1>7, <1>9, <1>10, <1>11 DEF SearchInv

(***************************************************************************)
(* The invariant holds at first.                                           *)
(***************************************************************************)
LEMMA InitEstablishes == Init => SearchInv
<1> SUFFICES ASSUME Init PROVE SearchInv
  OBVIOUS
<1>1. IsDFG(dfg) /\ dfg.node # {} /\ ports \in Nat \X Nat
  BY GraphsAssumption, PortsAssumption DEF Init
<1>2. IsReverseTopologicalSort(dfg, topo)
  BY DEF Init, ReverseTopologicalSorts
<1> QED
  BY <1>1, <1>2, BeginEstablishes DEF Init

(***************************************************************************)
(* Every step keeps it.                                                    *)
(***************************************************************************)
LEMMA NextPreserves == SearchInv /\ [Next]_vars => SearchInv'
<1> SUFFICES ASSUME SearchInv, [Next]_vars PROVE SearchInv'
  OBVIOUS
<1>1. ASSUME NEW k \in Positions, IncludePruned(k) PROVE SearchInv'
  BY <1>1, IncludePrunedPreserves
<1>2. ASSUME NEW k \in Positions, Include(k) PROVE SearchInv'
  BY <1>2, IncludePreserves
<1>3. ASSUME NEW k \in Positions, Exclude(k) PROVE SearchInv'
  BY <1>3, ExcludePreserves
<1>4. CASE Return
  BY <1>4, ReturnPreserves
<1>5. CASE Finish
  BY <1>5, FinishPreserves
<1>6. CASE UNCHANGED vars
  BY <1>6, StutterPreserves
<1> QED
  BY <1>1, <1>2, <1>3, <1>4, <1>5, <1>6 DEF Next

-----------------------------------------------------------------------------
(***************************************************************************)
(* Whatever branches search() has tried and taken back, for every graph,   *)
(* order and architecture: the shared members and the counters are what a  *)
(* fresh computation gives (so no unsigned counter ever underflows), and   *)
(* every feasible cut is recorded or still to come.                        *)
(***************************************************************************)
THEOREM SearchIsExact == Spec => []SearchInv
<1>1. Init => SearchInv
  BY InitEstablishes
<1>2. SearchInv /\ [Next]_vars => SearchInv'
  BY NextPreserves
<1> QED
  BY <1>1, <1>2, PTL DEF Spec

(***************************************************************************)
(* run() returns exactly the feasible cuts: no constraint prunes a branch  *)
(* that a deeper choice would have repaired, and no cut that violates one  *)
(* is let through.                                                         *)
(***************************************************************************)
THEOREM AllFeasibleAreFound == Spec => []FindsAllFeasible
<1>1. SearchInv => FindsAllFeasible
  <2> SUFFICES ASSUME SearchInv, Done
               PROVE  result = IF benchmark THEN {}
                               ELSE {{topo[i] : i \in C} : C \in FeasibleCuts}
    BY DEF FindsAllFeasible
  <2>1. \A C : ~StillToCome(C)
    <3>1. Len(calls) = 0 /\ \A j \in 1..0 : FALSE
      BY EmptySeq DEF Done
    <3> QED
      BY <3>1, InvariantRestated DEF Depth
  <2>2. allCuts = IF benchmark THEN {} ELSE FeasibleCuts
    BY <2>1 DEF SearchInv, ExploredInv
  <2> QED
    BY <2>2 DEF SearchInv, ExploredInv
<1> QED
  BY <1>1, SearchIsExact, PTL
=============================================================================
