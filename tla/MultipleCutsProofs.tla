------------------------- MODULE MultipleCutsProofs -------------------------
(***************************************************************************)
(* Proofs about AlgoMultipleCuts for every set of graphs, ports and        *)
(* numbers of cuts, and every reverse topological order.                   *)
(***************************************************************************)
EXTENDS MultipleCuts, FiniteSetTheorems, SequenceTheorems, TLAPS

Ordered == IsDFG(dfg) /\ IsReverseTopologicalSort(dfg, topo)

(***************************************************************************)
(* Both searches read the graph in the same way, so that what was proved   *)
(* of positions and their users for AlgoSingleCut holds here.              *)
(***************************************************************************)
One == INSTANCE SingleCutProofs WITH
  benchmark <- TRUE,
  cut <- InCut(1),
  lti <- ltis[1],
  inputVector <- inputVectors[1],
  calls <- <<>>,
  allCuts <- {},
  result <- {}

(***************************************************************************)
(* The assumptions of SingleCutProofs are those made here.                 *)
(***************************************************************************)
LEMMA SameAssumptions == One!GraphsAssumption /\ One!PortsAssumption
<1>1. \A g : One!IsDFG(g) <=> IsDFG(g)
  BY DEF IsDFG, One!IsDFG, OpType, One!OpType, IsFiniteSet, One!IsFiniteSet
<1> QED
  BY <1>1, GraphsAssumption, PortsAssumption
     DEF One!GraphsAssumption, One!PortsAssumption

(***************************************************************************)
(* And its operators are the same ones.                                    *)
(***************************************************************************)
LEMMA Vocabulary ==
  /\ Ordered <=> One!Ordered
  /\ Positions = One!Positions
  /\ \A v : topoVector(v) = One!topoVector(v)
  /\ \A i : Users(i) = One!Users(i)
  /\ \A i, s : Uses(i, s) = One!Uses(i, s)
  /\ \A C : InputsOf(C) = One!InputsOf(C) /\ OutputsOf(C) = One!OutputsOf(C)
<1>1. /\ Positions = One!Positions
      /\ \A v : topoVector(v) = One!topoVector(v)
  BY DEF Positions, One!Positions, topoVector, One!topoVector
<1>2. /\ \A g, v : OutVertices(g, v) = One!OutVertices(g, v)
      /\ \A g, v : InEdges(g, v) = One!InEdges(g, v)
  BY DEF OutVertices, One!OutVertices, OutEdges, One!OutEdges,
         InEdges, One!InEdges
<1>3. \A S : (IsFiniteSet(S) <=> One!IsFiniteSet(S))
             /\ Cardinality(S) = One!Cardinality(S)
  <2>1. \A S : IsFiniteSet(S) <=> One!IsFiniteSet(S)
    BY DEF IsFiniteSet, One!IsFiniteSet
  <2> QED
    BY <2>1 DEF Cardinality, One!Cardinality
<1>4. Ordered <=> One!Ordered
  BY <1>2, <1>3 DEF Ordered, One!Ordered, IsDFG, One!IsDFG, OpType, One!OpType,
     IsReverseTopologicalSort, One!IsReverseTopologicalSort
<1>5. \A i : Users(i) = One!Users(i)
  BY <1>1, <1>2 DEF Users, One!Users
<1>6. \A i, s : Uses(i, s) = One!Uses(i, s)
  BY <1>1, <1>2, <1>3 DEF Uses, One!Uses
<1>7. \A C : InputsOf(C) = One!InputsOf(C) /\ OutputsOf(C) = One!OutputsOf(C)
  BY <1>1, <1>5 DEF InputsOf, One!InputsOf, OutputsOf, One!OutputsOf
<1> QED
  BY <1>1, <1>4, <1>5, <1>6, <1>7

(***************************************************************************)
(* So the order is one in which every vertex has one position ...          *)
(***************************************************************************)
LEMMA TopoFacts ==
  ASSUME Ordered
  PROVE  /\ Len(topo) \in Nat
         /\ \A i \in Positions : i \in Nat /\ i >= 1 /\ i <= Len(topo)
         /\ \A i \in Positions : topo[i] \in dfg.node /\ topoVector(topo[i]) = i
<1>1. One!Ordered
  BY Vocabulary
<1>2. /\ Len(topo) \in Nat
      /\ \A i \in One!Positions : i \in Nat /\ i >= 1 /\ i <= Len(topo)
      /\ \A i \in One!Positions : topo[i] \in dfg.node /\ One!topoVector(topo[i]) = i
  BY <1>1, SameAssumptions, One!TopoFacts
<1> QED
  BY <1>2, Vocabulary

(***************************************************************************)
(* ... users stand before what they use ...                                *)
(***************************************************************************)
LEMMA UsersFacts ==
  ASSUME Ordered
  PROVE  /\ \A i \in Positions : Users(i) \subseteq Positions
         /\ \A i \in Positions : \A t \in Users(i) : t < i
         /\ \A i, s \in Positions : Uses(i, s) \in Nat /\ (Uses(i, s) > 0 <=> i \in Users(s))
<1>1. One!Ordered
  BY Vocabulary
<1>2. /\ \A i \in One!Positions : One!Users(i) \subseteq One!Positions
      /\ \A i \in One!Positions : \A t \in One!Users(i) : t < i
      /\ \A i, s \in One!Positions :
           One!Uses(i, s) \in Nat /\ (One!Uses(i, s) > 0 <=> i \in One!Users(s))
  BY <1>1, SameAssumptions, One!UsersFacts
<1> QED
  BY <1>2, Vocabulary

(***************************************************************************)
(* ... sets of positions can be counted ...                                *)
(***************************************************************************)
LEMMA PositionSets ==
  ASSUME Ordered, NEW S, S \subseteq Positions
  PROVE  /\ IsFiniteSet(S) /\ Cardinality(S) \in Nat
         /\ \A T \in SUBSET S : Cardinality(T) <= Cardinality(S)
         /\ \A x \in Positions \ S : Cardinality(S \cup {x}) = Cardinality(S) + 1
         /\ \A x \in S : Cardinality(S \ {x}) = Cardinality(S) - 1
<1>1. IsFiniteSet(Positions)
  BY TopoFacts, FS_Interval DEF Positions
<1>2. IsFiniteSet(S) /\ Cardinality(S) \in Nat
  BY <1>1, FS_Subset, FS_CardinalityType
<1> QED
  BY <1>2, FS_Subset, FS_AddElement, FS_RemoveElement

(***************************************************************************)
(* ... and add up when they have nothing in common.                        *)
(***************************************************************************)
LEMMA DisjointSets ==
  ASSUME Ordered, NEW S, S \subseteq Positions, NEW T, T \subseteq Positions,
         S \cap T = {}
  PROVE  Cardinality(S \cup T) = Cardinality(S) + Cardinality(T)
<1>1. IsFiniteSet(S) /\ IsFiniteSet(T) /\ Cardinality(S) \in Nat /\ Cardinality(T) \in Nat
  BY PositionSets
<1>2. Cardinality(S \cup T) = Cardinality(S) + Cardinality(T) - Cardinality(S \cap T)
  BY <1>1, FS_Union
<1> QED
  BY <1>1, <1>2, FS_EmptySet

(***************************************************************************)
(* What i changes when it joins a cut of positions before it.              *)
(***************************************************************************)
FirstUses(i, C) == {s \in Positions : i \in Users(s) /\ Users(s) \cap C = {}}

(***************************************************************************)
(* What a position changes when it joins a cut of positions before it.     *)
(***************************************************************************)
LEMMA JoinCounts ==
  ASSUME Ordered, NEW i \in Positions, NEW C \in SUBSET Positions,
         \A t \in C : t < i
  PROVE  /\ InputsOf(C \cup {i}) = (InputsOf(C) \ {i}) \cup FirstUses(i, C)
         /\ (InputsOf(C) \ {i}) \cap FirstUses(i, C) = {}
         /\ i \in InputsOf(C) <=> Users(i) \cap C # {}
         /\ \A s \in FirstUses(i, C) : s > i
         /\ OutputsOf(C \cup {i}) =
              OutputsOf(C) \cup (IF dfg.op[topo[i]] = "OUTPUT" \/ ~(Users(i) \subseteq C)
                                 THEN {i} ELSE {})
         /\ i \notin OutputsOf(C)
<1>1. One!Ordered /\ i \in One!Positions /\ C \in SUBSET One!Positions
  BY Vocabulary
<1>2. /\ One!InputsOf(C \cup {i}) = (One!InputsOf(C) \ {i}) \cup One!FirstUses(i, C)
      /\ (One!InputsOf(C) \ {i}) \cap One!FirstUses(i, C) = {}
      /\ i \in One!InputsOf(C) <=> One!Users(i) \cap C # {}
      /\ \A s \in One!FirstUses(i, C) : s > i
      /\ One!OutputsOf(C \cup {i}) =
           One!OutputsOf(C) \cup (IF dfg.op[topo[i]] = "OUTPUT" \/ ~(One!Users(i) \subseteq C)
                                  THEN {i} ELSE {})
      /\ i \notin One!OutputsOf(C)
  BY <1>1, SameAssumptions, One!JoinCounts
<1>3. One!FirstUses(i, C) = FirstUses(i, C)
  BY Vocabulary DEF FirstUses, One!FirstUses
<1> QED
  BY <1>2, <1>3, Vocabulary

(***************************************************************************)
(* The references to s from a set of positions, and what i adds to them.   *)
(***************************************************************************)
RefSlots(C, s) == {e \in dfg.edge : /\ topoVector(dfg.src[e]) = s
                                    /\ topoVector(dfg.dst[e]) \in C}

(***************************************************************************)
(* References are counted one operand slot at a time.                      *)
(***************************************************************************)
LEMMA ReferenceCounts ==
  ASSUME Ordered, NEW C, NEW s \in Positions
  PROVE  /\ Cardinality(RefSlots(C, s)) \in Nat
         /\ Cardinality(RefSlots(C, s)) = 0 <=> Users(s) \cap C = {}
         /\ \A i \in Positions \ C :
              Cardinality(RefSlots(C \cup {i}, s)) =
                Cardinality(RefSlots(C, s)) + Uses(i, s)
<1>1. One!Ordered /\ s \in One!Positions
  BY Vocabulary
<1>2. \A S : Cardinality(S) = One!Cardinality(S)
  <2>1. \A S : IsFiniteSet(S) <=> One!IsFiniteSet(S)
    BY DEF IsFiniteSet, One!IsFiniteSet
  <2> QED
    BY <2>1 DEF Cardinality, One!Cardinality
<1>3. \A D : Cardinality(RefSlots(D, s)) = One!Cardinality(One!RefSlots(D, s))
  <2>1. \A D : RefSlots(D, s) = One!RefSlots(D, s)
    BY Vocabulary DEF RefSlots, One!RefSlots
  <2> QED
    BY <1>2, <2>1
<1>4. /\ One!Cardinality(One!RefSlots(C, s)) \in Nat
      /\ One!Cardinality(One!RefSlots(C, s)) = 0 <=> One!Users(s) \cap C = {}
      /\ \A i \in One!Positions \ C :
           One!Cardinality(One!RefSlots(C \cup {i}, s)) =
             One!Cardinality(One!RefSlots(C, s)) + One!Uses(i, s)
  BY <1>1, SameAssumptions, One!ReferenceCounts
<1>5. One!Positions = Positions /\ One!Users(s) = Users(s) /\ \A i : One!Uses(i, s) = Uses(i, s)
  BY Vocabulary
<1> QED
  BY <1>3, <1>4, <1>5

-----------------------------------------------------------------------------
(***************************************************************************)
(* The invariant, with the counters of one cut as an operator.             *)
(***************************************************************************)
Members(f, c) == {i \in Positions : f[i] = c}

Part(S, j) == S \cap 1..(j - 1)

Settled(C, j) == {s \in InputsOf(C) : s < j \/ s \in invalid}

ExactFrame(p, C, j) ==
  /\ p.inputs = Cardinality(InputsOf(C))
  /\ p.outputs = Cardinality(OutputsOf(C))
  /\ p.perm_inputs <= Cardinality(Settled(C, j))

ExactCut(c, f, refs, frames) ==
  /\ \A s \in Positions : refs[c][s] = Cardinality(RefSlots(Members(f, c), s))
  /\ \A j \in 1..Len(frames) : ExactFrame(frames[j].params[c], Part(Members(f, c), j), j)

(***************************************************************************)
(* CountersExact, of one cut at a time.                                    *)
(***************************************************************************)
LEMMA InvariantRestated ==
  CountersExact <=> \A c \in 1..k : ExactCut(c, cut, inputVectors, calls)
  BY DEF CountersExact, ExactCut, ExactFrame, Part, Members, Settled, CutOf, InCut,
         References, RefSlots, Depth

(***************************************************************************)
(* A step that leaves the inputs of run() alone leaves the graph as the    *)
(* positions see it.                                                       *)
(***************************************************************************)
LEMMA SameGraph ==
  ASSUME UNCHANGED inputs
  PROVE  /\ Positions' = Positions /\ invalid' = invalid /\ k' = k
         /\ topo' = topo /\ dfg' = dfg /\ ports' = ports
         /\ \A v : topoVector(v)' = topoVector(v)
         /\ \A i : Users(i)' = Users(i)
         /\ \A C : InputsOf(C)' = InputsOf(C) /\ OutputsOf(C)' = OutputsOf(C)
<1> USE DEF inputs
<1>1. Positions' = Positions /\ \A v : topoVector(v)' = topoVector(v)
  BY DEF Positions, topoVector
<1>2. \A i : Users(i)' = Users(i)
  BY <1>1 DEF Users, OutVertices, OutEdges
<1>3. invalid' = invalid
  BY <1>1 DEF invalid, isValidNode
<1>4. \A C : InputsOf(C)' = InputsOf(C) /\ OutputsOf(C)' = OutputsOf(C)
  BY <1>1, <1>2 DEF InputsOf, OutputsOf
<1> QED
  BY <1>1, <1>2, <1>3, <1>4

(***************************************************************************)
(* The same of the next state.                                             *)
(***************************************************************************)
LEMMA NextInvariant ==
  ASSUME UNCHANGED inputs
  PROVE  CountersExact' <=> \A c \in 1..k : ExactCut(c, cut', inputVectors', calls')
<1>1. /\ Positions' = Positions /\ invalid' = invalid /\ k' = k /\ dfg' = dfg
      /\ \A v : topoVector(v)' = topoVector(v)
  BY SameGraph
<1>2. ASSUME NEW c PROVE InCut(c)' = Members(cut', c)
  BY <1>1 DEF InCut, Members
<1>3. ASSUME NEW c, NEW s PROVE References(c, s)' = Cardinality(RefSlots(Members(cut', c), s))
  BY <1>1, <1>2 DEF References, RefSlots
<1>4. ASSUME NEW c, NEW j
      PROVE  /\ CutOf(c, j)' = Part(Members(cut', c), j)
             /\ InputsOf(CutOf(c, j))' = InputsOf(Part(Members(cut', c), j))
             /\ OutputsOf(CutOf(c, j))' = OutputsOf(Part(Members(cut', c), j))
  BY <1>2, SameGraph DEF CutOf, Part, InputsOf, OutputsOf
<1>5. ASSUME NEW c, NEW j
      PROVE  {i \in InputsOf(CutOf(c, j))' : i < j \/ i \in invalid'} =
               Settled(Part(Members(cut', c), j), j)
  BY <1>1, <1>4 DEF Settled
<1>6. CountersExact' <=>
        \A c \in 1..k' :
          /\ \A s \in Positions' : inputVectors'[c][s] = References(c, s)'
          /\ \A j \in 1..Len(calls') :
               /\ calls'[j].params[c].inputs = Cardinality(InputsOf(CutOf(c, j))')
               /\ calls'[j].params[c].outputs = Cardinality(OutputsOf(CutOf(c, j))')
               /\ calls'[j].params[c].perm_inputs <=
                    Cardinality({i \in InputsOf(CutOf(c, j))' : i < j \/ i \in invalid'})
  BY DEF CountersExact, Depth
<1>7. ASSUME NEW c, NEW j
      PROVE  /\ calls'[j].params[c].inputs = Cardinality(InputsOf(CutOf(c, j))')
             /\ calls'[j].params[c].outputs = Cardinality(OutputsOf(CutOf(c, j))')
             /\ calls'[j].params[c].perm_inputs <=
                  Cardinality({i \in InputsOf(CutOf(c, j))' : i < j \/ i \in invalid'})
             <=> ExactFrame(calls'[j].params[c], Part(Members(cut', c), j), j)
  BY <1>4, <1>5 DEF ExactFrame
<1> QED
  BY <1>1, <1>3, <1>6, <1>7 DEF ExactCut

-----------------------------------------------------------------------------
(***************************************************************************)
(* The innermost call, the cut its position is in, and the frames after it *)
(* has made one more call.                                                 *)
(***************************************************************************)
LEMMA DecidesFacts ==
  ASSUME SearchInv, NEW i \in Positions, NEW c \in 0..k, Decides(i, c)
  PROVE  /\ Ordered /\ ~Done /\ k \in Nat \ {0}
         /\ i = Len(calls) /\ calls \in Seq(Call) /\ calls[i] \in Call /\ Caller = calls[i]
         /\ calls[i].made = k - c
         /\ cut[i] = IF c < k THEN c + 1 ELSE 0
         /\ \A j \in Positions : j > i => cut[j] = 0
         /\ CallerMade \in Seq(Call) /\ Len(CallerMade) = i
         /\ CallerMade[i].made = calls[i].made + 1
         /\ \A j \in 1..i : /\ j # i => CallerMade[j] = calls[j]
                            /\ CallerMade[j].params = calls[j].params
<1>1. Ordered /\ calls \in Seq(Call) /\ k \in Nat \ {0}
  BY DEF SearchInv, TypeOK, Ordered
<1>2. ~Done /\ i = Len(calls) /\ Caller = calls[i] /\ i \in 1..Len(calls)
  BY <1>1, TopoFacts DEF Decides, Done, Depth, Caller
<1>3. calls[i] \in Call
  BY <1>1, <1>2
<1>4. calls[i].made \in 0..k /\ calls[i].made = k - c
  <2>1. calls[i].made \in 0..(k + 1) /\ calls[i].made <= k /\ c = k - calls[i].made
    BY <1>2, <1>3 DEF Decides, Call
  <2> QED
    BY <1>1, <2>1
<1>5. \A j \in Positions :
        cut[j] = IF j <= i /\ calls[j].made > 0 THEN k + 1 - calls[j].made ELSE 0
  BY <1>2 DEF SearchInv, FramesInv, Depth
<1>6. cut[i] = IF c < k THEN c + 1 ELSE 0
  BY <1>1, <1>4, <1>5, TopoFacts
<1>7. \A j \in Positions : j > i => cut[j] = 0
  BY <1>1, <1>5, TopoFacts
<1> DEFINE f == [calls[i] EXCEPT !.made = @ + 1]
<1>8. CallerMade = [calls EXCEPT ![i] = f]
  BY <1>2 DEF CallerMade, Depth
<1>9. f \in Call /\ f.made = calls[i].made + 1 /\ f.params = calls[i].params
  <2>1. calls[i].made + 1 \in 0..(k + 1)
    BY <1>1, <1>4
  <2>2. f.made = calls[i].made + 1 /\ f.params = calls[i].params
    BY <1>3 DEF Call
  <2> QED
    BY <1>3, <2>1, <2>2 DEF Call
<1> HIDE DEF f
<1>10. /\ CallerMade \in Seq(Call) /\ Len(CallerMade) = i
       /\ CallerMade[i] = f
       /\ \A j \in 1..i : j # i => CallerMade[j] = calls[j]
  BY <1>1, <1>2, <1>8, <1>9, ExceptSeq
<1>11. \A j \in 1..i : CallerMade[j].params = calls[j].params
  BY <1>9, <1>10
<1> QED
  BY <1>1, <1>2, <1>3, <1>4, <1>6, <1>7, <1>9, <1>10, <1>11

(***************************************************************************)
(* Parts of a cut before and after position i is decided.                  *)
(***************************************************************************)
LEMMA PartFacts ==
  ASSUME Ordered, NEW i \in Positions, NEW S, \A t \in S : t \in Positions /\ t <= i
  PROVE  /\ \A j \in 1..i : /\ Part(S \cup {i}, j) = Part(S, j)
                            /\ Part(S \ {i}, j) = Part(S, j)
         /\ Part(S, i) = S \ {i}
         /\ Part(S \cup {i}, i + 1) = S \cup {i}
         /\ Part(S \ {i}, i + 1) = S \ {i}
<1>1. \A t \in S \cup {i} : t \in Nat /\ t >= 1 /\ t <= i
  BY TopoFacts
<1>2. i \in Nat /\ i >= 1
  BY TopoFacts
<1>3. \A j \in 1..i : ~(i <= j - 1)
  BY <1>2
<1> QED
  BY <1>1, <1>2, <1>3 DEF Part

(***************************************************************************)
(* Position i moves from cut c + 1 to cut c, and no other cut changes.     *)
(***************************************************************************)
Moved(i, c, e) == IF e = c THEN InCut(e) \cup {i} ELSE InCut(e) \ {i}

(***************************************************************************)
(* A call that decides position i: the cuts hold decided positions only,   *)
(* and i is in the one it was last put in.                                 *)
(***************************************************************************)
LEMMA CutsBefore ==
  ASSUME SearchInv, NEW i \in Positions, NEW c \in 0..k, Decides(i, c), NEW e \in 1..k
  PROVE  /\ InCut(e) \in SUBSET Positions
         /\ \A t \in InCut(e) : t \in Positions /\ t <= i
         /\ i \in InCut(e) <=> e = c + 1
         /\ ExactFrame(calls[i].params[e], InCut(e) \ {i}, i)
         /\ \A s \in Positions :
              inputVectors[e][s] = Cardinality(RefSlots(InCut(e), s))
<1>1. /\ Ordered /\ k \in Nat /\ e \in Nat /\ e >= 1 /\ e <= k /\ c \in Nat /\ c <= k
      /\ i = Len(calls)
      /\ cut[i] = IF c < k THEN c + 1 ELSE 0
      /\ \A j \in Positions : j > i => cut[j] = 0
  BY DecidesFacts
<1>2. \A t \in InCut(e) : t \in Positions /\ t <= i
  BY <1>1, TopoFacts DEF InCut
<1>3. i \in InCut(e) <=> e = c + 1
  BY <1>1 DEF InCut
<1>4. ExactCut(e, cut, inputVectors, calls)
  BY InvariantRestated DEF SearchInv
<1>5. Members(cut, e) = InCut(e)
  BY DEF Members, InCut
<1>6. ExactFrame(calls[i].params[e], InCut(e) \ {i}, i)
  <2>1. i \in 1..Len(calls)
    BY <1>1, TopoFacts
  <2>2. Part(InCut(e), i) = InCut(e) \ {i}
    BY <1>1, <1>2, PartFacts
  <2> QED
    BY <1>4, <1>5, <2>1, <2>2 DEF ExactCut
<1> QED
  BY <1>2, <1>3, <1>4, <1>5, <1>6 DEF ExactCut, InCut

(***************************************************************************)
(* And the members of a cut when it is decided.                            *)
(***************************************************************************)
LEMMA CutsAfter ==
  ASSUME SearchInv, NEW i \in Positions, NEW c \in 0..k, Decides(i, c),
         cut' = [cut EXCEPT ![i] = c], NEW e \in 1..k
  PROVE  /\ Members(cut', e) = Moved(i, c, e)
         /\ \A j \in 1..i : Part(Moved(i, c, e), j) = Part(InCut(e), j)
         /\ Part(Moved(i, c, e), i + 1) = Moved(i, c, e)
<1>1. \A j \in Positions : cut'[j] = IF j = i THEN c ELSE cut[j]
  BY DEF SearchInv, TypeOK
<1>2. Members(cut', e) = Moved(i, c, e)
  BY <1>1 DEF Members, Moved, InCut
<1>3. Ordered /\ \A t \in InCut(e) : t \in Positions /\ t <= i
  BY DecidesFacts, CutsBefore
<1> DEFINE S == InCut(e)
<1> HIDE DEF S
<1>4. /\ \A j \in 1..i : /\ Part(S \cup {i}, j) = Part(S, j)
                         /\ Part(S \ {i}, j) = Part(S, j)
      /\ Part(S \cup {i}, i + 1) = S \cup {i}
      /\ Part(S \ {i}, i + 1) = S \ {i}
  <2>1. \A t \in S : t \in Positions /\ t <= i
    BY <1>3 DEF S
  <2> QED
    BY <1>3, <2>1, PartFacts
<1> QED
  BY <1>2, <1>4 DEF Moved, S

(***************************************************************************)
(* inputVectors counts the references from the cuts after the move.        *)
(***************************************************************************)
LEMMA RefersAfter ==
  ASSUME SearchInv, NEW i \in Positions, NEW c \in 0..k, Decides(i, c)
  PROVE  /\ Refer(i, c) \in [1..k -> [Positions -> Nat]]
         /\ \A e \in 1..k : \A s \in Positions :
              Refer(i, c)[e][s] = Cardinality(RefSlots(Moved(i, c, e), s))
<1>1. Ordered /\ k \in Nat /\ c \in Nat
  BY DecidesFacts
<1>2. ASSUME NEW e \in 1..k, NEW s \in Positions
      PROVE  /\ Refer(i, c)[e][s] \in Nat
             /\ Refer(i, c)[e][s] = Cardinality(RefSlots(Moved(i, c, e), s))
  <2>1. /\ InCut(e) \in SUBSET Positions /\ (i \in InCut(e) <=> e = c + 1)
        /\ inputVectors[e][s] = Cardinality(RefSlots(InCut(e), s))
    BY CutsBefore
  <2>2. Uses(i, s) \in Nat /\ Cardinality(RefSlots(InCut(e), s)) \in Nat
    BY <1>1, UsersFacts, ReferenceCounts
  <2>3. Refer(i, c)[e][s] = inputVectors[e][s] + (IF e = c THEN Uses(i, s) ELSE 0)
                                               - (IF e = c + 1 THEN Uses(i, s) ELSE 0)
    BY DEF Refer
  <2>4. CASE e = c
    <3>1. i \in Positions \ InCut(e) /\ e # c + 1
      BY <1>1, <2>1, <2>4
    <3>2. Cardinality(RefSlots(InCut(e) \cup {i}, s)) =
            Cardinality(RefSlots(InCut(e), s)) + Uses(i, s)
      BY <1>1, <3>1, ReferenceCounts
    <3>3. Refer(i, c)[e][s] = Cardinality(RefSlots(InCut(e), s)) + Uses(i, s)
      BY <2>1, <2>2, <2>3, <2>4, <3>1
    <3>4. Moved(i, c, e) = InCut(e) \cup {i}
      BY <2>4 DEF Moved
    <3> QED
      BY <2>2, <3>2, <3>3, <3>4
  <2>5. CASE e = c + 1
    <3> DEFINE rest == InCut(e) \ {i}
    <3>1. e # c /\ i \in Positions \ rest /\ rest \cup {i} = InCut(e) /\ Moved(i, c, e) = rest
      BY <1>1, <2>1, <2>5 DEF Moved
    <3> HIDE DEF rest
    <3>2. Cardinality(RefSlots(rest \cup {i}, s)) =
            Cardinality(RefSlots(rest, s)) + Uses(i, s)
      BY <1>1, <3>1, ReferenceCounts
    <3>3. Cardinality(RefSlots(rest, s)) \in Nat
      BY <1>1, ReferenceCounts
    <3>4. Refer(i, c)[e][s] = Cardinality(RefSlots(InCut(e), s)) - Uses(i, s)
      BY <2>1, <2>2, <2>3, <2>5, <3>1
    <3>5. Cardinality(RefSlots(InCut(e), s)) = Cardinality(RefSlots(rest, s)) + Uses(i, s)
      BY <3>1, <3>2
    <3> QED
      BY <2>2, <3>1, <3>3, <3>4, <3>5
  <2>6. CASE e # c /\ e # c + 1
    <3>1. Moved(i, c, e) = InCut(e)
      BY <2>1, <2>6 DEF Moved
    <3>2. Refer(i, c)[e][s] = inputVectors[e][s]
      BY <2>1, <2>2, <2>3, <2>6
    <3> QED
      BY <2>1, <2>2, <3>1, <3>2
  <2> QED
    BY <2>4, <2>5, <2>6
<1>3. /\ Refer(i, c) = [e \in 1..k |-> Refer(i, c)[e]]
      /\ \A e \in 1..k : Refer(i, c)[e] = [s \in Positions |-> Refer(i, c)[e][s]]
  BY DEF Refer
<1> QED
  BY <1>2, <1>3

-----------------------------------------------------------------------------
(***************************************************************************)
(* A cut that does not get position i: what the call computes for it is    *)
(* exact for the positions up to i.  The cut that loses i gets i as a      *)
(* permanent input when it refers to it.                                   *)
(***************************************************************************)
LEMMA ParamsTypeOK ==
  ASSUME SearchInv, NEW i \in Positions, NEW c \in 0..k, Decides(i, c)
  PROVE  /\ calls[i].params \in [1..k -> Counters]
         /\ Params(i, c) \in [1..k -> Counters]
         /\ \A e \in 1..k : e # c + 1 => Params(i, c)[e] = calls[i].params[e]
         /\ c < k => Params(i, c)[c + 1] =
              [calls[i].params[c + 1] EXCEPT !.perm_inputs =
                 @ + If(inputVectors[c + 1][i] # 0 /\ i \notin invalid)]
<1>1. /\ calls[i] \in Call /\ Caller = calls[i] /\ k \in Nat /\ c \in Nat
  BY DecidesFacts
<1>2. calls[i].params \in [1..k -> Counters]
  BY <1>1 DEF Call
<1> DEFINE b == If(inputVectors[c + 1][i] # 0 /\ i \notin invalid)
           g == [calls[i].params[c + 1] EXCEPT !.perm_inputs = @ + b]
<1>3. b \in Nat
  BY DEF If
<1>4. CASE c < k
  <2>1. c + 1 \in 1..k
    BY <1>1, <1>4
  <2>2. Params(i, c) = [calls[i].params EXCEPT ![c + 1] = g]
    BY <1>1, <1>4 DEF Params, Left
  <2>3. calls[i].params[c + 1] \in Counters
    BY <1>2, <2>1
  <2> HIDE DEF b
  <2>4. g \in Counters
    BY <1>3, <2>3 DEF Counters
  <2> HIDE DEF g
  <2>5. Params(i, c) \in [1..k -> Counters]
    BY <1>2, <2>2, <2>4
  <2>6. Params(i, c)[c + 1] = g
    BY <1>2, <2>1, <2>2
  <2>7. \A e \in 1..k : e # c + 1 => Params(i, c)[e] = calls[i].params[e]
    BY <1>2, <2>2
  <2> QED
    BY <1>2, <2>5, <2>6, <2>7 DEF g, b
<1>5. CASE ~(c < k)
  BY <1>1, <1>2, <1>5 DEF Params
<1> QED
  BY <1>4, <1>5

(***************************************************************************)
(* The counters handed down stay exact for the cuts that position i does   *)
(* not join.                                                               *)
(***************************************************************************)
LEMMA ParamsAreExact ==
  ASSUME SearchInv, NEW i \in Positions, NEW c \in 0..k, Decides(i, c),
         NEW e \in 1..k, e # c
  PROVE  ExactFrame(Params(i, c)[e], Moved(i, c, e), i + 1)
<1> DEFINE rest == InCut(e) \ {i}
           p == calls[i].params[e]
           q == Params(i, c)[e]
<1>1. /\ Ordered /\ k \in Nat /\ c \in Nat /\ InCut(e) \in SUBSET Positions
      /\ \A t \in InCut(e) : t \in Positions /\ t <= i
      /\ i \in InCut(e) <=> e = c + 1
      /\ \A s \in Positions : inputVectors[e][s] = Cardinality(RefSlots(InCut(e), s))
      /\ ExactFrame(p, rest, i)
  <2>1. Ordered /\ k \in Nat /\ c \in Nat
    BY DecidesFacts
  <2> QED
    BY <2>1, CutsBefore, Zenon
<1>2. Moved(i, c, e) = rest
  BY DEF Moved
<1>3. p \in Counters /\ q \in Counters
  BY ParamsTypeOK
<1>4. rest \in SUBSET Positions /\ \A t \in rest : t < i
  BY <1>1, TopoFacts
<1>5. InputsOf(rest) \subseteq Positions
  BY DEF InputsOf
<1>6. /\ Settled(rest, i) \subseteq Positions
      /\ Settled(rest, i + 1) \subseteq Positions
      /\ Settled(rest, i) \subseteq Settled(rest, i + 1)
      /\ i \notin invalid => i \notin Settled(rest, i)
      /\ i \in InputsOf(rest) => i \in Settled(rest, i + 1)
  <2>1. ~(i < i) /\ i < i + 1 /\ \A s \in Positions : s < i => s < i + 1
    BY <1>1, TopoFacts
  <2> QED
    BY <1>5, <2>1 DEF Settled
<1> DEFINE old == Settled(rest, i)
           new == Settled(rest, i + 1)
<1>7. /\ Cardinality(old) \in Nat /\ Cardinality(new) \in Nat
      /\ \A T \in SUBSET new : Cardinality(T) <= Cardinality(new)
      /\ \A x \in Positions \ old : Cardinality(old \cup {x}) = Cardinality(old) + 1
  <2> HIDE DEF old, new, rest
  <2>1. old \subseteq Positions /\ new \subseteq Positions
    BY <1>6 DEF old, new
  <2> QED
    BY <1>1, <2>1, PositionSets
<1>8. Cardinality(old) <= Cardinality(new)
  BY <1>6, <1>7
<1>9. p.perm_inputs <= Cardinality(old) /\ p.perm_inputs \in Nat
  BY <1>1, <1>3 DEF ExactFrame, Counters
<1>10. ASSUME e = c + 1, i \in InputsOf(rest), i \notin invalid
       PROVE  p.perm_inputs + 1 <= Cardinality(new)
  <2>1. old \cup {i} \in SUBSET new
    BY <1>6, <1>10
  <2>2. i \in Positions \ old
    BY <1>6, <1>10
  <2>3. Cardinality(old \cup {i}) = Cardinality(old) + 1
    BY <1>7, <2>2
  <2>4. Cardinality(old \cup {i}) <= Cardinality(new)
    BY <1>7, <2>1
  <2> HIDE DEF old, new, p
  <2> QED
    BY <1>7, <1>9, <2>3, <2>4
<1>11. e = c + 1 => (inputVectors[e][i] # 0 <=> i \in InputsOf(rest))
  <2>1. inputVectors[e][i] = Cardinality(RefSlots(InCut(e), i))
    BY <1>1
  <2>2. Cardinality(RefSlots(InCut(e), i)) = 0 <=> Users(i) \cap InCut(e) = {}
    BY <1>1, ReferenceCounts
  <2>3. i \notin Users(i)
    BY <1>1, UsersFacts, TopoFacts
  <2>4. i \in InputsOf(rest) <=> Users(i) \cap rest # {}
    BY <1>1, <1>4, JoinCounts
  <2> QED
    BY <2>1, <2>2, <2>3, <2>4
<1>12. CASE e # c + 1
  <2>1. q = p
    BY <1>12, ParamsTypeOK
  <2>2. p.perm_inputs <= Cardinality(new)
    <3> HIDE DEF p, old, new
    <3> QED BY <1>7, <1>8, <1>9
  <2> QED
    BY <1>1, <1>2, <2>1, <2>2 DEF ExactFrame
<1>13. CASE e = c + 1
  <2> DEFINE b == inputVectors[e][i] # 0 /\ i \notin invalid
  <2>1. c < k
    BY <1>1, <1>13
  <2>2. q = [p EXCEPT !.perm_inputs = @ + If(b)]
    BY <1>13, <2>1, ParamsTypeOK
  <2>3. /\ q.inputs = p.inputs /\ q.outputs = p.outputs
        /\ q.perm_inputs = p.perm_inputs + If(b)
    BY <1>3, <2>2 DEF Counters
  <2>4. b <=> i \in InputsOf(rest) /\ i \notin invalid
    BY <1>11, <1>13
  <2>5. q.perm_inputs <= Cardinality(new)
    <3>1. CASE b
      <4>1. If(b) = 1
        BY <3>1 DEF If
      <4>2. p.perm_inputs + 1 <= Cardinality(new)
        BY <1>10, <1>13, <2>4, <3>1
      <4> QED
        BY <2>3, <4>1, <4>2
    <3>2. CASE ~b
      <4>1. If(b) = 0
        BY <3>2 DEF If
      <4> HIDE DEF p, q, old, new, b
      <4> QED
        BY <1>7, <1>8, <1>9, <2>3, <4>1
    <3> QED
      BY <3>1, <3>2
  <2> QED
    BY <1>1, <1>2, <2>3, <2>5 DEF ExactFrame
<1> QED
  BY <1>12, <1>13

(***************************************************************************)
(* The cut that gets position i: what the call computes is exact for it.   *)
(***************************************************************************)
LEMMA JoinedIsExact ==
  ASSUME SearchInv, NEW i \in Positions, NEW c \in 1..k, Decides(i, c)
  PROVE  i \notin invalid => /\ Joined(i, c) \in Counters
                             /\ ExactFrame(Joined(i, c), Moved(i, c, c), i + 1)
<1> DEFINE C == InCut(c)
           p == calls[i].params[c]
           q == Joined(i, c)
           new == FirstUses(i, C)
           ins == InputsOf(C)
           out == OutputsOf(C)
           big == C \cup {i}
<1>1. c \in 0..k /\ c # c + 1
  BY DEF SearchInv, TypeOK
<1>2. /\ Ordered /\ k \in Nat /\ c \in Nat /\ C \in SUBSET Positions
      /\ \A t \in C : t \in Positions /\ t <= i
      /\ i \notin C
      /\ \A s \in Positions : inputVectors[c][s] = Cardinality(RefSlots(C, s))
      /\ ExactFrame(p, C \ {i}, i)
  <2>1. Ordered /\ k \in Nat /\ c \in Nat
    BY <1>1, DecidesFacts
  <2> QED
    BY <1>1, <2>1, CutsBefore, Zenon
<1>3. i \notin C /\ C \ {i} = C /\ \A t \in C : t < i
  BY <1>2, TopoFacts
<1>4. p \in Counters /\ Params(i, c)[c] = p
  <2>1. p \in Counters
    BY <1>1, ParamsTypeOK
  <2> QED
    BY <1>1, <2>1, ParamsTypeOK
<1>5. /\ InputsOf(big) = (ins \ {i}) \cup new
      /\ (ins \ {i}) \cap new = {}
      /\ i \in ins <=> LeadsToCut(i, c)
      /\ \A s \in new : s > i
      /\ OutputsOf(big) = out \cup (IF IsOutput(i, c) THEN {i} ELSE {})
      /\ i \notin out
  BY <1>2, <1>3, JoinCounts DEF LeadsToCut, IsOutput
<1>6. NewInputs(i, c) = new
  <2>1. \A s \in Positions : inputVectors[c][s] = 0 <=> Users(s) \cap C = {}
    BY <1>2, ReferenceCounts
  <2>2. \A s \in Positions : Uses(i, s) > 0 <=> i \in Users(s)
    BY <1>2, UsersFacts
  <2> QED
    BY <2>1, <2>2 DEF NewInputs, FirstUses
<1>7. ins \subseteq Positions /\ new \subseteq Positions /\ out \subseteq Positions
      /\ Settled(C, i) \subseteq Positions
  BY <1>2 DEF InputsOf, OutputsOf, FirstUses, Settled
<1>8. /\ p.inputs = Cardinality(ins) /\ p.outputs = Cardinality(out)
      /\ p.perm_inputs <= Cardinality(Settled(C, i)) /\ p.perm_inputs \in Nat
  BY <1>2, <1>3, <1>4 DEF ExactFrame, Counters
<1>9. /\ q.inputs = p.inputs - If(LeadsToCut(i, c)) + Cardinality(new)
      /\ q.outputs = p.outputs + If(IsOutput(i, c))
      /\ q.perm_inputs = p.perm_inputs + Cardinality(new \cap invalid)
  BY <1>4, <1>6 DEF Joined
<1>10. Cardinality(ins) \in Nat /\ Cardinality(new) \in Nat /\ Cardinality(out) \in Nat
  BY <1>2, <1>7, PositionSets
<1>11. Cardinality(ins \ {i}) = Cardinality(ins) - If(LeadsToCut(i, c))
  <2>1. CASE LeadsToCut(i, c)
    BY <1>2, <1>5, <1>7, <2>1, PositionSets DEF If
  <2>2. CASE ~LeadsToCut(i, c)
    <3>1. ins \ {i} = ins /\ If(LeadsToCut(i, c)) = 0
      BY <1>5, <2>2 DEF If
    <3> QED
      BY <1>10, <3>1
  <2> QED
    BY <2>1, <2>2
<1>12. q.inputs = Cardinality(InputsOf(big))
  <2> HIDE DEF ins, new, big, p, q
  <2>1. Cardinality((ins \ {i}) \cup new) = Cardinality(ins \ {i}) + Cardinality(new)
    BY <1>2, <1>5, <1>7, DisjointSets
  <2> QED
    BY <1>5, <1>8, <1>9, <1>11, <2>1
<1>13. q.outputs = Cardinality(OutputsOf(big))
  <2> HIDE DEF out, big, p, q
  <2>1. CASE IsOutput(i, c)
    <3>1. Cardinality(out \cup {i}) = Cardinality(out) + 1
      BY <1>2, <1>5, <1>7, PositionSets
    <3> QED
      BY <1>5, <1>8, <1>9, <2>1, <3>1 DEF If
  <2>2. CASE ~IsOutput(i, c)
    <3>1. If(IsOutput(i, c)) = 0 /\ OutputsOf(big) = out
      BY <1>5, <2>2 DEF If
    <3> QED
      BY <1>8, <1>9, <1>10, <3>1
  <2> QED
    BY <2>1, <2>2
<1>14. ASSUME i \notin invalid
       PROVE  q.perm_inputs <= Cardinality(Settled(big, i + 1)) /\ q.perm_inputs \in Nat
  <2>1. /\ \A s \in Positions : s # i => (s < i + 1 <=> s < i)
        /\ \A s \in Positions : s > i => ~(s < i + 1)
        /\ ~(i < i)
    BY <1>2, TopoFacts
  <2>2. i \notin Settled(C, i)
    BY <1>14, <2>1 DEF Settled
  <2>3. \A s \in ins : s \in Positions
    BY <1>7
  <2>4. \A s \in new : s \in Positions /\ s > i
    BY <1>5, <1>7
  <2>5. Settled(big, i + 1) = Settled(C, i) \cup (new \cap invalid)
    BY <1>5, <1>14, <2>1, <2>2, <2>3, <2>4 DEF Settled
  <2>6. Settled(C, i) \cap (new \cap invalid) = {}
    BY <1>5, <2>2 DEF Settled
  <2> DEFINE old == Settled(C, i)
             add == new \cap invalid
  <2>7. old \subseteq Positions /\ add \subseteq Positions
    BY <1>7
  <2> HIDE DEF old, add
  <2>8. Cardinality(old \cup add) = Cardinality(old) + Cardinality(add)
    BY <1>2, <2>6, <2>7, DisjointSets DEF old, add
  <2>9. Cardinality(old) \in Nat /\ Cardinality(add) \in Nat
    BY <1>2, <2>7, PositionSets
  <2>10. Settled(big, i + 1) = old \cup add
    BY <2>5 DEF old, add
  <2>11. p.perm_inputs <= Cardinality(old) /\ q.perm_inputs = p.perm_inputs + Cardinality(add)
    BY <1>8, <1>9 DEF old, add
  <2>12. p.perm_inputs \in Nat
    BY <1>8
  <2> HIDE DEF p, q, big
  <2>13. Cardinality(Settled(big, i + 1)) = Cardinality(old) + Cardinality(add)
    BY <2>8, <2>10
  <2>14. q.perm_inputs \in Nat
    BY <2>9, <2>11, <2>12
  <2>15. q.perm_inputs <= Cardinality(old) + Cardinality(add)
    BY <2>9, <2>11, <2>12
  <2> QED
    BY <2>13, <2>14, <2>15
<1>15. ASSUME i \notin invalid PROVE q \in Counters
  <2>1. InputsOf(big) \subseteq Positions /\ OutputsOf(big) \subseteq Positions
    BY <1>2 DEF InputsOf, OutputsOf
  <2>2. Cardinality(InputsOf(big)) \in Nat /\ Cardinality(OutputsOf(big)) \in Nat
    BY <1>2, <2>1, PositionSets
  <2>3. q.inputs \in Nat /\ q.outputs \in Nat /\ q.perm_inputs \in Nat
    BY <1>12, <1>13, <1>14, <1>15, <2>2
  <2> QED
    BY <2>3 DEF Counters, Joined
<1> QED
  BY <1>12, <1>13, <1>14, <1>15 DEF ExactFrame, Moved

-----------------------------------------------------------------------------
(***************************************************************************)
(* The shared members after a choice.                                      *)
(***************************************************************************)
LEMMA SharedAfter ==
  ASSUME SearchInv, NEW i \in Positions, NEW c \in 0..k, Decides(i, c), Choose(i, c)
  PROVE  /\ UNCHANGED inputs
         /\ cut' = [cut EXCEPT ![i] = c] /\ cut' \in [Positions -> 0..k]
         /\ \A j \in Positions : cut'[j] = IF j = i THEN c ELSE cut[j]
         /\ ltis' \in [1..k -> SUBSET Positions]
         /\ inputVectors' = Refer(i, c) /\ inputVectors' \in [1..k -> [Positions -> Nat]]
         /\ n_cuts' = n_cuts + 1
<1>1. /\ UNCHANGED inputs /\ cut' = [cut EXCEPT ![i] = c]
      /\ inputVectors' = Refer(i, c) /\ ltis' = Mark(i, c) /\ n_cuts' = n_cuts + 1
  BY DEF Choose
<1>2. /\ cut' \in [Positions -> 0..k]
      /\ \A j \in Positions : cut'[j] = IF j = i THEN c ELSE cut[j]
  BY <1>1 DEF SearchInv, TypeOK
<1>3. Mark(i, c) \in [1..k -> SUBSET Positions]
  BY DEF SearchInv, TypeOK, Mark
<1>4. Refer(i, c) \in [1..k -> [Positions -> Nat]]
  BY RefersAfter
<1> QED
  BY <1>1, <1>2, <1>3, <1>4

(***************************************************************************)
(* A position is decided: the calls that were active stay exact, and with  *)
(* a new call that is exact for the cuts after the choice everything the   *)
(* invariant says holds again.                                             *)
(***************************************************************************)
LEMMA ChoosePreserves ==
  ASSUME SearchInv, NEW i \in Positions, NEW c \in 0..k, Decides(i, c), Choose(i, c),
         calls' \in Seq(Call), Len(calls') \in {i, i + 1},
         \A j \in 1..i : calls'[j] = CallerMade[j],
         Len(calls') = i + 1 =>
           /\ calls'[i + 1].made = 0
           /\ \A e \in 1..k : ExactFrame(calls'[i + 1].params[e], Moved(i, c, e), i + 1),
         feasibleCuts' \in {feasibleCuts, feasibleCuts + 1}
  PROVE  SearchInv'
<1>1. /\ UNCHANGED inputs
      /\ cut' = [cut EXCEPT ![i] = c] /\ cut' \in [Positions -> 0..k]
      /\ \A j \in Positions : cut'[j] = IF j = i THEN c ELSE cut[j]
      /\ ltis' \in [1..k -> SUBSET Positions]
      /\ inputVectors' = Refer(i, c) /\ inputVectors' \in [1..k -> [Positions -> Nat]]
      /\ n_cuts' = n_cuts + 1
  BY SharedAfter
<1>2. /\ Ordered /\ ~Done /\ k \in Nat \ {0} /\ c \in Nat /\ c <= k
      /\ i = Len(calls) /\ calls[i].made = k - c
      /\ \A j \in Positions : j > i => cut[j] = 0
      /\ CallerMade[i].made = calls[i].made + 1
      /\ \A j \in 1..i : /\ j # i => CallerMade[j] = calls[j]
                         /\ CallerMade[j].params = calls[j].params
  BY DecidesFacts
<1>3. /\ i \in Nat /\ i >= 1 /\ i <= Len(topo) /\ Len(topo) \in Nat
      /\ \A j \in Positions : j \in Nat /\ j >= 1
  BY <1>2, TopoFacts
<1>4. /\ Positions' = Positions /\ k' = k /\ topo' = topo /\ dfg' = dfg /\ ports' = ports
  BY <1>1, SameGraph
<1>5. Depth' = Len(calls') /\ Len(calls') \in Nat
  BY <1>3 DEF Depth
<1>6. TypeOK'
  <2>1. n_cuts' \in Nat /\ feasibleCuts' \in 0..n_cuts'
    BY <1>1 DEF SearchInv, TypeOK
  <2>2. Call' = Call
    BY <1>4 DEF Call, Counters
  <2>3. IsDFG(dfg)' /\ IsReverseTopologicalSort(dfg, topo)'
    BY <1>2, <1>4 DEF Ordered, IsDFG, IsReverseTopologicalSort, OutVertices, OutEdges
  <2>4. ports' \in Nat \X Nat /\ k' \in Nat \ {0}
    BY <1>2, <1>4 DEF SearchInv, TypeOK
  <2> QED
    BY <1>1, <1>4, <2>1, <2>2, <2>3, <2>4 DEF TypeOK
<1>7. ASSUME NEW e \in 1..k PROVE ExactCut(e, cut', inputVectors', calls')
  <2>1. /\ Members(cut', e) = Moved(i, c, e)
        /\ \A j \in 1..i : Part(Moved(i, c, e), j) = Part(InCut(e), j)
        /\ Part(Moved(i, c, e), i + 1) = Moved(i, c, e)
    BY <1>1, CutsAfter
  <2>2. \A s \in Positions : inputVectors'[e][s] = Cardinality(RefSlots(Moved(i, c, e), s))
    <3>1. \A s \in Positions : Refer(i, c)[e][s] = Cardinality(RefSlots(Moved(i, c, e), s))
      BY RefersAfter
    <3> QED
      BY <1>1, <3>1
  <2>3. ExactCut(e, cut, inputVectors, calls) /\ Members(cut, e) = InCut(e)
    BY InvariantRestated DEF SearchInv, Members, InCut
  <2>4. ASSUME NEW j \in 1..i
        PROVE  ExactFrame(calls'[j].params[e], Part(Moved(i, c, e), j), j)
    <3>1. ExactFrame(calls[j].params[e], Part(InCut(e), j), j)
      BY <1>2, <2>3 DEF ExactCut
    <3>2. calls'[j].params = calls[j].params
      BY <1>2
    <3>3. Part(Moved(i, c, e), j) = Part(InCut(e), j)
      BY <2>1
    <3> QED
      BY <3>1, <3>2, <3>3
  <2>5. ASSUME NEW j \in 1..Len(calls')
        PROVE  ExactFrame(calls'[j].params[e], Part(Moved(i, c, e), j), j)
    <3>1. CASE j \in 1..i
      BY <2>4, <3>1
    <3>2. CASE j \notin 1..i
      <4>1. Len(calls') = i + 1 /\ j = i + 1
        BY <1>3, <1>5, <3>2
      <4>2. ExactFrame(calls'[i + 1].params[e], Moved(i, c, e), i + 1)
        BY <4>1
      <4> QED
        BY <2>1, <4>1, <4>2
    <3> QED
      BY <3>1, <3>2
  <2> QED
    BY <2>1, <2>2, <2>5 DEF ExactCut
<1>8. CountersExact'
  BY <1>1, <1>7, NextInvariant
<1>9. FramesInv'
  <2>1. Depth' \in 1..(Len(topo') + 1)
    BY <1>3, <1>4, <1>5
  <2>2. ASSUME NEW j \in Positions
        PROVE  cut'[j] = IF j <= Depth' /\ calls'[j].made > 0
                         THEN k + 1 - calls'[j].made ELSE 0
    <3>1. CASE j < i
      <4>1. j \in 1..i /\ j # i /\ j <= i
        BY <1>3, <3>1
      <4>2. j <= Depth
        BY <1>2, <4>1 DEF Depth
      <4>3. j <= Depth'
        BY <1>3, <1>5, <4>1
      <4>4. calls'[j] = calls[j]
        BY <1>2, <4>1
      <4>5. cut[j] = IF j <= Depth /\ calls[j].made > 0 THEN k + 1 - calls[j].made ELSE 0
        BY <1>2 DEF SearchInv, FramesInv
      <4> QED
        BY <1>1, <4>1, <4>2, <4>3, <4>4, <4>5
    <3>2. CASE j = i
      <4>1. calls'[i].made = k - c + 1 /\ cut'[i] = c /\ i <= Depth'
        BY <1>1, <1>2, <1>3, <1>5
      <4> QED
        BY <1>2, <3>2, <4>1
    <3>3. CASE j > i
      <4>1. cut'[j] = 0
        BY <1>1, <1>2, <1>3, <3>3
      <4>2. j <= Depth' => calls'[j].made = 0
        BY <1>3, <1>5, <3>3
      <4> QED
        BY <4>1, <4>2
    <3>4. j < i \/ j = i \/ j > i
      BY <1>3
    <3> QED
      BY <3>1, <3>2, <3>3, <3>4
  <2> QED
    BY <1>4, <2>1, <2>2 DEF FramesInv
<1> QED
  BY <1>6, <1>8, <1>9 DEF SearchInv

(***************************************************************************)
(* A position is tried in a cut, or left out, and the call returns at      *)
(* once.                                                                   *)
(***************************************************************************)
LEMMA SearchPrunedPreserves ==
  ASSUME SearchInv, NEW i \in Positions, NEW c \in 0..k, SearchPruned(i, c)
  PROVE  SearchInv'
<1>1. /\ Decides(i, c) /\ Choose(i, c) /\ calls' = CallerMade
      /\ feasibleCuts' = feasibleCuts
  BY DEF SearchPruned
<1>2. CallerMade \in Seq(Call) /\ Len(CallerMade) = i
  BY <1>1, DecidesFacts
<1>3. i # i + 1
  BY <1>1, DecidesFacts, TopoFacts
<1> QED
  BY <1>1, <1>2, <1>3, ChoosePreserves

(***************************************************************************)
(* A position is decided and the search goes deeper.                       *)
(***************************************************************************)
LEMMA SearchPreserves ==
  ASSUME SearchInv, NEW i \in Positions, NEW c \in 0..k, Search(i, c)
  PROVE  SearchInv'
<1> DEFINE new == NewCall(NewParams(i, c))
<1>1. /\ Decides(i, c) /\ ~Pruned(i, c) /\ Choose(i, c)
      /\ calls' = Append(CallerMade, new)
      /\ feasibleCuts' = feasibleCuts + If(IsFeasible(i, c))
  BY DEF Search
<1>2. /\ CallerMade \in Seq(Call) /\ Len(CallerMade) = i /\ k \in Nat /\ c \in Nat
      /\ c <= k /\ Ordered
  BY <1>1, DecidesFacts
<1>3. c > 0 => i \notin invalid
  BY <1>1 DEF Pruned
<1>4. Params(i, c) \in [1..k -> Counters]
  BY <1>1, ParamsTypeOK
<1>5. NewParams(i, c) \in [1..k -> Counters]
  <2>1. CASE c = 0
    BY <1>4, <2>1 DEF NewParams
  <2>2. CASE c # 0
    <3>1. c \in 1..k /\ c > 0
      BY <1>2, <2>2
    <3>2. Joined(i, c) \in Counters
      BY <1>1, <1>3, <3>1, JoinedIsExact
    <3> QED
      BY <1>4, <2>2, <3>2 DEF NewParams
  <2> QED
    BY <2>1, <2>2
<1>6. ASSUME NEW e \in 1..k
      PROVE  ExactFrame(NewParams(i, c)[e], Moved(i, c, e), i + 1)
  <2>1. CASE e = c
    <3>1. c \in 1..k /\ c > 0 /\ c # 0
      BY <1>2, <2>1
    <3>2. NewParams(i, c)[c] = Joined(i, c)
      BY <1>4, <3>1 DEF NewParams
    <3>3. ExactFrame(Joined(i, c), Moved(i, c, c), i + 1)
      BY <1>1, <1>3, <3>1, JoinedIsExact
    <3> QED
      BY <2>1, <3>2, <3>3
  <2>2. CASE e # c
    <3>1. NewParams(i, c)[e] = Params(i, c)[e]
      BY <1>4, <2>2 DEF NewParams
    <3>2. ExactFrame(Params(i, c)[e], Moved(i, c, e), i + 1)
      BY <1>1, <2>2, ParamsAreExact
    <3> QED
      BY <3>1, <3>2
  <2> QED
    BY <2>1, <2>2
<1>7. new.made = 0 /\ new.params = NewParams(i, c) /\ new \in Call
  BY <1>2, <1>5 DEF NewCall, Call
<1>8. /\ calls' \in Seq(Call) /\ Len(calls') = i + 1 /\ calls'[i + 1] = new
      /\ \A j \in 1..i : calls'[j] = CallerMade[j]
  <2> HIDE DEF new
  <2> QED BY <1>1, <1>2, <1>7, AppendProperties
<1>9. feasibleCuts' \in {feasibleCuts, feasibleCuts + 1}
  BY <1>1 DEF If, SearchInv, TypeOK
<1> HIDE DEF new
<1>10. /\ calls'[i + 1].made = 0
       /\ \A e \in 1..k : ExactFrame(calls'[i + 1].params[e], Moved(i, c, e), i + 1)
  BY <1>6, <1>7, <1>8
<1> QED
  BY <1>1, <1>8, <1>9, <1>10, ChoosePreserves

(***************************************************************************)
(* A step that leaves the shared members alone, and takes away only calls  *)
(* whose positions are in no cut.                                          *)
(***************************************************************************)
LEMMA PrefixPreserves ==
  ASSUME SearchInv, UNCHANGED <<inputs, shared, n_cuts, feasibleCuts>>,
         calls' \in Seq(Call), Len(calls') <= Len(calls),
         \A j \in 1..Len(calls') : calls'[j] = calls[j],
         ~Done' => /\ ~Done /\ Len(calls') >= 1
                   /\ \A j \in Positions : Len(calls') < j /\ j <= Len(calls) => cut[j] = 0
  PROVE  SearchInv'
<1>1. /\ UNCHANGED inputs /\ cut' = cut /\ ltis' = ltis /\ inputVectors' = inputVectors
      /\ n_cuts' = n_cuts /\ feasibleCuts' = feasibleCuts
  BY DEF shared
<1>2. /\ Positions' = Positions /\ k' = k /\ topo' = topo /\ dfg' = dfg /\ ports' = ports
  BY <1>1, SameGraph
<1>3. /\ Len(calls') \in Nat /\ Len(calls) \in Nat /\ Ordered
      /\ Depth = Len(calls) /\ Depth' = Len(calls')
  BY DEF SearchInv, TypeOK, Ordered, Depth
<1>4. TypeOK'
  <2>1. IsDFG(dfg)' /\ IsReverseTopologicalSort(dfg, topo)'
    BY <1>2, <1>3 DEF Ordered, IsDFG, IsReverseTopologicalSort, OutVertices, OutEdges
  <2>2. Call' = Call
    BY <1>2 DEF Call, Counters
  <2> QED
    BY <1>1, <1>2, <2>1, <2>2 DEF SearchInv, TypeOK
<1>5. CountersExact'
  <2>1. \A j \in 1..Len(calls') : j \in 1..Len(calls)
    BY <1>3
  <2>2. ASSUME NEW c \in 1..k PROVE ExactCut(c, cut', inputVectors', calls')
    <3>1. ExactCut(c, cut, inputVectors, calls)
      BY InvariantRestated DEF SearchInv
    <3> QED
      BY <1>1, <2>1, <3>1 DEF ExactCut
  <2> QED
    BY <1>1, <2>2, NextInvariant
<1>6. FramesInv'
  <2> SUFFICES ASSUME ~Done' PROVE FramesInv'
    BY DEF FramesInv
  <2>1. Depth' \in 1..(Len(topo) + 1)
    BY <1>3, TopoFacts DEF SearchInv, FramesInv
  <2>2. ASSUME NEW j \in Positions
        PROVE  cut[j] = IF j <= Len(calls') /\ calls'[j].made > 0
                        THEN k + 1 - calls'[j].made ELSE 0
    <3>1. cut[j] = IF j <= Len(calls) /\ calls[j].made > 0 THEN k + 1 - calls[j].made ELSE 0
      BY <1>3 DEF SearchInv, FramesInv
    <3>2. j \in Nat /\ j >= 1
      BY <1>3, TopoFacts
    <3>3. CASE j <= Len(calls')
      <4>1. j \in 1..Len(calls') /\ j <= Len(calls)
        BY <1>3, <3>2, <3>3
      <4>2. calls'[j] = calls[j]
        BY <4>1
      <4> QED
        BY <3>1, <3>3, <4>1, <4>2
    <3>4. CASE ~(j <= Len(calls'))
      <4>1. Len(calls') < j
        BY <1>3, <3>2, <3>4
      <4> QED
        BY <3>1, <3>4, <4>1
    <3> QED
      BY <3>3, <3>4
  <2> QED
    BY <1>1, <1>2, <1>3, <2>1, <2>2 DEF FramesInv
<1> QED
  BY <1>4, <1>5, <1>6 DEF SearchInv

(***************************************************************************)
(* A call returns.                                                         *)
(***************************************************************************)
LEMMA ReturnPreserves == SearchInv /\ Return => SearchInv'
<1> SUFFICES ASSUME SearchInv, Return PROVE SearchInv'
  OBVIOUS
<1> DEFINE d == Len(calls)
           m == d - 1
<1>1. /\ UNCHANGED <<inputs, shared, n_cuts, feasibleCuts>>
      /\ d > 1 /\ calls' = SubSeq(calls, 1, m)
      /\ d > Len(topo) \/ calls[d].made > k
  BY DEF Return, Depth, Caller
<1>2. calls \in Seq(Call) /\ d \in Nat /\ Ordered /\ k \in Nat
  BY DEF SearchInv, TypeOK, Ordered
<1>3. /\ m \in Int /\ 1 <= m /\ m - 1 + 1 = m /\ \A j \in 1..m : 1 + j - 1 = j
      /\ m <= d /\ \A j \in 1..m : j \in 1..d
  BY <1>1, <1>2
<1>4. \A j \in 1..m : calls[j] \in Call
  BY <1>2, <1>3
<1>5. /\ calls' \in Seq(Call) /\ Len(calls') = m
      /\ \A j \in 1..m : calls'[j] = calls[j]
  <2> HIDE DEF d, m
  <2>1. /\ SubSeq(calls, 1, m) \in Seq(Call)
        /\ Len(SubSeq(calls, 1, m)) = IF 1 <= m THEN m - 1 + 1 ELSE 0
        /\ \A j \in 1..(m - 1 + 1) : SubSeq(calls, 1, m)[j] = calls[1 + j - 1]
    BY <1>3, <1>4, SubSeqProperties
  <2> QED
    BY <1>1, <1>3, <2>1
<1>6. ~Done
  BY <1>1, <1>2, EmptySeq DEF Done
<1>7. ASSUME NEW j \in Positions, m < j, j <= d PROVE cut[j] = 0
  <2>1. j \in Nat /\ j >= 1 /\ j <= Len(topo) /\ Len(topo) \in Nat
    BY <1>2, TopoFacts
  <2>2. j = d
    BY <1>2, <1>7, <2>1
  <2>3. calls[j] \in Call /\ calls[j].made > k
    BY <1>1, <1>2, <2>1, <2>2
  <2>4. calls[j].made = k + 1
    BY <1>2, <2>3 DEF Call
  <2>5. cut[j] = IF j <= Depth /\ calls[j].made > 0 THEN k + 1 - calls[j].made ELSE 0
    BY <1>6 DEF SearchInv, FramesInv
  <2> QED
    BY <1>2, <2>4, <2>5
<1> QED
  BY <1>1, <1>3, <1>5, <1>6, <1>7, PrefixPreserves

(***************************************************************************)
(* run() ends.                                                             *)
(***************************************************************************)
LEMMA FinishPreserves == SearchInv /\ Finish => SearchInv'
<1> SUFFICES ASSUME SearchInv, Finish PROVE SearchInv'
  OBVIOUS
<1>1. UNCHANGED <<inputs, shared, n_cuts, feasibleCuts>> /\ calls' = <<>>
  BY DEF Finish
<1>2. /\ calls' \in Seq(Call) /\ Len(calls') = 0 /\ Done'
      /\ Len(calls') <= Len(calls) /\ \A j \in 1..Len(calls') : FALSE
  BY <1>1, EmptySeq DEF SearchInv, TypeOK, Done
<1> QED
  BY <1>1, <1>2, PrefixPreserves

(***************************************************************************)
(* A step that changes nothing.                                            *)
(***************************************************************************)
LEMMA StutterPreserves == SearchInv /\ UNCHANGED vars => SearchInv'
<1> SUFFICES ASSUME SearchInv, UNCHANGED vars PROVE SearchInv'
  OBVIOUS
<1>1. UNCHANGED <<inputs, shared, n_cuts, feasibleCuts>> /\ calls' = calls
  BY DEF vars
<1>2. calls \in Seq(Call) /\ Len(calls) \in Nat /\ Ordered
  BY DEF SearchInv, TypeOK, Ordered
<1>3. /\ calls' \in Seq(Call) /\ Len(calls') <= Len(calls)
      /\ \A j \in 1..Len(calls') : calls'[j] = calls[j]
  BY <1>1, <1>2
<1>4. ASSUME ~Done'
      PROVE  /\ ~Done /\ Len(calls') >= 1
             /\ \A j \in Positions : Len(calls') < j /\ j <= Len(calls) => cut[j] = 0
  <2>1. ~Done /\ Len(calls) # 0
    BY <1>1, <1>2, <1>4, EmptySeq DEF Done
  <2> QED
    BY <1>1, <1>2, <2>1, TopoFacts
<1> QED
  BY <1>1, <1>3, <1>4, PrefixPreserves

(***************************************************************************)
(* run() begins with k empty cuts.                                         *)
(***************************************************************************)
LEMMA InitEstablishes == Init => SearchInv
<1> SUFFICES ASSUME Init PROVE SearchInv
  OBVIOUS
<1> DEFINE p == [c \in 1..k |-> CutParams]
<1>1. /\ IsDFG(dfg) /\ dfg.node # {} /\ ports \in Nat \X Nat /\ k \in Nat \ {0}
      /\ cut = [i \in Positions |-> 0] /\ ltis = [c \in 1..k |-> {}]
      /\ inputVectors = [c \in 1..k |-> [i \in Positions |-> 0]]
      /\ calls = <<NewCall(p)>> /\ n_cuts = 0 /\ feasibleCuts = 0
  BY GraphsAssumption, PortsAssumption, NumCutsAssumption DEF Init
<1>2. IsReverseTopologicalSort(dfg, topo)
  BY DEF Init, ReverseTopologicalSorts
<1>3. Ordered
  BY <1>1, <1>2 DEF Ordered
<1>4. p \in [1..k -> Counters] /\ \A c \in 1..k : p[c] = CutParams
  BY DEF CutParams, Counters
<1>5. /\ calls[1].made = 0 /\ calls[1].params = p /\ calls \in Seq(Call)
      /\ Len(calls) = 1 /\ ~Done
  <2> HIDE DEF p
  <2>1. NewCall(p) \in Call /\ NewCall(p).made = 0 /\ NewCall(p).params = p
    BY <1>1, <1>4 DEF NewCall, Call
  <2>2. 1 \in 1..1 /\ Len(<<NewCall(p)>>) = 1 /\ <<NewCall(p)>>[1] = NewCall(p)
    OBVIOUS
  <2> QED
    BY <1>1, <2>1, <2>2 DEF Done
<1>6. TypeOK
  BY <1>1, <1>2, <1>5 DEF TypeOK
<1>7. ASSUME NEW c \in 1..k PROVE ExactCut(c, cut, inputVectors, calls)
  <2>1. Members(cut, c) = {}
    BY <1>1 DEF Members
  <2>2. ASSUME NEW s \in Positions
        PROVE  inputVectors[c][s] = Cardinality(RefSlots({}, s))
    BY <1>1, <1>3, ReferenceCounts
  <2>3. ASSUME NEW j \in 1..Len(calls)
        PROVE  ExactFrame(calls[j].params[c], Part({}, j), j)
    <3>1. j = 1
      BY <1>5
    <3>2. Part({}, j) = {} /\ InputsOf({}) = {} /\ OutputsOf({}) = {} /\ Settled({}, j) = {}
      BY DEF Part, InputsOf, OutputsOf, Settled
    <3>3. calls[j].params[c] = CutParams
      BY <1>4, <1>5, <3>1
    <3>4. /\ CutParams.inputs = 0 /\ CutParams.outputs = 0 /\ CutParams.perm_inputs = 0
          /\ Cardinality({}) = 0
      BY FS_EmptySet DEF CutParams
    <3>5. ExactFrame(CutParams, {}, j)
      <4>1. /\ Cardinality(InputsOf({})) = 0 /\ Cardinality(OutputsOf({})) = 0
            /\ Cardinality(Settled({}, j)) = 0
        BY <3>2, <3>4
      <4>2. 0 <= 0
        OBVIOUS
      <4> QED
        BY <3>4, <4>1, <4>2, Zenon DEF ExactFrame
    <3> QED
      BY <3>2, <3>3, <3>5
  <2> QED
    BY <2>1, <2>2, <2>3 DEF ExactCut
<1>8. CountersExact
  BY <1>7, InvariantRestated
<1>9. FramesInv
  <2>1. Len(topo) \in Nat /\ \A j \in Positions : j \in Nat /\ j >= 1
    BY <1>3, TopoFacts
  <2>2. \A j \in Positions : ~(j <= 1 /\ calls[j].made > 0)
    BY <1>5, <2>1
  <2> QED
    BY <1>1, <1>5, <2>1, <2>2 DEF FramesInv, Depth
<1> QED
  BY <1>6, <1>8, <1>9 DEF SearchInv

(***************************************************************************)
(* Every step keeps the invariant.                                         *)
(***************************************************************************)
LEMMA NextPreserves == SearchInv /\ [Next]_vars => SearchInv'
<1> SUFFICES ASSUME SearchInv, [Next]_vars PROVE SearchInv'
  OBVIOUS
<1>1. ASSUME NEW i \in Positions, NEW c \in 0..k, SearchPruned(i, c) PROVE SearchInv'
  BY <1>1, SearchPrunedPreserves
<1>2. ASSUME NEW i \in Positions, NEW c \in 0..k, Search(i, c) PROVE SearchInv'
  BY <1>2, SearchPreserves
<1>3. CASE Return
  BY <1>3, ReturnPreserves
<1>4. CASE Finish
  BY <1>4, FinishPreserves
<1>5. CASE UNCHANGED vars
  BY <1>5, StutterPreserves
<1> QED
  BY <1>1, <1>2, <1>3, <1>4, <1>5 DEF Next

-----------------------------------------------------------------------------
(***************************************************************************)
(* However many choices were tried and taken back, for every graph, order, *)
(* architecture and number of cuts: inputVectors and the parameters of     *)
(* every active call are exact for each of the k cuts, and no unsigned     *)
(* counter underflows.                                                     *)
(***************************************************************************)
THEOREM CountersStayExact == Spec => []SearchInv
<1>1. Init => SearchInv
  BY InitEstablishes
<1>2. SearchInv /\ [Next]_vars => SearchInv'
  BY NextPreserves
<1> QED
  BY <1>1, <1>2, PTL DEF Spec

(***************************************************************************)
(* An input that has become permanent is an input: the count of the first  *)
(* never exceeds that of the second.                                       *)
(***************************************************************************)
LEMMA PermanentAreInputs ==
  ASSUME Ordered, NEW p, p.perm_inputs \in Nat, NEW C, NEW j, ExactFrame(p, C, j)
  PROVE  p.perm_inputs <= p.inputs
<1> DEFINE s == Settled(C, j)
           n == InputsOf(C)
<1>1. n \subseteq Positions /\ s \in SUBSET n
  BY DEF InputsOf, Settled
<1> HIDE DEF s, n
<1>2. Cardinality(s) <= Cardinality(n) /\ Cardinality(n) \in Nat
  BY <1>1, PositionSets
<1>3. Cardinality(s) \in Nat
  BY <1>1, PositionSets
<1>4. p.perm_inputs <= Cardinality(s) /\ p.inputs = Cardinality(n)
  BY DEF ExactFrame, s, n
<1> QED
  BY <1>2, <1>3, <1>4

(***************************************************************************)
(* The assertions of lines 65 and 150, perm_inputs <= inputs, never fail,  *)
(* for every graph, order, architecture and number of cuts.                *)
(***************************************************************************)
THEOREM AssertionsNeverFail == Spec => []AssertionsHold
<1>1. SearchInv => AssertionsHold
  <2> SUFFICES ASSUME SearchInv, NEW i \in Positions, NEW c \in 0..k, Decides(i, c)
               PROVE  /\ c < k => Left(i, c)[c + 1].perm_inputs <= Left(i, c)[c + 1].inputs
                      /\ c > 0 /\ ~Pruned(i, c) =>
                           Joined(i, c).perm_inputs <= Joined(i, c).inputs
    BY DEF AssertionsHold
  <2>1. Ordered /\ k \in Nat /\ c \in Nat
    BY DecidesFacts
  <2>2. ASSUME c < k PROVE Left(i, c)[c + 1].perm_inputs <= Left(i, c)[c + 1].inputs
    <3> DEFINE q == Left(i, c)[c + 1]
    <3>1. c + 1 \in 1..k /\ c + 1 # c /\ Params(i, c) = Left(i, c)
      BY <2>1, <2>2 DEF Params
    <3>2. q \in Counters
      BY <3>1, ParamsTypeOK, ZenonT(60)
    <3>3. ExactFrame(q, Moved(i, c, c + 1), i + 1)
      BY <3>1, ParamsAreExact
    <3>4. q.perm_inputs \in Nat
      BY <3>2 DEF Counters
    <3> HIDE DEF q
    <3>5. q.perm_inputs <= q.inputs
      BY <2>1, <3>3, <3>4, PermanentAreInputs
    <3> QED
      BY <3>5 DEF q
  <2>3. ASSUME c > 0, ~Pruned(i, c) PROVE Joined(i, c).perm_inputs <= Joined(i, c).inputs
    <3> DEFINE q == Joined(i, c)
    <3>1. c \in 1..k /\ i \notin invalid
      BY <2>1, <2>3 DEF Pruned
    <3>2. q \in Counters /\ ExactFrame(q, Moved(i, c, c), i + 1)
      BY <3>1, JoinedIsExact
    <3>3. q.perm_inputs \in Nat
      BY <3>2 DEF Counters
    <3> HIDE DEF q
    <3>4. q.perm_inputs <= q.inputs
      BY <2>1, <3>2, <3>3, PermanentAreInputs
    <3> QED
      BY <3>4 DEF q
  <2> QED
    BY <2>2, <2>3
<1> QED
  BY <1>1, CountersStayExact, PTL

-----------------------------------------------------------------------------
(***************************************************************************)
(* With one cut: the frames of AlgoSingleCut's calls, and what its         *)
(* definitions say of them and of the shared members.                      *)
(***************************************************************************)
Frame(f) == [made |-> f.made, inputs |-> f.params[1].inputs,
             outputs |-> f.params[1].outputs, perm_inputs |-> f.params[1].perm_inputs]

FrameSeq(s) == [j \in 1..Len(s) |-> Frame(s[j])]

Frames == FrameSeq(calls)

SingleCall == [made : 0..2, inputs : Nat, outputs : Nat, perm_inputs : Nat]

(***************************************************************************)
(* The frame of a call is a call of SingleCut.                             *)
(***************************************************************************)
LEMMA FrameType ==
  ASSUME k = 1, NEW f \in Call
  PROVE  /\ Frame(f) \in SingleCall
         /\ Frame(f).made = f.made /\ Frame(f).inputs = f.params[1].inputs
         /\ Frame(f).outputs = f.params[1].outputs
         /\ Frame(f).perm_inputs = f.params[1].perm_inputs
<1>1. f.made \in 0..2 /\ f.params \in [1..1 -> Counters]
  BY DEF Call
<1>2. f.params[1] \in Counters
  BY <1>1
<1>3. /\ Frame(f).made = f.made /\ Frame(f).inputs = f.params[1].inputs
      /\ Frame(f).outputs = f.params[1].outputs
      /\ Frame(f).perm_inputs = f.params[1].perm_inputs
  BY DEF Frame
<1>4. Frame(f) \in SingleCall
  BY <1>1, <1>2 DEF Frame, SingleCall, Counters
<1> QED
  BY <1>3, <1>4

(***************************************************************************)
(* The frames of the stack are a stack of SingleCut.                       *)
(***************************************************************************)
LEMMA FramesFacts ==
  ASSUME k = 1, NEW s \in Seq(Call)
  PROVE  /\ FrameSeq(s) \in Seq(SingleCall) /\ Len(FrameSeq(s)) = Len(s)
         /\ \A j \in 1..Len(s) : FrameSeq(s)[j] = Frame(s[j])
         /\ FrameSeq(s) = <<>> <=> s = <<>>
<1>1. \A j \in 1..Len(s) : s[j] \in Call /\ Frame(s[j]) \in SingleCall
  BY FrameType
<1>2. FrameSeq(s) = [j \in 1..Len(s) |-> Frame(s[j])]
  BY DEF FrameSeq
<1>3. FrameSeq(s) \in Seq(SingleCall) /\ Len(FrameSeq(s)) = Len(s)
  BY <1>1, <1>2
<1>4. FrameSeq(s) = <<>> <=> s = <<>>
  BY <1>3, EmptySeq
<1> QED
  BY <1>2, <1>3, <1>4

(***************************************************************************)
(* With one cut both searches speak of the same things.                    *)
(***************************************************************************)
LEMMA SingleVocabulary ==
  /\ SingleCutSearch!Positions = Positions
  /\ \A i : SingleCutSearch!Users(i) = Users(i)
  /\ \A i, s : SingleCutSearch!Uses(i, s) = Uses(i, s)
  /\ SingleCutSearch!invalid = invalid
  /\ \A i : SingleCutSearch!ConvexAt(i) <=> ConvexAt(i, 1)
  /\ \A i : SingleCutSearch!LeadsToCut(i) <=> LeadsToCut(i, 1)
  /\ \A i : SingleCutSearch!IsOutput(i) <=> IsOutput(i, 1)
  /\ \A i : SingleCutSearch!NewInputs(i) = NewInputs(i, 1)
  /\ SingleCutSearch!maxInputs = maxInputs /\ SingleCutSearch!maxOutputs = maxOutputs
  /\ \A b : SingleCutSearch!If(b) = If(b)
  /\ \A S : SingleCutSearch!Cardinality(S) = Cardinality(S)
<1>1. /\ SingleCutSearch!Positions = Positions
      /\ \A v : SingleCutSearch!topoVector(v) = topoVector(v)
  BY DEF SingleCutSearch!Positions, Positions, SingleCutSearch!topoVector, topoVector
<1>2. \A i : SingleCutSearch!Users(i) = Users(i)
  BY <1>1 DEF SingleCutSearch!Users, Users, SingleCutSearch!OutVertices, OutVertices,
              SingleCutSearch!OutEdges, OutEdges
<1>3. \A S : SingleCutSearch!Cardinality(S) = Cardinality(S)
  <2>1. \A S : SingleCutSearch!IsFiniteSet(S) <=> IsFiniteSet(S)
    BY DEF SingleCutSearch!IsFiniteSet, IsFiniteSet
  <2> QED
    BY <2>1 DEF SingleCutSearch!Cardinality, Cardinality
<1>4. \A i, s : SingleCutSearch!Uses(i, s) = Uses(i, s)
  BY <1>1, <1>3 DEF SingleCutSearch!Uses, Uses, SingleCutSearch!InEdges, InEdges
<1>5. SingleCutSearch!invalid = invalid
  BY <1>1 DEF SingleCutSearch!invalid, invalid, SingleCutSearch!isValidNode, isValidNode
<1>6. \A i : /\ SingleCutSearch!ConvexAt(i) <=> ConvexAt(i, 1)
             /\ SingleCutSearch!LeadsToCut(i) <=> LeadsToCut(i, 1)
             /\ SingleCutSearch!IsOutput(i) <=> IsOutput(i, 1)
  BY <1>2 DEF SingleCutSearch!ConvexAt, ConvexAt, SingleCutSearch!LeadsToCut, LeadsToCut,
              SingleCutSearch!IsOutput, IsOutput
<1>7. \A i : SingleCutSearch!NewInputs(i) = NewInputs(i, 1)
  BY <1>1, <1>4 DEF SingleCutSearch!NewInputs, NewInputs
<1>8. /\ SingleCutSearch!maxInputs = maxInputs /\ SingleCutSearch!maxOutputs = maxOutputs
      /\ \A b : SingleCutSearch!If(b) = If(b)
  BY DEF SingleCutSearch!maxInputs, maxInputs, SingleCutSearch!maxOutputs, maxOutputs,
         SingleCutSearch!If, If
<1> QED
  BY <1>1, <1>2, <1>3, <1>4, <1>5, <1>6, <1>7, <1>8

(***************************************************************************)
(* Its calls are Frames.                                                   *)
(***************************************************************************)
LEMMA SingleCalls ==
  /\ SingleCutSearch!Depth = Len(Frames)
  /\ SingleCutSearch!Caller = Frames[Len(Frames)]
  /\ SingleCutSearch!CallerMade = [Frames EXCEPT ![Len(Frames)].made = @ + 1]
  /\ SingleCutSearch!Popped = SubSeq(Frames, 1, Len(Frames) - 1)
  /\ SingleCutSearch!Done <=> Frames = <<>>
  BY DEF SingleCutSearch!Depth, SingleCutSearch!Caller, SingleCutSearch!CallerMade,
         SingleCutSearch!Popped, SingleCutSearch!Done, Frames, FrameSeq, Frame, Depth

(***************************************************************************)
(* Both begin alike.                                                       *)
(***************************************************************************)
LEMMA BeginsAsSingle == Init /\ k = 1 => SingleCutSearch!Begin
<1> SUFFICES ASSUME Init, k = 1 PROVE SingleCutSearch!Begin
  OBVIOUS
<1>1. /\ InCut(1) = {} /\ ltis[1] = {}
      /\ inputVectors[1] = [i \in SingleCutSearch!Positions |-> 0]
  BY SingleVocabulary DEF Init, InCut
<1>2. Frames = <<SingleCutSearch!NewCall(0, 0, 0)>>
  <2>1. calls \in Seq(Call)
    BY InitEstablishes DEF SearchInv, TypeOK
  <2>2. /\ Len(calls) = 1 /\ calls[1].made = 0 /\ calls[1].params[1] = CutParams
    BY DEF Init, NewCall
  <2>3. Frame(calls[1]) = SingleCutSearch!NewCall(0, 0, 0)
    BY <2>2 DEF Frame, CutParams, SingleCutSearch!NewCall
  <2>4. Frames = [j \in 1..1 |-> Frame(calls[j])]
    BY <2>2 DEF Frames, FrameSeq
  <2> HIDE DEF Frames
  <2>5. Frames = <<Frame(calls[1])>>
    BY <2>4
  <2> QED
    BY <2>3, <2>5
<1> QED
  BY <1>1, <1>2 DEF SingleCutSearch!Begin, Frames, FrameSeq, Frame, Depth

(***************************************************************************)
(* The innermost call decides the same position the same way.              *)
(***************************************************************************)
LEMMA SingleDecides ==
  ASSUME SearchInv, k = 1, NEW i \in Positions, NEW c \in 0..k, Decides(i, c)
  PROVE  /\ SingleCutSearch!Decides(i, c = 1)
         /\ SingleCutSearch!Caller = Frame(calls[i])
         /\ SingleCutSearch!CallerMade = FrameSeq(CallerMade)
<1>1. /\ i = Len(calls) /\ calls \in Seq(Call) /\ calls[i] \in Call /\ Ordered
      /\ calls[i].made = k - c
      /\ CallerMade \in Seq(Call) /\ Len(CallerMade) = i
      /\ CallerMade[i].made = calls[i].made + 1
      /\ \A j \in 1..i : /\ j # i => CallerMade[j] = calls[j]
                         /\ CallerMade[j].params = calls[j].params
  BY DecidesFacts
<1>2. i \in 1..i /\ i <= Len(topo) /\ i # 0
  BY <1>1, TopoFacts
<1>3. /\ Frames \in Seq(SingleCall) /\ Len(Frames) = i
      /\ \A j \in 1..i : Frames[j] = Frame(calls[j])
      /\ Frames # <<>>
  BY <1>1, <1>2, FramesFacts, EmptySeq DEF Frames
<1>4. SingleCutSearch!Caller = Frame(calls[i])
  BY <1>2, <1>3, SingleCalls
<1>5. Frame(calls[i]) \in SingleCall /\ Frame(calls[i]).made = calls[i].made
  BY <1>1, FrameType
<1>6. SingleCutSearch!Decides(i, c = 1)
  <2>1. calls[i].made = 0 \/ calls[i].made = 1
    BY <1>1
  <2>2. (c = 1) = (calls[i].made = 0)
    BY <1>1
  <2>3. Frame(calls[i]).made < 2 /\ (c = 1) = (Frame(calls[i]).made = 0)
    BY <1>5, <2>1, <2>2
  <2>4. SingleCutSearch!Depth = i /\ ~SingleCutSearch!Done
    BY <1>3, SingleCalls
  <2> QED
    BY <1>2, <1>4, <2>3, <2>4
       DEF SingleCutSearch!Decides, SingleCutSearch!Choice, SingleCutSearch!Done
<1> DEFINE g == [Frame(calls[i]) EXCEPT !.made = @ + 1]
<1>7. g \in SingleCall /\ g = Frame(CallerMade[i])
  <2>1. CallerMade[i] \in Call
    BY <1>1, <1>2
  <2>2. g = [made |-> calls[i].made + 1, inputs |-> calls[i].params[1].inputs,
             outputs |-> calls[i].params[1].outputs,
             perm_inputs |-> calls[i].params[1].perm_inputs]
    BY DEF Frame
  <2>3. CallerMade[i].params = calls[i].params
    BY <1>1, <1>2
  <2>4. g = Frame(CallerMade[i])
    BY <1>1, <2>2, <2>3 DEF Frame
  <2> QED
    BY <2>1, <2>4, FrameType
<1>8. SingleCutSearch!CallerMade = [Frames EXCEPT ![i] = g]
  BY <1>2, <1>3, SingleCalls
<1> HIDE DEF g
<1>9. /\ SingleCutSearch!CallerMade \in Seq(SingleCall)
      /\ Len(SingleCutSearch!CallerMade) = i
      /\ SingleCutSearch!CallerMade[i] = g
      /\ \A j \in 1..i : j # i => SingleCutSearch!CallerMade[j] = Frames[j]
  BY <1>2, <1>3, <1>7, <1>8, ExceptSeq
<1>10. /\ FrameSeq(CallerMade) \in Seq(SingleCall) /\ Len(FrameSeq(CallerMade)) = i
       /\ \A j \in 1..i : FrameSeq(CallerMade)[j] = Frame(CallerMade[j])
  BY <1>1, FramesFacts
<1>11. \A j \in 1..i : SingleCutSearch!CallerMade[j] = FrameSeq(CallerMade)[j]
  BY <1>1, <1>3, <1>7, <1>9, <1>10
<1>12. SingleCutSearch!CallerMade = FrameSeq(CallerMade)
  BY <1>9, <1>10, <1>11, SeqEqual
<1> QED
  BY <1>4, <1>6, <1>12

(***************************************************************************)
(* It computes the same counters, prunes for the same reasons, and does    *)
(* the same to the shared members.                                         *)
(***************************************************************************)
LEMMA SingleIncluded ==
  ASSUME SearchInv, k = 1, NEW i \in Positions, Decides(i, 1)
  PROVE  /\ SingleCutSearch!Included(i) = Frame(NewCall(NewParams(i, 1)))
         /\ SingleCutSearch!Pruned(i) <=> Pruned(i, 1)
<1>1. calls[i] \in Call /\ Caller = calls[i]
  BY DecidesFacts
<1> DEFINE p == calls[i].params[1]
<1>2. Params(i, 1)[1] = p /\ Params(i, 1) \in [1..1 -> Counters]
  <2>1. 1 \in 0..k /\ 1 \in 1..k /\ 1 # 1 + 1
    OBVIOUS
  <2>2. Params(i, 1) \in [1..k -> Counters]
    BY <2>1, ParamsTypeOK
  <2>3. \A e \in 1..k : e # 1 + 1 => Params(i, 1)[e] = calls[i].params[e]
    BY <2>1, ParamsTypeOK, Zenon
  <2> QED
    BY <2>1, <2>2, <2>3
<1>3. NewParams(i, 1)[1] = Joined(i, 1)
  BY <1>2 DEF NewParams
<1>4. /\ Joined(i, 1).inputs =
           p.inputs - If(LeadsToCut(i, 1)) + Cardinality(NewInputs(i, 1))
      /\ Joined(i, 1).outputs = p.outputs + If(IsOutput(i, 1))
      /\ Joined(i, 1).perm_inputs =
           p.perm_inputs + Cardinality(NewInputs(i, 1) \cap invalid)
  BY <1>2 DEF Joined
<1>5. /\ SingleCutSearch!Caller.inputs = p.inputs
      /\ SingleCutSearch!Caller.outputs = p.outputs
      /\ SingleCutSearch!Caller.perm_inputs = p.perm_inputs
  <2>1. SingleCutSearch!Caller = Frame(calls[i])
    BY SingleDecides
  <2> QED
    BY <1>1, <2>1, FrameType
<1> HIDE DEF p
<1>6. /\ SingleCutSearch!If(SingleCutSearch!LeadsToCut(i)) = If(LeadsToCut(i, 1))
      /\ SingleCutSearch!If(SingleCutSearch!IsOutput(i)) = If(IsOutput(i, 1))
  BY SingleVocabulary DEF If
<1>7. SingleCutSearch!Included(i) =
        SingleCutSearch!NewCall(Joined(i, 1).inputs, Joined(i, 1).outputs,
                                Joined(i, 1).perm_inputs)
  BY <1>4, <1>5, <1>6, SingleVocabulary DEF SingleCutSearch!Included
<1>8. SingleCutSearch!Included(i) = Frame(NewCall(NewParams(i, 1)))
  BY <1>3, <1>7 DEF SingleCutSearch!NewCall, Frame, NewCall
<1>9. SingleCutSearch!Pruned(i) <=> Pruned(i, 1)
  <2>1. /\ SingleCutSearch!Included(i).outputs = Joined(i, 1).outputs
        /\ SingleCutSearch!Included(i).perm_inputs = Joined(i, 1).perm_inputs
    BY <1>7 DEF SingleCutSearch!NewCall
  <2> QED
    BY <2>1, SingleVocabulary DEF SingleCutSearch!Pruned, Pruned
<1> QED
  BY <1>8, <1>9

(***************************************************************************)
(* The call that leaves position i out is the same in both ...             *)
(***************************************************************************)
LEMMA SingleExcluded ==
  ASSUME SearchInv, k = 1, NEW i \in Positions, Decides(i, 0)
  PROVE  SingleCutSearch!Excluded(i) = Frame(NewCall(NewParams(i, 0)))
<1>1. calls[i] \in Call /\ Caller = calls[i]
  BY DecidesFacts
<1> DEFINE p == calls[i].params[1]
           b == inputVectors[1][i] # 0 /\ i \notin invalid
<1>2. p \in Counters /\ NewParams(i, 0)[1] = [p EXCEPT !.perm_inputs = @ + If(b)]
  <2>1. 0 \in 0..k /\ 1 \in 1..k /\ 0 < k /\ 0 + 1 = 1
    OBVIOUS
  <2>2. calls[i].params \in [1..k -> Counters]
    BY <2>1, ParamsTypeOK
  <2>3. Params(i, 0)[0 + 1] =
          [calls[i].params[0 + 1] EXCEPT !.perm_inputs =
             @ + If(inputVectors[0 + 1][i] # 0 /\ i \notin invalid)]
    BY <2>1, ParamsTypeOK
  <2> QED
    BY <2>1, <2>2, <2>3 DEF NewParams
<1>3. /\ NewParams(i, 0)[1].inputs = p.inputs /\ NewParams(i, 0)[1].outputs = p.outputs
      /\ NewParams(i, 0)[1].perm_inputs = p.perm_inputs + If(b)
  BY <1>2 DEF Counters
<1>4. /\ SingleCutSearch!Caller.inputs = p.inputs
      /\ SingleCutSearch!Caller.outputs = p.outputs
      /\ SingleCutSearch!Caller.perm_inputs = p.perm_inputs
  <2>1. 0 \in 0..k
    OBVIOUS
  <2>2. SingleCutSearch!Caller = Frame(calls[i])
    BY <2>1, SingleDecides
  <2> QED
    BY <1>1, <2>2, FrameType
<1>5. SingleCutSearch!If(inputVectors[1][i] # 0 /\ i \notin SingleCutSearch!invalid) = If(b)
  BY SingleVocabulary
<1> HIDE DEF p, b
<1>6. SingleCutSearch!Excluded(i) =
        SingleCutSearch!NewCall(p.inputs, p.outputs, p.perm_inputs + If(b))
  BY <1>4, <1>5 DEF SingleCutSearch!Excluded
<1> QED
  BY <1>3, <1>6 DEF SingleCutSearch!NewCall, Frame, NewCall

(***************************************************************************)
(* ... and so is what it does to the shared members.                       *)
(***************************************************************************)
LEMMA SingleChoose ==
  ASSUME SearchInv, k = 1, NEW i \in Positions, NEW c \in 0..k, Decides(i, c), Choose(i, c)
  PROVE  /\ UNCHANGED SingleCutSearch!inputs
         /\ c = 1 => SingleCutSearch!Choose(i)
         /\ c = 0 => /\ InCut(1)' = InCut(1) \ {i}
                     /\ ltis'[1] = ltis[1]
                     /\ inputVectors'[1] = [s \in SingleCutSearch!Positions |->
                          inputVectors[1][s] - SingleCutSearch!Uses(i, s)]
<1>1. /\ UNCHANGED inputs /\ cut' = [cut EXCEPT ![i] = c]
      /\ inputVectors' = Refer(i, c) /\ ltis' = Mark(i, c)
      /\ Ordered /\ 1 \in 1..k /\ 1 # 1 + 1 /\ 0 + 1 = 1
  BY DecidesFacts DEF Choose
<1>2. Members(cut', 1) = Moved(i, c, 1)
  BY <1>1, CutsAfter
<1>3. InCut(1)' = Members(cut', 1)
  <2>1. Positions' = Positions
    BY <1>1, SameGraph
  <2> QED
    BY <2>1 DEF InCut, Members
<1>4. ASSUME NEW s \in Positions
      PROVE  Uses(i, s) \in Nat /\ inputVectors[1][s] \in Nat
  <2>1. inputVectors \in [1..k -> [Positions -> Nat]]
    BY DEF SearchInv, TypeOK
  <2> QED
    BY <1>1, <2>1, UsersFacts
<1>5. c = 1 => /\ InCut(1)' = InCut(1) \cup {i}
               /\ ltis'[1] = SingleCutSearch!Mark(i)
               /\ inputVectors'[1] = SingleCutSearch!Refer(i)
  <2> SUFFICES ASSUME c = 1
               PROVE  /\ InCut(1)' = InCut(1) \cup {i}
                      /\ ltis'[1] = SingleCutSearch!Mark(i)
                      /\ inputVectors'[1] = SingleCutSearch!Refer(i)
    OBVIOUS
  <2>1. InCut(1)' = InCut(1) \cup {i}
    BY <1>2, <1>3 DEF Moved
  <2>2. ltis'[1] = SingleCutSearch!Mark(i)
    BY <1>1, SingleVocabulary DEF Mark, SingleCutSearch!Mark
  <2>3. inputVectors'[1] = [s \in Positions |-> inputVectors[1][s] + Uses(i, s)]
    BY <1>1, <1>4 DEF Refer
  <2>4. inputVectors'[1] = SingleCutSearch!Refer(i)
    BY <2>3, SingleVocabulary DEF SingleCutSearch!Refer
  <2> QED
    BY <2>1, <2>2, <2>4
<1>6. c = 0 => /\ InCut(1)' = InCut(1) \ {i}
               /\ ltis'[1] = ltis[1]
               /\ inputVectors'[1] = [s \in SingleCutSearch!Positions |->
                    inputVectors[1][s] - SingleCutSearch!Uses(i, s)]
  <2> SUFFICES ASSUME c = 0
               PROVE  /\ InCut(1)' = InCut(1) \ {i}
                      /\ ltis'[1] = ltis[1]
                      /\ inputVectors'[1] = [s \in SingleCutSearch!Positions |->
                           inputVectors[1][s] - SingleCutSearch!Uses(i, s)]
    OBVIOUS
  <2>1. InCut(1)' = InCut(1) \ {i}
    BY <1>2, <1>3 DEF Moved
  <2>2. ltis'[1] = ltis[1]
    BY <1>1 DEF Mark
  <2>3. inputVectors'[1] = [s \in Positions |-> inputVectors[1][s] - Uses(i, s)]
    BY <1>1, <1>4 DEF Refer
  <2> QED
    BY <2>1, <2>2, <2>3, SingleVocabulary
<1>7. UNCHANGED SingleCutSearch!inputs
  BY <1>1 DEF inputs, SingleCutSearch!inputs
<1> QED
  BY <1>5, <1>6, <1>7 DEF SingleCutSearch!Choose

(***************************************************************************)
(* The frames after a call ...                                             *)
(***************************************************************************)
LEMMA FramesAppend ==
  ASSUME k = 1, NEW s \in Seq(Call), NEW f \in Call
  PROVE  FrameSeq(Append(s, f)) = Append(FrameSeq(s), Frame(f))
<1> DEFINE t == Append(s, f)
           m == Len(s)
           x == FrameSeq(s)
           y == Frame(f)
<1>1. /\ t \in Seq(Call) /\ Len(t) = m + 1 /\ t[m + 1] = f
      /\ \A j \in 1..m : t[j] = s[j]
  BY AppendProperties
<1>2. m \in Nat
  OBVIOUS
<1>3. /\ x \in Seq(SingleCall) /\ Len(x) = m /\ \A j \in 1..m : x[j] = Frame(s[j])
      /\ y \in SingleCall
  BY FramesFacts, FrameType
<1> HIDE DEF t
<1>4. /\ FrameSeq(t) \in Seq(SingleCall) /\ Len(FrameSeq(t)) = m + 1
      /\ \A j \in 1..(m + 1) : FrameSeq(t)[j] = Frame(t[j])
  BY <1>1, FramesFacts
<1> HIDE DEF m, x, y
<1>5. /\ Append(x, y) \in Seq(SingleCall) /\ Len(Append(x, y)) = m + 1
      /\ Append(x, y)[m + 1] = y
      /\ \A j \in 1..m : Append(x, y)[j] = x[j]
  BY <1>3, AppendProperties
<1>6. ASSUME NEW j \in 1..(m + 1) PROVE FrameSeq(t)[j] = Append(x, y)[j]
  <2>1. CASE j = m + 1
    BY <1>1, <1>4, <1>5, <2>1 DEF y
  <2>2. CASE j # m + 1
    <3>1. j \in 1..m
      BY <1>2, <2>2
    <3> QED
      BY <1>1, <1>3, <1>4, <1>5, <3>1
  <2> QED
    BY <2>1, <2>2
<1>7. FrameSeq(t) = Append(x, y)
  BY <1>4, <1>5, <1>6, SeqEqual
<1> QED
  BY <1>7 DEF t, x, y

(***************************************************************************)
(* ... and after returns.                                                  *)
(***************************************************************************)
LEMMA FramesPrefix ==
  ASSUME k = 1, NEW s \in Seq(Call), NEW m \in Nat, 1 <= m, m <= Len(s)
  PROVE  FrameSeq(SubSeq(s, 1, m)) = SubSeq(FrameSeq(s), 1, m)
<1> DEFINE t == SubSeq(s, 1, m)
           x == FrameSeq(s)
<1>1. /\ m \in Int /\ 1 \in Int /\ m - 1 + 1 = m /\ \A j \in 1..m : 1 + j - 1 = j
      /\ \A j \in 1..m : j \in 1..Len(s)
  OBVIOUS
<1>2. \A j \in 1..m : s[j] \in Call
  BY <1>1
<1>3. t \in Seq(Call) /\ Len(t) = m /\ \A j \in 1..m : t[j] = s[j]
  <2>1. /\ SubSeq(s, 1, m) \in Seq(Call)
        /\ Len(SubSeq(s, 1, m)) = IF 1 <= m THEN m - 1 + 1 ELSE 0
        /\ \A j \in 1..(m - 1 + 1) : SubSeq(s, 1, m)[j] = s[1 + j - 1]
    BY <1>1, <1>2, SubSeqProperties
  <2> QED
    BY <1>1, <2>1
<1>4. x \in Seq(SingleCall) /\ Len(x) = Len(s) /\ \A j \in 1..Len(s) : x[j] = Frame(s[j])
  BY FramesFacts
<1> HIDE DEF t, x
<1>5. /\ FrameSeq(t) \in Seq(SingleCall) /\ Len(FrameSeq(t)) = m
      /\ \A j \in 1..m : FrameSeq(t)[j] = Frame(t[j])
  BY <1>3, FramesFacts
<1>6. /\ SubSeq(x, 1, m) \in Seq(SingleCall) /\ Len(SubSeq(x, 1, m)) = m
      /\ \A j \in 1..m : SubSeq(x, 1, m)[j] = x[j]
  <2>1. \A j \in 1..m : x[j] \in SingleCall
    BY <1>1, <1>4
  <2>2. /\ SubSeq(x, 1, m) \in Seq(SingleCall)
        /\ Len(SubSeq(x, 1, m)) = IF 1 <= m THEN m - 1 + 1 ELSE 0
        /\ \A j \in 1..(m - 1 + 1) : SubSeq(x, 1, m)[j] = x[1 + j - 1]
    BY <1>1, <2>1, SubSeqProperties
  <2> QED
    BY <1>1, <2>2
<1>7. \A j \in 1..m : FrameSeq(t)[j] = SubSeq(x, 1, m)[j]
  BY <1>1, <1>3, <1>4, <1>5, <1>6
<1>8. FrameSeq(t) = SubSeq(x, 1, m)
  BY <1>5, <1>6, <1>7, SeqEqual
<1> QED
  BY <1>8 DEF t, x

(***************************************************************************)
(* Each step is a step of AlgoSingleCut: a choice of cut 1 tries the       *)
(* position in the cut, the choice of no cut takes it out.                 *)
(***************************************************************************)
LEMMA SearchesAsSingle ==
  ASSUME SearchInv, k = 1, NEW i \in Positions, NEW c \in 0..k,
         SearchPruned(i, c) \/ Search(i, c)
  PROVE  SingleCutSearch!Next
<1>1. /\ Decides(i, c) /\ Choose(i, c) /\ i \in SingleCutSearch!Positions
      /\ c = 0 \/ c = 1
      /\ UNCHANGED SingleCutSearch!inputs
  <2>1. Decides(i, c) /\ Choose(i, c)
    BY DEF SearchPruned, Search
  <2>2. c = 0 \/ c = 1
    OBVIOUS
  <2>3. UNCHANGED SingleCutSearch!inputs
    BY <2>1, SingleChoose
  <2>4. i \in SingleCutSearch!Positions
    BY SingleVocabulary
  <2> QED
    BY <2>1, <2>2, <2>3, <2>4
<1>2. /\ SingleCutSearch!Decides(i, c = 1)
      /\ SingleCutSearch!CallerMade = FrameSeq(CallerMade)
      /\ CallerMade \in Seq(Call)
  BY <1>1, SingleDecides, DecidesFacts
<1>3. Frames' = FrameSeq(calls')
  BY DEF Frames
<1>4. ASSUME SearchPruned(i, c) PROVE SingleCutSearch!IncludePruned(i)
  <2>1. Pruned(i, c) /\ c = 1 /\ calls' = CallerMade
    BY <1>1, <1>4 DEF SearchPruned, Pruned
  <2>2. SingleCutSearch!Pruned(i) /\ SingleCutSearch!Choose(i)
    BY <1>1, <2>1, SingleIncluded, SingleChoose
  <2>3. SingleCutSearch!Decides(i, TRUE)
    BY <1>2, <2>1
  <2>4. Frames' = SingleCutSearch!CallerMade
    BY <1>2, <1>3, <2>1
  <2> QED
    BY <1>1, <2>2, <2>3, <2>4
       DEF SingleCutSearch!IncludePruned, Frames, FrameSeq, Frame, Depth
<1>5. ASSUME Search(i, c) PROVE SingleCutSearch!Include(i) \/ SingleCutSearch!Exclude(i)
  <2> DEFINE new == NewCall(NewParams(i, c))
  <2>1. ~Pruned(i, c) /\ calls' = Append(CallerMade, new)
    BY <1>5 DEF Search
  <2>2. new \in Call
    <3>1. SearchInv'
      BY <1>5, SearchPreserves
    <3>2. calls' \in Seq(Call)
      <4>1. Call' = Call
        BY <1>1, SameGraph DEF Choose, Call, Counters
      <4> QED
        BY <3>1, <4>1 DEF SearchInv, TypeOK
    <3> HIDE DEF new
    <3>3. calls'[Len(CallerMade) + 1] = new /\ Len(calls') = Len(CallerMade) + 1
      BY <1>2, <2>1
    <3>4. Len(CallerMade) + 1 \in 1..Len(calls')
      BY <1>2, <3>3
    <3> QED
      BY <3>2, <3>3, <3>4
  <2>3. Frames' = Append(SingleCutSearch!CallerMade, Frame(new))
    <3> HIDE DEF new
    <3> QED BY <1>2, <1>3, <2>1, <2>2, FramesAppend
  <2>4. CASE c = 1
    <3>1. SingleCutSearch!Included(i) = Frame(new) /\ ~SingleCutSearch!Pruned(i)
      BY <1>1, <2>1, <2>4, SingleIncluded
    <3>2. SingleCutSearch!Decides(i, TRUE) /\ SingleCutSearch!Choose(i)
      BY <1>1, <1>2, <2>4, SingleChoose
    <3>3. Frames' = Append(SingleCutSearch!CallerMade, SingleCutSearch!Included(i))
      BY <2>3, <3>1
    <3>4. SingleCutSearch!Include(i)
      BY <1>1, <3>1, <3>2, <3>3
         DEF SingleCutSearch!Include, Frames, FrameSeq, Frame, Depth
    <3> QED
      BY <3>4
  <2>5. CASE c = 0
    <3>1. SingleCutSearch!Excluded(i) = Frame(new)
      <4>1. Decides(i, 0)
        BY <1>1, <2>5
      <4> QED
        BY <2>5, <4>1, SingleExcluded
    <3>2. SingleCutSearch!Decides(i, FALSE)
      <4>1. (c = 1) = FALSE
        BY <2>5
      <4> QED
        BY <1>2, <4>1
    <3>3. /\ InCut(1)' = InCut(1) \ {i} /\ ltis'[1] = ltis[1]
          /\ inputVectors'[1] = [s \in SingleCutSearch!Positions |->
               inputVectors[1][s] - SingleCutSearch!Uses(i, s)]
      BY <1>1, <2>5, SingleChoose
    <3>4. Frames' = Append(SingleCutSearch!CallerMade, SingleCutSearch!Excluded(i))
      BY <2>3, <3>1
    <3>5. SingleCutSearch!Exclude(i)
      BY <1>1, <3>2, <3>3, <3>4
         DEF SingleCutSearch!Exclude, Frames, FrameSeq, Frame, Depth
    <3> QED
      BY <3>5
  <2> QED
    BY <1>1, <2>4, <2>5
<1> QED
  BY <1>1, <1>4, <1>5 DEF SingleCutSearch!Next

(***************************************************************************)
(* A step that touches no shared member touches none of SingleCut's.       *)
(***************************************************************************)
LEMMA SharedAsSingle ==
  ASSUME UNCHANGED <<inputs, shared>>
  PROVE  /\ UNCHANGED SingleCutSearch!inputs /\ InCut(1)' = InCut(1)
         /\ ltis'[1] = ltis[1] /\ inputVectors'[1] = inputVectors[1]
  BY DEF inputs, shared, SingleCutSearch!inputs, InCut, Positions

(***************************************************************************)
(* A return is a return ...                                                *)
(***************************************************************************)
LEMMA ReturnsAsSingle ==
  ASSUME SearchInv, k = 1, Return
  PROVE  SingleCutSearch!Return
<1> DEFINE d == Len(calls)
<1>1. /\ d > 1
      /\ d > Len(topo) \/ calls[d].made > k
      /\ calls' = SubSeq(calls, 1, d - 1) /\ UNCHANGED <<inputs, shared>>
  BY DEF Return, Depth, Caller
<1>2. calls \in Seq(Call) /\ d \in Nat /\ d \in 1..d /\ calls[d] \in Call
  BY <1>1 DEF SearchInv, TypeOK
<1>3. Len(Frames) = d /\ Frames[d] = Frame(calls[d])
  BY <1>2, FramesFacts DEF Frames
<1>4. SingleCutSearch!CanReturn
  <2>1. calls[d].made > 1 => calls[d].made = 2
    BY <1>2 DEF Call
  <2>2. Frame(calls[d]).made = calls[d].made
    BY <1>2, FrameType
  <2> QED
    BY <1>1, <1>3, <2>1, <2>2, SingleCalls DEF SingleCutSearch!CanReturn
<1>5. Frames' = SingleCutSearch!Popped
  <2>1. d - 1 \in Nat /\ 1 <= d - 1 /\ d - 1 <= Len(calls)
    BY <1>1, <1>2
  <2>2. FrameSeq(SubSeq(calls, 1, d - 1)) = SubSeq(FrameSeq(calls), 1, d - 1)
    BY <1>2, <2>1, FramesPrefix
  <2> QED
    BY <1>1, <1>3, <2>2, SingleCalls DEF Frames
<1>6. SingleCutSearch!Depth > 1
  BY <1>1, <1>3, SingleCalls
<1> QED
  BY <1>1, <1>4, <1>5, <1>6, SharedAsSingle
     DEF SingleCutSearch!Return, Frames, FrameSeq, Frame, Depth

(***************************************************************************)
(* ... and the end of run() is the end of run().                           *)
(***************************************************************************)
LEMMA FinishesAsSingle ==
  ASSUME SearchInv, k = 1, Finish
  PROVE  SingleCutSearch!Finish
<1>1. /\ Len(calls) = 1 /\ calls[1].made > k /\ calls' = <<>>
      /\ UNCHANGED <<inputs, shared>>
  BY DEF Finish, Depth, Caller
<1>2. calls \in Seq(Call) /\ calls[1] \in Call
  <2>1. calls \in Seq(Call)
    BY DEF SearchInv, TypeOK
  <2> QED
    BY <1>1, <2>1
<1>3. Len(Frames) = 1 /\ Frames[1] = Frame(calls[1])
  BY <1>1, <1>2, FramesFacts DEF Frames
<1>4. SingleCutSearch!Caller.made = 2 /\ SingleCutSearch!Depth = 1
  <2>1. calls[1].made = 2
    BY <1>1, <1>2 DEF Call
  <2>2. Frame(calls[1]).made = 2
    BY <1>2, <2>1, FrameType
  <2> QED
    BY <1>3, <2>2, SingleCalls
<1>5. Frames' = <<>>
  <2>1. <<>> \in Seq(Call)
    OBVIOUS
  <2>2. FrameSeq(<<>>) = <<>>
    BY <2>1, FramesFacts
  <2> QED
    BY <1>1, <2>2 DEF Frames
<1> QED
  BY <1>1, <1>4, <1>5, SharedAsSingle
     DEF SingleCutSearch!Finish, Frames, FrameSeq, Frame, Depth

(***************************************************************************)
(* With one cut, AlgoMultipleCuts is AlgoSingleCut run as a benchmark:     *)
(* what SearchIsExact shows of that search holds of this one.              *)
(***************************************************************************)
THEOREM OneCutIsSingleCut == Spec => ImplementsSingleCut
<1>1. Init => (k = 1 => SingleCutSearch!Begin)
  BY BeginsAsSingle
<1>2. SearchInv /\ [Next]_vars => [k = 1 => SingleCutSearch!Next]_(SingleCutSearch!vars)
  <2> SUFFICES ASSUME SearchInv, [Next]_vars, k = 1
               PROVE  SingleCutSearch!Next \/ UNCHANGED SingleCutSearch!vars
    OBVIOUS
  <2>1. ASSUME NEW i \in Positions, NEW c \in 0..k, SearchPruned(i, c) \/ Search(i, c)
        PROVE  SingleCutSearch!Next
    BY <2>1, SearchesAsSingle
  <2>2. CASE Return
    BY <2>2, ReturnsAsSingle DEF SingleCutSearch!Next
  <2>3. CASE Finish
    BY <2>3, FinishesAsSingle DEF SingleCutSearch!Next
  <2>4. CASE UNCHANGED vars
    <3>1. UNCHANGED <<inputs, shared>> /\ Frames' = Frames
      BY <2>4 DEF vars, Frames
    <3> QED
      BY <3>1, SharedAsSingle
         DEF SingleCutSearch!vars, SingleCutSearch!inputs, Frames, FrameSeq, Frame, Depth
  <2> QED
    BY <2>1, <2>2, <2>3, <2>4 DEF Next
<1> QED
  BY <1>1, <1>2, CountersStayExact, PTL DEF Spec, ImplementsSingleCut
=============================================================================
