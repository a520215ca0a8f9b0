------------------------------ MODULE UnionCuts ------------------------------
(***************************************************************************)
(* AlgoUnion (src/ise/lib/common/AlgoUnion.cpp): enumeration of connected  *)
(* subgraphs (patterns) by joining cones.                                  *)
(*                                                                         *)
(* The valid vertices fall into regions.  Within a region run() takes the  *)
(* vertices in reverse topological order, starts from the upward cones of  *)
(* a vertex, and lets Union() grow them alternately with the downward and  *)
(* the upward cones of the vertices where a pattern can be extended.  The  *)
(* vertex is then excluded from all that follows.                          *)
(*                                                                         *)
(* Union() is recursive; `calls` is the stack of its active calls, the     *)
(* outermost first.  Three things are shared by all of them: remExts (by   *)
(* reference), the downward cones, which are computed when they are first  *)
(* needed and kept, and the excluded vertices, which grow meanwhile.       *)
(*                                                                         *)
(* Vertices are numbers, as vertex descriptors are: bit vectors are walked *)
(* from the lowest to the highest.  The largest cone of a vertex (maxUcs,  *)
(* maxDcs) is the union of its cones.  A missing entry of ecs is an empty  *)
(* set.                                                                    *)
(*                                                                         *)
(* An operator whose name ends in Fault is no part of the model: it is the *)
(* operator below it with a plausible mistake.                             *)
(***************************************************************************)
EXTENDS DataFlowGraph, FiniteSetsExt

CONSTANTS
  Graphs,      \* the data-flow graphs a run may be given
  Ports        \* pairs <<getMaxInputs, getMaxOutputs>> of architectures

ASSUME GraphsAssumption ==
  \A g \in Graphs : IsDFG(g) /\ g.node = 1..Cardinality(g.node)
ASSUME PortsAssumption == Ports \subseteq Nat \X Nat

VARIABLES
  dfg, topo, ports, benchmark,  \* the inputs of run(), never changed
  pc,           \* "start", "region", "vertex", "union" or "done"
  regions,      \* [node -> number of its region, 0 for none]
  orgRegions,   \* the same before run() takes vertices out of their region
  ecs,          \* [node -> nodes that no convex pattern has together with it]
  region,       \* the region run() is in
  pos,          \* position in topo of the vertex run() is at
  uc_set,       \* upward cones of the vertices visited by enumerateUpwardCones
  dc_set,       \* downward cones of the vertices that have been asked for
  exclude,      \* vertices run() is through with
  remExts,      \* vertices not yet used as extension points
  calls,        \* active calls of Union
  allPatterns, feasiblePatterns,
  result

inputs == <<dfg, topo, ports, benchmark>>
fixed  == <<inputs, orgRegions, ecs>>
place  == <<regions, region, pos, exclude>>
found  == <<allPatterns, feasiblePatterns, result>>
vars   == <<fixed, pc, place, uc_set, dc_set, remExts, calls, found>>

Node     == dfg.node
Preds(v) == InVertices(dfg, v)
Succs(v) == OutVertices(dfg, v)
(* The same as functions, for eliminating in either direction. *)
predsOf  == [v \in Node |-> Preds(v)]
succsOf  == [v \in Node |-> Succs(v)]

isValidNode(v) ==
  \/ dfg.op[v] = "CONSTANT"
  \/ dfg.op[v] # "INPUT" /\ (dfg.instr[v] => dfg.legal[v])

invalid == {v \in Node : ~isValidNode(v)}

Init ==
  /\ dfg \in Graphs
  /\ topo \in ReverseTopologicalSorts(dfg)
  /\ ports \in Ports
  /\ benchmark \in BOOLEAN
  /\ pc = "start"
  /\ regions = <<>> /\ orgRegions = <<>> /\ ecs = <<>>
  /\ region = 1 /\ pos = 1
  /\ uc_set = <<>> /\ dc_set = <<>>
  /\ exclude = {} /\ remExts = {}
  /\ calls = <<>>
  /\ allPatterns = {} /\ feasiblePatterns = 0
  /\ result = {}

-----------------------------------------------------------------------------
(***************************************************************************)
(* Ports and shape of a pattern p, a set of vertices.                      *)
(***************************************************************************)
InputsOf(p)  == (UNION {Preds(v) : v \in p}) \ p
OutputsOf(p) == {v \in p : dfg.op[v] = "OUTPUT" \/ ~(Succs(v) \subseteq p)}

inputCheck(p)  == Cardinality(InputsOf(p)) <= ports[1]
outputCheck(p) == Cardinality(OutputsOf(p)) <= ports[2]
isConvex(p)    == \A v \in p : \A t \in Succs(v) \ p : Succs(t) \cap p = {}

getOutputNodes(p) == OutputsOf(p)
getInputNodes(p)  == {v \in p : ~(Preds(v) \subseteq p)}

(***************************************************************************)
(* Regions: what a walk along edges in both directions reaches from the    *)
(* lowest vertex left without passing an invalid one.  (The walk counts    *)
(* its vertices in an unsigned number and only asks whether it is zero.)   *)
(***************************************************************************)
Walkway(valid) ==
  LET inside == {e \in dfg.edge : dfg.src[e] \in valid /\ dfg.dst[e] \in valid}
      steps  == {<<dfg.src[e], dfg.dst[e]>> : e \in inside}
                  \cup {<<dfg.dst[e], dfg.src[e]>> : e \in inside}
  IN  [node |-> Node, edge |-> steps,
       src |-> [s \in steps |-> s[1]], dst |-> [s \in steps |-> s[2]]]

Component(v, valid) == Descendants(Walkway(valid), {v})

DefinedRegions ==
  LET valid  == Node \ invalid
      lowest == [v \in valid |-> Min(Component(v, valid))]
  IN  [v \in Node |-> IF v \notin valid THEN 0
                      ELSE Cardinality({lowest[u] : u \in valid} \cap 1..lowest[v])]

(***************************************************************************)
(* External conflicts: a predecessor and a successor of an invalid vertex  *)
(* cannot both be in a convex pattern.                                     *)
(***************************************************************************)
Conflicts ==
  LET succs == [v \in Node |-> Descendants(dfg, Succs(v))]
      preds == [v \in Node |-> {u \in Node : v \in succs[u]}]
  IN  [v \in Node |-> (UNION {succs[i] : i \in invalid \cap succs[v]})
                      \cup (UNION {preds[i] : i \in invalid \cap preds[v]})]

(* defineRegions() and calcEcs(). *)
Start ==
  /\ pc = "start"
  /\ Node # {}
  /\ orgRegions' = DefinedRegions
  /\ regions' = orgRegions'
  /\ ecs' = Conflicts
  /\ pc' = "region"
  /\ UNCHANGED <<inputs, region, pos, uc_set, dc_set, exclude, remExts, calls,
                 found>>

EmptyGraph ==
  /\ pc = "start"
  /\ Node = {}
  /\ pc' = "done"
  /\ UNCHANGED <<fixed, uc_set, dc_set, remExts, calls, place, found>>

-----------------------------------------------------------------------------
(***************************************************************************)
(* Cones.  Of the neighbours S of a vertex, drop those that another one    *)
(* leads to; the walk goes from the lowest vertex to the highest and skips *)
(* a vertex that is already dropped.                                       *)
(***************************************************************************)
Eliminate(S, next) ==
  LET walk[k \in Nat] ==
        IF k = 0 THEN S
        ELSE walk[k - 1] \ (IF k \in walk[k - 1] THEN next[k] ELSE {})
  IN  walk[Cardinality(Node)]

(* All unions of a member of base with one cone of each vertex of S. *)
Product(base, S, cones) ==
  FoldSet(LAMBDA u, acc : {a \cup b : a \in acc, b \in cones[u]}, base, S)

(* v alone, and v with cones of every choice of its neighbours S. *)
Combined(v, S, cones) ==
  {{v}} \cup {C \in UNION {Product({{v}}, T, cones) : T \in (SUBSET S) \ {{}}} :
                C \cap ecs[v] = {} /\ isConvex(C)}

topoVector(v) == CHOOSE i \in DOMAIN topo : topo[i] = v

(* enumerateUpwardCones(r) builds the cones of operands before users. *)
InRegion(r) == {v \in Node : regions[v] = r}

UpwardConesFault(r) ==
  LET at[k \in DOMAIN topo] ==
        LET v == topo[k]
            S == Eliminate((Preds(v) \cap InRegion(r)) \ ecs[v], predsOf)
        IN  {C \in Combined(v, S, [u \in S |-> at[topoVector(u)]]) :
               C = {v} \/ outputCheck(C)}
  IN  [v \in InRegion(r) |-> at[topoVector(v)]]
UpwardCones(r) ==
  LET at[k \in DOMAIN topo] ==
        LET v == topo[k]
            S == Eliminate((Preds(v) \cap InRegion(r)) \ ecs[v], predsOf)
        IN  {C \in Combined(v, S, [u \in S |-> at[topoVector(u)]]) :
               C = {v} \/ inputCheck(C)}
  IN  [v \in InRegion(r) |-> at[topoVector(v)]]

With(f, g) == [x \in DOMAIN f \cup DOMAIN g |-> IF x \in DOMAIN f THEN f[x] ELSE g[x]]

(***************************************************************************)
(* enumerateDownwardCones(v) first builds the cones of the users of v in   *)
(* its original region that have none yet.                                 *)
(***************************************************************************)
Mates(v) == {u \in Node : orgRegions[u] = orgRegions[v]}

NewDownward(S) ==
  Descendants([dfg EXCEPT !.edge = {e \in @ : dfg.dst[e] \in Mates(dfg.src[e]) \ DOMAIN dc_set}],
              S \ DOMAIN dc_set)

DownwardSuccsFault(v) == Eliminate(Succs(v) \ exclude, succsOf)
DownwardSuccs(v) == Eliminate((Succs(v) \cap Mates(v)) \ exclude, succsOf)

DownwardCones(S) ==
  LET at[k \in DOMAIN topo] ==
        LET v == topo[k]
            D == DownwardSuccs(v)
        IN  IF v \in DOMAIN dc_set THEN dc_set[v]
            ELSE {C \in Combined(v, D, [u \in D |-> at[topoVector(u)]]) :
                    C = {v} \/ outputCheck(C)}
  IN  With(dc_set, [v \in NewDownward(S) |-> at[topoVector(v)]])

-----------------------------------------------------------------------------
(***************************************************************************)
(* run(): regions, and their vertices in reverse topological order.        *)
(***************************************************************************)
nregions == Cardinality({orgRegions[v] : v \in Node} \ {0})

EnumerateUpwardCones ==
  /\ pc = "region"
  /\ region <= nregions
  /\ uc_set' = With(uc_set, UpwardCones(region))
  /\ pos' = 1
  /\ pc' = "vertex"
  /\ UNCHANGED <<fixed, regions, region, dc_set, exclude, remExts, calls, found>>

AtVertex == pc = "vertex" /\ pos <= Len(topo)
Vertex   == topo[pos]

SkipVertex ==
  /\ AtVertex
  /\ regions[Vertex] # region
  /\ pos' = pos + 1
  /\ UNCHANGED <<fixed, pc, regions, region, uc_set, dc_set, exclude, remExts,
                 calls, found>>

ThroughWith ==
  /\ regions' = [regions EXCEPT ![Vertex] = 0]
  /\ exclude' = exclude \cup {Vertex}
  /\ pos' = pos + 1

Extensions == getOutputNodes(UNION uc_set[Vertex])

(* No way out of the largest cone: its patterns are not recorded. *)
NoExtensions ==
  /\ AtVertex
  /\ regions[Vertex] = region
  /\ Extensions = {}
  /\ ThroughWith
  /\ UNCHANGED <<fixed, pc, region, uc_set, dc_set, remExts, calls, found>>

(* The next combination of extension points: comb, the set of those whose  *)
(* bit is set, as a number is incremented, the lowest vertex being its     *)
(* lowest bit.  After the last combination comes {}.                       *)
incrementBitVector(comb, ext) ==
  LET clear == ext \ comb
  IN  IF clear = {} THEN {} ELSE {Min(clear)} \cup {v \in comb : v > Min(clear)}

Call(core, ext, down) ==
  [core |-> core, ext |-> ext, down |-> down, comb |-> incrementBitVector({}, ext),
   new_core |-> core]

CallUnion ==
  /\ AtVertex
  /\ regions[Vertex] = region
  /\ Extensions # {}
  /\ calls' = <<Call(uc_set[Vertex], Extensions, TRUE)>>
  /\ remExts' = Node \ Extensions
  /\ pc' = "union"
  /\ UNCHANGED <<fixed, uc_set, dc_set, place, found>>

EndOfRegion ==
  /\ pc = "vertex"
  /\ pos > Len(topo)
  /\ region' = region + 1
  /\ pc' = "region"
  /\ UNCHANGED <<fixed, regions, pos, uc_set, dc_set, exclude, remExts, calls,
                 found>>

Finish ==
  /\ pc = "region"
  /\ region > nregions
  /\ result' = allPatterns
  /\ pc' = "done"
  /\ UNCHANGED <<fixed, uc_set, dc_set, remExts, calls, allPatterns,
                 feasiblePatterns, place>>

-----------------------------------------------------------------------------
(***************************************************************************)
(* Union().  A call goes through the non-empty choices of its extension    *)
(* points.                                                                 *)
(***************************************************************************)
Depth == Len(calls)
Top   == calls[Depth]

Chosen   == Top.comb
Choosing == pc = "union" /\ Chosen # {}

(* extCombEli: a choice that another one, larger by an operand, covers. *)
Redundant ==
  \E v \in Top.ext : \E u \in Preds(v) \cap Top.ext :
    IF Top.down THEN u \in Chosen /\ v \notin Chosen
                ELSE v \in Chosen /\ u \notin Chosen

(* The patterns of the core with exactly the chosen extension points. *)
Extendable == {p \in Top.core : p \cap Top.ext = Chosen}

NextChoiceFault ==
  [calls EXCEPT ![Depth].comb =
     incrementBitVector(IF @ = Top.ext THEN {} ELSE @, Top.ext)]
NextChoice == [calls EXCEPT ![Depth].comb = incrementBitVector(@, Top.ext)]

SkipChoice ==
  /\ Choosing
  /\ Redundant \/ Extendable = {}
  /\ calls' = NextChoice
  /\ UNCHANGED <<fixed, pc, uc_set, dc_set, remExts, place, found>>

Cones == IF Top.down THEN DownwardCones(Chosen) ELSE uc_set

Fits(p) == isConvex(p) /\ (IF Top.down THEN outputCheck(p) ELSE inputCheck(p))

JoinedFault ==
  {t \in Product(Extendable, Chosen, Cones) :
     t \cap UNION {ecs[v] : v \in Chosen} = {} /\ Fits(t)}
Joined ==
  {t \in Product(Extendable, Chosen, Cones) :
     t \cap (exclude \cup UNION {ecs[v] : v \in Chosen}) = {} /\ Fits(t)}

(* removeExt: the points that have all their neighbours in the core go. *)
removeExt(ext, core) ==
  {v \in ext : ~((IF Top.down THEN Succs(v) ELSE Preds(v)) \subseteq core)}

Border ==
  LET largest(v) == UNION Cones[v]
  IN  UNION {IF Top.down THEN getInputNodes(largest(v))
             ELSE getOutputNodes(largest(v)) : v \in Chosen}

NewExt == LET grown == UNION Joined IN removeExt(Border \cap grown \cap remExts, grown)

UseChoice == Choosing /\ ~Redundant /\ Extendable # {}

(* Nothing left to extend: the joined patterns are part of the answer. *)
JoinChoice ==
  /\ UseChoice
  /\ NewExt = {}
  /\ calls' = [NextChoice EXCEPT ![Depth].new_core = @ \cup Joined]
  /\ dc_set' = IF Top.down THEN Cones ELSE dc_set
  /\ UNCHANGED <<fixed, pc, uc_set, remExts, place, found>>

(* Union(tmp_core, tmp_ext, !down, ...) *)
Deepen ==
  /\ UseChoice
  /\ NewExt # {}
  /\ calls' = Append(NextChoice, Call(Joined, NewExt, ~Top.down))
  /\ remExts' = remExts \ NewExt
  /\ dc_set' = IF Top.down THEN Cones ELSE dc_set
  /\ UNCHANGED <<fixed, pc, uc_set, place, found>>

(* What a call returns: new_core without the patterns that miss a limit. *)
Answer == {p \in Top.new_core : outputCheck(p) /\ inputCheck(p)}

Returning == pc = "union" /\ Chosen = {}

ReturnToUnion ==
  /\ Returning
  /\ Depth > 1
  /\ calls' = [SubSeq(calls, 1, Depth - 1) EXCEPT ![Depth - 1].new_core = @ \cup Answer]
  /\ UNCHANGED <<fixed, pc, uc_set, dc_set, remExts, place, found>>

ReturnToRun ==
  /\ Returning
  /\ Depth = 1
  /\ calls' = <<>>
  /\ feasiblePatterns' = feasiblePatterns + Cardinality(Answer)
  /\ allPatterns' = IF benchmark THEN allPatterns ELSE allPatterns \cup Answer
  /\ ThroughWith
  /\ pc' = "vertex"
  /\ UNCHANGED <<fixed, region, uc_set, dc_set, remExts, result>>

Done == pc = "done"

Next ==
  \/ Start \/ EmptyGraph
  \/ EnumerateUpwardCones \/ SkipVertex \/ NoExtensions \/ CallUnion
  \/ EndOfRegion \/ Finish
  \/ SkipChoice \/ JoinChoice \/ Deepen \/ ReturnToUnion \/ ReturnToRun
  \/ Done /\ UNCHANGED vars

Spec == Init /\ [][Next]_vars

(* run() is sequential code: it never stops while it can take a step.      *)
(* This is WF_vars(Next), Next being enabled until run() is done (there is *)
(* no deadlock), written without ENABLED, which is costly to evaluate.     *)
FairSpec == Spec /\ ([]<>Done \/ []<><<Next>>_vars)

-----------------------------------------------------------------------------
(***************************************************************************)
(* Type invariant.                                                         *)
(***************************************************************************)
UnionCall == [core : SUBSET SUBSET Node, ext : SUBSET Node, down : BOOLEAN,
              comb : SUBSET Node, new_core : SUBSET SUBSET Node]

TypeOK ==
  /\ IsDFG(dfg) /\ Node = 1..Cardinality(Node) /\ IsReverseTopologicalSort(dfg, topo)
  /\ ports \in Ports /\ benchmark \in BOOLEAN
  /\ pc \in {"start", "region", "vertex", "union", "done"}
  /\ pc # "start" /\ Node # {} =>
       /\ orgRegions \in [Node -> 0..nregions]
       /\ regions \in [Node -> 0..nregions]
       /\ ecs \in [Node -> SUBSET Node]
  /\ region \in 1..(Cardinality(Node) + 1)
  /\ pos \in 1..(Len(topo) + 1)
  /\ DOMAIN uc_set \subseteq Node /\ DOMAIN dc_set \subseteq Node
  /\ exclude \subseteq Node /\ remExts \subseteq Node
  /\ calls \in Seq(UnionCall)
  /\ allPatterns \subseteq SUBSET Node
  /\ feasiblePatterns \in Nat

(***************************************************************************)
(* Whatever cones were joined to get it, a pattern that is kept fits the   *)
(* ports, holds no invalid vertex, is not left and re-entered by a path of *)
(* two edges, and hangs together.                                          *)
(***************************************************************************)
Feasible(p) ==
  /\ p # {} /\ p \cap invalid = {}
  /\ inputCheck(p) /\ outputCheck(p) /\ isConvex(p)

Connected(p) == \A v \in p : p \subseteq Component(v, p)

LegalPatterns == \A p \in allPatterns : Feasible(p) /\ Connected(p)

(***************************************************************************)
(* The cones that calls of Union share are, whenever they were computed    *)
(* and whatever has been excluded since, cones: every vertex of an upward  *)
(* cone leads to its vertex inside the cone, every vertex of a downward    *)
(* cone is led to from it, and both stay in the region.  An upward cone is *)
(* besides not left and re-entered by a path of two edges.                 *)
(***************************************************************************)
Within(C) == [dfg EXCEPT !.edge = {e \in dfg.edge : dfg.src[e] \in C /\ dfg.dst[e] \in C}]

IsUpwardCone(C, v) ==
  /\ v \in C /\ C \subseteq Mates(v) /\ isConvex(C)
  /\ \A u \in C : v \in Descendants(Within(C), {u})

IsDownwardCone(C, v) ==
  v \in C /\ C \subseteq Mates(v) \cap Descendants(Within(C), {v})

ConesAreCones ==
  /\ \A v \in DOMAIN uc_set : \A C \in uc_set[v] : IsUpwardCone(C, v)
  /\ \A v \in DOMAIN dc_set : \A C \in dc_set[v] : IsDownwardCone(C, v)

(***************************************************************************)
(* No pattern is found for two vertices: the number of patterns a          *)
(* benchmark counts is the number of different ones.                       *)
(***************************************************************************)
FoundOnce == ~benchmark => feasiblePatterns = Cardinality(allPatterns)

(***************************************************************************)
(* When run() ends it has found every feasible pattern that is an upward   *)
(* cone of a vertex whose value is used (or is live at the end of the      *)
(* block), unless members of it conflict: dropping neighbours that others  *)
(* lead to, and building cones only from cones that fit, loses none.       *)
(***************************************************************************)
UpwardConeOf(p, v) ==
  /\ v \in p
  /\ \A u \in p \ {v} : Succs(u) \cap p # {}
  /\ Succs(v) \cap p = {}

FindsUpwardCones ==
  Done /\ ~benchmark =>
    \A p \in SUBSET (Node \ invalid) : \A v \in p :
      /\ UpwardConeOf(p, v)
      /\ Feasible(p)
      /\ \A u \in p : ecs[u] \cap p = {}
      /\ getOutputNodes({v}) # {}
      => p \in result

(***************************************************************************)
(* No vertex is an extension point of two active calls of Union, though    *)
(* each call only sees what the others left in remExts; every call uses up *)
(* some of it, which bounds the depth of the recursion.                    *)
(***************************************************************************)
ExtensionsOnce ==
  /\ \A i, j \in 1..Depth : i # j => calls[i].ext \cap calls[j].ext = {}
  /\ \A i \in 1..Depth : calls[i].ext # {} /\ calls[i].ext \cap remExts = {}
  /\ Depth + Cardinality(remExts) <= Cardinality(Node) + 1

(***************************************************************************)
(* run() is through with the vertices of earlier regions, and with those   *)
(* of this region up to the present position, and with no others; there    *)
(* are upward cones for every vertex of the regions it has come to.        *)
(***************************************************************************)
InLoop == pc \in {"vertex", "union"}

Started == pc # "start" /\ Node # {}

RegionsInv ==
  /\ pc = "start" => region = 1 /\ exclude = {} /\ uc_set = <<>> /\ dc_set = <<>>
  /\ Node = {} => pc \in {"start", "done"}
  /\ Started =>
       /\ region <= (IF InLoop THEN nregions ELSE nregions + 1)
       /\ \A v \in Node : /\ orgRegions[v] = 0 <=> v \in invalid
                          /\ regions[v] = IF v \in exclude THEN 0 ELSE orgRegions[v]
       /\ \A v \in exclude :
            \/ orgRegions[v] \in 1..(region - 1)
            \/ InLoop /\ orgRegions[v] = region /\ topoVector(v) < pos
       /\ DOMAIN uc_set = {v \in Node : \/ orgRegions[v] \in 1..(region - 1)
                                        \/ InLoop /\ orgRegions[v] = region}

(***************************************************************************)
(* Every pattern a call of Union holds grows around the vertex run() is    *)
(* at, in its region, and has none of the vertices run() is through with.  *)
(***************************************************************************)
Growing(p) ==
  /\ Vertex \in p /\ p \subseteq Mates(Vertex) /\ p \cap exclude = {}
  /\ isConvex(p) /\ p \subseteq Component(Vertex, p)

CallsInv ==
  /\ pc # "union" => calls = <<>>
  /\ pc = "union" => pos \in DOMAIN topo /\ regions[Vertex] = region /\ calls # <<>>
  /\ \A i \in 1..Depth :
       /\ calls[i].comb \subseteq calls[i].ext /\ calls[i].ext \subseteq Mates(Vertex)
       /\ \A p \in calls[i].core \cup calls[i].new_core : Growing(p)

(***************************************************************************)
(* A pattern that is kept has the vertex it was found for, with which      *)
(* run() is through.                                                       *)
(***************************************************************************)
KeptInv ==
  /\ \A p \in allPatterns : p \cap exclude # {}
  /\ benchmark => allPatterns = {}

(***************************************************************************)
(* The invariant of Union: what its calls share stays what it should be,   *)
(* and what they keep is legal.                                            *)
(***************************************************************************)
UnionInv ==
  /\ TypeOK
  /\ RegionsInv
  /\ ConesAreCones
  /\ ExtensionsOnce
  /\ CallsInv
  /\ KeptInv
  /\ LegalPatterns

(***************************************************************************)
(* run() ends on every graph.                                              *)
(***************************************************************************)
Terminates == <>Done

(***************************************************************************)
(* Every pattern returned can be executed as one instruction.  The comment *)
(* at AlgoUnion.cpp:136 says that a cone is added "if convex and           *)
(* output_check"; isConvex looks along two edges only.                     *)
(***************************************************************************)
ConvexPatterns == \A p \in result : Convex(dfg, p)

(***************************************************************************)
(* AlgoUnion.cpp:582 "check if pattern contains conflicting nodes": only   *)
(* the conflicts of the chosen extension points are looked at.             *)
(***************************************************************************)
NoConflicts == \A p \in result : \A v \in p : ecs[v] \cap p = {}

(***************************************************************************)
(* AlgoUnion.cpp:644 "remove any extension points that do not lead to      *)
(* 'new' nodes": a point that is removed has all its neighbours in the     *)
(* direction of the next call in the core.  removeExt looks in the         *)
(* direction of this call.                                                 *)
(***************************************************************************)
NextNeighbours(v) == IF Top.down THEN Preds(v) ELSE Succs(v)

OnlyUselessRemoved ==
  pc = "union" /\ UseChoice =>
    LET grown == UNION Joined
    IN  \A v \in (grown \cap remExts) \ NewExt :
          v \in Border => NextNeighbours(v) \subseteq grown
=============================================================================
