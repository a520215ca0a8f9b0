---------------------------- MODULE MaxMisoProofs ----------------------------
(***************************************************************************)
(* Proofs about AlgoMaxMiso for every set of data-flow graphs and every    *)
(* reverse topological order.                                              *)
(***************************************************************************)
EXTENDS MaxMiso, FiniteSetTheorems, SequenceTheorems, WellFoundedInduction,
        TLAPS

(***************************************************************************)
(* The out-edges of a vertex are finite, and the fanout array starts with  *)
(* their number, one more for an output.                                   *)
(***************************************************************************)
LEMMA FanoutOrgFacts ==
  ASSUME NEW g, IsDFG(g)
  PROVE  /\ FanoutOrg(g) \in [g.node -> Nat]
         /\ \A v \in g.node :
              /\ IsFiniteSet(OutEdges(g, v))
              /\ Cardinality(OutEdges(g, v)) \in Nat
              /\ FanoutOrg(g)[v] = Cardinality(OutEdges(g, v))
                                   + (IF g.op[v] = "OUTPUT" THEN 1 ELSE 0)
<1>1. ASSUME NEW v PROVE IsFiniteSet(OutEdges(g, v))
  <2>1. OutEdges(g, v) \in SUBSET g.edge
    BY DEF OutEdges
  <2> QED
    BY <2>1, FS_Subset DEF IsDFG
<1>2. ASSUME NEW v PROVE Cardinality(OutEdges(g, v)) \in Nat
  BY <1>1, FS_CardinalityType
<1> QED
  BY <1>1, <1>2 DEF FanoutOrg, OutDegree

(***************************************************************************)
(* The elements of a stack after a call is pushed, and after one is popped.*)
(***************************************************************************)
LEMMA PushElements ==
  ASSUME NEW S, NEW s \in Seq(S), NEW x \in S
  PROVE  /\ <<x>> \o s \in Seq(S)
         /\ <<x>> \o s # <<>>
         /\ Elements(<<x>> \o s) = {x} \cup Elements(s)
<1>1. <<x>> \in Seq(S) /\ Len(<<x>>) = 1 /\ <<x>>[1] = x
  OBVIOUS
<1>2. /\ <<x>> \o s \in Seq(S)
      /\ Len(<<x>> \o s) = 1 + Len(s)
      /\ \A i \in 1..(1 + Len(s)) :
           (<<x>> \o s)[i] = IF i <= 1 THEN <<x>>[i] ELSE s[i - 1]
  <2> HIDE <1>1
  <2> QED BY <1>1, ConcatProperties
<1>3. Len(s) \in Nat
  OBVIOUS
<1>4. {x} \cup Elements(s) \subseteq Elements(<<x>> \o s)
  <2>1. x \in Elements(<<x>> \o s)
    BY <1>1, <1>2, <1>3 DEF Elements
  <2>2. ASSUME NEW i \in 1..Len(s) PROVE s[i] \in Elements(<<x>> \o s)
    <3>1. i + 1 \in 1..(1 + Len(s)) /\ ~(i + 1 <= 1) /\ (i + 1) - 1 = i
      BY <1>3
    <3>2. (<<x>> \o s)[i + 1] = s[i]
      BY <3>1, <1>2
    <3> QED BY <3>1, <3>2, <1>2 DEF Elements
  <2> QED BY <2>1, <2>2 DEF Elements
<1>5. Elements(<<x>> \o s) \subseteq {x} \cup Elements(s)
  <2>1. ASSUME NEW i \in 1..(1 + Len(s)), ~(i <= 1)
        PROVE  (<<x>> \o s)[i] \in Elements(s)
    <3>1. i - 1 \in 1..Len(s)
      BY <2>1, <1>3
    <3>2. (<<x>> \o s)[i] = s[i - 1]
      BY <2>1, <1>2
    <3> QED BY <3>1, <3>2 DEF Elements
  <2>2. ASSUME NEW i \in 1..(1 + Len(s)), i <= 1
        PROVE  (<<x>> \o s)[i] = x
    BY <2>2, <1>1, <1>2, <1>3
  <2> QED BY <2>1, <2>2, <1>2 DEF Elements
<1>6. <<x>> \o s # <<>>
  BY <1>2, <1>3
<1> QED
  BY <1>2, <1>4, <1>5, <1>6

(***************************************************************************)
(* The stack of the outermost call holds that call alone.                  *)
(***************************************************************************)
LEMMA SingletonElements ==
  ASSUME NEW S, NEW x \in S
  PROVE  <<x>> \in Seq(S) /\ <<x>> # <<>> /\ Elements(<<x>>) = {x}
<1>1. <<x>> \in Seq(S) /\ Len(<<x>>) = 1 /\ <<x>>[1] = x
  OBVIOUS
<1>2. <<x>> # <<>>
  BY <1>1, EmptySeq
<1>3. Elements(<<x>>) = {<<x>>[i] : i \in {1}}
  BY <1>1 DEF Elements
<1> QED
  BY <1>1, <1>2, <1>3, Zenon

(***************************************************************************)
(* When a call returns, the calls left are those of the tail.              *)
(***************************************************************************)
LEMMA PopElements ==
  ASSUME NEW S, NEW s \in Seq(S), s # <<>>
  PROVE  /\ Tail(s) \in Seq(S)
         /\ Len(s) = 1 => Tail(s) = <<>>
         /\ Len(s) > 1 => Tail(s) # <<>>
         /\ Head(s) \in Elements(s)
         /\ Elements(s) = {Head(s)} \cup Elements(Tail(s))
<1>1. /\ Tail(s) \in Seq(S)
      /\ Len(Tail(s)) = Len(s) - 1
      /\ \A i \in 1..Len(Tail(s)) : Tail(s)[i] = s[i + 1]
  BY HeadTailProperties
<1>2. Len(s) \in Nat \ {0} /\ Head(s) = s[1]
  OBVIOUS
<1>3. Head(s) \in Elements(s)
  BY <1>2 DEF Elements
<1>4. Elements(Tail(s)) \subseteq Elements(s)
  <2>1. ASSUME NEW i \in 1..Len(Tail(s)) PROVE Tail(s)[i] \in Elements(s)
    <3>1. i + 1 \in 1..Len(s)
      BY <1>1, <1>2
    <3> QED BY <3>1, <1>1 DEF Elements
  <2> QED BY <2>1 DEF Elements
<1>5. Elements(s) \subseteq {Head(s)} \cup Elements(Tail(s))
  <2>1. ASSUME NEW i \in 1..Len(s), i # 1 PROVE s[i] \in Elements(Tail(s))
    <3>1. i - 1 \in 1..Len(Tail(s)) /\ (i - 1) + 1 = i
      BY <2>1, <1>1, <1>2
    <3>2. Tail(s)[i - 1] = s[i]
      BY <3>1, <1>1
    <3> QED BY <3>1, <3>2 DEF Elements
  <2> QED BY <2>1, <1>2 DEF Elements
<1>6. \A t \in Seq(S) : (t = <<>>) <=> (Len(t) = 0)
  BY EmptySeq
<1>7. /\ Len(s) = 1 => Tail(s) = <<>>
      /\ Len(s) > 1 => Tail(s) # <<>>
  <2>1. (Tail(s) = <<>>) <=> (Len(Tail(s)) = 0)
    BY <1>1, <1>6
  <2>2. Len(s) = 1 => Len(Tail(s)) = 0
    BY <1>1, <1>2
  <2>3. Len(s) > 1 => Len(Tail(s)) # 0
    <3>1. \A n \in Nat : n > 1 => n - 1 # 0
      OBVIOUS
    <3> QED BY <3>1, <1>1, <1>2, Zenon
  <2> QED
    BY <2>1, <2>2, <2>3
<1> QED
  BY <1>1, <1>3, <1>4, <1>5, <1>7

-----------------------------------------------------------------------------
(***************************************************************************)
(* The invariant holds before the first round.                             *)
(***************************************************************************)
LEMMA InitEstablishes == Init => WalkInv
<1> SUFFICES ASSUME Init PROVE WalkInv
  OBVIOUS
<1>1. IsDFG(dfg)
  BY GraphsAssumption DEF Init
<1>2. Len(topo) \in Nat /\ it = 1 /\ IsReverseTopologicalSort(dfg, topo)
  BY DEF Init, Start, ReverseTopologicalSorts, IsReverseTopologicalSort
<1>3. FanoutOrg(dfg) \in [dfg.node -> Nat]
  BY <1>1, FanoutOrgFacts
<1>4. TypeOK
  BY <1>1, <1>2, <1>3 DEF Init, TypeOK
<1>5. NoUnderflow
  BY <1>3 DEF Init, NoUnderflow
<1>6. CountIsSize
  BY FS_EmptySet DEF Init, CountIsSize
<1>7. Elements(<<>>) = {}
  BY DEF Elements
<1>8. StackInv
  BY <1>7 DEF Init, StackInv, StackSet
<1>9. OrderInv /\ EarlierInv /\ FoundInv /\ Disjoint /\ SingleOutput
  BY <1>2 DEF Init, OrderInv, EarlierInv, FoundInv, Disjoint, SingleOutput,
              Earlier, InProgress
<1>10. RootInv /\ MemberInv /\ FanoutInv
  BY DEF Init, RootInv, MemberInv, FanoutInv
<1> QED
  BY <1>4, <1>5, <1>6, <1>8, <1>9, <1>10 DEF WalkInv

(***************************************************************************)
(* Between two roots: the iterator passes a processed vertex.              *)
(***************************************************************************)
LEMMA AdvancePreserves == WalkInv /\ Advance => WalkInv'
<1> SUFFICES ASSUME WalkInv, Advance PROVE WalkInv'
  OBVIOUS
<1> USE DEF inputs
<1>1. TypeOK'
  BY DEF WalkInv, TypeOK, Advance, InLoop
<1>2. OrderInv'
  BY DEF WalkInv, TypeOK, OrderInv, Advance, InLoop
<1>3. Earlier' = Earlier /\ stack' = <<>> /\ StackSet' = StackSet
  BY DEF Earlier, InProgress, StackSet, Elements, Advance, InLoop
<1>4. EarlierInv' /\ StackInv' /\ FoundInv'
  BY <1>3 DEF WalkInv, EarlierInv, StackInv, FoundInv, Advance
<1>5. RootInv' /\ MemberInv' /\ FanoutInv'
  BY <1>3 DEF RootInv, MemberInv, FanoutInv
<1>6. NoUnderflow' /\ CountIsSize' /\ Disjoint' /\ SingleOutput'
  BY DEF WalkInv, NoUnderflow, CountIsSize, Disjoint, SingleOutput, Advance
<1> QED
  BY <1>1, <1>2, <1>4, <1>5, <1>6 DEF WalkInv

(***************************************************************************)
(* All users of the vertex at the iterator stand before it, and so were    *)
(* processed: the reverse topological order is what makes the walk right.  *)
(***************************************************************************)
LEMMA UsersAreEarlier ==
  WalkInv /\ InLoop => /\ topo[it] \in dfg.node
                    /\ OutVertices(dfg, topo[it]) \subseteq Earlier
<1> SUFFICES ASSUME WalkInv, InLoop
             PROVE  /\ topo[it] \in dfg.node
                    /\ OutVertices(dfg, topo[it]) \subseteq Earlier
  OBVIOUS
<1>1. /\ topo \in Seq(dfg.node) /\ Len(topo) \in Nat
      /\ DOMAIN topo = 1..Len(topo) /\ it \in DOMAIN topo
  BY DEF WalkInv, TypeOK, IsReverseTopologicalSort, InLoop
<1>2. topo[it] \in dfg.node
  BY <1>1
<1>3. Earlier = processed
  BY DEF Earlier, InProgress, InLoop
<1>4. ASSUME NEW u \in OutVertices(dfg, topo[it]) PROVE u \in processed
  <2>1. u \in dfg.node
    BY DEF WalkInv, TypeOK, IsDFG, OutVertices, OutEdges
  <2>2. PICK j \in DOMAIN topo : topo[j] = u
    BY <2>1 DEF WalkInv, TypeOK, IsReverseTopologicalSort
  <2>3. ~(it <= j)
    BY <1>1, <2>2, <1>4 DEF WalkInv, TypeOK, IsReverseTopologicalSort
  <2>4. j \in 1..(it - 1)
    BY <2>3, <1>1
  <2> QED
    BY <2>2, <2>4 DEF WalkInv, OrderInv
<1> QED
  BY <1>2, <1>3, <1>4

(***************************************************************************)
(* Between two roots: an invalid vertex is marked.                         *)
(***************************************************************************)
LEMMA SkipInvalidPreserves == WalkInv /\ SkipInvalid => WalkInv'
<1> SUFFICES ASSUME WalkInv, SkipInvalid PROVE WalkInv'
  OBVIOUS
<1> USE DEF inputs
<1> DEFINE v == topo[it]
<1>1. /\ v \in dfg.node
      /\ OutVertices(dfg, v) \subseteq Earlier
  BY UsersAreEarlier DEF SkipInvalid
<1>2. FanoutOrg(dfg) \in [dfg.node -> Nat]
  BY FanoutOrgFacts DEF WalkInv, TypeOK
<1>3. TypeOK'
  BY <1>1, <1>2 DEF WalkInv, TypeOK, SkipInvalid, ResetFanout
<1>4. NoUnderflow'
  BY <1>2 DEF NoUnderflow, SkipInvalid, ResetFanout
<1>5. Earlier' = Earlier \cup {v} /\ stack' = <<>> /\ StackSet' = StackSet
  BY DEF Earlier, InProgress, StackSet, Elements, SkipInvalid, InLoop
<1>6. EarlierInv'
  BY <1>1, <1>5 DEF WalkInv, EarlierInv, SkipInvalid
<1>7. OrderInv' /\ FoundInv' /\ StackInv'
  BY <1>5 DEF WalkInv, OrderInv, FoundInv, StackInv, SkipInvalid
<1>8. RootInv' /\ MemberInv' /\ FanoutInv'
  BY <1>5 DEF RootInv, MemberInv, FanoutInv
<1>9. CountIsSize' /\ Disjoint' /\ SingleOutput'
  BY DEF WalkInv, CountIsSize, Disjoint, SingleOutput, SkipInvalid
<1> QED
  BY <1>3, <1>4, <1>6, <1>7, <1>8, <1>9 DEF WalkInv

(***************************************************************************)
(* Between two roots: a valid vertex becomes the root of a new MISO.  No   *)
(* edge is passed yet, and the reset fanout array agrees with that.        *)
(***************************************************************************)
LEMMA StartRootPreserves == WalkInv /\ StartRoot => WalkInv'
<1> SUFFICES ASSUME WalkInv, StartRoot PROVE WalkInv'
  OBVIOUS
<1> USE DEF inputs
<1> DEFINE v == topo[it]
<1>1. /\ v \in dfg.node
      /\ OutVertices(dfg, v) \subseteq Earlier
      /\ v \notin processed
  BY UsersAreEarlier DEF StartRoot
<1>2. /\ FanoutOrg(dfg) \in [dfg.node -> Nat]
      /\ \A u \in dfg.node : FanoutOrg(dfg)[u] \in Nat
  BY FanoutOrgFacts DEF WalkInv, TypeOK
<1>3. /\ stack' = <<v>> /\ stack' # <<>> /\ stack' \in Seq(dfg.node)
      /\ StackSet' = {v}
  <2>1. ASSUME NEW x \in dfg.node
        PROVE  <<x>> # <<>> /\ <<x>> \in Seq(dfg.node) /\ Elements(<<x>>) = {x}
    BY SingletonElements
  <2>2. stack' = <<v>>
    BY DEF StartRoot
  <2>3. StackSet' = Elements(<<v>>)
    BY <2>2 DEF StackSet, Elements
  <2> QED
    BY <1>1, <2>1, <2>2, <2>3
<1>4. todo' = InEdges(dfg, v) /\ todo' \subseteq dfg.edge
  BY DEF StartRoot, InEdges
<1>5. TypeOK'
  BY <1>1, <1>2, <1>3, <1>4 DEF WalkInv, TypeOK, StartRoot, ResetFanout
<1>6. NoUnderflow'
  BY <1>2 DEF NoUnderflow, StartRoot, ResetFanout
<1>7. /\ Earlier = processed
      /\ Earlier' = processed
      /\ result' = {v} /\ Root' = v
  BY <1>1, <1>3 DEF Earlier, InProgress, Root, StartRoot, InLoop
<1>8. EarlierInv' /\ FoundInv'
  BY <1>7 DEF WalkInv, EarlierInv, FoundInv, StartRoot
<1>9. OrderInv'
  BY DEF WalkInv, OrderInv, StartRoot
<1>10. RootInv'
  BY <1>1, <1>7 DEF RootInv, StartRoot, InLoop
<1>11. MemberInv'
  BY <1>7 DEF MemberInv, StartRoot
<1>12. ASSUME NEW u \in dfg.node PROVE Passed(u)' = {}
  BY <1>4, <1>7 DEF Passed, OutEdges, InEdges, StartRoot
<1>13. FanoutInv'
  BY <1>2, <1>12, FS_EmptySet DEF FanoutInv, StartRoot, ResetFanout
<1>14. StackInv'
  BY <1>3, <1>4, <1>7 DEF StackInv, InEdges, StartRoot
<1>15. CountIsSize'
  BY <1>7, FS_Singleton DEF CountIsSize, StartRoot
<1>16. Disjoint'
  <2>1. maxMisos' = maxMisos
    BY DEF StartRoot
  <2>2. \A A \in maxMisos : A \cap {v} = {}
    BY <1>1, <1>7 DEF WalkInv, FoundInv
  <2>3. \A A, B \in maxMisos : A # B => A \cap B = {}
    BY DEF WalkInv, Disjoint
  <2> QED
    BY <1>7, <2>1, <2>2, <2>3 DEF Disjoint
<1>17. SingleOutput'
  BY DEF WalkInv, SingleOutput, StartRoot
<1> QED
  BY <1>5, <1>6, <1>8, <1>9, <1>10, <1>11, <1>13, <1>14, <1>15, <1>16, <1>17
     DEF WalkInv

(***************************************************************************)
(* An edge the innermost call is about to pass leads from a vertex that is *)
(* in no MISO yet: not in an earlier one, whose users are all earlier, and *)
(* not in this one, whose members have no edge left to pass.               *)
(***************************************************************************)
LEMMA ParentIsNew ==
  ASSUME WalkInv, stack # <<>>, NEW e \in OwnEdges
  PROVE  /\ e \in todo /\ e \in dfg.edge
         /\ dfg.src[e] \in dfg.node
         /\ dfg.dst[e] \in result
         /\ dfg.src[e] \notin Earlier
         /\ dfg.src[e] \notin result
<1> DEFINE p == dfg.src[e]
<1>1. /\ e \in todo /\ e \in dfg.edge
      /\ p \in dfg.node
  BY DEF WalkInv, TypeOK, IsDFG, OwnEdges
<1>2. dfg.dst[e] \in result /\ dfg.dst[e] \notin Earlier
  BY <1>1 DEF WalkInv, StackInv, Earlier, InProgress
<1>3. e \in OutEdges(dfg, p) /\ dfg.dst[e] \in OutVertices(dfg, p)
  BY <1>1 DEF OutEdges, OutVertices
<1>4. p \notin Earlier
  BY <1>2, <1>3 DEF WalkInv, EarlierInv
<1>5. p # Root
  BY <1>2, <1>3 DEF WalkInv, RootInv
<1>6. ASSUME p \in result PROVE FALSE
  BY <1>1, <1>3, <1>5, <1>6 DEF WalkInv, MemberInv, Passed
<1> QED
  BY <1>1, <1>2, <1>4, <1>6

(***************************************************************************)
(* Passing the edge e adds it to the passed edges of its source.  The      *)
(* fanout that remains is the number of uses not passed; at zero, all uses *)
(* were passed and none is outside the block.                              *)
(***************************************************************************)
PassedWith(u, e) == IF u = dfg.src[e] THEN Passed(u) \cup {e} ELSE Passed(u)

(***************************************************************************)
(* The edge e takes one off the fanout of its source, and a fanout of zero *)
(* leaves no other use.                                                    *)
(***************************************************************************)
LEMMA PassedGrows ==
  ASSUME WalkInv, stack # <<>>, NEW e \in OwnEdges, NEW u \in dfg.node
  PROVE  /\ TakeFanout(dfg.src[e])[u] = FanoutOrg(dfg)[u] - Cardinality(PassedWith(u, e))
         /\ TakeFanout(dfg.src[e])[u] >= 0
         /\ TakeFanout(dfg.src[e])[u] = 0 => /\ dfg.op[u] # "OUTPUT"
                                            /\ PassedWith(u, e) = OutEdges(dfg, u)
<1> DEFINE p == dfg.src[e]
           now == PassedWith(u, e)
           out == OutEdges(dfg, u)
<1>1. /\ e \in todo /\ e \in dfg.edge
      /\ p \in dfg.node
      /\ dfg.dst[e] \in result
      /\ p \notin result
  BY ParentIsNew
<1>2. now = IF u = p THEN Passed(u) \cup {e} ELSE Passed(u)
  BY DEF PassedWith
<1>3. e \notin Passed(u)
  BY <1>1 DEF Passed
<1>4. /\ IsFiniteSet(out) /\ Cardinality(out) \in Nat
      /\ Passed(u) \in SUBSET out
      /\ now \in SUBSET out
  BY <1>1, FanoutOrgFacts DEF WalkInv, TypeOK, Passed, PassedWith, OutEdges
<1>5. /\ IsFiniteSet(Passed(u)) /\ Cardinality(Passed(u)) \in Nat
      /\ IsFiniteSet(now) /\ Cardinality(now) \in Nat
      /\ Cardinality(now) <= Cardinality(out)
      /\ (Cardinality(now) = Cardinality(out)) => now = out
  <2> HIDE DEF now, out
  <2> QED BY <1>4, FS_Subset, FS_CardinalityType
<1>6. Cardinality(now) = IF u = p THEN Cardinality(Passed(u)) + 1
                                  ELSE Cardinality(Passed(u))
  <2> HIDE DEF now
  <2> QED BY <1>2, <1>3, <1>5, FS_AddElement
<1>7. /\ fanout \in [dfg.node -> Int]
      /\ FanoutOrg(dfg)[u] \in Nat
      /\ FanoutOrg(dfg)[u] = Cardinality(out) + (IF dfg.op[u] = "OUTPUT" THEN 1 ELSE 0)
      /\ fanout[u] = FanoutOrg(dfg)[u] - Cardinality(Passed(u))
  BY FanoutOrgFacts DEF WalkInv, TypeOK, FanoutInv
<1>8. TakeFanout(p)[u] = IF u = p THEN fanout[u] - 1 ELSE fanout[u]
  BY <1>7 DEF TakeFanout
<1> HIDE DEF now, p, out
<1>9. TakeFanout(p)[u] = FanoutOrg(dfg)[u] - Cardinality(now)
  BY <1>5, <1>6, <1>7, <1>8
<1>10. TakeFanout(p)[u] >= 0
  BY <1>4, <1>5, <1>7, <1>9
<1>11. ASSUME TakeFanout(p)[u] = 0
       PROVE  dfg.op[u] # "OUTPUT" /\ now = out
  <2>1. FanoutOrg(dfg)[u] = Cardinality(now)
    BY <1>5, <1>7, <1>9, <1>11
  <2>2. CASE dfg.op[u] = "OUTPUT"
    <3>1. FanoutOrg(dfg)[u] = Cardinality(out) + 1
      BY <1>7, <2>2
    <3> QED BY <1>4, <1>5, <2>1, <3>1
  <2>3. CASE dfg.op[u] # "OUTPUT"
    <3>1. FanoutOrg(dfg)[u] = Cardinality(out)
      BY <1>4, <1>7, <2>3
    <3> QED BY <1>5, <2>1, <2>3, <3>1
  <2> QED BY <2>2, <2>3
<1> QED
  BY <1>5, <1>9, <1>10, <1>11 DEF now, p, out

(***************************************************************************)
(* An edge is passed and its source stays outside.                         *)
(***************************************************************************)
LEMMA PassEdgePreserves ==
  ASSUME WalkInv, NEW e \in todo, PassEdge(e)
  PROVE  WalkInv'
<1> USE DEF inputs
<1> DEFINE p == dfg.src[e]
<1>1. /\ e \in OwnEdges /\ stack # <<>>
      /\ stack' = stack /\ stack' # <<>>
      /\ result' = result /\ todo' = todo \ {e}
      /\ fanout' = TakeFanout(p)
      /\ dfg' = dfg
      /\ Earlier' = Earlier /\ StackSet' = StackSet /\ Root' = Root
  BY DEF PassEdge, Remaining, Earlier, InProgress, StackSet, Elements, Root
<1>2. /\ e \in dfg.edge /\ p \in dfg.node /\ p \notin result
      /\ e \in todo /\ dfg.dst[e] \in result
  BY <1>1, ParentIsNew
<1>3. ASSUME NEW u \in dfg.node
      PROVE  /\ Passed(u)' = IF u = p THEN Passed(u) \cup {e} ELSE Passed(u)
             /\ fanout'[u] = FanoutOrg(dfg)[u] - Cardinality(Passed(u)')
             /\ fanout'[u] >= 0
  <2>1. Passed(u)' = PassedWith(u, e)
    BY <1>1, <1>2 DEF Passed, PassedWith, OutEdges
  <2> QED
    BY <1>1, <2>1, PassedGrows, ZenonT(60) DEF PassedWith
<1>4. FanoutInv'
  BY <1>1, <1>3 DEF FanoutInv
<1>5. NoUnderflow'
  BY <1>1, <1>3 DEF NoUnderflow
<1>6. TypeOK'
  <2>1. fanout' \in [dfg.node -> Int]
    BY <1>1, <1>2 DEF WalkInv, TypeOK, TakeFanout
  <2> QED
    BY <1>1, <2>1 DEF WalkInv, TypeOK, PassEdge
<1>7. OrderInv' /\ EarlierInv' /\ RootInv' /\ FoundInv'
  BY <1>1 DEF WalkInv, OrderInv, EarlierInv, RootInv, FoundInv, PassEdge
<1>8. StackInv'
  BY <1>1 DEF WalkInv, StackInv
<1>9. MemberInv'
  <2> SUFFICES ASSUME NEW u \in result
               PROVE  /\ ~Invalid(dfg, u)
                      /\ u # Root => /\ dfg.op[u] # "OUTPUT"
                                     /\ OutEdges(dfg, u) # {}
                                     /\ OutEdges(dfg, u) \subseteq Passed(u)'
    BY <1>1 DEF MemberInv
  <2>1. u \in dfg.node /\ u # p
    BY <1>2 DEF WalkInv, TypeOK
  <2> QED
    BY <1>1, <1>3, <2>1 DEF WalkInv, MemberInv
<1>10. CountIsSize' /\ Disjoint' /\ SingleOutput'
  BY <1>1 DEF WalkInv, CountIsSize, Disjoint, SingleOutput, PassEdge
<1> QED
  BY <1>4, <1>5, <1>6, <1>7, <1>8, <1>9, <1>10 DEF WalkInv

(***************************************************************************)
(* An edge is passed and its source, all of whose uses are now passed,     *)
(* joins the MISO: a fanout of zero leaves room for no other use and for   *)
(* no use outside the block.                                               *)
(***************************************************************************)
LEMMA AbsorbParentPreserves ==
  ASSUME WalkInv, NEW e \in todo, AbsorbParent(e)
  PROVE  WalkInv'
<1> USE DEF inputs
<1> DEFINE p == dfg.src[e]
<1>1. /\ e \in OwnEdges /\ stack # <<>> /\ ~Invalid(dfg, p)
      /\ TakeFanout(p)[p] = 0
      /\ stack' = <<p>> \o stack
      /\ result' = result \cup {p}
      /\ processed' = processed \cup {p}
      /\ todo' = (todo \ {e}) \cup InEdges(dfg, p)
      /\ fanout' = TakeFanout(p)
      /\ dfg' = dfg /\ Root' = Root /\ maxMisos' = maxMisos
  BY DEF AbsorbParent, Remaining, Root, Joins
<1>2. /\ e \in dfg.edge /\ p \in dfg.node
      /\ p \notin result /\ p \notin Earlier
      /\ e \in OutEdges(dfg, p)
      /\ e \in todo /\ dfg.dst[e] \in result
  BY <1>1, ParentIsNew DEF OutEdges
<1>3. /\ stack' \in Seq(dfg.node) /\ stack' # <<>>
      /\ StackSet' = {p} \cup StackSet
  <2>1. stack \in Seq(dfg.node)
    BY DEF WalkInv, TypeOK
  <2>2. StackSet' = Elements(<<p>> \o stack)
    BY <1>1 DEF StackSet, Elements
  <2> QED
    BY <1>1, <1>2, <2>1, <2>2, PushElements DEF StackSet
<1>4. Earlier' = Earlier
  BY <1>1, <1>2, <1>3 DEF Earlier, InProgress
<1>5. ASSUME NEW u \in dfg.node
      PROVE  /\ Passed(u)' = IF u = p THEN Passed(u) \cup {e} ELSE Passed(u)
             /\ fanout'[u] = FanoutOrg(dfg)[u] - Cardinality(Passed(u)')
             /\ fanout'[u] >= 0
             /\ fanout'[u] = 0 => /\ dfg.op[u] # "OUTPUT"
                                 /\ Passed(u)' = OutEdges(dfg, u)
  <2>1. Passed(u)' = PassedWith(u, e)
    BY <1>1, <1>2 DEF Passed, PassedWith, OutEdges, InEdges
  <2>2. /\ TakeFanout(p)[u] = FanoutOrg(dfg)[u] - Cardinality(PassedWith(u, e))
        /\ TakeFanout(p)[u] >= 0
        /\ TakeFanout(p)[u] = 0 => /\ dfg.op[u] # "OUTPUT"
                                  /\ PassedWith(u, e) = OutEdges(dfg, u)
    BY <1>1, PassedGrows
  <2> QED
    BY <1>1, <2>1, <2>2 DEF PassedWith
<1>6. FanoutInv'
  BY <1>1, <1>5 DEF FanoutInv
<1>7. NoUnderflow'
  BY <1>1, <1>5 DEF NoUnderflow
<1>8. dfg.op[p] # "OUTPUT" /\ OutEdges(dfg, p) = Passed(p)'
  BY <1>1, <1>2, <1>5
<1>9. TypeOK'
  <2>1. fanout' \in [dfg.node -> Int]
    BY <1>1, <1>2 DEF WalkInv, TypeOK, TakeFanout
  <2>2. todo' \subseteq dfg.edge
    BY <1>1 DEF WalkInv, TypeOK, InEdges
  <2>3. nodes' \in Nat
    BY DEF WalkInv, TypeOK, AbsorbParent, Counted
  <2> QED
    BY <1>1, <1>2, <1>3, <2>1, <2>2, <2>3 DEF WalkInv, TypeOK, AbsorbParent
<1>10. OrderInv' /\ EarlierInv' /\ FoundInv'
  BY <1>1, <1>4 DEF WalkInv, OrderInv, EarlierInv, FoundInv, AbsorbParent
<1>11. RootInv'
  BY <1>1, <1>4 DEF WalkInv, RootInv, AbsorbParent
<1>12. StackInv'
  BY <1>1, <1>3 DEF WalkInv, StackInv, InEdges
<1>13. MemberInv'
  <2> SUFFICES ASSUME NEW u \in result \cup {p}
               PROVE  /\ ~Invalid(dfg, u)
                      /\ u # Root => /\ dfg.op[u] # "OUTPUT"
                                     /\ OutEdges(dfg, u) # {}
                                     /\ OutEdges(dfg, u) \subseteq Passed(u)'
    BY <1>1 DEF MemberInv
  <2>1. CASE u = p
    BY <1>1, <1>2, <1>8, <2>1
  <2>2. CASE u \in result
    <3>1. u \in dfg.node /\ u # p
      BY <1>2, <2>2 DEF WalkInv, TypeOK
    <3> QED
      BY <1>1, <1>5, <2>2, <3>1 DEF WalkInv, MemberInv
  <2> QED
    BY <2>1, <2>2
<1>14. CountIsSize'
  <2>1. IsFiniteSet(result)
    BY FS_Subset DEF WalkInv, TypeOK, IsDFG
  <2>2. nodes' = Cardinality(result) + 1
    BY DEF WalkInv, CountIsSize, AbsorbParent, Counted
  <2> QED
    BY <1>1, <1>2, <2>1, <2>2, FS_AddElement DEF CountIsSize
<1>15. Disjoint'
  <2>1. \A A \in maxMisos : A \cap (result \cup {p}) = {}
    BY <1>1, <1>2 DEF WalkInv, FoundInv, Earlier, InProgress
  <2>2. \A A, B \in maxMisos : A # B => A \cap B = {}
    BY DEF WalkInv, Disjoint
  <2> QED
    BY <1>1, <2>1, <2>2 DEF Disjoint
<1>16. SingleOutput'
  BY <1>1 DEF WalkInv, SingleOutput
<1> QED
  BY <1>6, <1>7, <1>9, <1>10, <1>11, <1>12, <1>13, <1>14, <1>15, <1>16 DEF WalkInv

(***************************************************************************)
(* A call that has passed its edges returns: no edge that is left was its. *)
(***************************************************************************)
LEMMA ReturnToCallerPreserves == WalkInv /\ ReturnToCaller => WalkInv'
<1> SUFFICES ASSUME WalkInv, ReturnToCaller PROVE WalkInv'
  OBVIOUS
<1> USE DEF inputs
<1>1. /\ stack \in Seq(dfg.node) /\ stack # <<>> /\ Len(stack) > 1
  BY EmptySeq DEF WalkInv, TypeOK, ReturnToCaller
<1>2. /\ stack' = Tail(stack)
      /\ stack' \in Seq(dfg.node) /\ stack' # <<>>
      /\ Elements(stack) = {Head(stack)} \cup Elements(stack')
  BY <1>1, PopElements DEF ReturnToCaller
<1>3. StackSet = {Head(stack)} \cup StackSet'
  BY <1>2 DEF StackSet, Elements
<1>4. TypeOK'
  BY <1>2 DEF WalkInv, TypeOK, ReturnToCaller
<1>5. StackInv'
  <2>1. \A e \in todo : dfg.dst[e] # Head(stack)
    BY DEF ReturnToCaller, OwnEdges
  <2> QED
    BY <1>3, <2>1 DEF WalkInv, StackInv, ReturnToCaller
<1>6. /\ Earlier' = Earlier /\ Root' = Root
      /\ \A v : Passed(v)' = Passed(v)
  BY <1>1, <1>2 DEF Earlier, InProgress, Root, Passed, OutEdges, ReturnToCaller
<1>7. OrderInv' /\ EarlierInv' /\ FoundInv' /\ RootInv'
  BY <1>1, <1>6 DEF WalkInv, OrderInv, EarlierInv, FoundInv, RootInv, ReturnToCaller
<1>8. MemberInv' /\ FanoutInv'
  BY <1>1, <1>6 DEF WalkInv, MemberInv, FanoutInv, ReturnToCaller
<1>9. NoUnderflow' /\ CountIsSize' /\ Disjoint' /\ SingleOutput'
  BY DEF WalkInv, NoUnderflow, CountIsSize, Disjoint, SingleOutput, ReturnToCaller
<1> QED
  BY <1>4, <1>5, <1>7, <1>8, <1>9 DEF WalkInv

(***************************************************************************)
(* The outermost call returns: the MISO is complete, and what it took has  *)
(* become earlier.                                                         *)
(***************************************************************************)
LEMMA ReturnToRunPreserves == WalkInv /\ ReturnToRun => WalkInv'
<1> SUFFICES ASSUME WalkInv, ReturnToRun PROVE WalkInv'
  OBVIOUS
<1> USE DEF inputs
<1>1. stack \in Seq(dfg.node) /\ stack # <<>> /\ Len(stack) = 1
  <2>1. stack \in Seq(dfg.node) /\ Len(stack) = 1
    BY DEF WalkInv, TypeOK, ReturnToRun
  <2>2. stack = <<>> => Len(stack) = 0
    BY EmptySeq
  <2> QED
    BY <2>1, <2>2
<1>2. /\ stack' = <<>> /\ result' = result /\ todo' = todo
      /\ processed' = processed /\ dfg' = dfg
      /\ \/ maxMisos' = maxMisos
         \/ maxMisos' = maxMisos \cup {result}
  BY DEF ReturnToRun, Keep
<1>3. Elements(<<>>) = {} /\ <<>> \in Seq(dfg.node)
  BY DEF Elements
<1>4. StackSet = {Head(stack)} /\ StackSet' = {}
  <2>1. Tail(stack) = <<>> /\ Elements(stack) = {Head(stack)} \cup Elements(Tail(stack))
    BY <1>1, PopElements
  <2>2. StackSet = {Head(stack)}
    BY <1>3, <2>1 DEF StackSet
  <2>3. StackSet' = Elements(<<>>)
    BY <1>2 DEF StackSet, Elements
  <2> QED
    BY <1>3, <2>2, <2>3
<1>5. todo = {}
  BY <1>4 DEF WalkInv, StackInv, ReturnToRun, OwnEdges
<1>6. TypeOK'
  BY <1>2, <1>3 DEF WalkInv, TypeOK, ReturnToRun
<1>7. StackInv'
  BY <1>2, <1>4, <1>5 DEF StackInv
<1>8. /\ Earlier = processed \ result /\ Earlier' = processed
      /\ result \subseteq processed
  BY <1>1, <1>2 DEF WalkInv, RootInv, Earlier, InProgress
<1>9. SingleOutputAt(dfg, result, Root) /\ Root \in result
      /\ \A v \in result : ~Invalid(dfg, v)
  BY <1>1 DEF WalkInv, RootInv, MemberInv, SingleOutputAt, Passed, OutVertices
<1>10. EarlierInv'
  <2>1. \A v \in Earlier : OutVertices(dfg, v) \subseteq processed
    BY <1>8 DEF WalkInv, EarlierInv
  <2>2. OutVertices(dfg, Root) \subseteq processed
    BY <1>1, <1>8 DEF WalkInv, RootInv
  <2>3. \A v \in result \ {Root} : OutVertices(dfg, v) \subseteq processed
    BY <1>8, <1>9 DEF SingleOutputAt
  <2> QED
    BY <1>2, <1>8, <2>1, <2>2, <2>3 DEF EarlierInv
<1>11. FoundInv'
  BY <1>2, <1>8 DEF WalkInv, FoundInv
<1>12. OrderInv' /\ NoUnderflow' /\ CountIsSize'
  BY DEF WalkInv, OrderInv, NoUnderflow, CountIsSize, ReturnToRun
<1>13. RootInv' /\ MemberInv' /\ FanoutInv'
  BY <1>2 DEF RootInv, MemberInv, FanoutInv
<1>14. Disjoint'
  BY <1>2 DEF WalkInv, Disjoint
<1>15. SingleOutput'
  BY <1>2, <1>9 DEF WalkInv, SingleOutput
<1> QED
  BY <1>6, <1>7, <1>10, <1>11, <1>12, <1>13, <1>14, <1>15 DEF WalkInv

(***************************************************************************)
(* A finished run changes nothing.                                         *)
(***************************************************************************)
LEMMA StutterPreserves == WalkInv /\ UNCHANGED vars => WalkInv'
<1> SUFFICES ASSUME WalkInv, UNCHANGED vars PROVE WalkInv'
  OBVIOUS
<1>1. /\ Earlier' = Earlier /\ StackSet' = StackSet /\ Root' = Root
      /\ \A v : Passed(v)' = Passed(v)
  BY DEF Earlier, InProgress, StackSet, Elements, Root, Passed, OutEdges, vars
<1>2. TypeOK' /\ OrderInv' /\ EarlierInv' /\ FoundInv' /\ StackInv'
  BY <1>1 DEF WalkInv, TypeOK, OrderInv, EarlierInv, FoundInv, StackInv, vars
<1>3. RootInv' /\ MemberInv' /\ FanoutInv'
  BY <1>1 DEF WalkInv, RootInv, MemberInv, FanoutInv, vars
<1>4. NoUnderflow' /\ CountIsSize' /\ Disjoint' /\ SingleOutput'
  BY DEF WalkInv, NoUnderflow, CountIsSize, Disjoint, SingleOutput, vars
<1> QED
  BY <1>2, <1>3, <1>4 DEF WalkInv

(***************************************************************************)
(* Every step of run() and of generateMaxMiso preserves the invariant.     *)
(***************************************************************************)
LEMMA NextPreserves == WalkInv /\ [Next]_vars => WalkInv'
<1> SUFFICES ASSUME WalkInv, [Next]_vars PROVE WalkInv'
  OBVIOUS
<1>1. CASE Advance
  BY <1>1, AdvancePreserves
<1>2. CASE SkipInvalid
  BY <1>2, SkipInvalidPreserves
<1>3. CASE StartRoot
  BY <1>3, StartRootPreserves
<1>4. CASE Climb
  BY <1>4, PassEdgePreserves, AbsorbParentPreserves DEF Climb
<1>5. CASE ReturnToCaller
  BY <1>5, ReturnToCallerPreserves
<1>6. CASE ReturnToRun
  BY <1>6, ReturnToRunPreserves
<1>7. CASE UNCHANGED vars
  BY <1>7, StutterPreserves
<1> QED
  BY <1>1, <1>2, <1>3, <1>4, <1>5, <1>6, <1>7 DEF Next

-----------------------------------------------------------------------------
(***************************************************************************)
(* A set of numbers has a least one.                                       *)
(***************************************************************************)
LEMMA LeastElement ==
  ASSUME NEW T, T \subseteq Nat, T # {}
  PROVE  \E m \in T : \A k \in T : m <= k
<1>1. PICK m \in T : \A k \in T : ~(<<k, m>> \in OpToRel(<, Nat))
  BY NatLessThanWellFounded, WFMin
<1>2. \A k \in T : ~(k < m)
  BY <1>1 DEF OpToRel
<1> QED
  BY <1>2

(***************************************************************************)
(* Of some vertices, one comes first in a reverse topological order; none  *)
(* of the others uses it.                                                  *)
(***************************************************************************)
LEMMA FirstVertex ==
  ASSUME NEW g, IsDFG(g), NEW t, IsReverseTopologicalSort(g, t),
         NEW X, X \subseteq g.node, X # {}
  PROVE  \E v \in X : /\ OutVertices(g, v) \cap X = {}
                      /\ \A i, j \in DOMAIN t :
                           t[i] = v /\ t[j] \in X => i <= j
<1> DEFINE Places == {i \in DOMAIN t : t[i] \in X}
<1>1. t \in Seq(g.node) /\ DOMAIN t = 1..Len(t) /\ Len(t) \in Nat
  BY DEF IsReverseTopologicalSort
<1>2. Places \subseteq Nat /\ Places # {}
  BY <1>1 DEF IsReverseTopologicalSort
<1>3. PICK m \in Places : \A k \in Places : m <= k
  BY <1>2, LeastElement
<1>4. ASSUME NEW u \in OutVertices(g, t[m]), u \in X PROVE FALSE
  <2>1. PICK k \in DOMAIN t : t[k] = u
    BY <1>4 DEF IsReverseTopologicalSort
  <2>2. m <= k
    BY <1>3, <1>4, <2>1
  <2> QED
    BY <1>3, <1>4, <2>1, <2>2 DEF IsReverseTopologicalSort
<1>5. ASSUME NEW i \in DOMAIN t, t[i] = t[m] PROVE i = m
  BY <1>1, <1>3, <1>5 DEF IsReverseTopologicalSort
<1> QED
  BY <1>3, <1>4, <1>5

(***************************************************************************)
(* Two MISOs, the second with its root in the first: together they are one.*)
(***************************************************************************)
LEMMA JoinMisos ==
  ASSUME NEW g, NEW M, IsMiso(g, M),
         NEW L, \A v \in L : ~Invalid(g, v),
         NEW q \in M, SingleOutputAt(g, L, q)
  PROVE  IsMiso(g, M \cup L)
<1>1. PICK r \in M : SingleOutputAt(g, M, r)
  BY DEF IsMiso
<1>2. SingleOutputAt(g, M \cup L, r)
  <2> SUFFICES ASSUME NEW v \in (M \cup L) \ {r}
               PROVE  /\ g.op[v] # "OUTPUT"
                      /\ OutEdges(g, v) # {}
                      /\ OutVertices(g, v) \subseteq M \cup L
    BY DEF SingleOutputAt
  <2>1. CASE v \in M
    BY <1>1, <2>1 DEF SingleOutputAt
  <2>2. CASE v \notin M
    BY <2>2 DEF SingleOutputAt
  <2> QED
    BY <2>1, <2>2
<1> QED
  BY <1>1, <1>2 DEF IsMiso

(***************************************************************************)
(* A MISO whose root lies in a maximal one lies in it entirely.            *)
(***************************************************************************)
LEMMA MaximalTakesAll ==
  ASSUME NEW g, NEW M \in MaximalMisos(g),
         NEW L \in SUBSET g.node, \A v \in L : ~Invalid(g, v),
         NEW q \in M, SingleOutputAt(g, L, q)
  PROVE  L \subseteq M
<1>1. M \in SUBSET g.node /\ IsMiso(g, M)
  BY DEF MaximalMisos
<1>2. M \cup L \in SUBSET g.node /\ IsMiso(g, M \cup L)
  BY <1>1, JoinMisos
<1>3. M \cup L = M
  BY <1>1, <1>2 DEF MaximalMisos
<1> QED
  BY <1>3

(***************************************************************************)
(* No vertex outside S is valid, used by S and by nothing else: there is   *)
(* no vertex left that could join.                                         *)
(***************************************************************************)
Closed(g, S) ==
  \A v \in g.node \ S :
    OutVertices(g, v) \cap S # {} => \/ Invalid(g, v)
                                    \/ g.op[v] = "OUTPUT"
                                    \/ ~(OutVertices(g, v) \subseteq S)

(***************************************************************************)
(* A MISO whose root lies in a closed set lies in it entirely: the first   *)
(* of its vertices outside would have all its users inside.                *)
(***************************************************************************)
LEMMA ClosedTakesAll ==
  ASSUME NEW g, IsDFG(g), NEW t, IsReverseTopologicalSort(g, t),
         NEW S, Closed(g, S),
         NEW L \in SUBSET g.node, \A v \in L : ~Invalid(g, v),
         NEW q \in S, SingleOutputAt(g, L, q)
  PROVE  L \subseteq S
<1> SUFFICES ASSUME L \ S # {} PROVE FALSE
  OBVIOUS
<1>1. PICK v \in L \ S : OutVertices(g, v) \cap (L \ S) = {}
  BY FirstVertex
<1>2. /\ v \in L \ {q} /\ v \in g.node \ S
      /\ g.op[v] # "OUTPUT" /\ OutEdges(g, v) # {}
      /\ OutVertices(g, v) \subseteq L
  BY <1>1 DEF SingleOutputAt
<1>3. OutVertices(g, v) # {} /\ OutVertices(g, v) \subseteq S
  BY <1>1, <1>2 DEF OutVertices
<1> QED
  BY <1>2, <1>3 DEF Closed

(***************************************************************************)
(* The root of a MISO comes before its other members.                      *)
(***************************************************************************)
LEMMA RootIsFirst ==
  ASSUME NEW g, IsDFG(g), NEW t, IsReverseTopologicalSort(g, t),
         NEW L \in SUBSET g.node, NEW q \in L, SingleOutputAt(g, L, q),
         NEW i \in DOMAIN t, NEW j \in DOMAIN t, t[i] = q, t[j] \in L
  PROVE  i <= j
<1>1. PICK v \in L : /\ OutVertices(g, v) \cap L = {}
                     /\ \A k, l \in DOMAIN t :
                          t[k] = v /\ t[l] \in L => k <= l
  BY FirstVertex
<1>2. v = q
  BY <1>1 DEF SingleOutputAt, OutVertices
<1> QED
  BY <1>1, <1>2

-----------------------------------------------------------------------------
(***************************************************************************)
(* Only marking an invalid vertex and the return of the outermost call     *)
(* change what earlier roots took, and only they and no other step can     *)
(* add a pattern.                                                          *)
(***************************************************************************)
LEMMA EarlierStays ==
  ASSUME WalkInv,
         Advance \/ StartRoot \/ Climb \/ ReturnToCaller \/ UNCHANGED vars
  PROVE  Earlier' = Earlier /\ UNCHANGED <<inputs, maxMisos>>
<1> USE DEF inputs, Earlier, InProgress
<1>1. CASE Advance
  BY <1>1 DEF Advance, InLoop
<1>2. CASE StartRoot
  <2>1. <<topo[it]>> # <<>>
    BY <1>2, UsersAreEarlier, SingletonElements DEF StartRoot
  <2> QED
    BY <1>2, <2>1 DEF StartRoot, InLoop
<1>3. ASSUME NEW e \in todo, PassEdge(e)
      PROVE  Earlier' = Earlier /\ UNCHANGED <<inputs, maxMisos>>
  BY <1>3 DEF PassEdge
<1>4. ASSUME NEW e \in todo, AbsorbParent(e)
      PROVE  Earlier' = Earlier /\ UNCHANGED <<inputs, maxMisos>>
  <2> DEFINE p == dfg.src[e]
  <2>1. /\ stack # <<>> /\ e \in OwnEdges /\ stack' = <<p>> \o stack
        /\ result' = result \cup {p} /\ processed' = processed \cup {p}
    BY <1>4 DEF AbsorbParent
  <2>2. p \in dfg.node /\ p \notin Earlier /\ p \notin result
    BY <2>1, ParentIsNew
  <2>3. stack' # <<>>
    BY <2>1, <2>2, PushElements DEF WalkInv, TypeOK
  <2> QED
    BY <1>4, <2>1, <2>2, <2>3 DEF AbsorbParent
<1>5. CASE ReturnToCaller
  <2>1. stack \in Seq(dfg.node) /\ stack # <<>> /\ Tail(stack) # <<>>
    BY <1>5, EmptySeq, PopElements DEF ReturnToCaller, WalkInv, TypeOK
  <2> QED
    BY <1>5, <2>1 DEF ReturnToCaller
<1>6. CASE UNCHANGED vars
  BY <1>6 DEF vars
<1> QED
  BY <1>1, <1>2, <1>3, <1>4, <1>5, <1>6 DEF Climb

(***************************************************************************)
(* Every step keeps BoundaryInv: an edge that is passed and does not make  *)
(* its source join leaves a use of the source that was not passed.         *)
(***************************************************************************)
LEMMA BoundaryPreserved == WalkInv /\ BoundaryInv /\ [Next]_vars => BoundaryInv'
<1> SUFFICES ASSUME WalkInv, BoundaryInv, [Next]_vars PROVE BoundaryInv'
  OBVIOUS
<1> USE DEF inputs
<1>1. CASE Advance \/ SkipInvalid \/ ReturnToRun
  <2>1. stack' = <<>>
    BY <1>1 DEF Advance, SkipInvalid, ReturnToRun, InLoop
  <2> QED
    BY <2>1 DEF BoundaryInv
<1>2. CASE StartRoot
  <2>1. \A u : Passed(u)' = {}
    BY <1>2, UsersAreEarlier
       DEF StartRoot, Passed, OutEdges, InEdges, OutVertices, Earlier, WalkInv,
           TypeOK, IsDFG
  <2> QED
    BY <2>1 DEF BoundaryInv
<1>3. ASSUME NEW e \in todo, PassEdge(e) PROVE BoundaryInv'
  <2> DEFINE p == dfg.src[e]
  <2>1. /\ e \in OwnEdges /\ stack # <<>> /\ ~Joins(p)
        /\ dfg' = dfg /\ result' = result /\ todo' = todo \ {e}
    BY <1>3 DEF PassEdge, Remaining
  <2>2. e \in dfg.edge /\ p \in dfg.node /\ e \in todo /\ dfg.dst[e] \in result
    BY <2>1, ParentIsNew
  <2>3. \A v : Passed(v)' = PassedWith(v, e)
    BY <2>1, <2>2 DEF Passed, PassedWith, OutEdges
  <2>4. ASSUME ~Invalid(dfg, p), OutEdges(dfg, p) \subseteq PassedWith(p, e)
        PROVE  dfg.op[p] = "OUTPUT"
    <3>1. /\ TakeFanout(p)[p] = FanoutOrg(dfg)[p] - Cardinality(PassedWith(p, e))
          /\ TakeFanout(p)[p] # 0
      BY <2>1, <2>2, <2>4, PassedGrows DEF Joins
    <3>2. PassedWith(p, e) = OutEdges(dfg, p)
      BY <2>2, <2>4 DEF PassedWith, Passed, OutEdges
    <3>3. /\ Cardinality(OutEdges(dfg, p)) \in Nat
          /\ FanoutOrg(dfg)[p] = Cardinality(OutEdges(dfg, p))
                                 + (IF dfg.op[p] = "OUTPUT" THEN 1 ELSE 0)
      BY <2>2, FanoutOrgFacts DEF WalkInv, TypeOK
    <3> QED
      BY <3>1, <3>2, <3>3
  <2>5. ASSUME NEW v \in dfg.node \ result, PassedWith(v, e) # {}
        PROVE  \/ Invalid(dfg, v)
               \/ dfg.op[v] = "OUTPUT"
               \/ ~(OutEdges(dfg, v) \subseteq PassedWith(v, e))
    <3>1. CASE v = p
      BY <2>4, <3>1
    <3>2. CASE v # p
      BY <2>1, <2>5, <3>2 DEF PassedWith, BoundaryInv
    <3> QED
      BY <3>1, <3>2
  <2> QED
    BY <2>1, <2>3, <2>5 DEF BoundaryInv, Invalid, OutEdges
<1>4. ASSUME NEW e \in todo, AbsorbParent(e) PROVE BoundaryInv'
  <2> DEFINE p == dfg.src[e]
  <2>1. /\ e \in OwnEdges /\ stack # <<>>
        /\ dfg' = dfg /\ result' = result \cup {p}
        /\ todo' = (todo \ {e}) \cup InEdges(dfg, p)
    BY <1>4 DEF AbsorbParent, Remaining
  <2>2. /\ e \in dfg.edge /\ p \in dfg.node /\ p \notin result
        /\ e \in todo /\ dfg.dst[e] \in result
    BY <2>1, ParentIsNew
  <2>3. ASSUME NEW v \in dfg.node, v # p PROVE Passed(v)' = Passed(v)
    BY <2>1, <2>2, <2>3 DEF Passed, OutEdges, InEdges
  <2> QED
    BY <2>1, <2>3 DEF BoundaryInv, Invalid, OutEdges
<1>5. CASE ReturnToCaller
  <2>1. stack # <<>>
    BY <1>5, EmptySeq DEF ReturnToCaller, WalkInv, TypeOK
  <2> QED
    BY <1>5, <2>1 DEF BoundaryInv, ReturnToCaller, Passed, OutEdges, Invalid
<1>6. CASE UNCHANGED vars
  BY <1>6 DEF BoundaryInv, vars, Passed, OutEdges, Invalid
<1> QED
  BY <1>1, <1>2, <1>3, <1>4, <1>5, <1>6 DEF Next, Climb

(***************************************************************************)
(* When the outermost call returns, its MISO is closed and maximal.  A     *)
(* larger MISO would have its root either in it, or before the iterator    *)
(* and so in an earlier maximal MISO; each would take all of it.           *)
(***************************************************************************)
LEMMA ResultIsMaximal ==
  ASSUME IInv, ReturnToRun
  PROVE  /\ result \in MaximalMisos(dfg)
         /\ result \cap Earlier = {} /\ Earlier' = Earlier \cup result
         /\ result # {}
<1> USE DEF inputs
<1>1. stack \in Seq(dfg.node) /\ stack # <<>> /\ Len(stack) = 1
  <2>1. stack \in Seq(dfg.node) /\ Len(stack) = 1
    BY DEF IInv, WalkInv, TypeOK, ReturnToRun
  <2>2. stack = <<>> => Len(stack) = 0
    BY EmptySeq
  <2> QED
    BY <2>1, <2>2
<1>2. StackSet = {Head(stack)}
  <2>1. Tail(stack) = <<>> /\ Elements(stack) = {Head(stack)} \cup Elements(Tail(stack))
    BY <1>1, PopElements
  <2>2. Elements(<<>>) = {}
    BY DEF Elements
  <2> QED
    BY <2>1, <2>2 DEF StackSet
<1>3. todo = {}
  BY <1>2 DEF IInv, WalkInv, StackInv, ReturnToRun, OwnEdges
<1>4. /\ IsDFG(dfg) /\ IsReverseTopologicalSort(dfg, topo)
      /\ result \in SUBSET dfg.node /\ Root \in result
      /\ it \in DOMAIN topo /\ Root = topo[it]
      /\ OutVertices(dfg, Root) \subseteq Earlier
  BY <1>1 DEF IInv, WalkInv, RootInv, TypeOK, Root, IsReverseTopologicalSort
<1>5. /\ result \cap Earlier = {} /\ Earlier' = Earlier \cup result
  BY <1>1 DEF IInv, WalkInv, RootInv, Earlier, InProgress, ReturnToRun
<1>6. /\ SingleOutputAt(dfg, result, Root)
      /\ \A v \in result : ~Invalid(dfg, v)
  BY <1>1 DEF IInv, WalkInv, MemberInv, SingleOutputAt, Passed, OutVertices
<1>7. Closed(dfg, result)
  <2> SUFFICES ASSUME NEW v \in dfg.node \ result,
                      OutVertices(dfg, v) \cap result # {},
                      OutVertices(dfg, v) \subseteq result
               PROVE  Invalid(dfg, v) \/ dfg.op[v] = "OUTPUT"
    BY DEF Closed
  <2>1. Passed(v) = OutEdges(dfg, v) /\ Passed(v) # {}
    BY <1>3 DEF Passed, OutVertices
  <2> QED
    BY <1>1, <2>1 DEF IInv, BoundaryInv
<1>8. ASSUME NEW L \in SUBSET dfg.node, IsMiso(dfg, L), result \subseteq L
      PROVE  L \subseteq result
  <2>1. PICK q \in L : SingleOutputAt(dfg, L, q)
    BY <1>8 DEF IsMiso
  <2>2. CASE q \in result
    BY <1>4, <1>7, <1>8, <2>1, <2>2, ClosedTakesAll DEF IsMiso
  <2>3. CASE q \notin result
    <3>1. PICK i \in DOMAIN topo : topo[i] = q
      BY <1>4 DEF IsReverseTopologicalSort
    <3>2. i <= it
      BY <1>4, <1>8, <2>1, <3>1, RootIsFirst
    <3>3. i # it
      BY <1>4, <2>3, <3>1
    <3>4. i \in 1..(it - 1)
      BY <1>4, <3>1, <3>2, <3>3 DEF IsReverseTopologicalSort
    <3>5. q \in processed
      BY <3>1, <3>4 DEF IInv, WalkInv, OrderInv
    <3>6. q \in Earlier
      BY <1>1, <2>3, <3>5 DEF Earlier, InProgress
    <3>7. ~Invalid(dfg, q)
      BY <1>8, <2>1 DEF IsMiso
    <3>8. PICK M \in MaximalMisos(dfg) : q \in M /\ M \subseteq Earlier
      BY <3>6, <3>7 DEF IInv, CoveredInv
    <3>9. L \subseteq M
      BY <1>8, <2>1, <3>8, MaximalTakesAll DEF IsMiso
    <3> QED
      BY <1>4, <1>5, <1>8, <3>8, <3>9
  <2> QED
    BY <2>2, <2>3
<1>9. IsMiso(dfg, result)
  BY <1>4, <1>6 DEF IsMiso
<1>10. result \in MaximalMisos(dfg)
  BY <1>4, <1>8, <1>9 DEF MaximalMisos
<1> QED
  BY <1>4, <1>5, <1>10

(***************************************************************************)
(* What run() keeps is what a MISO of that size offers.                    *)
(***************************************************************************)
LEMMA KeptIsOffered ==
  WalkInv /\ ReturnToRun => maxMisos' = maxMisos \cup Offered(result, benchmark)
  BY DEF WalkInv, CountIsSize, ReturnToRun, Keep, Offered

(***************************************************************************)
(* Every step keeps CoveredInv: only an invalid vertex and a complete,     *)
(* maximal MISO become earlier.                                            *)
(***************************************************************************)
LEMMA CoveredPreserved == IInv /\ [Next]_vars => CoveredInv'
<1> SUFFICES ASSUME IInv, [Next]_vars PROVE CoveredInv'
  OBVIOUS
<1> USE DEF inputs
<1>1. CASE Earlier' = Earlier /\ UNCHANGED <<inputs, maxMisos>>
  BY <1>1 DEF IInv, CoveredInv, Invalid
<1>2. CASE SkipInvalid
  <2>1. Earlier' = Earlier \cup {topo[it]} /\ Invalid(dfg, topo[it])
    BY <1>2 DEF Earlier, InProgress, SkipInvalid, InLoop
  <2>2. UNCHANGED <<inputs, maxMisos>>
    BY <1>2 DEF SkipInvalid
  <2> QED
    BY <2>1, <2>2 DEF IInv, CoveredInv, Invalid
<1>3. CASE ReturnToRun
  <2>1. /\ result \in MaximalMisos(dfg)
        /\ Earlier' = Earlier \cup result
        /\ maxMisos' = maxMisos \cup Offered(result, benchmark)
        /\ dfg' = dfg /\ benchmark' = benchmark
    BY <1>3, ResultIsMaximal, KeptIsOffered DEF IInv, ReturnToRun
  <2>2. ASSUME NEW v \in Earlier', ~Invalid(dfg, v)
        PROVE  \E M \in MaximalMisos(dfg) :
                 /\ v \in M /\ M \subseteq Earlier'
                 /\ Offered(M, benchmark) \subseteq maxMisos'
    <3>1. CASE v \in Earlier
      BY <2>1, <2>2, <3>1 DEF IInv, CoveredInv
    <3>2. CASE v \in result
      BY <2>1, <3>2
    <3> QED
      BY <2>1, <3>1, <3>2
  <2>3. ASSUME NEW M \in maxMisos'
        PROVE  M \in MaximalMisos(dfg) /\ M \in Offered(M, benchmark)
    BY <2>1 DEF IInv, CoveredInv, Offered
  <2> QED
    BY <2>1, <2>2, <2>3 DEF CoveredInv, Invalid
<1>4. CASE Advance \/ StartRoot \/ ReturnToCaller \/ UNCHANGED vars
  BY <1>1, <1>4, EarlierStays DEF IInv
<1>5. CASE Climb
  BY <1>1, <1>5, EarlierStays DEF IInv
<1> QED
  BY <1>2, <1>3, <1>4, <1>5 DEF Next

(***************************************************************************)
(* The whole invariant holds at the start and is kept by every step.       *)
(***************************************************************************)
LEMMA IInvInductive == (Init => IInv) /\ (IInv /\ [Next]_vars => IInv')
<1>1. Init => BoundaryInv /\ CoveredInv
  BY DEF Init, BoundaryInv, CoveredInv, Earlier
<1> QED
  BY <1>1, InitEstablishes, NextPreserves, BoundaryPreserved, CoveredPreserved
     DEF IInv

-----------------------------------------------------------------------------
(***************************************************************************)
(* IInv is an invariant of AlgoMaxMiso on every set of graphs.             *)
(***************************************************************************)
THEOREM InductiveInvariant == Spec => []IInv
  BY IInvInductive, PTL DEF Spec

(***************************************************************************)
(* The state of run() always has its type.                                 *)
(***************************************************************************)
THEOREM TypeCorrect == Spec => []TypeOK
<1>1. IInv => TypeOK
  BY DEF IInv, WalkInv
<1> QED
  BY <1>1, InductiveInvariant, PTL

(***************************************************************************)
(* The unsigned fanout counters never wrap.                                *)
(***************************************************************************)
THEOREM FanoutNeverWraps == Spec => []NoUnderflow
<1>1. IInv => NoUnderflow
  BY DEF IInv, WalkInv
<1> QED
  BY <1>1, InductiveInvariant, PTL

(***************************************************************************)
(* No vertex is in two patterns.                                           *)
(***************************************************************************)
THEOREM PatternsAreDisjoint == Spec => []Disjoint
<1>1. IInv => Disjoint
  BY DEF IInv, WalkInv
<1> QED
  BY <1>1, InductiveInvariant, PTL

(***************************************************************************)
(* Every pattern has one output and only valid vertices.                   *)
(***************************************************************************)
THEOREM PatternsAreMisos == Spec => []SingleOutput
<1>1. IInv => SingleOutput
  BY DEF IInv, WalkInv
<1> QED
  BY <1>1, InductiveInvariant, PTL

(***************************************************************************)
(* The count the recursion returns is the size of the pattern.             *)
(***************************************************************************)
THEOREM CountIsTheSize == Spec => []CountIsSize
<1>1. IInv => CountIsSize
  BY DEF IInv, WalkInv
<1> QED
  BY <1>1, InductiveInvariant, PTL

(***************************************************************************)
(* When run() ends, the patterns are exactly the maximal MISOs of at least *)
(* two vertices (none in a benchmark run): none is missed and none is cut  *)
(* short, for every graph and every reverse topological order of it.       *)
(***************************************************************************)
THEOREM AllMaximalAreFound == Spec => []FindsAllMaximal
<1>1. IInv => FindsAllMaximal
  <2> SUFFICES ASSUME IInv, Done
               PROVE  maxMisos = UNION {Offered(M, benchmark) : M \in MaximalMisos(dfg)}
    BY DEF FindsAllMaximal
  <2>1. ASSUME NEW v \in dfg.node PROVE v \in Earlier
    <3>1. IsReverseTopologicalSort(dfg, topo) /\ it > Len(topo) /\ stack = <<>>
          /\ it \in 1..(Len(topo) + 1)
      BY DEF Done, IInv, WalkInv, TypeOK
    <3>2. topo \in Seq(dfg.node) /\ Len(topo) \in Nat /\ DOMAIN topo = 1..Len(topo)
      BY <3>1 DEF IsReverseTopologicalSort
    <3>3. PICK i \in DOMAIN topo : topo[i] = v
      BY <3>1 DEF IsReverseTopologicalSort
    <3>4. i \in 1..(it - 1)
      BY <3>1, <3>2, <3>3
    <3> QED
      BY <3>1, <3>3, <3>4 DEF IInv, WalkInv, OrderInv, Earlier, InProgress
  <2>2. ASSUME NEW M \in MaximalMisos(dfg)
        PROVE  Offered(M, benchmark) \subseteq maxMisos
    <3>1. /\ M \in SUBSET dfg.node /\ IsMiso(dfg, M)
          /\ \A L \in SUBSET dfg.node : IsMiso(dfg, L) /\ M \subseteq L => L = M
      BY DEF MaximalMisos
    <3>2. PICK q \in M : SingleOutputAt(dfg, M, q)
      BY <3>1 DEF IsMiso
    <3>3. q \in Earlier /\ ~Invalid(dfg, q)
      BY <2>1, <3>1, <3>2 DEF IsMiso
    <3>4. PICK L \in MaximalMisos(dfg) :
            q \in L /\ Offered(L, benchmark) \subseteq maxMisos
      BY <3>3 DEF IInv, CoveredInv
    <3>5. M \subseteq L
      BY <3>1, <3>2, <3>4, MaximalTakesAll DEF IsMiso
    <3>6. L = M
      BY <3>1, <3>4, <3>5 DEF MaximalMisos
    <3> QED
      BY <3>4, <3>6
  <2>3. \A M \in maxMisos : M \in MaximalMisos(dfg) /\ M \in Offered(M, benchmark)
    BY DEF IInv, CoveredInv
  <2> QED
    BY <2>2, <2>3
<1> QED
  BY <1>1, InductiveInvariant, PTL

(***************************************************************************)
(* MisoCover speaks of the same MISOs and offers the same of them.         *)
(***************************************************************************)
LEMMA CoverVocabulary ==
  /\ Cover!IsDFG(dfg) <=> IsDFG(dfg)
  /\ Cover!MaximalMisos(dfg) = MaximalMisos(dfg)
  /\ \A M : Cover!Offered(M, benchmark) = Offered(M, benchmark)
<1>1. \A v : /\ Cover!OutEdges(dfg, v) = OutEdges(dfg, v)
             /\ Cover!OutVertices(dfg, v) = OutVertices(dfg, v)
             /\ (Cover!Invalid(dfg, v) <=> Invalid(dfg, v))
  BY DEF Cover!OutEdges, Cover!OutVertices, Cover!Invalid,
         OutEdges, OutVertices, Invalid
<1>2. \A M, r : Cover!SingleOutputAt(dfg, M, r) <=> SingleOutputAt(dfg, M, r)
  BY <1>1 DEF Cover!SingleOutputAt, SingleOutputAt
<1>3. ASSUME NEW M PROVE Cover!IsMiso(dfg, M) <=> IsMiso(dfg, M)
  BY <1>1, <1>2, Zenon DEF Cover!IsMiso, IsMiso
<1>4. Cover!MaximalMisos(dfg) = MaximalMisos(dfg)
  BY <1>3 DEF Cover!MaximalMisos, MaximalMisos
<1>5. \A S : Cover!IsFiniteSet(S) <=> IsFiniteSet(S)
  BY DEF Cover!IsFiniteSet, IsFiniteSet
<1>6. \A S : Cover!Cardinality(S) = Cardinality(S)
  BY <1>5 DEF Cover!Cardinality, Cardinality
<1>7. Cover!IsDFG(dfg) <=> IsDFG(dfg)
  BY <1>5 DEF Cover!IsDFG, IsDFG, Cover!OpType, OpType
<1>8. \A M : Cover!Offered(M, benchmark) = Offered(M, benchmark)
  BY <1>6 DEF Cover!Offered, Offered
<1> QED
  BY <1>4, <1>7, <1>8

(***************************************************************************)
(* The walk implements MisoCover, liveness aside: all steps of the calls   *)
(* of generateMaxMiso for one root together take one whole maximal MISO    *)
(* out of what is left, in the step where the outermost call returns, and  *)
(* every other step discards an invalid vertex or changes nothing.         *)
(***************************************************************************)
THEOREM CoverIsImplemented == Spec => Cover!CoverSafety
<1> USE DEF inputs
<1>1. Init => Cover!CoverInit
  <2> SUFFICES ASSUME Init PROVE Cover!CoverInit
    OBVIOUS
  <2>1. IsDFG(dfg)
    BY GraphsAssumption DEF Init
  <2>2. Cover!IsDFG(dfg)
    BY <2>1, CoverVocabulary
  <2> QED
    BY <2>2 DEF Init, Cover!CoverInit, InProgress
<1>2. IInv /\ [Next]_vars => [Cover!CoverNext]_(Cover!coverVars)
  <2> SUFFICES ASSUME IInv, [Next]_vars
               PROVE  Cover!CoverNext \/ UNCHANGED Cover!coverVars
    OBVIOUS
  <2> DEFINE left == dfg.node \ Earlier
  <2>1. CASE Earlier' = Earlier /\ UNCHANGED <<inputs, maxMisos>>
    BY <2>1 DEF Cover!coverVars, Earlier
  <2>2. CASE Advance \/ StartRoot \/ Climb \/ ReturnToCaller \/ UNCHANGED vars
    BY <2>1, <2>2, EarlierStays DEF IInv
  <2>3. CASE SkipInvalid
    <3>1. topo[it] \in left
      BY <2>3, UsersAreEarlier DEF SkipInvalid, Earlier, IInv
    <3>2. /\ Invalid(dfg, topo[it])
          /\ left' = left \ {topo[it]}
          /\ UNCHANGED <<dfg, benchmark, maxMisos>>
      BY <2>3 DEF Earlier, InProgress, SkipInvalid, InLoop
    <3>3. Cover!Discard(topo[it])
      BY <3>2 DEF Cover!Discard, Cover!Invalid, Invalid, Earlier
    <3> QED
      BY <3>1, <3>3 DEF Cover!CoverNext, Earlier
  <2>4. CASE ReturnToRun
    <3>1. /\ result \in MaximalMisos(dfg)
          /\ result \in (SUBSET left) \ {{}}
          /\ left' = left \ result
      BY <2>4, ResultIsMaximal DEF MaximalMisos, ReturnToRun
    <3>2. /\ maxMisos' = maxMisos \cup Offered(result, benchmark)
          /\ UNCHANGED <<dfg, benchmark>>
      BY <2>4, KeptIsOffered DEF ReturnToRun, IInv
    <3>3. Cover!TakeMiso(result)
      BY <3>1, <3>2, CoverVocabulary DEF Cover!TakeMiso, Earlier
    <3> QED
      BY <3>1, <3>3 DEF Cover!CoverNext, Earlier
  <2> QED
    BY <2>2, <2>3, <2>4 DEF Next
<1> QED
  BY <1>1, <1>2, InductiveInvariant, PTL DEF Spec, Cover!CoverSafety
=============================================================================
