------------------------ MODULE SelectionMethod1Proofs ------------------------
(***************************************************************************)
(* Proofs about SelectionMethod1 for every profile, every candidates and   *)
(* every limit.                                                            *)
(***************************************************************************)
EXTENDS SelectionMethod1, FiniteSetTheorems, SequenceTheorems, TLAPS

(***************************************************************************)
(* The rank counts from one to the length: whatever goes before an element *)
(* is another one.                                                         *)
(***************************************************************************)
LEMMA RankRange ==
  ASSUME NEW S, NEW s \in Seq(S), \A i \in 1..Len(s) : s[i].value \in Int,
         NEW i \in 1..Len(s)
  PROVE  /\ IsFiniteSet(Before(s, i))
         /\ i \notin Before(s, i)
         /\ Rank(s, i) \in 1..Len(s)
<1>1. Len(s) \in Nat /\ DOMAIN s = 1..Len(s)
  OBVIOUS
<1>2. IsFiniteSet(1..Len(s)) /\ Cardinality(1..Len(s)) = Len(s)
  BY <1>1, FS_Interval
<1>3. i \notin Before(s, i)
  BY <1>1 DEF Before, GoesBefore
<1>4. Before(s, i) \in SUBSET ((1..Len(s)) \ {i})
  BY <1>1, <1>3 DEF Before
<1>5. IsFiniteSet((1..Len(s)) \ {i}) /\ Cardinality((1..Len(s)) \ {i}) = Len(s) - 1
  BY <1>2, FS_RemoveElement
<1>6. IsFiniteSet(Before(s, i)) /\ Cardinality(Before(s, i)) <= Len(s) - 1
  BY <1>4, <1>5, FS_Subset
<1>7. Cardinality(Before(s, i)) \in Nat
  BY <1>6, FS_CardinalityType
<1> QED
  BY <1>1, <1>3, <1>6, <1>7 DEF Rank

(***************************************************************************)
(* Of two elements one goes before the other, and has the lower rank.      *)
(***************************************************************************)
LEMMA RankOrders ==
  ASSUME NEW S, NEW s \in Seq(S), \A i \in 1..Len(s) : s[i].value \in Int,
         NEW i \in 1..Len(s), NEW j \in 1..Len(s)
  PROVE  /\ i # j => i \in Before(s, j) \/ j \in Before(s, i)
         /\ i \in Before(s, j) => Rank(s, i) < Rank(s, j)
<1>1. DOMAIN s = 1..Len(s) /\ Len(s) \in Nat
  OBVIOUS
<1>2. i # j => i \in Before(s, j) \/ j \in Before(s, i)
  BY <1>1 DEF Before, GoesBefore
<1>3. ASSUME i \in Before(s, j) PROVE Rank(s, i) < Rank(s, j)
  <2>1. Before(s, i) \in SUBSET Before(s, j)
    BY <1>1, <1>3 DEF Before, GoesBefore
  <2>2. IsFiniteSet(Before(s, i)) /\ IsFiniteSet(Before(s, j)) /\ i \notin Before(s, i)
    BY RankRange
  <2>3. /\ Cardinality(Before(s, i)) <= Cardinality(Before(s, j))
        /\ Cardinality(Before(s, i)) # Cardinality(Before(s, j))
    BY <1>3, <2>1, <2>2, FS_Subset
  <2>4. Cardinality(Before(s, i)) \in Nat /\ Cardinality(Before(s, j)) \in Nat
    BY <2>2, FS_CardinalityType
  <2> QED
    BY <2>3, <2>4 DEF Rank
<1> QED
  BY <1>2, <1>3

(***************************************************************************)
(* Every rank is taken: as many ranks as elements, and none shared.        *)
(***************************************************************************)
LEMMA RankOnto ==
  ASSUME NEW S, NEW s \in Seq(S), \A i \in 1..Len(s) : s[i].value \in Int,
         NEW k \in 1..Len(s)
  PROVE  \E i \in 1..Len(s) : Rank(s, i) = k
<1> DEFINE D == 1..Len(s)
           f == [i \in D |-> Rank(s, i)]
<1>1. f \in [D -> D]
  BY RankRange
<1>2. \A i, j \in D : f[i] = f[j] => i = j
  <2> SUFFICES ASSUME NEW i \in D, NEW j \in D, i # j PROVE f[i] # f[j]
    OBVIOUS
  <2>1. Rank(s, i) < Rank(s, j) \/ Rank(s, j) < Rank(s, i)
    BY RankOrders
  <2>2. Rank(s, i) \in Int /\ Rank(s, j) \in Int
    BY RankRange
  <2> QED
    BY <2>1, <2>2
<1>3. f \in Injection(D, D)
  BY <1>1, <1>2 DEF Injection, IsInjective
<1>4. IsFiniteSet(D)
  <2>1. Len(s) \in Nat
    OBVIOUS
  <2> QED BY <2>1, FS_Interval
<1>5. f \in Surjection(D, D)
  BY <1>3, <1>4, FS_Injection
<1>6. PICK i \in D : f[i] = k
  BY <1>5 DEF Surjection
<1> QED
  BY <1>6

(***************************************************************************)
(* candidateList.sort: the sorted list has the same elements, the largest  *)
(* values first.                                                           *)
(***************************************************************************)
LEMMA SortedFacts ==
  ASSUME NEW S, NEW s \in Seq(S), \A i \in 1..Len(s) : s[i].value \in Int
  PROVE  /\ Sorted(s) \in Seq(S)
         /\ Len(Sorted(s)) = Len(s)
         /\ \A i \in 1..Len(s) : \E k \in 1..Len(s) : Sorted(s)[k] = s[i]
         /\ \A k, l \in 1..Len(s) : k < l => Sorted(s)[k].value >= Sorted(s)[l].value
<1> DEFINE at(k) == CHOOSE i \in DOMAIN s : Rank(s, i) = k
<1>1. DOMAIN s = 1..Len(s) /\ Len(s) \in Nat
  OBVIOUS
<1>2. ASSUME NEW k \in 1..Len(s) PROVE at(k) \in 1..Len(s) /\ Rank(s, at(k)) = k
  BY <1>1, RankOnto
<1>3. Sorted(s) = [k \in 1..Len(s) |-> s[at(k)]]
  BY <1>1 DEF Sorted
<1> HIDE DEF at
<1>4. Sorted(s) \in Seq(S) /\ Len(Sorted(s)) = Len(s)
  <2>1. \A k \in 1..Len(s) : s[at(k)] \in S
    BY <1>2, <1>1, ElementOfSeq
  <2> QED BY <2>1, <1>1, <1>3
<1>5. ASSUME NEW i \in 1..Len(s) PROVE \E k \in 1..Len(s) : Sorted(s)[k] = s[i]
  <2>1. Rank(s, i) \in 1..Len(s)
    BY RankRange
  <2>2. at(Rank(s, i)) \in 1..Len(s) /\ Rank(s, at(Rank(s, i))) = Rank(s, i)
    BY <2>1, <1>2
  <2>3. at(Rank(s, i)) = i
    <3>1. Rank(s, i) \in Int
      BY <2>1
    <3> QED BY <2>2, <3>1, RankOrders
  <2> QED
    BY <2>1, <2>3, <1>3
<1>6. ASSUME NEW k \in 1..Len(s), NEW l \in 1..Len(s), k < l
      PROVE  Sorted(s)[k].value >= Sorted(s)[l].value
  <2>1. /\ at(k) \in 1..Len(s) /\ at(l) \in 1..Len(s)
        /\ Rank(s, at(k)) = k /\ Rank(s, at(l)) = l
    BY <1>2
  <2>2. at(k) # at(l) /\ at(l) \notin Before(s, at(k))
    BY <2>1, <1>6, RankOrders
  <2>3. at(k) \in Before(s, at(l))
    BY <2>1, <2>2, RankOrders
  <2>4. s[at(k)].value >= s[at(l)].value
    BY <2>1, <2>3 DEF Before, GoesBefore
  <2> QED
    BY <2>4, <1>3
<1> QED
  BY <1>4, <1>5, <1>6

-----------------------------------------------------------------------------
(***************************************************************************)
(* What is given never changes, and with it what may be listed.            *)
(***************************************************************************)
LEMMA SameInput ==
  ASSUME UNCHANGED given
  PROVE  /\ Listed' = Listed
         /\ Entries' = Entries
         /\ \A b : Worth(b)' = Worth(b)
         /\ IsInput(given)' = IsInput(given)
<1>1. Listed' = Listed
  BY DEF Listed, HasCandidates
<1>2. \A b : Worth(b)' = Worth(b)
  BY DEF Worth, Offers, Eligible
<1>3. Entries' = Entries
  BY <1>1, <1>2 DEF Entries
<1> QED
  BY <1>1, <1>2, <1>3 DEF IsInput

(***************************************************************************)
(* A block that is listed has candidates, and they are well-formed.        *)
(***************************************************************************)
LEMMA CandidateFacts ==
  ASSUME IsInput(given), NEW b \in Listed, NEW c \in Offers(b)
  PROVE  IsCandidate(c)
<1>1. b \in DOMAIN given.candidates
  BY DEF Listed, HasCandidates
<1>2. PICK k \in DOMAIN given.candidates[b] : c = given.candidates[b][k]
  BY DEF Offers
<1> QED
  BY <1>1, <1>2 DEF IsInput

(***************************************************************************)
(* An entry of the list stands for an eligible candidate of its block.     *)
(***************************************************************************)
LEMMA EntryFacts ==
  ASSUME IsInput(given), NEW x \in Entries
  PROVE  /\ x.block \in Listed
         /\ x.pattern \in {c.pattern : c \in Worth(x.block)}
         /\ x.pattern # {}
         /\ x.value \in Int
<1>1. PICK b \in Listed : x \in {Entry(b, c) : c \in Worth(b)}
  BY DEF Entries
<1>2. PICK c \in Worth(b) : x = Entry(b, c)
  BY <1>1
<1>3. x.block = b /\ x.pattern = c.pattern /\ x.value = c.value
  BY <1>2 DEF Entry
<1>4. IsCandidate(c)
  BY CandidateFacts DEF Worth
<1> QED
  BY <1>1, <1>3, <1>4 DEF IsCandidate

(***************************************************************************)
(* The head and the rest of a list.                                        *)
(***************************************************************************)
LEMMA ListFacts ==
  ASSUME NEW S, NEW s \in Seq(S), s # <<>>
  PROVE  Head(s) \in S /\ Tail(s) \in Seq(S)
  OBVIOUS

(***************************************************************************)
(* The safe part of the invariant holds at first.                          *)
(***************************************************************************)
LEMMA SafeInit == Init => SafeInv
<1> SUFFICES ASSUME Init PROVE SafeInv
  OBVIOUS
<1>1. IsInput(given)
  BY InputsAssumption DEF Init
<1>2. Len(given.prof) \in Nat
  BY <1>1 DEF IsInput
<1>3. DOMAIN selection = {} /\ DOMAIN masks = {}
  BY DEF Init
<1>4. TypeOK
  BY <1>1, <1>2, <1>3 DEF Init, TypeOK
<1>5. Taken = {}
  BY <1>3 DEF Taken
<1>6. CountInv
  BY <1>1, <1>5, FS_EmptySet DEF CountInv, Init, IsInput
<1> QED
  BY <1>3, <1>4, <1>6 DEF SafeInv, MaskInv, DisjointInBlock

(***************************************************************************)
(* Steps that take nothing.                                                *)
(***************************************************************************)
LEMMA NothingTaken ==
  ASSUME MaskInv, CountInv, DisjointInBlock, UNCHANGED <<given, selection, masks, selected>>
  PROVE  MaskInv' /\ CountInv' /\ DisjointInBlock'
  BY DEF MaskInv, CountInv, DisjointInBlock, Taken

(***************************************************************************)
(* The first loop takes nothing, and lists what is eligible.               *)
(***************************************************************************)
LEMMA SafeCollect ==
  ASSUME SafeInv, NoCandidates \/ Consider \/ NextBlock PROVE SafeInv'
<1> USE DEF SafeInv
<1>1. MaskInv' /\ CountInv' /\ DisjointInBlock'
  BY NothingTaken DEF NoCandidates, Consider, NextBlock
<1>2. Len(given.prof) \in Nat /\ IsInput(given)
  BY DEF TypeOK, IsInput
<1>3. block <= Len(given.prof) /\ block \in Nat
  BY <1>2 DEF NoCandidates, Consider, NextBlock, Scanning, TypeOK
<1>4. UNCHANGED <<given, pc, selection, masks, selected>>
  BY DEF NoCandidates, Consider, NextBlock
<1>5. Entries' = Entries /\ Listed' = Listed /\ \A b : Worth(b)' = Worth(b)
  BY <1>4, SameInput
<1>6. block' \in 1..(Len(given.prof) + 1) /\ cand' \in Nat \ {0}
  BY <1>2, <1>3 DEF NoCandidates, Consider, NextBlock, TypeOK
<1>7. candidateList' \in Seq(Entries)
  <2>1. CASE ~Consider
    BY <2>1 DEF NoCandidates, NextBlock, TypeOK
  <2>2. CASE Consider
    <3> DEFINE c == given.candidates[BB][cand]
    <3>1. BB \in Listed /\ BB \in DOMAIN given.candidates
      BY <2>2, <1>2, <1>3 DEF Consider, HasCandidates, Listed, BB, TypeOK, IsInput
    <3>2. ASSUME Eligible(c), cand \in DOMAIN given.candidates[BB]
          PROVE  Entry(BB, c) \in Entries
      BY <3>1, <3>2 DEF Entries, Worth, Offers
    <3>3. cand \in DOMAIN given.candidates[BB]
      BY <2>2, <1>2, <3>1 DEF Consider, TypeOK, IsInput
    <3>4. candidateList \in Seq(Entries)
      BY DEF TypeOK
    <3> QED
      BY <2>2, <3>2, <3>3, <3>4 DEF Consider
  <2> QED
    BY <2>1, <2>2
<1>8. TypeOK'
  BY <1>2, <1>4, <1>5, <1>6, <1>7 DEF TypeOK
<1> QED
  BY <1>1, <1>8

(***************************************************************************)
(* Sorting keeps the entries.                                              *)
(***************************************************************************)
LEMMA SafeSort ==
  ASSUME SafeInv, Sort PROVE SafeInv'
<1> USE DEF SafeInv
<1>1. MaskInv' /\ CountInv' /\ DisjointInBlock'
  BY NothingTaken DEF Sort
<1>2. candidateList \in Seq(Entries) /\ IsInput(given)
  BY DEF TypeOK
<1>3. \A i \in 1..Len(candidateList) : candidateList[i].value \in Int
  BY <1>2, EntryFacts, ElementOfSeq
<1>4. Sorted(candidateList) \in Seq(Entries)
  BY <1>2, <1>3, SortedFacts
<1>5. Entries' = Entries /\ Listed' = Listed /\ \A b : Worth(b)' = Worth(b)
  BY SameInput DEF Sort
<1>6. TypeOK'
  BY <1>4, <1>5 DEF Sort, TypeOK
<1> QED
  BY <1>1, <1>6

(***************************************************************************)
(* What overlaps is left out, and the rest stays.                          *)
(***************************************************************************)
LEMMA SafeLeaveOut ==
  ASSUME SafeInv, LeaveOut \/ Stop \/ UNCHANGED vars PROVE SafeInv'
<1> USE DEF SafeInv
<1>1. MaskInv' /\ CountInv' /\ DisjointInBlock'
  BY NothingTaken DEF LeaveOut, Stop, vars
<1>2. UNCHANGED <<given, block, cand, selection, masks, selected>>
  BY DEF LeaveOut, Stop, vars
<1>3. candidateList' \in Seq(Entries)
  <2>1. candidateList \in Seq(Entries)
    BY DEF TypeOK
  <2>2. CASE LeaveOut
    BY <2>1, <2>2, ListFacts DEF LeaveOut, Rest, Selecting
  <2> QED
    BY <2>1, <2>2 DEF Stop, vars
<1>4. Entries' = Entries /\ Listed' = Listed /\ \A b : Worth(b)' = Worth(b)
  BY <1>2, SameInput
<1>5. pc' \in {"collect", "select", "done"}
  BY DEF LeaveOut, Stop, vars, TypeOK
<1>6. TypeOK'
  BY <1>2, <1>3, <1>4, <1>5 DEF TypeOK
<1> QED
  BY <1>1, <1>6

(***************************************************************************)
(* What the two actions that take a pattern have in common: room is left,  *)
(* the candidate is one of its block, and the list goes on.                *)
(***************************************************************************)
LEMMA TakeFacts ==
  ASSUME SafeInv, TakeFirst \/ TakeAnother
  PROVE  /\ IsInput(given) /\ Best \in Entries
         /\ Best.block \in Listed
         /\ Best.pattern \in {c.pattern : c \in Worth(Best.block)}
         /\ candidateList' \in Seq(Entries)
         /\ Entries' = Entries /\ Listed' = Listed /\ \A b : Worth(b)' = Worth(b)
         /\ selected \in Nat /\ selected + 1 <= given.maxCI
<1>1. IsInput(given) /\ candidateList \in Seq(Entries) /\ selected \in Nat
  BY DEF SafeInv, TypeOK
<1>2. Selecting /\ candidateList' = Tail(candidateList) /\ UNCHANGED given
  BY DEF TakeFirst, TakeAnother
<1>3. Best \in Entries /\ candidateList' \in Seq(Entries)
  BY <1>1, <1>2, ListFacts DEF Best, Selecting
<1>4. Entries' = Entries /\ Listed' = Listed /\ \A b : Worth(b)' = Worth(b)
  BY <1>2, SameInput
<1>5. given.maxCI \in Nat /\ selected <= given.maxCI /\ selected # given.maxCI
  BY <1>1, <1>2 DEF SafeInv, CountInv, Selecting, Full, IsInput
<1>6. selected + 1 <= given.maxCI
  BY <1>1, <1>5
<1> QED
  BY <1>1, <1>3, <1>4, <1>6, EntryFacts

(***************************************************************************)
(* The first pattern: no mask has a bit yet.                               *)
(***************************************************************************)
LEMMA SafeTakeFirst ==
  ASSUME SafeInv, TakeFirst PROVE SafeInv'
<1> DEFINE b == Best.block
           p == Best.pattern
<1>1. /\ DOMAIN selection' = DOMAIN selection \cup {b}
      /\ DOMAIN masks' = DOMAIN masks \cup {b}
      /\ selection'[b] = <<p>> /\ masks'[b] = p
      /\ \A d \in DOMAIN selection : selection'[d] = selection[d]
      /\ \A d \in DOMAIN masks : masks'[d] = IF d = b THEN p ELSE masks[d]
      /\ b \notin DOMAIN selection
  BY DEF TakeFirst, With, FirstMask
<1>2. DOMAIN masks = DOMAIN selection
  BY DEF SafeInv, TypeOK
<1>3. DOMAIN selection'[b] = {1} /\ selection'[b][1] = p
  BY <1>1
<1>4. TypeOK'
  <2>1. selection'[b] \in Seq({c.pattern : c \in Worth(b)})
    BY <1>1, TakeFacts
  <2> QED
    BY <1>1, <1>2, <2>1, TakeFacts DEF SafeInv, TypeOK, TakeFirst
<1>5. MaskInv'
  <2>1. UNION {selection'[b][i] : i \in DOMAIN selection'[b]} = p
    BY <1>3
  <2>2. masks'[b] = UNION {selection'[b][i] : i \in DOMAIN selection'[b]}
    BY <1>1, <2>1
  <2>3. ASSUME NEW d \in DOMAIN selection
        PROVE masks'[d] = UNION {selection'[d][i] : i \in DOMAIN selection'[d]}
    BY <1>1, <1>2 DEF SafeInv, MaskInv
  <2> QED
    BY <1>1, <2>2, <2>3 DEF MaskInv
<1>6. CountInv'
  <2>1. Taken' = Taken \cup {<<b, 1>>}
    BY <1>1, <1>3 DEF Taken
  <2>2. <<b, 1>> \notin Taken
    BY <1>1 DEF Taken
  <2>3. IsFiniteSet(Taken') /\ Cardinality(Taken') = Cardinality(Taken) + 1
    BY <2>1, <2>2, FS_AddElement DEF SafeInv, CountInv
  <2>4. selected' = selected + 1 /\ UNCHANGED given
    BY DEF TakeFirst
  <2> QED
    BY <2>3, <2>4, TakeFacts DEF SafeInv, CountInv
<1>7. DisjointInBlock'
  BY <1>1, <1>3 DEF SafeInv, DisjointInBlock
<1> QED
  BY <1>4, <1>5, <1>6, <1>7 DEF SafeInv

(***************************************************************************)
(* Another pattern joins its block where no bit of the mask is its own.    *)
(***************************************************************************)
LEMMA SafeTakeAnother ==
  ASSUME SafeInv, TakeAnother PROVE SafeInv'
<1> DEFINE b == Best.block
           p == Best.pattern
           n == Len(selection[b])
           S == {c.pattern : c \in Worth(b)}
<1>1. /\ b \in DOMAIN selection
      /\ DOMAIN masks = DOMAIN selection
      /\ selection[b] \in Seq(S)
      /\ p \in S
      /\ p \cap masks[b] = {}
  BY TakeFacts DEF TakeAnother, Overlaps, SafeInv, TypeOK
<1>2. /\ DOMAIN selection' = DOMAIN selection
      /\ DOMAIN masks' = DOMAIN masks
      /\ selection'[b] = Append(selection[b], p)
      /\ masks'[b] = masks[b] \cup p
      /\ \A d \in DOMAIN selection : d # b => selection'[d] = selection[d] /\ masks'[d] = masks[d]
  BY <1>1 DEF TakeAnother, NewMask
<1>3. /\ n \in Nat
      /\ selection'[b] \in Seq(S)
      /\ DOMAIN selection[b] = 1..n
      /\ DOMAIN selection'[b] = (1..n) \cup {n + 1}
      /\ selection'[b][n + 1] = p
      /\ \A i \in 1..n : selection'[b][i] = selection[b][i]
      /\ n + 1 \notin 1..n
  <2> HIDE DEF S, p
  <2> QED BY <1>1, <1>2
<1> HIDE DEF n, p, b
<1>4. TypeOK'
  <2>1. \A d \in DOMAIN selection' : selection'[d] \in Seq({c.pattern : c \in Worth(d)})
    BY <1>1, <1>2, <1>3 DEF SafeInv, TypeOK
  <2>2. UNCHANGED <<given, pc, block, cand>> /\ selected' = selected + 1
    BY DEF TakeAnother
  <2>3. DOMAIN selection' \subseteq Listed' /\ DOMAIN masks' = DOMAIN selection'
    BY <1>1, <1>2, TakeFacts DEF SafeInv, TypeOK
  <2>4. \A d \in DOMAIN selection' : selection'[d] \in Seq({c.pattern : c \in Worth(d)'})
    BY <2>1, TakeFacts
  <2>5. candidateList' \in Seq(Entries') /\ selected' \in Nat
    BY <2>2, TakeFacts
  <2> QED
    BY <2>2, <2>3, <2>4, <2>5 DEF SafeInv, TypeOK
<1>5. masks[b] = UNION {selection[b][i] : i \in 1..n}
  BY <1>1, <1>3 DEF SafeInv, MaskInv
<1>6. MaskInv'
  <2>1. masks'[b] = UNION {selection'[b][i] : i \in DOMAIN selection'[b]}
    BY <1>2, <1>3, <1>5
  <2>2. ASSUME NEW d \in DOMAIN selection, d # b
        PROVE masks'[d] = UNION {selection'[d][i] : i \in DOMAIN selection'[d]}
    BY <1>2, <2>2 DEF SafeInv, MaskInv
  <2> QED
    BY <1>2, <2>1, <2>2 DEF MaskInv
<1>7. CountInv'
  <2>1. Taken' = Taken \cup {<<b, n + 1>>}
    <3>1. Taken' \subseteq Taken \cup {<<b, n + 1>>}
      BY <1>2, <1>3 DEF Taken
    <3>2. Taken \subseteq Taken'
      BY <1>2, <1>3 DEF Taken
    <3>3. <<b, n + 1>> \in Taken'
      BY <1>1, <1>2, <1>3 DEF Taken
    <3> QED
      BY <3>1, <3>2, <3>3
  <2>2. <<b, n + 1>> \notin Taken
    BY <1>3 DEF Taken
  <2>3. IsFiniteSet(Taken') /\ Cardinality(Taken') = Cardinality(Taken) + 1
    BY <2>1, <2>2, FS_AddElement DEF SafeInv, CountInv
  <2>4. selected' = selected + 1 /\ UNCHANGED given
    BY DEF TakeAnother
  <2> QED
    BY <2>3, <2>4, TakeFacts DEF SafeInv, CountInv
<1>8. DisjointInBlock'
  <2>1. \A i \in 1..n : selection[b][i] \cap p = {}
    BY <1>1, <1>5 DEF p
  <2>2. ASSUME NEW i \in DOMAIN selection'[b], NEW j \in DOMAIN selection'[b], i # j
        PROVE  selection'[b][i] \cap selection'[b][j] = {}
    BY <1>1, <1>3, <2>1, <2>2 DEF SafeInv, DisjointInBlock
  <2>3. ASSUME NEW d \in DOMAIN selection, d # b,
               NEW i \in DOMAIN selection'[d], NEW j \in DOMAIN selection'[d], i # j
        PROVE  selection'[d][i] \cap selection'[d][j] = {}
    BY <1>2, <2>3 DEF SafeInv, DisjointInBlock
  <2> QED
    BY <1>2, <2>2, <2>3 DEF DisjointInBlock
<1> QED
  BY <1>4, <1>6, <1>7, <1>8 DEF SafeInv

(***************************************************************************)
(* Every step keeps the safe part.                                         *)
(***************************************************************************)
LEMMA SafeNext == SafeInv /\ [Next]_vars => SafeInv'
  BY SafeCollect, SafeSort, SafeTakeFirst, SafeTakeAnother, SafeLeaveOut DEF Next

(***************************************************************************)
(* The mask of each block is what was taken there, the count is the number *)
(* of patterns taken, and what is listed or taken are eligible candidates. *)
(***************************************************************************)
THEOREM SafeInvariant == Spec => []SafeInv
  BY SafeInit, SafeNext, PTL DEF Spec

(***************************************************************************)
(* No two patterns taken in a block overlap, for any number of candidates: *)
(* the comparison with the mask alone is enough.                           *)
(***************************************************************************)
THEOREM SelectionIsDisjoint == Spec => []DisjointInBlock
<1>1. SafeInv => DisjointInBlock
  BY DEF SafeInv
<1> QED
  BY <1>1, SafeInvariant, PTL

(***************************************************************************)
(* Whatever is taken has room in the architecture and fits its ports, for  *)
(* every limit, although the limit is tested for equality.                 *)
(***************************************************************************)
THEOREM SelectionFits == Spec => []FitsArchitecture
<1>1. SafeInv => FitsArchitecture
  <2> SUFFICES ASSUME SafeInv PROVE FitsArchitecture
    OBVIOUS
  <2>1. Cardinality(Taken) <= given.maxCI
    BY DEF SafeInv, CountInv
  <2>2. ASSUME NEW b \in DOMAIN selection, NEW i \in DOMAIN selection[b]
        PROVE  \E c \in Offers(b) : /\ c.pattern = selection[b][i]
                                    /\ c.num_inputs <= given.maxInputs
                                    /\ c.hw < c.sw
    <3>1. selection[b][i] \in {c.pattern : c \in Worth(b)}
      <4> DEFINE S == {c.pattern : c \in Worth(b)}
      <4>1. selection[b] \in Seq(S)
        BY DEF SafeInv, TypeOK
      <4> HIDE DEF S
      <4>2. selection[b][i] \in S
        BY <4>1
      <4> QED
        BY <4>2 DEF S
    <3>2. PICK c \in Worth(b) : c.pattern = selection[b][i]
      BY <3>1
    <3>3. c \in Offers(b) /\ Eligible(c)
      BY DEF Worth
    <3>4. c.hw \in Nat /\ c.sw \in Nat
      BY <3>3, CandidateFacts DEF SafeInv, TypeOK, IsCandidate
    <3> QED
      BY <3>2, <3>3, <3>4 DEF Eligible
  <2> QED
    BY <2>1, <2>2 DEF FitsArchitecture
<1> QED
  BY <1>1, SafeInvariant, PTL

-----------------------------------------------------------------------------
(***************************************************************************)
(* The greedy choice.  What was chosen, and what is beaten by it, depends  *)
(* on the selection alone.                                                 *)
(***************************************************************************)
LEMMA SameChosen ==
  ASSUME UNCHANGED <<given, selection>>
  PROVE  /\ \A x : Chosen(x)' = Chosen(x)
         /\ \A x : Beaten(x)' = Beaten(x)
<1>1. \A x : Chosen(x)' = Chosen(x)
  BY DEF Chosen
<1> QED
  BY <1>1, SameInput DEF Beaten

(***************************************************************************)
(* The greedy part holds at first.                                         *)
(***************************************************************************)
LEMMA GreedyInit == Init => GreedyInv
<1> SUFFICES ASSUME Init PROVE GreedyInv
  OBVIOUS
<1>1. IsInput(given)
  BY InputsAssumption DEF Init
<1>2. DOMAIN selection = {}
  BY DEF Init
<1>3. CollectInv
  <2> SUFFICES ASSUME NEW i \in 1..Len(given.prof), HasCandidates(given.prof[i]),
                      NEW k \in DOMAIN given.candidates[given.prof[i]]
               PROVE  ~Seen(i, k)
    BY <1>2 DEF CollectInv, Init
  <2>1. given.prof[i] \in DOMAIN given.candidates
    BY DEF HasCandidates
  <2>2. k \in Nat /\ k >= 1 /\ i >= 1
    BY <1>1, <2>1 DEF IsInput
  <2> QED
    BY <2>2 DEF Seen, Init
<1>4. {x \in Entries : Chosen(x)} = {}
  BY <1>2 DEF Chosen
<1>5. ChosenInv
  BY <1>4, FS_EmptySet DEF ChosenInv, Init
<1> QED
  BY <1>3, <1>5 DEF GreedyInv, SelectInv, Init, Done

(***************************************************************************)
(* First loop: every eligible candidate that was passed is in the list.    *)
(***************************************************************************)
LEMMA GreedyCollect ==
  ASSUME IInv, NoCandidates \/ Consider \/ NextBlock PROVE GreedyInv'
<1>1. /\ pc = "collect" /\ UNCHANGED <<given, pc, selection, masks, selected>>
      /\ block <= Len(given.prof)
  BY DEF NoCandidates, Consider, NextBlock, Scanning
<1>2. IsInput(given) /\ block \in Nat /\ block >= 1 /\ cand \in Nat /\ cand >= 1
  BY <1>1 DEF IInv, SafeInv, TypeOK, IsInput
<1>3. ChosenInv'
  <2>1. {x \in Entries : Chosen(x)}' = {x \in Entries : Chosen(x)}
    BY <1>1, SameInput, SameChosen
  <2> QED
    BY <1>1, <2>1 DEF IInv, GreedyInv, ChosenInv
<1>4. candidateList \in Seq(Entries)
  BY DEF IInv, SafeInv, TypeOK
<1>5. \A x : InList(x) => InList(x)'
  <2>1. CASE Consider
    <3>1. CASE candidateList' = candidateList
      BY <3>1 DEF InList
    <3>2. CASE candidateList' # candidateList
      <4>1. candidateList' = Append(candidateList, Entry(BB, given.candidates[BB][cand]))
        BY <2>1, <3>2 DEF Consider
      <4> DEFINE e == Entry(BB, given.candidates[BB][cand])
      <4> HIDE DEF e
      <4>2. /\ Len(candidateList) \in Nat
            /\ Len(Append(candidateList, e)) = Len(candidateList) + 1
            /\ \A m \in 1..Len(candidateList) : Append(candidateList, e)[m] = candidateList[m]
        BY <1>4
      <4> QED
        BY <4>1, <4>2 DEF InList, e
    <3> QED
      BY <3>1, <3>2
  <2>2. CASE ~Consider
    BY <2>2 DEF NoCandidates, NextBlock, InList
  <2> QED
    BY <2>1, <2>2
<1>6. cand' = 1 \/ (Scanning /\ HasCandidates(BB))'
  <2>1. CASE NoCandidates
    <3>1. cand = 1
      BY <1>1, <2>1 DEF NoCandidates, IInv, GreedyInv, CollectInv
    <3> QED BY <2>1, <3>1 DEF NoCandidates
  <2>2. CASE Consider
    BY <1>1, <2>2 DEF Consider, Scanning, HasCandidates, BB
  <2>3. CASE NextBlock
    BY <2>3 DEF NextBlock
  <2> QED
    BY <2>1, <2>2, <2>3
<1>7. ASSUME NEW i \in 1..Len(given.prof), HasCandidates(given.prof[i]),
             NEW k \in DOMAIN given.candidates[given.prof[i]],
             Seen(i, k)', Eligible(given.candidates[given.prof[i]][k]),
             NEW e, e = Entry(given.prof[i], given.candidates[given.prof[i]][k])
      PROVE  InList(e)'
  <2>0. /\ given.prof[i] \in DOMAIN given.candidates
        /\ k \in 1..Len(given.candidates[given.prof[i]])
        /\ Len(given.candidates[given.prof[i]]) \in Nat
    BY <1>2, <1>7 DEF HasCandidates, IsInput
  <2>1. CASE Seen(i, k)
    <3>1. InList(e)
      BY <1>1, <1>7, <2>1 DEF IInv, GreedyInv, CollectInv
    <3> QED
      BY <3>1, <1>5
  <2>2. CASE ~Seen(i, k)
    <3>1. i = block /\ k >= cand
      <4>1. CASE NoCandidates
        <5>1. cand = 1
          BY <1>1, <4>1 DEF NoCandidates, IInv, GreedyInv, CollectInv
        <5> QED
          BY <1>2, <1>7, <2>0, <2>2, <4>1, <5>1 DEF NoCandidates, Seen
      <4>2. CASE Consider
        BY <1>2, <1>7, <2>0, <2>2, <4>2 DEF Consider, Seen
      <4>3. CASE NextBlock
        BY <1>2, <1>7, <2>0, <2>2, <4>3 DEF NextBlock, Seen
      <4> QED
        BY <4>1, <4>2, <4>3
    <3>2. given.prof[i] = BB
      BY <3>1 DEF BB
    <3>3. ~NoCandidates
      BY <1>7, <3>2 DEF NoCandidates
    <3>4. ~NextBlock
      BY <1>2, <2>0, <3>1, <3>2 DEF NextBlock
    <3>5. Consider
      BY <3>3, <3>4
    <3>6. k = cand
      BY <1>2, <1>7, <2>0, <3>1, <3>5 DEF Consider, Seen
    <3>7. candidateList' = Append(candidateList, e)
      BY <1>7, <3>2, <3>5, <3>6 DEF Consider
    <3>8. /\ Len(candidateList) + 1 \in 1..Len(Append(candidateList, e))
          /\ Append(candidateList, e)[Len(candidateList) + 1] = e
      BY <1>4
    <3> QED
      BY <3>7, <3>8 DEF InList
  <2> QED
    BY <2>1, <2>2
<1>8. CollectInv'
  <2>1. DOMAIN selection' = {}
    BY <1>1 DEF IInv, GreedyInv, CollectInv
  <2>2. \A b : HasCandidates(b)' = HasCandidates(b)
    BY <1>1 DEF HasCandidates
  <2>3. \A c : Eligible(c)' = Eligible(c)
    BY <1>1 DEF Eligible
  <2>4. \A b, c : Entry(b, c)' = Entry(b, c)
    BY DEF Entry
  <2> QED
    BY <1>1, <1>6, <1>7, <2>1, <2>2, <2>3 DEF CollectInv, Entry
<1> QED
  BY <1>1, <1>3, <1>8 DEF GreedyInv, SelectInv, Done

(***************************************************************************)
(* When the first loop ends every entry is in the list; nothing is chosen. *)
(***************************************************************************)
LEMMA GreedySort ==
  ASSUME IInv, Sort PROVE GreedyInv'
<1>1. /\ pc = "collect" /\ pc' = "select" /\ UNCHANGED <<given, selection, masks, selected>>
      /\ block > Len(given.prof) /\ candidateList' = Sorted(candidateList)
  BY DEF Sort
<1>2. IsInput(given) /\ candidateList \in Seq(Entries) /\ block \in Nat
  BY DEF IInv, SafeInv, TypeOK, IsInput
<1>3. DOMAIN selection = {}
  BY <1>1 DEF IInv, GreedyInv, CollectInv
<1>4. ASSUME NEW x \in Entries PROVE InList(x)
  <2>1. PICK b \in Listed : x \in {Entry(b, c) : c \in Worth(b)}
    BY DEF Entries
  <2>2. PICK c \in Worth(b) : x = Entry(b, c)
    BY <2>1
  <2>3. PICK k \in DOMAIN given.candidates[b] : c = given.candidates[b][k]
    BY DEF Worth, Offers
  <2>4. PICK i \in 1..Len(given.prof) : given.prof[i] = b
    BY <1>2 DEF Listed, IsInput
  <2>5. Seen(i, k)
    BY <1>1, <1>2, <2>4 DEF Seen, IsInput
  <2>6. HasCandidates(b) /\ Eligible(c)
    BY DEF Listed, Worth
  <2> QED
    BY <1>1, <2>2, <2>3, <2>4, <2>5, <2>6 DEF IInv, GreedyInv, CollectInv
<1>5. \A i \in 1..Len(candidateList) : candidateList[i].value \in Int
  BY <1>2, EntryFacts, ElementOfSeq
<1>6. /\ Len(candidateList') = Len(candidateList)
      /\ \A i \in 1..Len(candidateList) :
           \E k \in 1..Len(candidateList) : candidateList'[k] = candidateList[i]
      /\ \A k, l \in 1..Len(candidateList) :
           k < l => candidateList'[k].value >= candidateList'[l].value
  BY <1>1, <1>2, <1>5, SortedFacts
<1>7. Entries' = Entries /\ \A x : Chosen(x)' = Chosen(x)
  BY <1>1, SameInput, SameChosen
<1>8. \A x : ~Chosen(x)
  BY <1>3 DEF Chosen
<1>9. \A x \in Entries : InList(x)'
  BY <1>4, <1>6 DEF InList
<1>10. SelectInv'
  BY <1>6, <1>7, <1>8, <1>9 DEF SelectInv
<1>11. ChosenInv'
  <2>1. {x \in Entries : Chosen(x)}' = {x \in Entries : Chosen(x)}
    BY <1>7
  <2> QED
    BY <1>1, <2>1, Zenon DEF IInv, GreedyInv, ChosenInv
<1> QED
  BY <1>1, <1>10, <1>11 DEF GreedyInv, CollectInv, Done

(***************************************************************************)
(* The pattern tells the entries of a block apart.                         *)
(***************************************************************************)
LEMMA EntryUnique ==
  ASSUME IsInput(given), NEW x \in Entries, NEW y \in Entries,
         x.block = y.block, x.pattern = y.pattern
  PROVE  x = y
<1>1. ASSUME NEW z \in Entries
      PROVE  /\ z.block \in DOMAIN given.candidates
             /\ \E k \in DOMAIN given.candidates[z.block] :
                  /\ z = Entry(z.block, given.candidates[z.block][k])
                  /\ z.pattern = given.candidates[z.block][k].pattern
  <2>1. PICK b \in Listed : z \in {Entry(b, c) : c \in Worth(b)}
    BY DEF Entries
  <2>2. PICK c \in Worth(b) : z = Entry(b, c)
    BY <2>1
  <2>3. PICK k \in DOMAIN given.candidates[b] : c = given.candidates[b][k]
    BY DEF Worth, Offers
  <2>4. z.block = b /\ z.pattern = c.pattern
    BY <2>2 DEF Entry
  <2> QED
    BY <2>2, <2>3, <2>4 DEF Listed, HasCandidates
<1>2. PICK k \in DOMAIN given.candidates[x.block] :
        /\ x = Entry(x.block, given.candidates[x.block][k])
        /\ x.pattern = given.candidates[x.block][k].pattern
  BY <1>1
<1>3. PICK l \in DOMAIN given.candidates[x.block] :
        /\ y = Entry(x.block, given.candidates[x.block][l])
        /\ y.pattern = given.candidates[x.block][l].pattern
  BY <1>1
<1>4. k = l
  <2> DEFINE cs == given.candidates[x.block]
  <2>1. x.block \in DOMAIN given.candidates
    BY <1>1
  <2>2. \A m, n \in DOMAIN cs : cs[m].pattern = cs[n].pattern => m = n
    BY <2>1, Zenon DEF IsInput
  <2>3. cs[k].pattern = cs[l].pattern
    BY <1>2, <1>3, Zenon
  <2> HIDE DEF cs
  <2> QED
    BY <2>2, <2>3 DEF cs
<1> QED
  BY <1>2, <1>3, <1>4, Zenon

(***************************************************************************)
(* The list once the best is off it.                                       *)
(***************************************************************************)
LEMMA RestFacts ==
  ASSUME IInv, Selecting, candidateList' = Tail(candidateList), pc' = pc, UNCHANGED given
  PROVE  /\ Best = candidateList[1] /\ 1 \in 1..Len(candidateList)
         /\ \A x : InList(x) => x = Best \/ InList(x)'
         /\ \A m \in 1..Len(candidateList') :
              /\ candidateList'[m] = candidateList[m + 1]
              /\ m + 1 \in 1..Len(candidateList) /\ 1 < m + 1
         /\ \A k, l \in 1..Len(candidateList') :
              k < l => candidateList'[k].value >= candidateList'[l].value
<1>1. candidateList \in Seq(Entries) /\ candidateList # <<>> /\ pc = "select"
  BY DEF IInv, SafeInv, TypeOK, Selecting
<1>2. /\ Best = candidateList[1] /\ Len(candidateList) \in Nat /\ Len(candidateList) >= 1
      /\ Len(candidateList') = Len(candidateList) - 1
      /\ \A m \in 1..Len(candidateList') : candidateList'[m] = candidateList[m + 1]
  BY <1>1, HeadTailProperties DEF Best
<1>3. ASSUME NEW x, InList(x), x # Best PROVE InList(x)'
  <2>1. PICK m \in 1..Len(candidateList) : candidateList[m] = x
    BY <1>3 DEF InList
  <2>2. m - 1 \in 1..Len(candidateList') /\ (m - 1) + 1 = m
    BY <1>2, <1>3, <2>1
  <2>3. candidateList'[m - 1] = x
    BY <1>2, <2>1, <2>2
  <2> QED
    BY <2>2, <2>3 DEF InList
<1>4. \A m \in 1..Len(candidateList') : m + 1 \in 1..Len(candidateList) /\ 1 < m + 1
  BY <1>2
<1>5. ASSUME NEW k \in 1..Len(candidateList'), NEW l \in 1..Len(candidateList'), k < l
      PROVE  candidateList'[k].value >= candidateList'[l].value
  <2>1. k + 1 < l + 1
    BY <1>5
  <2>2. candidateList[k + 1].value >= candidateList[l + 1].value
    BY <1>1, <1>4, <2>1 DEF IInv, GreedyInv, SelectInv
  <2> QED
    BY <1>2, <2>2
<1>6. \A x : InList(x) => x = Best \/ InList(x)'
  BY <1>3
<1>7. Best = candidateList[1] /\ 1 \in 1..Len(candidateList)
  BY <1>2
<1>8. \A m \in 1..Len(candidateList') : candidateList'[m] = candidateList[m + 1]
  BY <1>2
<1> QED
  BY <1>4, <1>5, <1>6, <1>7, <1>8

(***************************************************************************)
(* Taking the best candidate adds exactly that to what was chosen.         *)
(***************************************************************************)
LEMMA ChosenTake ==
  ASSUME IInv, TakeFirst \/ TakeAnother
  PROVE  /\ \A x \in Entries : Chosen(x)' <=> Chosen(x) \/ x = Best
         /\ ~Chosen(Best)
<1> DEFINE b == Best.block
           p == Best.pattern
<1>1. IInv => SafeInv
  BY DEF IInv
<1>2. IsInput(given) /\ Best \in Entries
  BY <1>1, TakeFacts
<1>3. ASSUME NEW x PROVE Chosen(x)' <=> Chosen(x) \/ (x.block = b /\ x.pattern = p)
  <2>1. CASE TakeFirst
    <3>1. /\ DOMAIN selection' = DOMAIN selection \cup {b}
          /\ selection'[b] = <<p>> /\ b \notin DOMAIN selection
          /\ \A d \in DOMAIN selection : selection'[d] = selection[d]
      BY <2>1 DEF TakeFirst, With
    <3>2. DOMAIN selection'[b] = {1} /\ selection'[b][1] = p
      BY <3>1
    <3> HIDE DEF b, p
    <3> QED
      BY <3>1, <3>2 DEF Chosen
  <2>2. CASE TakeAnother
    <3> DEFINE S == {c.pattern : c \in Worth(b)}
               n == Len(selection[b])
    <3>1. /\ b \in DOMAIN selection /\ selection[b] \in Seq(S) /\ p \in S
          /\ DOMAIN selection' = DOMAIN selection
          /\ selection'[b] = Append(selection[b], p)
          /\ \A d \in DOMAIN selection : d # b => selection'[d] = selection[d]
      BY <1>1, <2>2, TakeFacts DEF TakeAnother, SafeInv, TypeOK
    <3>2. /\ DOMAIN selection[b] = 1..n
          /\ DOMAIN selection'[b] = (1..n) \cup {n + 1}
          /\ selection'[b][n + 1] = p
          /\ \A i \in 1..n : selection'[b][i] = selection[b][i]
      <4> HIDE DEF S, p
      <4> QED BY <3>1
    <3> HIDE DEF b, p, n, S
    <3> QED
      BY <3>1, <3>2 DEF Chosen
  <2> QED
    BY <2>1, <2>2
<1>4. \A x \in Entries : x.block = b /\ x.pattern = p => x = Best
  BY <1>2, EntryUnique
<1>5. ~Chosen(Best)
  <2>1. CASE TakeFirst
    BY <2>1 DEF TakeFirst, Chosen
  <2>2. CASE TakeAnother
    <3>1. p \cap masks[b] = {} /\ b \in DOMAIN selection /\ p # {}
      BY <1>2, <2>2, EntryFacts DEF TakeAnother, Overlaps
    <3>2. \A i \in DOMAIN selection[b] : selection[b][i] \subseteq masks[b]
      BY <1>1, <3>1 DEF SafeInv, MaskInv
    <3> QED
      BY <3>1, <3>2 DEF Chosen
  <2> QED
    BY <2>1, <2>2
<1> QED
  BY <1>3, <1>4, <1>5

(***************************************************************************)
(* What is taken stands first in the list: nothing that is left is better. *)
(***************************************************************************)
LEMMA GreedyTake ==
  ASSUME IInv, TakeFirst \/ TakeAnother PROVE GreedyInv'
<1>1. /\ Selecting /\ pc = "select" /\ pc' = pc /\ candidateList' = Tail(candidateList)
      /\ UNCHANGED given /\ selected' = selected + 1
  BY DEF TakeFirst, TakeAnother, Selecting
<1>2. IsInput(given) /\ Best \in Entries /\ Entries' = Entries
  BY TakeFacts DEF IInv
<1>3. \A x \in Entries : Beaten(x) => Beaten(x)'
  BY <1>2, ChosenTake DEF Beaten
<1>4. \A x \in Entries : InList(x)' \/ Chosen(x)' \/ Beaten(x)'
  BY <1>1, <1>3, RestFacts, ChosenTake DEF IInv, GreedyInv, SelectInv
<1>5. ASSUME NEW x \in Entries, NEW m \in 1..Len(candidateList'), Chosen(x)'
      PROVE  x.value >= candidateList'[m].value
  <2>1. /\ candidateList'[m] = candidateList[m + 1] /\ Best = candidateList[1]
        /\ m + 1 \in 1..Len(candidateList) /\ 1 < m + 1 /\ 1 \in 1..Len(candidateList)
    BY <1>1, RestFacts
  <2>2. CASE Chosen(x)
    BY <1>1, <2>1, <2>2 DEF IInv, GreedyInv, SelectInv
  <2>3. CASE x = Best
    BY <1>1, <2>1, <2>3 DEF IInv, GreedyInv, SelectInv
  <2> QED
    BY <1>5, <2>2, <2>3, ChosenTake
<1>6. SelectInv'
  BY <1>1, <1>2, <1>4, <1>5, RestFacts DEF SelectInv
<1>7. ChosenInv'
  <2> DEFINE chosen == {x \in Entries : Chosen(x)}
  <2>1. chosen' = chosen \cup {Best}
    BY <1>2, ChosenTake
  <2>2. Best \notin chosen
    BY ChosenTake
  <2>3. IsFiniteSet(chosen) /\ Cardinality(chosen) = selected
    BY DEF IInv, GreedyInv, ChosenInv
  <2> HIDE DEF chosen
  <2>4. IsFiniteSet(chosen') /\ Cardinality(chosen') = selected + 1
    BY <2>1, <2>2, <2>3, FS_AddElement
  <2> QED
    BY <1>1, <2>4 DEF ChosenInv, chosen
<1> QED
  BY <1>1, <1>6, <1>7 DEF GreedyInv, CollectInv, Done

(***************************************************************************)
(* What is left out overlaps a pattern that was taken earlier, and is      *)
(* worth no more.                                                          *)
(***************************************************************************)
LEMMA GreedyLeaveOut ==
  ASSUME IInv, LeaveOut PROVE GreedyInv'
<1>1. /\ Selecting /\ pc = "select" /\ pc' = pc /\ candidateList' = Tail(candidateList)
      /\ UNCHANGED <<given, selection, masks, selected>>
  BY DEF LeaveOut, Selecting, Rest
<1>2. IsInput(given) /\ candidateList \in Seq(Entries) /\ Entries' = Entries
  BY <1>1, SameInput DEF IInv, SafeInv, TypeOK
<1>3. Best \in Entries
  BY <1>1, <1>2, ListFacts DEF Best, Selecting
<1>4. Beaten(Best)
  <2> DEFINE b == Best.block
             S == {c.pattern : c \in Worth(b)}
  <2>1. b \in DOMAIN selection /\ Best.pattern \cap masks[b] # {}
    BY DEF LeaveOut, Overlaps
  <2>2. masks[b] = UNION {selection[b][i] : i \in DOMAIN selection[b]}
    BY <2>1 DEF IInv, SafeInv, MaskInv
  <2>3. PICK i \in DOMAIN selection[b] : Best.pattern \cap selection[b][i] # {}
    BY <2>1, <2>2
  <2>4. selection[b][i] \in S
    <3>1. selection[b] \in Seq(S)
      BY <2>1 DEF IInv, SafeInv, TypeOK
    <3> HIDE DEF S, b
    <3> QED
      BY <3>1
  <2>5. PICK c \in Worth(b) : c.pattern = selection[b][i]
    BY <2>4
  <2>6. b \in Listed
    BY <1>2, <1>3, EntryFacts
  <2>7. Entry(b, c) \in Entries
    BY <2>6 DEF Entries
  <2>8. PICK y \in Entries : y.block = b /\ y.pattern = selection[b][i]
    BY <2>5, <2>7 DEF Entry
  <2>9. Chosen(y)
    BY <2>1, <2>8 DEF Chosen
  <2>10. y.value >= Best.value
    BY <1>1, <2>9, RestFacts DEF IInv, GreedyInv, SelectInv
  <2> QED
    BY <2>3, <2>8, <2>9, <2>10 DEF Beaten
<1>5. \A x : Chosen(x)' = Chosen(x) /\ Beaten(x)' = Beaten(x)
  BY <1>1, SameChosen
<1>6. \A x \in Entries : InList(x)' \/ Chosen(x)' \/ Beaten(x)'
  BY <1>1, <1>4, <1>5, RestFacts DEF IInv, GreedyInv, SelectInv
<1>7. ASSUME NEW x \in Entries, NEW m \in 1..Len(candidateList'), Chosen(x)'
      PROVE  x.value >= candidateList'[m].value
  BY <1>1, <1>5, <1>7, RestFacts DEF IInv, GreedyInv, SelectInv
<1>8. SelectInv'
  BY <1>1, <1>2, <1>6, <1>7, RestFacts DEF SelectInv
<1>9. ChosenInv'
  <2>1. {x \in Entries : Chosen(x)}' = {x \in Entries : Chosen(x)}
    BY <1>2, <1>5
  <2> QED
    BY <1>1, <2>1 DEF IInv, GreedyInv, ChosenInv
<1> QED
  BY <1>1, <1>8, <1>9 DEF GreedyInv, CollectInv, Done

(***************************************************************************)
(* Stopping changes no list.                                               *)
(***************************************************************************)
LEMMA GreedyStop ==
  ASSUME IInv, Stop \/ UNCHANGED vars PROVE GreedyInv'
<1>1. UNCHANGED <<given, block, cand, candidateList, selection, masks, selected>>
  BY DEF Stop, vars
<1>2. /\ Entries' = Entries
      /\ \A x : Chosen(x)' = Chosen(x) /\ Beaten(x)' = Beaten(x) /\ InList(x)' = InList(x)
  BY <1>1, SameInput, SameChosen DEF InList
<1>3. ChosenInv'
  <2>1. {x \in Entries : Chosen(x)}' = {x \in Entries : Chosen(x)}
    BY <1>2
  <2> QED
    BY <1>1, <2>1 DEF IInv, GreedyInv, ChosenInv
<1>4. SelectInv' /\ (Done => candidateList = <<>> \/ Full)'
  BY <1>1, <1>2 DEF Stop, vars, IInv, GreedyInv, SelectInv, Done, Full
<1>5. CollectInv'
  <2>1. CASE Stop
    BY <2>1 DEF Stop, CollectInv
  <2>2. CASE UNCHANGED vars
    <3>1. pc' = pc /\ BB' = BB /\ Scanning' = Scanning
      BY <1>1, <2>2 DEF vars, BB, Scanning
    <3>2. /\ \A b : HasCandidates(b)' = HasCandidates(b)
          /\ \A c : Eligible(c)' = Eligible(c)
          /\ \A i, k : Seen(i, k)' = Seen(i, k)
      BY <1>1 DEF HasCandidates, Eligible, Seen
    <3>3. \A x : InList(x)' = InList(x)
      BY <1>2
    <3> QED
      BY <1>1, <3>1, <3>2, <3>3 DEF IInv, GreedyInv, CollectInv, Entry
  <2> QED
    BY <2>1, <2>2
<1> QED
  BY <1>3, <1>4, <1>5 DEF GreedyInv

(***************************************************************************)
(* The list and what was taken account for every eligible candidate.       *)
(***************************************************************************)
THEOREM InductiveInvariant == Spec => []IInv
<1>1. Init => IInv
  BY SafeInit, GreedyInit DEF IInv
<1>2. IInv /\ [Next]_vars => IInv'
  <2>1. IInv /\ [Next]_vars => GreedyInv'
    BY GreedyCollect, GreedySort, GreedyTake, GreedyLeaveOut, GreedyStop DEF Next
  <2> QED
    BY <2>1, SafeNext DEF IInv
<1> QED
  BY <1>1, <1>2, PTL DEF Spec

(***************************************************************************)
(* The greedy choice, for every profile, any number of candidates and any  *)
(* limit: a profitable candidate is left out only for something at least   *)
(* as valuable.                                                            *)
(***************************************************************************)
THEOREM GreedyIsRight == Spec => []NothingBetterLeftOut
<1>1. IInv => NothingBetterLeftOut
  <2> SUFFICES ASSUME IInv, Done, NEW x \in Profitable
               PROVE  LET taken  == {y \in Profitable : Chosen(y)}
                          asGood == {y \in taken : y.value >= x.value}
                      IN  \/ x \in taken
                          \/ \E y \in asGood : y.block = x.block /\ y.pattern \cap x.pattern # {}
                          \/ Cardinality(taken) = given.maxCI /\ asGood = taken
    BY DEF NothingBetterLeftOut
  <2>1. IsInput(given)
    BY DEF IInv, SafeInv, TypeOK
  <2>2. Profitable = Entries
    <3>1. ASSUME NEW b \in Listed, NEW c \in Offers(b)
          PROVE  Eligible(c) <=> c.num_inputs <= given.maxInputs /\ c.sw > c.hw
      <4>1. IsCandidate(c)
        BY <2>1, CandidateFacts
      <4> QED
        BY <4>1 DEF Eligible, IsCandidate
    <3>2. \A b \in Listed :
            Worth(b) = {d \in Offers(b) : d.num_inputs <= given.maxInputs /\ d.sw > d.hw}
      BY <3>1 DEF Worth
    <3> QED
      BY <3>2 DEF Profitable, Entries
  <2> DEFINE taken  == {y \in Entries : Chosen(y)}
             asGood == {y \in taken : y.value >= x.value}
  <2>3. x \in Entries
    BY <2>2
  <2>4. InList(x) \/ Chosen(x) \/ Beaten(x)
    BY <2>3 DEF IInv, GreedyInv, SelectInv, Done
  <2>5. ASSUME Beaten(x)
        PROVE  \E y \in asGood : y.block = x.block /\ y.pattern \cap x.pattern # {}
    BY <2>5 DEF Beaten
  <2>6. ASSUME InList(x) PROVE Cardinality(taken) = given.maxCI /\ asGood = taken
    <3>1. PICK m \in 1..Len(candidateList) : candidateList[m] = x
      BY <2>6 DEF InList
    <3>2. candidateList # <<>>
      BY <3>1
    <3>3. selected = given.maxCI
      BY <3>2 DEF IInv, GreedyInv, Full
    <3>4. Cardinality(taken) = given.maxCI
      BY <3>3 DEF IInv, GreedyInv, ChosenInv
    <3>5. \A y \in taken : y.value >= x.value
      BY <3>1 DEF IInv, GreedyInv, SelectInv, Done
    <3> QED
      BY <3>4, <3>5
  <2> QED
    BY <2>2, <2>3, <2>4, <2>5, <2>6
<1> QED
  BY <1>1, InductiveInvariant, PTL
=============================================================================
