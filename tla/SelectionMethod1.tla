--------------------------- MODULE SelectionMethod1 ---------------------------
(***************************************************************************)
(* SelectionMethod1::run (src/ise/lib/common/SelectionMethod1.cpp): picks  *)
(* the custom instructions out of the candidates of all basic blocks.      *)
(*                                                                         *)
(* It walks the profile list, keeps the candidates that fit the ports and  *)
(* are faster in hardware, sorts them by value and takes them greedily,    *)
(* leaving out those that overlap a pattern already taken in their block.  *)
(*                                                                         *)
(* A candidate is a record                                                 *)
(*    pattern     the vertices of the block's graph it covers              *)
(*    num_inputs  inputs of the graph built from the pattern               *)
(*    sw, hw      cycles in software, and in hardware with communication   *)
(*    value       rank of the 'value' formula: the code only compares it   *)
(* The estimates are data here; the float comparison ratio > 1 is sw > hw. *)
(*                                                                         *)
(* An operator whose name ends in Fault is no part of the model: it is the *)
(* operator below it with a plausible mistake.                             *)
(***************************************************************************)
EXTENDS Integers, Sequences, FiniteSets

CONSTANTS
  Blocks,       \* basic blocks
  Inputs        \* what a run may be given: records
                \*   prof        the profile list, a sequence of blocks
                \*   candidates  [a subset of Blocks -> sequences of candidates]
                \*   maxInputs, maxCI   of the architecture

(* A pattern covers a vertex at least, and is found once in its block.     *)
IsCandidate(c) ==
  /\ IsFiniteSet(c.pattern) /\ c.pattern # {}
  /\ c.num_inputs \in Nat /\ c.sw \in Nat /\ c.hw \in Nat /\ c.value \in Int

IsInput(i) ==
  /\ i.prof \in Seq(Blocks)
  /\ DOMAIN i.candidates \subseteq Blocks
  /\ \A b \in DOMAIN i.candidates :
       LET cs == i.candidates[b]
       IN  /\ Len(cs) \in Nat /\ DOMAIN cs = 1..Len(cs)
           /\ \A k \in DOMAIN cs : IsCandidate(cs[k])
           /\ \A k, l \in DOMAIN cs : cs[k].pattern = cs[l].pattern => k = l
  /\ i.maxInputs \in Nat /\ i.maxCI \in Nat

ASSUME InputsAssumption == \A i \in Inputs : IsInput(i)

VARIABLES
  given,          \* the inputs of run(), never changed
  pc,             \* "collect", "select" or "done"
  block,          \* position in the profile list
  cand,           \* position in the candidates of that block
  candidateList,  \* [block, pattern, value], first the best once sorted
  selection,      \* patterns taken, per block that has any
  masks,          \* union of the patterns taken, per block that has any
  selected        \* number of patterns taken

vars == <<given, pc, block, cand, candidateList, selection, masks, selected>>

Init ==
  /\ given \in Inputs
  /\ pc = "collect"
  /\ block = 1
  /\ cand = 1
  /\ candidateList = <<>>
  /\ selection = <<>>
  /\ masks = <<>>
  /\ selected = 0

-----------------------------------------------------------------------------
(***************************************************************************)
(* First loop: build the list of candidates worth selecting.               *)
(***************************************************************************)
BB == given.prof[block]
HasCandidates(b) == b \in DOMAIN given.candidates
Scanning == pc = "collect" /\ block <= Len(given.prof)

NoCandidates ==
  /\ Scanning
  /\ ~HasCandidates(BB)
  /\ block' = block + 1
  /\ UNCHANGED <<given, pc, cand, candidateList, selection, masks, selected>>

Eligible(c) == c.num_inputs <= given.maxInputs /\ c.sw # 0 /\ c.sw > c.hw

Entry(b, c) == [block |-> b, pattern |-> c.pattern, value |-> c.value]

Consider ==
  /\ Scanning
  /\ HasCandidates(BB)
  /\ cand <= Len(given.candidates[BB])
  /\ LET c == given.candidates[BB][cand]
     IN  candidateList' = IF Eligible(c) THEN Append(candidateList, Entry(BB, c))
                                         ELSE candidateList
  /\ cand' = cand + 1
  /\ UNCHANGED <<given, pc, block, selection, masks, selected>>

NextBlock ==
  /\ Scanning
  /\ HasCandidates(BB)
  /\ cand > Len(given.candidates[BB])
  /\ block' = block + 1
  /\ cand' = 1
  /\ UNCHANGED <<given, pc, candidateList, selection, masks, selected>>

(***************************************************************************)
(* candidateList.sort: std::list::sort is stable, so the sorted list is    *)
(* determined by the values.                                               *)
(***************************************************************************)
GoesBeforeFault(x, y) == x.value < y.value
GoesBefore(x, y) == x.value > y.value

Before(s, i) ==
  {j \in DOMAIN s : GoesBefore(s[j], s[i]) \/ (~GoesBefore(s[i], s[j]) /\ j < i)}
Rank(s, i) == 1 + Cardinality(Before(s, i))

Sorted(s) == [k \in DOMAIN s |-> s[CHOOSE i \in DOMAIN s : Rank(s, i) = k]]

Sort ==
  /\ pc = "collect"
  /\ block > Len(given.prof)
  /\ candidateList' = Sorted(candidateList)
  /\ pc' = "select"
  /\ UNCHANGED <<given, block, cand, selection, masks, selected>>

(***************************************************************************)
(* Second loop: take the best candidate that is left, or leave it out.     *)
(***************************************************************************)
Best == Head(candidateList)

FullFault == selected > given.maxCI
Full == selected = given.maxCI

Selecting == pc = "select" /\ candidateList # <<>> /\ ~Full

With(f, b, x) == [y \in DOMAIN f \cup {b} |-> IF y = b THEN x ELSE f[y]]

FirstMaskFault == masks
FirstMask == With(masks, Best.block, Best.pattern)

(* The first pattern of a block. *)
TakeFirst ==
  /\ Selecting
  /\ Best.block \notin DOMAIN selection
  /\ selection' = With(selection, Best.block, <<Best.pattern>>)
  /\ masks' = FirstMask
  /\ selected' = selected + 1
  /\ candidateList' = Tail(candidateList)
  /\ UNCHANGED <<given, pc, block, cand>>

Overlaps == Best.pattern \cap masks[Best.block] # {}

NewMaskFault == masks[Best.block]
NewMask == masks[Best.block] \cup Best.pattern

TakeAnother ==
  /\ Selecting
  /\ Best.block \in DOMAIN selection
  /\ ~Overlaps
  /\ masks' = [masks EXCEPT ![Best.block] = NewMask]
  /\ selection' = [selection EXCEPT ![Best.block] = Append(@, Best.pattern)]
  /\ selected' = selected + 1
  /\ candidateList' = Tail(candidateList)
  /\ UNCHANGED <<given, pc, block, cand>>

Rest == Tail(candidateList)

LeaveOut ==
  /\ Selecting
  /\ Best.block \in DOMAIN selection
  /\ Overlaps
  /\ candidateList' = Rest
  /\ UNCHANGED <<given, pc, block, cand, selection, masks, selected>>

Stop ==
  /\ pc = "select"
  /\ candidateList = <<>> \/ Full
  /\ pc' = "done"
  /\ UNCHANGED <<given, block, cand, candidateList, selection, masks, selected>>

Done == pc = "done"

Next ==
  \/ NoCandidates
  \/ Consider
  \/ NextBlock
  \/ Sort
  \/ TakeFirst
  \/ TakeAnother
  \/ LeaveOut
  \/ Stop
  \/ Done /\ UNCHANGED vars

Spec == Init /\ [][Next]_vars

-----------------------------------------------------------------------------
(***************************************************************************)
(* Type invariant.  What is listed and what is taken are eligible          *)
(* candidates of their blocks.                                             *)
(***************************************************************************)
Listed    == {b \in Blocks : HasCandidates(b) /\ \E i \in DOMAIN given.prof : given.prof[i] = b}
Offers(b) == {given.candidates[b][k] : k \in DOMAIN given.candidates[b]}
Worth(b)  == {c \in Offers(b) : Eligible(c)}
Entries   == UNION {{Entry(b, c) : c \in Worth(b)} : b \in Listed}

TypeOK ==
  /\ IsInput(given)
  /\ pc \in {"collect", "select", "done"}
  /\ block \in 1..(Len(given.prof) + 1)
  /\ cand \in Nat \ {0}
  /\ candidateList \in Seq(Entries)
  /\ DOMAIN selection \subseteq Listed
  /\ \A b \in DOMAIN selection : selection[b] \in Seq({c.pattern : c \in Worth(b)})
  /\ DOMAIN masks = DOMAIN selection
  /\ selected \in Nat

(***************************************************************************)
(* The patterns taken in one block are pairwise disjoint, however many     *)
(* were taken before: no instruction is moved into two custom ones.  The   *)
(* code compares a candidate with the mask of the block only, so this      *)
(* rests on the mask being kept up to date.                                *)
(***************************************************************************)
DisjointInBlock ==
  \A b \in DOMAIN selection : \A i, j \in DOMAIN selection[b] :
    i # j => selection[b][i] \cap selection[b][j] = {}

(***************************************************************************)
(* The architecture has room for all custom instructions: no more than     *)
(* getMaxCustomInstructions() patterns are taken over all blocks, and each *)
(* has at most getMaxInputs() inputs and was faster in hardware.           *)
(***************************************************************************)
Taken == UNION {{b} \X DOMAIN selection[b] : b \in DOMAIN selection}

FitsArchitecture ==
  /\ Cardinality(Taken) <= given.maxCI
  /\ \A b \in DOMAIN selection : \A i \in DOMAIN selection[b] :
       \E c \in Offers(b) : /\ c.pattern = selection[b][i]
                            /\ c.num_inputs <= given.maxInputs
                            /\ c.hw < c.sw

(***************************************************************************)
(* Greedy optimality.  When run() ends, a profitable candidate was left    *)
(* out only for something at least as valuable: either it overlaps a       *)
(* pattern taken in its block that is worth at least as much, or the limit *)
(* is reached and everything taken is worth at least as much.              *)
(***************************************************************************)
Profitable == UNION {{Entry(b, c) : c \in {d \in Offers(b) :
                                           d.num_inputs <= given.maxInputs /\ d.sw > d.hw}} :
                     b \in Listed}

Chosen(x) ==
  /\ x.block \in DOMAIN selection
  /\ \E i \in DOMAIN selection[x.block] : selection[x.block][i] = x.pattern

NothingBetterLeftOut ==
  Done => \A x \in Profitable :
    LET taken  == {y \in Profitable : Chosen(y)}
        asGood == {y \in taken : y.value >= x.value}
    IN  \/ x \in taken
        \/ \E y \in asGood : y.block = x.block /\ y.pattern \cap x.pattern # {}
        \/ Cardinality(taken) = given.maxCI /\ asGood = taken

-----------------------------------------------------------------------------
(***************************************************************************)
(* The inductive invariant: SafeInv behind DisjointInBlock and             *)
(* FitsArchitecture, and GreedyInv behind NothingBetterLeftOut.            *)
(***************************************************************************)
(* The mask of a block is what was taken there. *)
MaskInv ==
  \A b \in DOMAIN selection :
    masks[b] = UNION {selection[b][i] : i \in DOMAIN selection[b]}

(* The limit is tested for equality: the count never passes it. *)
CountInv ==
  /\ IsFiniteSet(Taken)
  /\ Cardinality(Taken) = selected
  /\ selected <= given.maxCI

SafeInv ==
  /\ TypeOK
  /\ MaskInv
  /\ CountInv
  /\ DisjointInBlock

InList(x) == \E m \in 1..Len(candidateList) : candidateList[m] = x

(* Something that overlaps it and is worth at least as much was taken. *)
Beaten(x) ==
  \E y \in Entries : /\ Chosen(y) /\ y.block = x.block /\ y.value >= x.value
                     /\ y.pattern \cap x.pattern # {}

(* The first loop has listed whatever is eligible among what it has seen. *)
Seen(i, k) == i < block \/ (i = block /\ k < cand)

CollectInv ==
  pc = "collect" =>
    /\ DOMAIN selection = {}
    /\ cand = 1 \/ (Scanning /\ HasCandidates(BB))
    /\ \A i \in 1..Len(given.prof) :
         LET b == given.prof[i]
         IN  HasCandidates(b) =>
               \A k \in DOMAIN given.candidates[b] :
                 Seen(i, k) /\ Eligible(given.candidates[b][k]) =>
                   InList(Entry(b, given.candidates[b][k]))

(* The second loop goes down in value, and drops nothing but what is beaten. *)
SelectInv ==
  pc # "collect" =>
    /\ \A k, l \in 1..Len(candidateList) :
         k < l => candidateList[k].value >= candidateList[l].value
    /\ \A x \in Entries : \A m \in 1..Len(candidateList) :
         Chosen(x) => x.value >= candidateList[m].value
    /\ \A x \in Entries : InList(x) \/ Chosen(x) \/ Beaten(x)

ChosenInv ==
  LET chosen == {x \in Entries : Chosen(x)}
  IN  IsFiniteSet(chosen) /\ Cardinality(chosen) = selected

GreedyInv ==
  /\ CollectInv
  /\ SelectInv
  /\ ChosenInv
  /\ Done => candidateList = <<>> \/ Full

IInv == SafeInv /\ GreedyInv
=============================================================================
