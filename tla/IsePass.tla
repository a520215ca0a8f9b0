------------------------------ MODULE IsePass ------------------------------
(***************************************************************************)
(* The passes that drive identification and selection                      *)
(* (src/ise/lib/ISEPass/ISEPass.cpp): -ise goes over the blocks of a       *)
(* module, identifies candidates, writes them to files when asked to, and  *)
(* selects; -ise-sel reads the files of an earlier run and selects.  An    *)
(* alarm or an interrupt ends a pass at any moment; files stay.            *)
(*                                                                         *)
(* Inputs of a behaviour: prog, the module of blocks 1..n                  *)
(*    name   [block -> name], function and block name joined by "_": not   *)
(*           always distinct, blocks need not have a name                  *)
(*    size   [block -> number of vertices]                                 *)
(*    count  [block -> number of executions], from the profile or all one  *)
(*    sw     [block -> [vertex -> cycles in software]]                     *)
(*    hw     [Architecture object -> [block -> [pattern -> cycles in       *)
(*           hardware, with the transfers]]]                               *)
(* The identification and the selection have an Architecture object each,  *)
(* with other settings (the module Architecture): the time of a pattern in *)
(* hardware need not be the same for both.  Times in software depend on no *)
(* setting.                                                                *)
(*                                                                         *)
(* opt, the command line, and found, what the identification algorithm     *)
(* of each run finds in each block: a set of patterns, sets of vertices    *)
(* (the modules MaxMiso, SingleCut, MultipleCuts and UnionCuts).           *)
(***************************************************************************)
EXTENDS Integers, Sequences, FiniteSets, FiniteSetsExt, Functions

CONSTANTS Programs, OptionSets, Findings, MaxRuns

ASSUME MaxRunsAssumption == MaxRuns \in Nat

Objects == {"identification", "selection"}

IsProgram(p) ==
  /\ Len(p.name) \in Nat /\ DOMAIN p.name = 1..Len(p.name)
  /\ \A b \in DOMAIN p.name :
       /\ p.size[b] \in Nat /\ p.count[b] \in Nat
       /\ p.sw[b] \in [1..p.size[b] -> Nat]
       /\ \A o \in Objects : p.hw[o][b] \in [SUBSET (1..p.size[b]) -> Nat]

ASSUME ProgramsAssumption == \A p \in Programs : IsProgram(p)

VARIABLES prog, opt, found,
          pass,        \* the pass that runs or ran last: "none", "ise", "ise-sel"
          pc,
          run,         \* how many times -ise was started
          block,       \* the next block
          vector,      \* candidateVector
          dfgMap,      \* the blocks with a graph
          resultMap,   \* [block -> patterns], for blocks that have some
          selected,    \* [block -> patterns] after selection
          estimate,    \* [sw, hw], the runtimes of the program
          cwd, res,    \* the files of two directories, [name -> file]
          collected    \* the complete run whose files res holds, or 0

input  == <<prog, opt, found>>
memory == <<block, vector, dfgMap, resultMap, selected, estimate>>
files  == <<cwd, res, collected>>
vars   == <<input, pass, pc, run, memory, files>>

Blocks == DOMAIN prog.name
Active == pc \in {"block", "open", "write", "read", "select", "estimate"}

File(state, r, cands) == [state |-> state, run |-> r, cands |-> cands]
Absent  == File("absent", 0, {})
Partial == File("partial", 0, {})

(* IdentName, the name of the function and of the block.                   *)
FileNameFault(b) == prog.name[1]
FileName(b) == prog.name[b]

Names == {prog.name[b] : b \in Blocks}

NoEstimate == [sw |-> 0, hw |-> 0]

Fresh ==
  /\ block' = 1 /\ vector' = {} /\ dfgMap' = {}
  /\ resultMap' = <<>> /\ selected' = <<>> /\ estimate' = NoEstimate

Init ==
  /\ prog \in Programs
  /\ opt \in OptionSets
  /\ found \in [1..MaxRuns -> Findings]
  /\ pass = "none" /\ pc = "off" /\ run = 0
  /\ block = 1 /\ vector = {} /\ dfgMap = {}
  /\ resultMap = <<>> /\ selected = <<>> /\ estimate = NoEstimate
  /\ cwd = [x \in Names |-> Absent]
  /\ res = [x \in Names |-> Absent]
  /\ collected = 0

-----------------------------------------------------------------------------
(***************************************************************************)
(* -ise, one block: a block without a graph is passed over; a benchmark    *)
(* runs the algorithm for its time alone; otherwise the candidates are     *)
(* kept if there are any, and written even if there are none.              *)
(***************************************************************************)
StartIse ==
  /\ ~Active /\ run < MaxRuns
  /\ pass' = "ise" /\ pc' = "block" /\ run' = run + 1
  /\ Fresh
  /\ UNCHANGED <<input, files>>

AtBlock == pc = "block" /\ block \in Blocks

SkipEmpty ==
  /\ AtBlock /\ prog.size[block] = 0
  /\ block' = block + 1
  /\ UNCHANGED <<input, pass, pc, run, vector, dfgMap, resultMap, selected, estimate, files>>

Benchmark ==
  /\ AtBlock /\ prog.size[block] > 0 /\ opt.benchmark
  /\ dfgMap' = dfgMap \cup {block}
  /\ block' = block + 1
  /\ UNCHANGED <<input, pass, pc, run, vector, resultMap, selected, estimate, files>>

Candidates == {p \in found[run][block] : p \subseteq 1..prog.size[block]}

With(f, b, x) == [c \in DOMAIN f \cup {b} |-> IF c = b THEN x ELSE f[c]]
Kept(cands) == IF cands = {} THEN resultMap ELSE With(resultMap, block, cands)

(* candidateVector is declared in the loop: each block begins with none.   *)
FoundInFault == vector \cup Candidates
FoundIn == Candidates

WritesFault == opt.serialization /\ vector' # {}
Writes == opt.serialization

Identify ==
  /\ AtBlock /\ prog.size[block] > 0 /\ ~opt.benchmark
  /\ dfgMap' = dfgMap \cup {block}
  /\ vector' = FoundIn
  /\ resultMap' = Kept(vector')
  /\ IF Writes THEN pc' = "open" /\ UNCHANGED block
               ELSE block' = block + 1 /\ UNCHANGED pc
  /\ UNCHANGED <<input, pass, run, selected, estimate, files>>

(* write_cand_serialize: the file is truncated when it is opened, and      *)
(* what the stream holds is not written when exit() ends the program.      *)
OpenFile ==
  /\ pc = "open"
  /\ cwd' = [cwd EXCEPT ![FileName(block)] = Partial]
  /\ pc' = "write"
  /\ UNCHANGED <<input, pass, run, memory, res, collected>>

WriteFile ==
  /\ pc = "write"
  /\ cwd' = [cwd EXCEPT ![FileName(block)] = File("whole", run, vector)]
  /\ block' = block + 1
  /\ pc' = "block"
  /\ UNCHANGED <<input, pass, run, vector, dfgMap, resultMap, selected, estimate, res, collected>>

EndOfModule ==
  /\ pc = "block" /\ block \notin Blocks
  /\ pc' = IF opt.benchmark \/ opt.stop THEN "returned" ELSE "select"
  /\ UNCHANGED <<input, pass, run, memory, files>>

-----------------------------------------------------------------------------
(***************************************************************************)
(* Selection.  method1 takes disjoint patterns of each block, none that is *)
(* not faster in hardware for the selection's Architecture object; which   *)
(* of them is the matter of SelectionMethod1.  SelectionRandom has a run() *)
(* of other parameters than the virtual one: the call reaches that of the  *)
(* base class, which does nothing.                                         *)
(***************************************************************************)
SwOf(b, p)      == SumFunction([v \in p |-> prog.sw[b][v]])
HwTime(o, b, p) == prog.hw[o][b][p]

(* A file of another block may hold vertices this one does not have: there *)
(* is no telling what such a pattern is worth.                             *)
ProfitableFault(b, p) ==
  p \subseteq 1..prog.size[b] => SwOf(b, p) >= HwTime("selection", b, p)
Profitable(b, p) ==
  p \subseteq 1..prog.size[b] => SwOf(b, p) > HwTime("selection", b, p)

Disjoint(P) == \A p, q \in P : p # q => p \cap q = {}

Selectable(b) ==
  {P \in SUBSET resultMap[b] : Disjoint(P) /\ \A p \in P : Profitable(b, p)}

Selections ==
  IF opt.selection = "random" THEN {<<>>}
  ELSE {[b \in {c \in DOMAIN s : s[c] # {}} |-> s[b]] :
          s \in {f \in [DOMAIN resultMap -> SUBSET UNION {resultMap[b] : b \in DOMAIN resultMap}] :
                   \A b \in DOMAIN resultMap : f[b] \in Selectable(b)}}

Select ==
  /\ pc = "select"
  /\ selected' \in Selections
  /\ pc' = IF pass = "ise" /\ opt.estimation THEN "estimate" ELSE "returned"
  /\ UNCHANGED <<input, pass, run, block, vector, dfgMap, resultMap, estimate, files>>

(* The runtime of the program: that of a block is its software time, less  *)
(* that of the selected patterns, and their time in hardware as the object *)
(* of the identification has it.                                           *)
SwBlock(b) == SwOf(b, 1..prog.size[b])
SwTotal(b, P) == SumFunction([p \in P |-> SwOf(b, p)])
HwTotal(b, P) == SumFunction([p \in P |-> HwTime("identification", b, p)])

HwOfFault(b) == SwBlock(b) - SwTotal(b, resultMap[b]) + HwTotal(b, selected[b])
HwOf(b) == SwBlock(b) - SwTotal(b, selected[b]) + HwTotal(b, selected[b])

Estimate ==
  /\ pc = "estimate"
  /\ estimate' =
       [sw |-> SumFunction([b \in dfgMap |-> SwBlock(b) * prog.count[b]]),
        hw |-> SumFunction([b \in dfgMap |->
                 (IF b \in DOMAIN selected THEN HwOf(b) ELSE SwBlock(b)) * prog.count[b]])]
  /\ pc' = "returned"
  /\ UNCHANGED <<input, pass, run, block, vector, dfgMap, resultMap, selected, files>>

-----------------------------------------------------------------------------
(***************************************************************************)
(* -ise-sel reads the files from the directory res, to which somebody has  *)
(* brought the files of -ise (external).  An archive that cannot be read   *)
(* throws, and nobody catches.                                             *)
(***************************************************************************)
Collect ==
  /\ ~Active /\ pass = "ise" /\ res # cwd
  /\ res' = cwd
  /\ collected' = IF pc = "returned" /\ opt.serialization /\ ~opt.benchmark THEN run ELSE 0
  /\ UNCHANGED <<input, pass, pc, run, memory, cwd>>

StartSelect ==
  /\ ~Active /\ pass = "ise"
  /\ pass' = "ise-sel" /\ pc' = "read"
  /\ Fresh
  /\ UNCHANGED <<input, run, files>>

SkipUnread ==
  /\ pc = "read" /\ block \in Blocks /\ prog.size[block] = 0
  /\ block' = block + 1
  /\ UNCHANGED <<input, pass, pc, run, vector, dfgMap, resultMap, selected, estimate, files>>

ReadableFault(f) == f.state # "absent"
Readable(f) == f.state = "whole"

ReadFile ==
  /\ pc = "read" /\ block \in Blocks /\ prog.size[block] > 0
  /\ LET f == res[FileName(block)]
     IN  IF Readable(f)
         THEN /\ vector' = f.cands
              /\ resultMap' = Kept(f.cands)
              /\ block' = block + 1
              /\ UNCHANGED pc
         ELSE /\ pc' = "threw"
              /\ UNCHANGED <<vector, resultMap, block>>
  /\ dfgMap' = dfgMap \cup {block}
  /\ UNCHANGED <<input, pass, run, selected, estimate, files>>

AllRead ==
  /\ pc = "read" /\ block \notin Blocks
  /\ pc' = "select"
  /\ UNCHANGED <<input, pass, run, memory, files>>

-----------------------------------------------------------------------------
(***************************************************************************)
(* SignalHandler: the alarm set at the start of -ise, and the interrupts   *)
(* of a user, end the program wherever it is.  ISEAlarmStop is not         *)
(* cancelled when identification is over.                                  *)
(***************************************************************************)
AlarmRings == opt.alarm /\ pass = "ise" /\ Active

Alarm ==
  /\ AlarmRings
  /\ pc' = "killed"
  /\ UNCHANGED <<input, pass, run, memory, files>>

Interrupt ==
  /\ Active
  /\ pc' = "killed"
  /\ UNCHANGED <<input, pass, run, memory, files>>

Next ==
  \/ StartIse \/ SkipEmpty \/ Benchmark \/ Identify \/ OpenFile \/ WriteFile \/ EndOfModule
  \/ Select \/ Estimate
  \/ Collect \/ StartSelect \/ SkipUnread \/ ReadFile \/ AllRead
  \/ Alarm \/ Interrupt

Spec == Init /\ [][Next]_vars

-----------------------------------------------------------------------------
(***************************************************************************)
(* Type invariant.                                                         *)
(***************************************************************************)
Patterns == SUBSET UNION {1..prog.size[b] : b \in Blocks}

IsFile(f) == f.state \in {"absent", "partial", "whole"} /\ f.run \in 0..run /\ f.cands \subseteq Patterns

TypeOK ==
  /\ IsProgram(prog)
  /\ Active \/ pc \in {"off", "returned", "threw", "killed"}
  /\ run \in 0..MaxRuns /\ collected \in 0..run
  /\ block \in 1..(Len(prog.name) + 1)
  /\ vector \subseteq Patterns
  /\ dfgMap \subseteq Blocks
  /\ DOMAIN resultMap \subseteq dfgMap
  /\ \A b \in DOMAIN resultMap : resultMap[b] # {} /\ resultMap[b] \subseteq Patterns
  /\ DOMAIN selected \subseteq DOMAIN resultMap
  /\ DOMAIN cwd = Names /\ DOMAIN res = Names
  /\ \A x \in Names : IsFile(cwd[x]) /\ IsFile(res[x])

(***************************************************************************)
(* What -ise selects are candidates its own algorithm found in the same    *)
(* block, nothing of another block or of an earlier run.                   *)
(***************************************************************************)
SelectsItsOwn ==
  pass = "ise" =>
    \A b \in DOMAIN resultMap :
      /\ resultMap[b] \subseteq found[run][b]
      /\ b \in DOMAIN selected => selected[b] \subseteq resultMap[b]

(***************************************************************************)
(* When a run with serialization comes to its end, the files of all blocks *)
(* are its own and whole: what earlier runs left, also runs that were      *)
(* killed while they wrote, is gone.                                       *)
(***************************************************************************)
CompletedRunOwnsFiles ==
  pass = "ise" /\ pc = "returned" /\ opt.serialization /\ ~opt.benchmark =>
    \A b \in Blocks :
      prog.size[b] > 0 => cwd[FileName(b)].state = "whole" /\ cwd[FileName(b)].run = run

(***************************************************************************)
(* -ise-sel never selects after a file it could not read whole.            *)
(***************************************************************************)
SelectsFromWholeFiles ==
  pass = "ise-sel" =>
    \A b \in dfgMap :
      (b < block \/ pc \in {"select", "returned"}) =>
        /\ res[FileName(b)].state = "whole"
        /\ (IF b \in DOMAIN resultMap THEN resultMap[b] ELSE {}) = res[FileName(b)].cands

(***************************************************************************)
(* From the files of a complete run, -ise-sel selects among what that run  *)
(* found: for each block, in the last block of the same name.  When no two *)
(* blocks share a name that is the block itself, and the two passes select *)
(* from the same candidates.                                               *)
(***************************************************************************)
LastNamed(b) == Max({c \in Blocks : prog.name[c] = prog.name[b] /\ prog.size[c] > 0})
FoundBy(r, b) == {p \in found[r][b] : p \subseteq 1..prog.size[b]}

ReadsBack ==
  pass = "ise-sel" /\ collected > 0 =>
    /\ pc # "threw"
    /\ pc \in {"select", "returned"} =>
         \A b \in dfgMap :
           (IF b \in DOMAIN resultMap THEN resultMap[b] ELSE {}) = FoundBy(collected, LastNamed(b))

(***************************************************************************)
(* The estimate of the program with custom instructions is never less than *)
(* the selected patterns take in hardware as often as they are executed,   *)
(* which relies on the selection taking disjoint patterns, and the same as *)
(* in software when nothing was selected.                                  *)
(***************************************************************************)
Estimated ==
  pc = "returned" /\ pass = "ise" /\ opt.estimation /\ ~opt.benchmark /\ ~opt.stop

EstimateBounded ==
  Estimated =>
    /\ estimate.hw >= SumFunction([b \in DOMAIN selected |->
                                     HwTotal(b, selected[b]) * prog.count[b]])
    /\ DOMAIN selected = {} => estimate.hw = estimate.sw

(***************************************************************************)
(* The selection pays: unless a selected pattern is dearer for the object  *)
(* of the identification than for that of the selection, the estimate with *)
(* custom instructions is below the one in software as soon as a block     *)
(* that has any is executed, and never above it.                           *)
(***************************************************************************)
NoneDearer ==
  \A b \in DOMAIN selected : \A p \in selected[b] :
    HwTime("identification", b, p) <= HwTime("selection", b, p)

SelectionPays ==
  Estimated /\ NoneDearer =>
    /\ estimate.hw <= estimate.sw
    /\ (\E b \in DOMAIN selected : prog.count[b] > 0) => estimate.hw < estimate.sw

(***************************************************************************)
(* ISEPass.cpp:145-147: "Select ISE selection algorithm: method1 (def.),   *)
(* random".  SelectionRandom.cpp:66 takes all of two candidates or fewer   *)
(* (for as long as the architecture has room).                             *)
(***************************************************************************)
RandomSelects ==
  pc = "returned" /\ opt.selection = "random" /\ DOMAIN resultMap # {}
    /\ (\A b \in DOMAIN resultMap : Cardinality(resultMap[b]) <= 2) /\ ~opt.stop =>
      DOMAIN selected # {}

-----------------------------------------------------------------------------
(***************************************************************************)
(* The inductive invariant behind SelectsItsOwn, CompletedRunOwnsFiles,    *)
(* SelectsFromWholeFiles and ReadsBack.                                    *)
(***************************************************************************)
(* Each pass has its own part of the code, and selects at the end of it. *)
PassInv ==
  /\ pc \in {"block", "open", "write", "read", "select"} => DOMAIN selected = {}
  /\ pc \in {"block", "open", "write", "estimate"} => pass = "ise"
  /\ pc = "read" => pass = "ise-sel"
  /\ pc \in {"open", "write"} => block \in Blocks /\ prog.size[block] > 0

(* Up to the next block the files are this run's, but for the one that is  *)
(* being written: it may have the name of an earlier block's.              *)
WrittenInv ==
  pass = "ise" /\ opt.serialization /\ ~opt.benchmark /\ (Active \/ pc = "returned") =>
    /\ \A b \in Blocks : b < block /\ prog.size[b] > 0 =>
         \/ cwd[FileName(b)].state = "whole" /\ cwd[FileName(b)].run = run
         \/ pc = "write" /\ FileName(b) = FileName(block)
    /\ pc \in {"select", "estimate", "returned"} => block \notin Blocks

(* Up to the next block resultMap is what the files say. *)
ReadInv ==
  pass = "ise-sel" =>
    /\ DOMAIN resultMap \subseteq 1..(block - 1)
    /\ pc \in {"read", "select", "returned"} => dfgMap \subseteq 1..(block - 1)
    /\ \A b \in dfgMap : b < block =>
         /\ res[FileName(b)].state = "whole"
         /\ (IF b \in DOMAIN resultMap THEN resultMap[b] ELSE {}) = res[FileName(b)].cands

(* A file holds what was found in the last block of its name so far.       *)
LastBefore(n, b) ==
  prog.size[b] > 0 /\ \A c \in (b + 1)..(n - 1) : prog.size[c] > 0 => FileName(c) # FileName(b)

CandidatesInv ==
  pass = "ise" /\ opt.serialization /\ ~opt.benchmark /\ (Active \/ pc = "returned") =>
    /\ pc \in {"open", "write"} => vector = FoundBy(run, block)
    /\ \A b \in Blocks : b < block /\ LastBefore(block, b) =>
         \/ cwd[FileName(b)].cands = FoundBy(run, b)
         \/ pc = "write" /\ FileName(b) = FileName(block)

(* The files of a complete run, wherever the passes are since. *)
CollectedInv ==
  /\ \A b \in dfgMap : prog.size[b] > 0
  /\ collected > 0 =>
       /\ pass = "ise-sel" => pc # "threw"
       /\ \A b \in Blocks : LastBefore(Len(prog.name) + 1, b) =>
            res[FileName(b)].state = "whole" /\ res[FileName(b)].cands = FoundBy(collected, b)

IInv ==
  /\ TypeOK
  /\ PassInv
  /\ SelectsItsOwn
  /\ WrittenInv
  /\ ReadInv
  /\ CandidatesInv
  /\ CollectedInv
=============================================================================
