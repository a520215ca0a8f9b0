----------------------------- MODULE IsePassProofs -----------------------------
(***************************************************************************)
(* Proofs about IsePass for every module of blocks, every command line,    *)
(* whatever the algorithms find, any number of runs, and an alarm or an    *)
(* interrupt between any two steps.                                        *)
(***************************************************************************)
EXTENDS IsePass, FiniteSetTheorems, WellFoundedInduction, TLAPS

(***************************************************************************)
(* The blocks of a program.                                                *)
(***************************************************************************)
LEMMA ProgramFacts ==
  ASSUME IsProgram(prog)
  PROVE  /\ Len(prog.name) \in Nat /\ Blocks = 1..Len(prog.name)
         /\ \A b \in Blocks : prog.size[b] \in Nat /\ prog.count[b] \in Nat
BY DEF IsProgram, Blocks

(***************************************************************************)
(* The invariant holds at first.                                           *)
(***************************************************************************)
LEMMA InitInv ==
  ASSUME Init PROVE IInv
<1>1. IsProgram(prog)
  BY ProgramsAssumption DEF Init
<1>2. TypeOK
  <2>1. 1 \in 1..(Len(prog.name) + 1)
    BY <1>1, ProgramFacts
  <2> QED
    BY <1>1, <2>1, MaxRunsAssumption DEF Init, TypeOK, Active, Blocks, Names, IsFile, Absent, File
<1> QED
  BY <1>2 DEF Init, IInv, PassInv, SelectsItsOwn, WrittenInv, ReadInv, CandidatesInv, CollectedInv

(***************************************************************************)
(* Whatever a step does to the rest, the blocks, the patterns and the      *)
(* names of the files are those of the program.                            *)
(***************************************************************************)
LEMMA InputStays ==
  ASSUME UNCHANGED input
  PROVE  /\ Blocks' = Blocks /\ Patterns' = Patterns /\ Names' = Names
         /\ \A b : FileName(b)' = FileName(b)
         /\ IsProgram(prog)' = IsProgram(prog)
BY DEF input, Blocks, Patterns, Names, FileName, IsProgram

(***************************************************************************)
(* No step changes the inputs.                                             *)
(***************************************************************************)
LEMMA StepKeepsInput ==
  ASSUME Next PROVE UNCHANGED input
BY DEF Next, StartIse, SkipEmpty, Benchmark, Identify, OpenFile, WriteFile, EndOfModule, Select,
       Estimate, Collect, StartSelect, SkipUnread, ReadFile, AllRead, Alarm, Interrupt

(***************************************************************************)
(* What the program says of its blocks.                                    *)
(***************************************************************************)
LEMMA BlockFacts ==
  ASSUME TypeOK
  PROVE  /\ Len(prog.name) \in Nat /\ Blocks = 1..Len(prog.name)
         /\ block \in Nat
         /\ block \in Blocks => block + 1 \in 1..(Len(prog.name) + 1)
         /\ \A b \in Blocks : prog.size[b] \in Nat /\ FileName(b) \in Names
<1>1. IsProgram(prog) /\ block \in 1..(Len(prog.name) + 1)
  BY DEF TypeOK
<1>2. \A b \in Blocks : FileName(b) \in Names
  BY DEF FileName, Names
<1> QED
  BY <1>1, <1>2, ProgramFacts

(***************************************************************************)
(* A file of an earlier run is a file.                                     *)
(***************************************************************************)
LEMMA FilesStay ==
  ASSUME TypeOK, UNCHANGED input, UNCHANGED cwd, UNCHANGED res, run' = run \/ run' = run + 1
  PROVE  /\ DOMAIN cwd' = Names' /\ DOMAIN res' = Names'
         /\ \A x \in Names' : IsFile(cwd[x])' /\ IsFile(res[x])'
<1>1. run \in Nat /\ \A i \in 0..run : i \in 0..run'
  BY MaxRunsAssumption DEF TypeOK
<1> QED
  BY <1>1, InputStays DEF TypeOK, IsFile

(***************************************************************************)
(* What is kept for a block are patterns of it.                            *)
(***************************************************************************)
LEMMA KeptFacts ==
  ASSUME NEW cands, cands \subseteq Patterns, TypeOK, resultMap' = Kept(cands)
  PROVE  /\ DOMAIN resultMap \subseteq DOMAIN resultMap'
         /\ DOMAIN resultMap' \subseteq DOMAIN resultMap \cup {block}
         /\ \A b \in DOMAIN resultMap' : resultMap'[b] # {} /\ resultMap'[b] \subseteq Patterns
         /\ \A b \in DOMAIN resultMap' : b # block => resultMap'[b] = resultMap[b]
         /\ cands # {} => block \in DOMAIN resultMap' /\ resultMap'[block] = cands
         /\ cands = {} => resultMap' = resultMap
<1>1. CASE cands = {}
  BY <1>1 DEF Kept, TypeOK
<1>2. CASE cands # {}
  BY <1>2 DEF Kept, With, TypeOK
<1> QED
  BY <1>1, <1>2

-----------------------------------------------------------------------------
(***************************************************************************)
(* Type correctness.                                                       *)
(***************************************************************************)
LEMMA TypeIdentify ==
  ASSUME IInv, Identify PROVE TypeOK'
<1>1. UNCHANGED <<input, pass, run, selected, cwd, res, collected>> /\ TypeOK /\ pc = "block"
  BY DEF Identify, IInv, files, AtBlock
<1>2. vector' \subseteq Patterns
  BY DEF Identify, AtBlock, FoundIn, Candidates, Patterns
<1>3. \A b \in DOMAIN resultMap' : resultMap'[b] # {} /\ resultMap'[b] \subseteq Patterns
  BY <1>1, <1>2, KeptFacts DEF Identify
<1>4. DOMAIN resultMap' \subseteq dfgMap' /\ DOMAIN selected' \subseteq DOMAIN resultMap'
  BY <1>1, <1>2, KeptFacts DEF Identify, TypeOK
<1>5. dfgMap' \subseteq Blocks
  BY <1>1 DEF Identify, AtBlock, TypeOK
<1>6. block' \in 1..(Len(prog.name) + 1) /\ Active'
  BY <1>1, BlockFacts DEF Identify, AtBlock, Active, TypeOK
<1> QED
  BY <1>1, <1>2, <1>3, <1>4, <1>5, <1>6, InputStays, FilesStay DEF TypeOK, input

(***************************************************************************)
(* A file that is read holds patterns of its block, or ends -ise-sel.      *)
(***************************************************************************)
LEMMA TypeReadFile ==
  ASSUME IInv, ReadFile PROVE TypeOK'
<1>1. UNCHANGED <<input, pass, run, selected, cwd, res, collected>> /\ TypeOK
  BY DEF ReadFile, IInv, files
<1>2. res[FileName(block)].cands \subseteq Patterns
  BY <1>1, BlockFacts DEF ReadFile, TypeOK, IsFile
<1>3. /\ vector' \subseteq Patterns
      /\ \A b \in DOMAIN resultMap' : resultMap'[b] # {} /\ resultMap'[b] \subseteq Patterns
      /\ DOMAIN resultMap' \subseteq dfgMap' /\ DOMAIN selected' \subseteq DOMAIN resultMap'
      /\ block' \in 1..(Len(prog.name) + 1)
      /\ Active' \/ pc' = "threw"
  <2>1. CASE Readable(res[FileName(block)])
    <3>1. /\ vector' = res[FileName(block)].cands
          /\ resultMap' = Kept(res[FileName(block)].cands)
          /\ block' = block + 1 /\ pc' = "read" /\ dfgMap' = dfgMap \cup {block}
      BY <2>1 DEF ReadFile
    <3> QED
      BY <1>1, <1>2, <3>1, KeptFacts, BlockFacts DEF ReadFile, TypeOK, Active
  <2>2. CASE ~Readable(res[FileName(block)])
    BY <1>1, <2>2 DEF ReadFile, TypeOK
  <2> QED
    BY <2>1, <2>2
<1>4. dfgMap' \subseteq Blocks
  BY <1>1 DEF ReadFile, TypeOK
<1> QED
  BY <1>1, <1>3, <1>4, InputStays, FilesStay DEF TypeOK, input

(***************************************************************************)
(* What is written is a file.                                              *)
(***************************************************************************)
LEMMA TypeWrite ==
  ASSUME IInv, OpenFile \/ WriteFile PROVE TypeOK'
<1>1. /\ TypeOK /\ block \in Blocks
      /\ UNCHANGED <<input, pass, run, vector, dfgMap, resultMap, selected, res, collected>>
  BY DEF OpenFile, WriteFile, IInv, PassInv, memory
<1>2. block' \in 1..(Len(prog.name) + 1) /\ Active'
  BY <1>1, BlockFacts DEF OpenFile, WriteFile, TypeOK, Active, memory
<1>3. PICK f : /\ f = Partial \/ f = File("whole", run, vector)
               /\ cwd' = [cwd EXCEPT ![FileName(block)] = f]
  BY DEF OpenFile, WriteFile
<1>4. IsFile(f)
  BY <1>1, <1>3, MaxRunsAssumption DEF IsFile, Partial, File, TypeOK
<1>5. DOMAIN cwd' = Names /\ \A x \in Names : IsFile(cwd'[x]) /\ IsFile(res'[x])
  BY <1>1, <1>3, <1>4 DEF TypeOK
<1> QED
  BY <1>1, <1>2, <1>5, InputStays DEF TypeOK, IsFile, input

(***************************************************************************)
(* Whatever is selected in a block is a candidate of that block.           *)
(***************************************************************************)
LEMMA SelectionFacts ==
  ASSUME NEW sel \in Selections
  PROVE  /\ DOMAIN sel \subseteq DOMAIN resultMap
         /\ \A b \in DOMAIN sel : sel[b] \subseteq resultMap[b]
<1>1. CASE opt.selection = "random"
  <2>1. sel = <<>>
    BY <1>1 DEF Selections
  <2> QED
    BY <2>1
<1>2. CASE opt.selection # "random"
  <2> DEFINE S == SUBSET UNION {resultMap[b] : b \in DOMAIN resultMap}
  <2>1. PICK s \in [DOMAIN resultMap -> S] :
          /\ \A b \in DOMAIN resultMap : s[b] \in Selectable(b)
          /\ sel = [b \in {c \in DOMAIN s : s[c] # {}} |-> s[b]]
    BY <1>2 DEF Selections
  <2> HIDE DEF S
  <2>2. \A b \in DOMAIN resultMap : s[b] \subseteq resultMap[b]
    BY <2>1 DEF Selectable
  <2>3. DOMAIN sel = {c \in DOMAIN resultMap : s[c] # {}}
    BY <2>1
  <2>4. \A b \in DOMAIN sel : sel[b] = s[b]
    BY <2>1
  <2> QED
    BY <2>2, <2>3, <2>4
<1> QED
  BY <1>1, <1>2

(***************************************************************************)
(* What is selected are patterns of the blocks.                            *)
(***************************************************************************)
LEMMA TypeSelect ==
  ASSUME IInv, Select PROVE TypeOK'
<1>1. UNCHANGED <<input, run, block, vector, dfgMap, resultMap, cwd, res, collected>> /\ TypeOK
  BY DEF Select, IInv, files
<1>2. DOMAIN selected' \subseteq DOMAIN resultMap /\ (Active' \/ pc' = "returned")
  BY SelectionFacts DEF Select, Active
<1> QED
  BY <1>1, <1>2, InputStays, FilesStay DEF TypeOK, input

(***************************************************************************)
(* Every step keeps the types.                                             *)
(***************************************************************************)
LEMMA TypeStep ==
  ASSUME IInv, [Next]_vars PROVE TypeOK'
<1>1. TypeOK
  BY DEF IInv
<1>2. ASSUME StartIse \/ StartSelect PROVE TypeOK'
  <2>1. /\ UNCHANGED <<input, cwd, res, collected>> /\ Fresh /\ Active'
        /\ run' = run \/ run' = run + 1
        /\ run' \in 0..MaxRuns
    BY <1>1, <1>2, MaxRunsAssumption DEF StartIse, StartSelect, files, Active, TypeOK
  <2>2. collected' \in 0..run' /\ block' \in 1..(Len(prog.name) + 1)
    BY <1>1, <2>1, MaxRunsAssumption DEF TypeOK, IsProgram, Fresh
  <2> QED
    BY <1>1, <2>1, <2>2, InputStays, FilesStay DEF TypeOK, Fresh, input
<1>3. ASSUME SkipEmpty \/ Benchmark \/ SkipUnread PROVE TypeOK'
  <2>1. /\ UNCHANGED <<input, pass, pc, run, vector, resultMap, selected, cwd, res, collected>>
        /\ block \in Blocks /\ block' = block + 1
        /\ dfgMap' = dfgMap \/ dfgMap' = dfgMap \cup {block}
    BY <1>3 DEF SkipEmpty, Benchmark, SkipUnread, AtBlock, files
  <2>2. block' \in 1..(Len(prog.name) + 1)
    BY <1>1, <2>1, BlockFacts
  <2> QED
    BY <1>1, <2>1, <2>2, InputStays, FilesStay DEF TypeOK, Active, input
<1>4. ASSUME EndOfModule \/ AllRead \/ Alarm \/ Interrupt \/ Estimate PROVE TypeOK'
  <2>1. /\ UNCHANGED <<input, pass, run, block, vector, dfgMap, resultMap, selected, files>>
        /\ pc' \in {"returned", "select", "killed"}
    BY <1>4 DEF EndOfModule, AllRead, Alarm, Interrupt, Estimate, memory
  <2> QED
    BY <1>1, <2>1, InputStays, FilesStay DEF TypeOK, Active, input, files
<1>5. ASSUME Collect PROVE TypeOK'
  <2>1. collected' \in 0..run
    BY <1>1, <1>5, MaxRunsAssumption DEF Collect, TypeOK
  <2>2. res' = cwd /\ cwd' = cwd /\ UNCHANGED <<input, pass, pc, run, memory>>
    BY <1>5 DEF Collect
  <2> QED
    BY <1>1, <2>1, <2>2, InputStays DEF TypeOK, Active, IsFile, input, memory
<1>6. ASSUME UNCHANGED vars PROVE TypeOK'
  BY <1>1, <1>6, InputStays, FilesStay DEF TypeOK, vars, input, memory, files, Active
<1> QED
  BY <1>2, <1>3, <1>4, <1>5, <1>6, TypeIdentify, TypeReadFile, TypeWrite, TypeSelect DEF Next

-----------------------------------------------------------------------------
(***************************************************************************)
(* Each pass stays in its own part.                                        *)
(***************************************************************************)
LEMMA PassStep ==
  ASSUME IInv, [Next]_vars PROVE PassInv'
<1> USE DEF IInv, PassInv
<1>1. ASSUME StartIse \/ SkipEmpty \/ Benchmark \/ EndOfModule PROVE PassInv'
  BY <1>1 DEF StartIse, SkipEmpty, Benchmark, EndOfModule, AtBlock, Fresh, memory
<1>2. ASSUME Identify PROVE PassInv'
  BY <1>2, InputStays DEF Identify, AtBlock, input
<1>3. ASSUME OpenFile \/ WriteFile PROVE PassInv'
  BY <1>3, InputStays DEF OpenFile, WriteFile, memory, input
<1>4. ASSUME Select \/ Estimate \/ AllRead \/ Alarm \/ Interrupt PROVE PassInv'
  BY <1>4 DEF Select, Estimate, AllRead, Alarm, Interrupt, memory
<1>5. ASSUME Collect PROVE PassInv'
  BY <1>5 DEF Collect, Active
<1>6. ASSUME StartSelect \/ SkipUnread \/ ReadFile PROVE PassInv'
  BY <1>6 DEF StartSelect, SkipUnread, ReadFile, Fresh
<1>7. ASSUME UNCHANGED vars PROVE PassInv'
  BY <1>7, InputStays DEF vars, memory, input
<1> QED
  BY <1>1, <1>2, <1>3, <1>4, <1>5, <1>6, <1>7 DEF Next

(***************************************************************************)
(* Nothing of another block or run gets into the results of -ise.          *)
(***************************************************************************)
LEMMA OwnStep ==
  ASSUME IInv, [Next]_vars PROVE SelectsItsOwn'
<1>1. SelectsItsOwn /\ TypeOK /\ PassInv
  BY DEF IInv
<1>2. ASSUME StartIse PROVE SelectsItsOwn'
  BY <1>2 DEF StartIse, Fresh, SelectsItsOwn
<1>3. ASSUME Identify PROVE SelectsItsOwn'
  <2>1. vector' \subseteq Patterns /\ vector' \subseteq found[run][block]
    BY <1>3 DEF Identify, AtBlock, FoundIn, Candidates, Patterns
  <2>2. resultMap' = Kept(vector') /\ UNCHANGED <<found, pass, run, selected>>
    BY <1>3 DEF Identify, input
  <2>3. pass = "ise" /\ block \notin DOMAIN selected
    BY <1>1, <1>3 DEF Identify, AtBlock, PassInv
  <2> QED
    BY <1>1, <2>1, <2>2, <2>3, KeptFacts DEF SelectsItsOwn
<1>4. ASSUME Select PROVE SelectsItsOwn'
  <2>1. UNCHANGED <<found, pass, run, resultMap>>
    BY <1>4 DEF Select, input
  <2>2. \A b \in DOMAIN selected' : selected'[b] \subseteq resultMap[b]
    BY <1>4, SelectionFacts DEF Select
  <2> QED
    BY <1>1, <2>1, <2>2 DEF SelectsItsOwn
<1>5. ASSUME UNCHANGED <<found, pass, run, resultMap, selected>> PROVE SelectsItsOwn'
  BY <1>1, <1>5 DEF SelectsItsOwn
<1>6. ASSUME StartSelect \/ SkipUnread \/ ReadFile PROVE SelectsItsOwn'
  BY <1>1, <1>6 DEF StartSelect, SkipUnread, ReadFile, PassInv, SelectsItsOwn
<1>7. ASSUME \/ SkipEmpty \/ Benchmark \/ OpenFile \/ WriteFile \/ EndOfModule \/ Estimate
             \/ Collect \/ AllRead \/ Alarm \/ Interrupt \/ UNCHANGED vars
      PROVE  UNCHANGED <<found, pass, run, resultMap, selected>>
  BY <1>7 DEF SkipEmpty, Benchmark, OpenFile, WriteFile, EndOfModule, Estimate, Collect, AllRead,
              Alarm, Interrupt, vars, input, memory
<1> QED
  BY <1>2, <1>3, <1>4, <1>5, <1>6, <1>7 DEF Next

-----------------------------------------------------------------------------
(***************************************************************************)
(* The files up to the next block are whole and of this run.               *)
(***************************************************************************)
LEMMA WrittenStep ==
  ASSUME IInv, [Next]_vars PROVE WrittenInv'
<1>1. TypeOK /\ PassInv /\ WrittenInv
  BY DEF IInv
<1>2. ASSUME StartIse PROVE WrittenInv'
  <2>1. block' = 1 /\ pc' = "block" /\ UNCHANGED input
    BY <1>2 DEF StartIse, Fresh
  <2>2. \A b \in Blocks : b \in Nat /\ ~(b < 1)
    BY <1>1, BlockFacts
  <2> QED
    BY <2>1, <2>2, InputStays DEF WrittenInv
<1>3. ASSUME SkipEmpty PROVE WrittenInv'
  <2>1. /\ UNCHANGED <<input, pass, pc, run, cwd>> /\ pc = "block" /\ block \in Blocks
        /\ block' = block + 1 /\ prog.size[block] = 0
    BY <1>3 DEF SkipEmpty, AtBlock, files
  <2>2. \A b \in Blocks : b < block + 1 => b < block \/ b = block
    BY <1>1, BlockFacts
  <2> QED
    BY <1>1, <2>1, <2>2, InputStays DEF WrittenInv, Active, input
<1>4. ASSUME Benchmark PROVE WrittenInv'
  BY <1>4 DEF Benchmark, WrittenInv, input
<1>5. ASSUME Identify PROVE WrittenInv'
  <2>1. /\ UNCHANGED <<input, pass, run, cwd>> /\ pc = "block"
        /\ opt.serialization => pc' = "open" /\ block' = block
    BY <1>5 DEF Identify, AtBlock, Writes, files
  <2> QED
    BY <1>1, <2>1, InputStays DEF WrittenInv, Active, input
<1>6. ASSUME OpenFile PROVE WrittenInv'
  <2>1. /\ UNCHANGED <<input, pass, run, block>> /\ pc = "open" /\ pc' = "write"
        /\ cwd' = [cwd EXCEPT ![FileName(block)] = Partial]
    BY <1>6 DEF OpenFile, memory
  <2>2. \A b \in Blocks : FileName(b) # FileName(block) => cwd'[FileName(b)] = cwd[FileName(b)]
    BY <1>1, <2>1, BlockFacts DEF TypeOK
  <2> QED
    BY <1>1, <2>1, <2>2, InputStays DEF WrittenInv, Active, input
<1>7. ASSUME WriteFile PROVE WrittenInv'
  <2>1. /\ UNCHANGED <<input, pass, run>> /\ pc = "write" /\ pc' = "block"
        /\ cwd' = [cwd EXCEPT ![FileName(block)] = File("whole", run, vector)]
        /\ block' = block + 1 /\ block \in Blocks
    BY <1>1, <1>7 DEF WriteFile, PassInv
  <2>2. /\ cwd'[FileName(block)].state = "whole" /\ cwd'[FileName(block)].run = run
        /\ \A b \in Blocks : FileName(b) # FileName(block) =>
                                cwd'[FileName(b)] = cwd[FileName(b)]
    BY <1>1, <2>1, BlockFacts DEF TypeOK, File
  <2>3. \A b \in Blocks : b < block + 1 => b < block \/ b = block
    BY <1>1, BlockFacts
  <2> QED
    BY <1>1, <2>1, <2>2, <2>3, InputStays DEF WrittenInv, Active, input
<1>8. ASSUME EndOfModule \/ Select \/ Estimate PROVE WrittenInv'
  <2>1. /\ UNCHANGED <<input, pass, run, block, cwd>>
        /\ \/ pc = "block" /\ block \notin Blocks
           \/ pc \in {"select", "estimate"}
    BY <1>8 DEF EndOfModule, Select, Estimate, memory, files
  <2> QED
    BY <1>1, <2>1, InputStays DEF WrittenInv, Active, input
<1>9. ASSUME Alarm \/ Interrupt PROVE WrittenInv'
  BY <1>9 DEF Alarm, Interrupt, WrittenInv, Active
<1>10. ASSUME Collect \/ UNCHANGED vars PROVE WrittenInv'
  <2>1. UNCHANGED <<input, pass, pc, run, block, cwd>>
    BY <1>10 DEF Collect, vars, memory, files
  <2> QED
    BY <1>1, <2>1, InputStays DEF WrittenInv, Active, input
<1>11. ASSUME StartSelect \/ SkipUnread \/ ReadFile \/ AllRead PROVE WrittenInv'
  BY <1>1, <1>11 DEF StartSelect, SkipUnread, ReadFile, AllRead, PassInv, WrittenInv
<1> QED
  BY <1>2, <1>3, <1>4, <1>5, <1>6, <1>7, <1>8, <1>9, <1>10, <1>11 DEF Next

(***************************************************************************)
(* What -ise-sel knows is what it has read.                                *)
(***************************************************************************)
LEMMA ReadStep ==
  ASSUME IInv, [Next]_vars PROVE ReadInv'
<1>1. TypeOK /\ PassInv /\ ReadInv
  BY DEF IInv
<1>2. \A b \in 1..(block - 1) : b \in 1..((block + 1) - 1) /\ b # block
  BY <1>1, BlockFacts
<1>3. ASSUME StartSelect PROVE ReadInv'
  BY <1>3 DEF StartSelect, Fresh, ReadInv
<1>4. ASSUME SkipUnread PROVE ReadInv'
  <2>1. /\ UNCHANGED <<input, pass, pc, dfgMap, resultMap, res>> /\ pc = "read"
        /\ block' = block + 1
    BY <1>4 DEF SkipUnread, files
  <2>2. \A b \in 1..(block - 1) : b < block
    BY <1>1, BlockFacts
  <2> QED
    BY <1>1, <1>2, <2>1, <2>2, InputStays DEF ReadInv
<1>5. ASSUME ReadFile PROVE ReadInv'
  <2> DEFINE f == res[FileName(block)]
             Known(b) == IF b \in DOMAIN resultMap THEN resultMap[b] ELSE {}
  <2>1. /\ pc = "read" /\ pass = "ise-sel" /\ block \in Blocks
        /\ UNCHANGED <<input, pass, res>> /\ dfgMap' = dfgMap \cup {block}
    BY <1>1, <1>5 DEF ReadFile, PassInv, files
  <2>2. /\ DOMAIN resultMap \subseteq 1..(block - 1) /\ dfgMap \subseteq 1..(block - 1)
        /\ \A b \in dfgMap : b < block => res[FileName(b)].state = "whole"
                                         /\ Known(b) = res[FileName(b)].cands
    BY <1>1, <2>1 DEF ReadInv
  <2>3. /\ block \in Nat /\ block >= 1
        /\ \A b \in 1..(block - 1) : b < block /\ b # block
    BY <1>1, <2>1, BlockFacts
  <2>4. CASE Readable(f)
    <3>1. resultMap' = Kept(f.cands) /\ block' = block + 1
      BY <1>5, <2>4 DEF ReadFile
    <3>2. f.cands \subseteq Patterns /\ f.state = "whole"
      BY <1>1, <2>1, <2>4, BlockFacts DEF TypeOK, IsFile, Readable
    <3> DEFINE new == f.cands
    <3> HIDE DEF f
    <3>3. /\ DOMAIN resultMap \subseteq DOMAIN resultMap'
          /\ DOMAIN resultMap' \subseteq DOMAIN resultMap \cup {block}
          /\ \A b \in DOMAIN resultMap' : b # block => resultMap'[b] = resultMap[b]
          /\ new # {} => block \in DOMAIN resultMap' /\ resultMap'[block] = new
          /\ new = {} => resultMap' = resultMap
      <4> HIDE DEF new
      <4> QED
        BY <1>1, <3>1, <3>2, KeptFacts DEF new
    <3>4. block \in 1..((block + 1) - 1) /\ block \notin 1..(block - 1)
      BY <2>3
    <3>5. DOMAIN resultMap' \subseteq 1..(block' - 1) /\ dfgMap' \subseteq 1..(block' - 1)
      BY <1>2, <2>1, <2>2, <3>1, <3>3, <3>4
    <3>6. (IF block \in DOMAIN resultMap' THEN resultMap'[block] ELSE {}) = new
      BY <2>2, <3>3, <3>4
    <3>7. \A b \in dfgMap :
            (IF b \in DOMAIN resultMap' THEN resultMap'[b] ELSE {}) = Known(b)
      BY <2>2, <2>3, <3>3
    <3>8. \A b \in dfgMap' : /\ res'[FileName(b)].state = "whole"
                             /\ (IF b \in DOMAIN resultMap' THEN resultMap'[b] ELSE {})
                                  = res'[FileName(b)].cands
      <4>1. \A b \in dfgMap : b < block
        BY <2>2, <2>3
      <4> QED
        BY <2>1, <2>2, <3>2, <3>6, <3>7, <4>1 DEF f
    <3> QED
      BY <2>1, <3>5, <3>8, InputStays DEF ReadInv
  <2>5. CASE ~Readable(f)
    <3>1. UNCHANGED <<resultMap, block>> /\ pc' = "threw"
      BY <1>5, <2>5 DEF ReadFile
    <3> QED
      BY <2>1, <2>2, <2>3, <3>1, InputStays DEF ReadInv
  <2> QED
    BY <2>4, <2>5
<1>6. ASSUME Select \/ AllRead \/ Alarm \/ Interrupt \/ UNCHANGED vars PROVE ReadInv'
  <2>1. /\ UNCHANGED <<input, pass, block, dfgMap, resultMap, res>>
        /\ pc' \in {"read", "select", "returned"} => pc \in {"read", "select", "returned"}
    BY <1>6 DEF Select, AllRead, Alarm, Interrupt, vars, memory, files
  <2> QED
    BY <1>1, <2>1, InputStays DEF ReadInv
<1>7. ASSUME \/ StartIse \/ SkipEmpty \/ Benchmark \/ Identify \/ OpenFile \/ WriteFile
             \/ EndOfModule \/ Estimate \/ Collect
      PROVE  ReadInv'
  <2>1. pass' = "ise"
    BY <1>1, <1>7 DEF StartIse, SkipEmpty, Benchmark, Identify, OpenFile, WriteFile, EndOfModule,
                      Estimate, Collect, AtBlock, PassInv
  <2> QED
    BY <2>1 DEF ReadInv
<1> QED
  BY <1>3, <1>4, <1>5, <1>6, <1>7 DEF Next

-----------------------------------------------------------------------------
(***************************************************************************)
(* What is said of the names does not change, and a block that is the last *)
(* of its name before n + 1 is so before n.                                *)
(***************************************************************************)
LEMMA NamesStay ==
  ASSUME UNCHANGED input
  PROVE  /\ opt' = opt /\ prog' = prog /\ found' = found
         /\ \A n, b : LastBefore(n, b)' <=> LastBefore(n, b)
         /\ \A r, b : FoundBy(r, b)' = FoundBy(r, b)
BY InputStays DEF LastBefore, FoundBy, input

(***************************************************************************)
(* The last block of its name before n + 1 is so before n, and n has       *)
(* another name.                                                           *)
(***************************************************************************)
LEMMA LastBeforeNext ==
  ASSUME TypeOK, NEW n \in Nat, NEW b \in Blocks, LastBefore(n + 1, b)
  PROVE  /\ LastBefore(n, b)
         /\ b < n /\ prog.size[n] > 0 => FileName(n) # FileName(b)
<1>1. b \in Nat
  BY BlockFacts
<1>2. \A c \in (b + 1)..(n - 1) : c \in (b + 1)..((n + 1) - 1)
  BY <1>1
<1>3. b < n => n \in (b + 1)..((n + 1) - 1)
  BY <1>1
<1> QED
  BY <1>2, <1>3 DEF LastBefore

(***************************************************************************)
(* A file holds the candidates of the last block of its name.              *)
(***************************************************************************)
LEMMA CandidatesStep ==
  ASSUME IInv, [Next]_vars PROVE CandidatesInv'
<1>1. TypeOK /\ PassInv /\ WrittenInv /\ CandidatesInv
  BY DEF IInv
<1>2. ASSUME StartIse PROVE CandidatesInv'
  <2>1. block' = 1 /\ pc' = "block" /\ UNCHANGED input
    BY <1>2 DEF StartIse, Fresh
  <2>2. \A b \in Blocks : b \in Nat /\ ~(b < 1)
    BY <1>1, BlockFacts
  <2> QED
    BY <2>1, <2>2, InputStays DEF CandidatesInv
<1>3. ASSUME SkipEmpty PROVE CandidatesInv'
  <2>1. /\ UNCHANGED <<input, pass, pc, run, cwd, vector>> /\ pc = "block" /\ block \in Blocks
        /\ block' = block + 1 /\ prog.size[block] = 0
    BY <1>3 DEF SkipEmpty, AtBlock, files
  <2>2. \A b \in Blocks : b < block + 1 => b < block \/ b = block
    BY <1>1, BlockFacts
  <2>3. \A b \in Blocks : b < block' /\ LastBefore(block', b) => b < block /\ LastBefore(block, b)
    BY <1>1, <2>1, <2>2, LastBeforeNext, BlockFacts DEF LastBefore
  <2> QED
    BY <1>1, <2>1, <2>3, InputStays, NamesStay DEF CandidatesInv, Active
<1>4. ASSUME Benchmark PROVE CandidatesInv'
  BY <1>4 DEF Benchmark, CandidatesInv, input
<1>5. ASSUME Identify PROVE CandidatesInv'
  <2>1. /\ UNCHANGED <<input, pass, run, cwd>> /\ pc = "block"
        /\ opt.serialization => pc' = "open" /\ block' = block
        /\ vector' = FoundBy(run, block)
    BY <1>5 DEF Identify, AtBlock, Writes, FoundIn, Candidates, FoundBy, files
  <2> QED
    BY <1>1, <2>1, InputStays, NamesStay DEF CandidatesInv, Active
<1>6. ASSUME OpenFile PROVE CandidatesInv'
  <2>1. /\ UNCHANGED <<input, pass, run, block, vector>> /\ pc = "open" /\ pc' = "write"
        /\ cwd' = [cwd EXCEPT ![FileName(block)] = Partial]
    BY <1>6 DEF OpenFile, memory
  <2>2. \A b \in Blocks : FileName(b) # FileName(block) => cwd'[FileName(b)] = cwd[FileName(b)]
    BY <1>1, <2>1, BlockFacts DEF TypeOK
  <2> QED
    BY <1>1, <2>1, <2>2, InputStays, NamesStay DEF CandidatesInv, Active
<1>7. ASSUME WriteFile PROVE CandidatesInv'
  <2>1. /\ UNCHANGED <<input, pass, run, vector>> /\ pc = "write" /\ pc' = "block"
        /\ cwd' = [cwd EXCEPT ![FileName(block)] = File("whole", run, vector)]
        /\ block' = block + 1 /\ block \in Blocks /\ prog.size[block] > 0
    BY <1>1, <1>7 DEF WriteFile, PassInv
  <2>2. /\ cwd'[FileName(block)].cands = vector
        /\ \A b \in Blocks : FileName(b) # FileName(block) =>
                                cwd'[FileName(b)] = cwd[FileName(b)]
    BY <1>1, <2>1, BlockFacts DEF TypeOK, File
  <2>3. \A b \in Blocks : b < block + 1 => b < block \/ b = block
    BY <1>1, BlockFacts
  <2>4. \A b \in Blocks : b < block /\ LastBefore(block', b) =>
                            LastBefore(block, b) /\ FileName(b) # FileName(block)
    BY <1>1, <2>1, LastBeforeNext, BlockFacts
  <2> QED
    BY <1>1, <2>1, <2>2, <2>3, <2>4, InputStays, NamesStay DEF CandidatesInv, Active
<1>8. ASSUME EndOfModule \/ Select \/ Estimate PROVE CandidatesInv'
  <2>1. /\ UNCHANGED <<input, pass, run, block, cwd>> /\ pc' \notin {"open", "write"}
        /\ pc \in {"block", "select", "estimate"}
    BY <1>8 DEF EndOfModule, Select, Estimate, memory, files
  <2> QED
    BY <1>1, <2>1, InputStays, NamesStay DEF CandidatesInv, Active
<1>9. ASSUME Alarm \/ Interrupt PROVE CandidatesInv'
  BY <1>9 DEF Alarm, Interrupt, CandidatesInv, Active
<1>10. ASSUME Collect \/ UNCHANGED vars PROVE CandidatesInv'
  <2>1. UNCHANGED <<input, pass, pc, run, block, vector, cwd>>
    BY <1>10 DEF Collect, vars, memory, files
  <2> QED
    BY <1>1, <2>1, InputStays, NamesStay DEF CandidatesInv, Active
<1>11. ASSUME StartSelect \/ SkipUnread \/ ReadFile \/ AllRead PROVE CandidatesInv'
  BY <1>1, <1>11 DEF StartSelect, SkipUnread, ReadFile, AllRead, PassInv, CandidatesInv
<1> QED
  BY <1>2, <1>3, <1>4, <1>5, <1>6, <1>7, <1>8, <1>9, <1>10, <1>11 DEF Next

(***************************************************************************)
(* A set of numbers has a least one.                                       *)
(***************************************************************************)
LEMMA LeastElement ==
  ASSUME NEW T, T \subseteq Nat, T # {}
  PROVE  \E m \in T : \A k \in T : m <= k
<1>1. PICK m \in T : \A k \in T : ~(<<k, m>> \in OpToRel(<, Nat))
  BY NatLessThanWellFounded, WFMin
<1>2. \A k \in T : ~(k < m)
  BY <1>1 DEF OpToRel
<1> QED
  BY <1>2

(***************************************************************************)
(* Every block that has a graph has a last block of its name.              *)
(***************************************************************************)
LEMMA LastOfName ==
  ASSUME TypeOK, NEW b \in Blocks, prog.size[b] > 0
  PROVE  /\ LastNamed(b) \in Blocks
         /\ FileName(LastNamed(b)) = FileName(b)
         /\ LastBefore(Len(prog.name) + 1, LastNamed(b))
<1> DEFINE n == Len(prog.name)
           S == {c \in Blocks : prog.name[c] = prog.name[b] /\ prog.size[c] > 0}
           T == {n - c : c \in S}
<1>1. n \in Nat /\ Blocks = 1..n /\ b \in S
  BY BlockFacts
<1>2. T \subseteq Nat /\ T # {}
  <2>1. \A c \in S : n - c \in Nat
    BY <1>1
  <2> QED
    BY <1>1, <2>1
<1>3. PICK t \in T : \A u \in T : t <= u
  <2> HIDE DEF T
  <2> QED
    BY <1>2, LeastElement
<1>4. PICK m \in S : t = n - m
  BY <1>3
<1>5. \A c \in S : c <= m
  <2> TAKE c \in S
  <2>1. n - c \in T
    OBVIOUS
  <2>2. t <= n - c
    BY <1>3, <2>1
  <2> QED
    BY <1>1, <1>4, <2>2
<1>6. LastNamed(b) \in S /\ \A c \in S : LastNamed(b) >= c
  <2>1. \E x \in S : \A y \in S : x >= y
    BY <1>1, <1>5
  <2> QED
    BY <2>1 DEF LastNamed, Max
<1>7. \A c \in (LastNamed(b) + 1)..((n + 1) - 1) : c \in Blocks /\ c \notin S
  BY <1>1, <1>6
<1> QED
  BY <1>1, <1>6, <1>7 DEF LastBefore, FileName

(***************************************************************************)
(* What was collected stays what a complete run found, and is read.        *)
(***************************************************************************)
LEMMA CollectedStep ==
  ASSUME IInv, [Next]_vars PROVE CollectedInv'
<1>1. TypeOK /\ PassInv /\ WrittenInv /\ CandidatesInv /\ CollectedInv
  BY DEF IInv
<1>2. ASSUME StartIse \/ StartSelect PROVE CollectedInv'
  <2>1. UNCHANGED <<input, res, collected>> /\ dfgMap' = {} /\ pc' # "threw"
    BY <1>2 DEF StartIse, StartSelect, Fresh, files
  <2> QED
    BY <1>1, <2>1, InputStays, NamesStay DEF CollectedInv
<1>3. ASSUME Collect PROVE CollectedInv'
  <2>1. /\ UNCHANGED <<input, pass, pc, run, dfgMap>> /\ pass = "ise" /\ res' = cwd
        /\ collected' > 0 => pc = "returned" /\ opt.serialization /\ ~opt.benchmark
                             /\ collected' = run
    BY <1>3 DEF Collect, memory
  <2>2. ASSUME collected' > 0, NEW b \in Blocks, LastBefore(Len(prog.name) + 1, b)
        PROVE  res'[FileName(b)].state = "whole" /\ res'[FileName(b)].cands = FoundBy(run, b)
    <3>1. block \notin Blocks /\ block \in 1..(Len(prog.name) + 1)
      BY <1>1, <2>1, <2>2 DEF WrittenInv, TypeOK
    <3>2. block = Len(prog.name) + 1 /\ b < block /\ prog.size[b] > 0
      BY <1>1, <2>2, <3>1, BlockFacts DEF LastBefore
    <3> QED
      BY <1>1, <2>1, <2>2, <3>2 DEF WrittenInv, CandidatesInv
  <2>3. pass' # "ise-sel" /\ dfgMap' = dfgMap
    BY <2>1
  <2> QED
    BY <1>1, <2>1, <2>2, <2>3, InputStays, NamesStay DEF CollectedInv
<1>4. ASSUME ReadFile PROVE CollectedInv'
  <2>1. /\ UNCHANGED <<input, pass, res, collected>> /\ dfgMap' = dfgMap \cup {block}
        /\ block \in Blocks /\ prog.size[block] > 0
        /\ pc = "read"
    BY <1>4 DEF ReadFile, files
  <2>2. collected > 0 => pc' # "threw"
    <3>1. collected > 0 => res[FileName(block)].state = "whole"
      BY <1>1, <2>1, LastOfName DEF CollectedInv
    <3> QED
      BY <1>4, <2>1, <3>1 DEF ReadFile, Readable
  <2> QED
    BY <1>1, <2>1, <2>2, InputStays, NamesStay DEF CollectedInv
<1>5. ASSUME Benchmark \/ Identify PROVE CollectedInv'
  <2>1. /\ UNCHANGED <<input, pass, res, collected>> /\ pass' # "ise-sel"
        /\ dfgMap' = dfgMap \cup {block} /\ prog.size[block] > 0
    BY <1>1, <1>5 DEF Benchmark, Identify, AtBlock, PassInv, files
  <2> QED
    BY <1>1, <2>1, InputStays, NamesStay DEF CollectedInv
<1>6. ASSUME \/ SkipEmpty \/ OpenFile \/ WriteFile \/ EndOfModule \/ Select \/ Estimate
             \/ SkipUnread \/ AllRead \/ Alarm \/ Interrupt \/ UNCHANGED vars
      PROVE  CollectedInv'
  <2>1. UNCHANGED <<input, pass, res, collected, dfgMap>> /\ (pc' = "threw" => pc = "threw")
    BY <1>6 DEF SkipEmpty, OpenFile, WriteFile, EndOfModule, Select, Estimate, SkipUnread,
                AllRead, Alarm, Interrupt, vars, memory, files, AtBlock
  <2> QED
    BY <1>1, <2>1, InputStays, NamesStay DEF CollectedInv
<1> QED
  BY <1>2, <1>3, <1>4, <1>5, <1>6 DEF Next

-----------------------------------------------------------------------------
(***************************************************************************)
(* The invariant of the two passes.  Nothing of another block or of an     *)
(* earlier run is selected by -ise (SelectsItsOwn, a part of it).          *)
(***************************************************************************)
THEOREM PassInvariant == Spec => []IInv
<1>1. IInv /\ [Next]_vars => IInv'
  BY TypeStep, PassStep, OwnStep, WrittenStep, ReadStep, CandidatesStep, CollectedStep DEF IInv
<1> QED
  BY <1>1, InitInv, PTL DEF Spec

(***************************************************************************)
(* A run of -ise that comes to its end has left the files of all blocks    *)
(* whole and its own, whatever runs that were killed left before.          *)
(***************************************************************************)
THEOREM FilesAreOwn == Spec => []CompletedRunOwnsFiles
<1>1. IInv => CompletedRunOwnsFiles
  <2> SUFFICES ASSUME IInv, pass = "ise", pc = "returned", opt.serialization, ~opt.benchmark,
                      NEW b \in Blocks, prog.size[b] > 0
               PROVE  cwd[FileName(b)].state = "whole" /\ cwd[FileName(b)].run = run
    BY DEF CompletedRunOwnsFiles
  <2>1. block \notin Blocks /\ block \in 1..(Len(prog.name) + 1)
    BY DEF IInv, WrittenInv, TypeOK
  <2>2. b < block
    BY <2>1, BlockFacts DEF IInv
  <2> QED
    BY <2>2 DEF IInv, WrittenInv
<1> QED
  BY <1>1, PassInvariant, PTL

(***************************************************************************)
(* -ise-sel selects only after files it could read whole, and exactly      *)
(* among what they say.                                                    *)
(***************************************************************************)
THEOREM SelectionReadsFiles == Spec => []SelectsFromWholeFiles
<1>1. IInv => SelectsFromWholeFiles
  <2> SUFFICES ASSUME IInv, pass = "ise-sel", NEW b \in dfgMap,
                      b < block \/ pc \in {"select", "returned"}
               PROVE  /\ res[FileName(b)].state = "whole"
                      /\ (IF b \in DOMAIN resultMap THEN resultMap[b] ELSE {})
                            = res[FileName(b)].cands
    BY DEF SelectsFromWholeFiles
  <2>1. b < block
    <3>1. pc \in {"select", "returned"} => b \in 1..(block - 1)
      BY DEF IInv, ReadInv
    <3> QED
      BY <3>1, BlockFacts DEF IInv
  <2> QED
    BY <2>1 DEF IInv, ReadInv
<1> QED
  BY <1>1, PassInvariant, PTL

(***************************************************************************)
(* From the files of a complete run, -ise-sel never throws and selects     *)
(* among what that run found, for each block in the last block of its      *)
(* name: across the two passes nothing is lost, mixed up or left over,     *)
(* however many runs were killed in between.                               *)
(***************************************************************************)
THEOREM PassesAgree == Spec => []ReadsBack
<1>1. IInv => ReadsBack
  <2> SUFFICES ASSUME IInv, pass = "ise-sel", collected > 0, pc \in {"select", "returned"},
                      NEW b \in dfgMap
               PROVE  (IF b \in DOMAIN resultMap THEN resultMap[b] ELSE {})
                         = FoundBy(collected, LastNamed(b))
    BY DEF IInv, CollectedInv, ReadsBack
  <2>1. b \in Blocks /\ prog.size[b] > 0 /\ b < block
    BY BlockFacts DEF IInv, TypeOK, CollectedInv, ReadInv
  <2>2. (IF b \in DOMAIN resultMap THEN resultMap[b] ELSE {}) = res[FileName(b)].cands
    BY <2>1 DEF IInv, ReadInv
  <2>3. res[FileName(LastNamed(b))].cands = FoundBy(collected, LastNamed(b))
    BY <2>1, LastOfName DEF IInv, CollectedInv
  <2>4. FileName(LastNamed(b)) = FileName(b)
    BY <2>1, LastOfName DEF IInv
  <2> QED
    BY <2>2, <2>3, <2>4
<1> QED
  BY <1>1, PassInvariant, PTL

-----------------------------------------------------------------------------
(***************************************************************************)
(* Among some subsets of a finite set there is one with no smaller one.    *)
(***************************************************************************)
LEMMA SmallestSet ==
  ASSUME NEW N, IsFiniteSet(N), NEW T \in SUBSET (SUBSET N), T # {}
  PROVE  \E S \in T : \A R \in SUBSET S : R # S => R \notin T
<1>1. IsWellFoundedOn(StrictSubsetOrdering(N), SUBSET N)
  BY FS_StrictSubsetOrderingWellFounded, FS_FiniteSubsetsOfFinite
<1>2. PICK S \in T : \A R \in T : <<R, S>> \notin StrictSubsetOrdering(N)
  BY <1>1, WFMin
<1>3. ASSUME NEW R \in SUBSET S, R # S, R \in T PROVE FALSE
  BY <1>2, <1>3 DEF StrictSubsetOrdering
<1> QED
  BY <1>3

(***************************************************************************)
(* sum gives every subset of N the sum of f over it.                       *)
(***************************************************************************)
Adds(sum, N, f) ==
  /\ sum \in [SUBSET N -> Nat]
  /\ sum[{}] = 0
  /\ \A S \in SUBSET N, x \in N : x \in S => sum[S] = f[x] + sum[S \ {x}]

(***************************************************************************)
(* Every function on a finite set has such a sum.                          *)
(***************************************************************************)
LEMMA SumExists ==
  ASSUME NEW N, IsFiniteSet(N), NEW f \in [N -> Nat]
  PROVE  \E sum : Adds(sum, N, f)
<1> DEFINE T == {S \in SUBSET N : ~ \E sum : Adds(sum, S, f)}
<1>1. ASSUME T # {} PROVE FALSE
  <2>1. PICK S \in T : \A R \in SUBSET S : R # S => R \notin T
    <3>1. T \in SUBSET (SUBSET N)
      OBVIOUS
    <3> HIDE DEF T
    <3> QED
      BY <1>1, <3>1, SmallestSet
  <2>2. CASE S = {}
    <3> DEFINE sum == [R \in SUBSET {} |-> 0]
    <3>1. Adds(sum, {}, f)
      BY DEF Adds
    <3> QED
      BY <2>1, <2>2, <3>1
  <2>3. CASE S # {}
    <3>1. PICK x \in S : TRUE
      BY <2>3
    <3> DEFINE Q == S \ {x}
    <3>2. Q \in SUBSET S /\ Q # S /\ Q \in SUBSET N /\ x \notin Q /\ S \in SUBSET N /\ x \in N
      OBVIOUS
    <3>3. PICK s0 : Adds(s0, Q, f)
      BY <2>1, <3>2
    <3>4. /\ s0 \in [SUBSET Q -> Nat] /\ s0[{}] = 0
          /\ \A R \in SUBSET Q, y \in Q : y \in R => s0[R] = f[y] + s0[R \ {y}]
      BY <3>3 DEF Adds
    <3>5. \A R \in SUBSET S : R \ {x} \in SUBSET Q
      OBVIOUS
    <3> DEFINE sum == [R \in SUBSET S |-> (IF x \in R THEN f[x] ELSE 0) + s0[R \ {x}]]
    <3>6. f[x] \in Nat
      BY <3>2
    <3>7. sum \in [SUBSET S -> Nat]
      BY <3>4, <3>5, <3>6
    <3>8. sum[{}] = 0
      BY <3>4, <3>5
    <3>9. ASSUME NEW R \in SUBSET S, NEW y \in S, y \in R
          PROVE  sum[R] = f[y] + sum[R \ {y}]
      <4> DEFINE a == IF x \in R THEN f[x] ELSE 0
      <4>1. CASE y = x
        <5>1. sum[R] = f[x] + s0[R \ {x}]
          BY <3>9, <4>1
        <5>2. sum[R \ {y}] = 0 + s0[R \ {x}]
          <6>1. (R \ {y}) \ {x} = R \ {x} /\ R \ {y} \in SUBSET S /\ x \notin R \ {y}
            BY <4>1
          <6> QED
            BY <6>1
        <5>3. s0[R \ {x}] \in Nat
          BY <3>4, <3>5
        <5> QED
          BY <4>1, <5>1, <5>2, <5>3
      <4>2. CASE y # x
        <5>1. y \in Q /\ y \in R \ {x} /\ R \ {x} \in SUBSET Q
          BY <3>9, <4>2
        <5>2. s0[R \ {x}] = f[y] + s0[(R \ {x}) \ {y}]
          BY <3>4, <5>1
        <5>3. sum[R] = a + s0[R \ {x}]
          OBVIOUS
        <5>4. sum[R \ {y}] = a + s0[(R \ {x}) \ {y}]
          <6>1. (R \ {y}) \ {x} = (R \ {x}) \ {y} /\ R \ {y} \in SUBSET S
                /\ (x \in R \ {y} <=> x \in R)
            BY <4>2
          <6> QED
            BY <6>1
        <5>5. a \in Nat /\ f[y] \in Nat /\ s0[(R \ {x}) \ {y}] \in Nat
          <6>1. (R \ {x}) \ {y} \in SUBSET Q /\ y \in N
            BY <3>2
          <6> QED
            BY <3>4, <3>6, <6>1
        <5> HIDE DEF a, sum
        <5> QED
          BY <5>2, <5>3, <5>4, <5>5
      <4> QED
        BY <4>1, <4>2
    <3> HIDE DEF sum
    <3>10. Adds(sum, S, f)
      BY <3>7, <3>8, <3>9 DEF Adds
    <3> QED
      BY <2>1, <3>10
  <2> QED
    BY <2>2, <2>3
<1> QED
  <2>1. N \notin T /\ N \in SUBSET N
    BY <1>1
  <2> QED
    BY <2>1

(***************************************************************************)
(* MapThenSumSet picks the elements in an order of its own.                *)
(***************************************************************************)
RunsOver(w, S, f) ==
  w = [s \in SUBSET S |-> IF s = {} THEN 0
                          ELSE f[CHOOSE x \in s : TRUE] + w[s \ {CHOOSE x \in s : TRUE}]]

(***************************************************************************)
(* Whatever the order, it ends up with the sum.                            *)
(***************************************************************************)
LEMMA AnyOrderAdds ==
  ASSUME NEW N, IsFiniteSet(N), NEW f, NEW sum, Adds(sum, N, f), NEW S \in SUBSET N, NEW w,
         RunsOver(w, S, f)
  PROVE  w[S] = sum[S]
<1> DEFINE any(s) == CHOOSE x \in s : TRUE
           T == {s \in SUBSET S : w[s] # sum[s]}
<1>1. \A s : s # {} => any(s) \in s
  OBVIOUS
<1>2. w = [s \in SUBSET S |-> IF s = {} THEN 0 ELSE f[any(s)] + w[s \ {any(s)}]]
  BY DEF RunsOver
<1> HIDE DEF any
<1> SUFFICES ASSUME T # {} PROVE FALSE
  OBVIOUS
<1>3. PICK s \in T : \A R \in SUBSET s : R # s => R \notin T
  <2>1. T \in SUBSET (SUBSET N)
    OBVIOUS
  <2> HIDE DEF T
  <2> QED
    BY <2>1, SmallestSet
<1>4. s # {}
  BY <1>2 DEF Adds
<1>5. any(s) \in s /\ s \ {any(s)} \in SUBSET s /\ s \ {any(s)} # s
  BY <1>1, <1>4
<1>6. w[s \ {any(s)}] = sum[s \ {any(s)}]
  BY <1>3, <1>5
<1>7. w[s] = f[any(s)] + w[s \ {any(s)}]
  BY <1>2, <1>4
<1>8. sum[s] = f[any(s)] + sum[s \ {any(s)}]
  BY <1>5 DEF Adds
<1> QED
  BY <1>6, <1>7, <1>8

(***************************************************************************)
(* Sums do solve the recursion of MapThenSumSet.                           *)
(***************************************************************************)
LEMMA SomeOrderAdds ==
  ASSUME NEW N, NEW f, NEW sum, Adds(sum, N, f), NEW S \in SUBSET N, NEW w,
         w = [s \in SUBSET S |-> sum[s]]
  PROVE  RunsOver(w, S, f)
<1> DEFINE any(s) == CHOOSE x \in s : TRUE
<1>1. \A s : s # {} => any(s) \in s
  OBVIOUS
<1> SUFFICES w = [s \in SUBSET S |-> IF s = {} THEN 0 ELSE f[any(s)] + w[s \ {any(s)}]]
  BY DEF RunsOver
<1> HIDE DEF any
<1>2. ASSUME NEW s \in SUBSET S, s # {} PROVE w[s] = f[any(s)] + w[s \ {any(s)}]
  <2>1. any(s) \in s /\ s \ {any(s)} \in SUBSET S /\ any(s) \in N /\ s \in SUBSET N
    BY <1>1, <1>2
  <2>2. sum[s] = f[any(s)] + sum[s \ {any(s)}]
    BY <2>1 DEF Adds
  <2> QED
    BY <2>1, <2>2
<1>3. w[{}] = 0
  BY DEF Adds
<1> QED
  BY <1>2, <1>3

(***************************************************************************)
(* More elements, and larger values, add up to no less.                    *)
(***************************************************************************)
LEMMA SumCompares ==
  ASSUME NEW N, IsFiniteSet(N), NEW f \in [N -> Nat], NEW g \in [N -> Nat],
         \A x \in N : f[x] <= g[x],
         NEW s, Adds(s, N, f), NEW t, Adds(t, N, g), NEW S \in SUBSET N
  PROVE  s[S] <= t[N] /\ s[S] <= t[S] /\ s[S] \in Nat /\ t[S] \in Nat /\ t[N] \in Nat
<1>1. ASSUME NEW A \in SUBSET N, s[A] > t[A] PROVE FALSE
  <2> DEFINE T == {R \in SUBSET N : s[R] > t[R]}
  <2>1. PICK R \in T : \A Q \in SUBSET R : Q # R => Q \notin T
    <3>1. T \in SUBSET (SUBSET N) /\ T # {}
      BY <1>1
    <3> HIDE DEF T
    <3> QED
      BY <3>1, SmallestSet
  <2>2. PICK x \in R : TRUE
    <3>1. R # {}
      <4>1. s[{}] = 0 /\ t[{}] = 0 /\ ~(0 > 0)
        BY DEF Adds
      <4> QED
        BY <2>1, <4>1
    <3> QED
      BY <3>1
  <2>3. R \ {x} \in SUBSET R /\ R \ {x} # R /\ R \ {x} \in SUBSET N /\ x \in N /\ R \in SUBSET N
    BY <2>1
  <2>4. ~(s[R \ {x}] > t[R \ {x}])
    BY <2>1, <2>3
  <2>5. s[R] = f[x] + s[R \ {x}] /\ t[R] = g[x] + t[R \ {x}]
    BY <2>3 DEF Adds
  <2>6. s[R \ {x}] \in Nat /\ t[R \ {x}] \in Nat
    BY <2>3 DEF Adds
  <2>7. f[x] \in Nat /\ g[x] \in Nat /\ f[x] <= g[x]
    BY <2>3
  <2>8. s[R] <= t[R] /\ s[R] \in Nat /\ t[R] \in Nat
    BY <2>4, <2>5, <2>6, <2>7
  <2> QED
    BY <2>1, <2>8
<1>2. ASSUME NEW A \in SUBSET N, t[A] > t[N] PROVE FALSE
  <2> DEFINE T == {R \in SUBSET N : A \subseteq R /\ t[A] > t[R]}
  <2>1. PICK R \in T : \A Q \in SUBSET R : Q # R => Q \notin T
    <3>1. N \in T /\ T \in SUBSET (SUBSET N)
      BY <1>2
    <3> HIDE DEF T
    <3> QED
      BY <3>1, SmallestSet
  <2>2. PICK x \in R : x \notin A
    <3>1. R # A
      BY <2>1 DEF Adds
    <3> QED
      BY <2>1, <3>1
  <2>3. /\ R \ {x} \in SUBSET R /\ R \ {x} # R /\ R \ {x} \in SUBSET N /\ x \in N
        /\ R \in SUBSET N /\ A \subseteq R \ {x}
    BY <2>1, <2>2
  <2>4. ~(t[A] > t[R \ {x}])
    BY <2>1, <2>3
  <2>5. t[R] = g[x] + t[R \ {x}]
    BY <2>3 DEF Adds
  <2>6. t[R \ {x}] \in Nat /\ t[A] \in Nat /\ g[x] \in Nat
    BY <2>3 DEF Adds
  <2>7. t[A] <= t[R] /\ t[R] \in Nat
    BY <2>4, <2>5, <2>6
  <2> QED
    BY <2>1, <2>6, <2>7
<1>3. s[S] \in Nat /\ t[S] \in Nat /\ t[N] \in Nat
  <2>1. N \in SUBSET N
    OBVIOUS
  <2> QED
    BY <2>1 DEF Adds
<1>4. ~(s[S] > t[S]) /\ ~(t[S] > t[N])
  BY <1>1, <1>2
<1> QED
  BY <1>3, <1>4

(***************************************************************************)
(* The sum of a function is what its values add up to.                     *)
(***************************************************************************)
LEMMA SumIs ==
  ASSUME NEW N, IsFiniteSet(N), NEW f \in [N -> Nat], NEW sum, Adds(sum, N, f)
  PROVE  SumFunction(f) = sum[N]
<1> DEFINE any(s) == CHOOSE x \in s : TRUE
           eq(w) == w = [s \in SUBSET N |-> IF s = {} THEN 0
                                            ELSE f[any(s)] + w[s \ {any(s)}]]
           w == CHOOSE w : eq(w)
<1>1. SumFunction(f) = w[N]
  <2>1. DOMAIN f = N
    OBVIOUS
  <2>2. SumFunction(f) = SumFunctionOnSet(f, N)
    BY <2>1 DEF SumFunction
  <2>3. SumFunctionOnSet(f, N) = w[N]
    BY DEF SumFunctionOnSet, FoldFunctionOnSet, MapThenFoldSet
  <2> QED
    BY <2>2, <2>3
<1>2. ASSUME NEW u PROVE eq(u) <=> RunsOver(u, N, f)
  BY DEF RunsOver
<1>3. RunsOver([s \in SUBSET N |-> sum[s]], N, f)
  <2> DEFINE g == [s \in SUBSET N |-> sum[s]]
  <2>1. g = [s \in SUBSET N |-> sum[s]] /\ N \in SUBSET N
    OBVIOUS
  <2> HIDE DEF g
  <2>2. RunsOver(g, N, f)
    BY <2>1, SomeOrderAdds
  <2> QED
    BY <2>2 DEF g
<1>4. RunsOver(w, N, f)
  <2> HIDE DEF eq
  <2> QED
    BY <1>2, <1>3
<1> HIDE DEF w
<1>5. w[N] = sum[N]
  <2>1. N \in SUBSET N
    OBVIOUS
  <2> QED
    BY <1>4, <2>1, AnyOrderAdds
<1> QED
  BY <1>1, <1>5

(***************************************************************************)
(* The sum over a part is that of the whole function there.                *)
(***************************************************************************)
LEMMA SumOfPart ==
  ASSUME NEW N, IsFiniteSet(N), NEW f \in [N -> Nat], NEW sum, Adds(sum, N, f),
         NEW S \in SUBSET N
  PROVE  SumFunction([x \in S |-> f[x]]) = sum[S]
<1> DEFINE g == [x \in S |-> f[x]]
           part == [R \in SUBSET S |-> sum[R]]
<1>1. g \in [S -> Nat] /\ IsFiniteSet(S)
  BY FS_Subset
<1>2. Adds(part, S, g)
  <2>1. part \in [SUBSET S -> Nat] /\ part[{}] = 0
    BY DEF Adds
  <2>2. ASSUME NEW R \in SUBSET S, NEW x \in S, x \in R
        PROVE  part[R] = g[x] + part[R \ {x}]
    <3>1. R \in SUBSET N /\ x \in N /\ R \ {x} \in SUBSET S
      OBVIOUS
    <3>2. sum[R] = f[x] + sum[R \ {x}]
      BY <2>2, <3>1 DEF Adds
    <3> QED
      BY <3>1, <3>2
  <2> HIDE DEF part, g
  <2> QED
    BY <2>1, <2>2 DEF Adds
<1>3. part[S] = sum[S]
  OBVIOUS
<1> HIDE DEF part, g
<1>4. SumFunction(g) = part[S]
  BY <1>1, <1>2, SumIs
<1> QED
  BY <1>3, <1>4 DEF g

(***************************************************************************)
(* Sums compare as their functions do, over a part or over all.            *)
(***************************************************************************)
LEMMA SumsCompare ==
  ASSUME NEW N, IsFiniteSet(N), NEW D \in SUBSET N,
         NEW f \in [D -> Nat], NEW g \in [N -> Nat], \A x \in D : f[x] <= g[x]
  PROVE  /\ SumFunction(f) \in Nat /\ SumFunction(g) \in Nat
         /\ SumFunction(f) <= SumFunction(g)
         /\ (\E x \in D : f[x] < g[x]) => SumFunction(f) < SumFunction(g)
<1> DEFINE h == [x \in N |-> IF x \in D THEN f[x] ELSE 0]
<1>1. h \in [N -> Nat] /\ f = [x \in D |-> h[x]] /\ \A x \in N : h[x] <= g[x]
  OBVIOUS
<1>2. \A x \in D : h[x] = f[x]
  OBVIOUS
<1> HIDE DEF h
<1>3. PICK s : Adds(s, N, h)
  BY <1>1, SumExists
<1>4. PICK t : Adds(t, N, g)
  BY SumExists
<1>5. SumFunction(f) = s[D]
  BY <1>1, <1>3, SumOfPart
<1>6. SumFunction(g) = t[N]
  BY <1>4, SumIs
<1>7. s[D] <= t[N] /\ s[D] \in Nat /\ t[N] \in Nat
  BY <1>1, <1>3, <1>4, SumCompares
<1>8. ASSUME NEW x \in D, f[x] < g[x] PROVE s[D] < t[N]
  <2> DEFINE R == D \ {x}
             Q == N \ {x}
  <2>1. /\ x \in N /\ N \in SUBSET N /\ R \in SUBSET N /\ Q \in SUBSET N
        /\ R \in SUBSET Q /\ D \in SUBSET N
    OBVIOUS
  <2>2. s[D] = h[x] + s[R] /\ t[N] = g[x] + t[Q]
    BY <1>3, <1>4, <2>1 DEF Adds
  <2>3. s[R] <= t[R] /\ s[R] \in Nat /\ t[R] \in Nat
    BY <1>1, <1>3, <1>4, <2>1, SumCompares
  <2>4. t[R] <= t[Q] /\ t[Q] \in Nat
    <3>1. SumFunction([y \in R |-> g[y]]) = t[R] /\ SumFunction([y \in Q |-> g[y]]) = t[Q]
      BY <1>4, <2>1, SumOfPart
    <3>2. [y \in Q |-> g[y]] \in [Q -> Nat] /\ IsFiniteSet(Q)
      BY FS_Subset, <2>1
    <3>3. PICK u : Adds(u, Q, [y \in Q |-> g[y]])
      BY <3>2, SumExists
    <3>4. \A y \in Q : [z \in Q |-> g[z]][y] <= [z \in Q |-> g[z]][y]
      BY <3>2
    <3>5. u[R] <= u[Q] /\ u[R] \in Nat /\ u[Q] \in Nat
      BY <2>1, <3>2, <3>3, <3>4, SumCompares
    <3>6. SumFunction([y \in Q |-> g[y]]) = u[Q]
      BY <3>2, <3>3, SumIs
    <3>7. SumFunction([y \in R |-> [z \in Q |-> g[z]][y]]) = u[R]
      BY <2>1, <3>2, <3>3, SumOfPart
    <3>8. [y \in R |-> [z \in Q |-> g[z]][y]] = [y \in R |-> g[y]]
      BY <2>1
    <3> QED
      BY <3>1, <3>5, <3>6, <3>7, <3>8
  <2>5. f[x] \in Nat /\ g[x] \in Nat /\ h[x] = f[x]
    BY <1>2
  <2> HIDE DEF R, Q
  <2> QED
    BY <1>8, <2>2, <2>3, <2>4, <2>5
<1> QED
  BY <1>5, <1>6, <1>7, <1>8

(***************************************************************************)
(* What disjoint sets add up to, one after the other, is no more than what *)
(* the whole set does.                                                     *)
(***************************************************************************)
LEMMA UnionAdds ==
  ASSUME NEW N, IsFiniteSet(N), NEW f, NEW sum, Adds(sum, N, f),
         NEW A \in SUBSET N, NEW B \in SUBSET N, A \cap B = {}, f \in [N -> Nat]
  PROVE  sum[A \cup B] = sum[A] + sum[B]
<1> DEFINE T == {S \in SUBSET B : sum[A \cup S] # sum[A] + sum[S]}
<1>1. ASSUME T # {} PROVE FALSE
  <2>1. PICK S \in T : \A R \in SUBSET S : R # S => R \notin T
    <3>1. T \in SUBSET (SUBSET N)
      OBVIOUS
    <3> HIDE DEF T
    <3> QED
      BY <1>1, <3>1, SmallestSet
  <2>2. sum[A] \in Nat
    BY DEF Adds
  <2>3. S # {}
    <3>1. A \cup {} = A /\ sum[{}] = 0 /\ sum[A] + 0 = sum[A]
      BY <2>2 DEF Adds
    <3> QED
      BY <2>1, <3>1
  <2>4. PICK x \in S : TRUE
    BY <2>3
  <2> DEFINE R == S \ {x}
  <2>5. /\ R \in SUBSET S /\ R # S /\ R \in SUBSET B /\ R \in SUBSET N /\ S \in SUBSET N
        /\ x \in N /\ (A \cup S) \ {x} = A \cup R /\ A \cup S \in SUBSET N
        /\ A \cup R \in SUBSET N /\ x \in A \cup S
    BY <2>1, <2>4
  <2>6. sum[A \cup R] = sum[A] + sum[R]
    BY <2>1, <2>5
  <2>7. sum[S] = f[x] + sum[R] /\ sum[A \cup S] = f[x] + sum[A \cup R]
    BY <2>5 DEF Adds
  <2>8. sum[R] \in Nat /\ f[x] \in Nat
    BY <2>5 DEF Adds
  <2> HIDE DEF R
  <2>9. sum[A \cup S] = sum[A] + sum[S]
    BY <2>2, <2>6, <2>7, <2>8
  <2> QED
    BY <2>1, <2>9
<1> QED
  <2>1. B \notin T /\ B \in SUBSET B
    BY <1>1
  <2> QED
    BY <2>1

LEMMA PatternsFit ==
  ASSUME NEW N, IsFiniteSet(N), NEW f \in [N -> Nat],
         NEW P \in SUBSET (SUBSET N), Disjoint(P)
  PROVE  /\ IsFiniteSet(P)
         /\ [p \in P |-> SumFunction([x \in p |-> f[x]])] \in [P -> Nat]
         /\ SumFunction([p \in P |-> SumFunction([x \in p |-> f[x]])]) <= SumFunction(f)
<1> DEFINE g == [p \in P |-> SumFunction([x \in p |-> f[x]])]
<1>1. IsFiniteSet(P)
  BY FS_SUBSET, FS_Subset
<1>2. PICK w : Adds(w, N, f)
  BY SumExists
<1>3. \A p \in P : p \in SUBSET N /\ g[p] = w[p] /\ w[p] \in Nat
  <2> TAKE p \in P
  <2>1. p \in SUBSET N
    OBVIOUS
  <2>2. SumFunction([x \in p |-> f[x]]) = w[p]
    BY <1>2, <2>1, SumOfPart
  <2>3. w[p] \in Nat
    BY <1>2, <2>1 DEF Adds
  <2> QED
    BY <2>1, <2>2, <2>3
<1>4. g \in [P -> Nat]
  <2>1. g = [p \in P |-> g[p]]
    OBVIOUS
  <2> HIDE DEF g
  <2> QED
    BY <1>3, <2>1
<1> HIDE DEF g
<1>5. PICK sum : Adds(sum, P, g)
  BY <1>1, <1>4, SumExists
<1> DEFINE T == {Q \in SUBSET P : sum[Q] # w[UNION Q]}
<1>6. ASSUME T # {} PROVE FALSE
  <2>1. PICK Q \in T : \A R \in SUBSET Q : R # Q => R \notin T
    <3>1. T \in SUBSET (SUBSET P)
      OBVIOUS
    <3> HIDE DEF T
    <3> QED
      BY <1>1, <1>6, <3>1, SmallestSet
  <2>2. Q # {}
    <3>1. UNION {} = {} /\ sum[{}] = 0 /\ w[{}] = 0
      BY <1>2, <1>5 DEF Adds
    <3> QED
      BY <2>1, <3>1
  <2>3. PICK p \in Q : TRUE
    BY <2>2
  <2> DEFINE R == Q \ {p}
             U == UNION R
  <2>4. R \in SUBSET Q /\ R # Q /\ R \in SUBSET P /\ p \in P /\ Q \in SUBSET P
    BY <2>1, <2>3
  <2>5. sum[R] = w[U]
    BY <2>1, <2>4
  <2>6. sum[Q] = g[p] + sum[R]
    BY <1>5, <2>3, <2>4 DEF Adds
  <2>7. UNION Q = p \cup U
    BY <2>3
  <2>8. p \cap U = {}
    BY <2>4 DEF Disjoint
  <2>9. U \in SUBSET N /\ p \in SUBSET N
    BY <2>4
  <2> HIDE DEF U, R
  <2>10. w[p \cup U] = w[p] + w[U]
    BY <1>2, <2>8, <2>9, UnionAdds
  <2>11. sum[Q] = w[UNION Q]
    BY <1>3, <2>4, <2>5, <2>6, <2>7, <2>10
  <2> QED
    BY <2>1, <2>11
<1>7. sum[P] = w[UNION P]
  <2>1. P \notin T /\ P \in SUBSET P
    BY <1>6
  <2> QED
    BY <2>1
<1>8. SumFunction(g) = sum[P]
  BY <1>1, <1>4, <1>5, SumIs
<1>9. w[UNION P] <= w[N] /\ w[N] = SumFunction(f)
  <2>1. UNION P \in SUBSET N /\ \A x \in N : f[x] <= f[x]
    OBVIOUS
  <2> QED
    BY <1>2, <2>1, SumCompares, SumIs
<1> QED
  BY <1>1, <1>4, <1>7, <1>8, <1>9 DEF g

(***************************************************************************)
(* More, the same number of times, is no less.                             *)
(***************************************************************************)
LEMMA TimesGrows ==
  ASSUME NEW a \in Nat, NEW b \in Nat, NEW c \in Nat, a <= b
  PROVE  /\ a * c <= b * c /\ a * c \in Nat /\ b * c \in Nat
         /\ a < b /\ c > 0 => a * c < b * c
<1>1. a * c \in Nat /\ b * c \in Nat /\ (b - a) * c \in Nat /\ b * c = a * c + (b - a) * c
  OBVIOUS
<1>2. a < b /\ c > 0 => (b - a) * c > 0
  OBVIOUS
<1> QED
  BY <1>1, <1>2

-----------------------------------------------------------------------------
(***************************************************************************)
(* What the estimate relies on: the candidates of a block of -ise are      *)
(* patterns of its vertices, and those selected are disjoint and faster in *)
(* hardware for the selection.                                             *)
(***************************************************************************)
FitsBlock(b, P) == P \subseteq SUBSET (1..prog.size[b])

WellSelected(b, P) ==
  P # {} /\ P \subseteq resultMap[b] /\ Disjoint(P) /\ \A p \in P : Profitable(b, p)

Executed == SumFunction([b \in DOMAIN selected |-> HwTotal(b, selected[b]) * prog.count[b]])

CandidatesFit == pass = "ise" => \A b \in DOMAIN resultMap : FitsBlock(b, resultMap[b])
SelectedWell  == pc = "estimate" => \A b \in DOMAIN selected : WellSelected(b, selected[b])

EstimateInv == CandidatesFit /\ SelectedWell /\ EstimateBounded /\ SelectionPays

LEMMA CandidatesStayFit ==
  ASSUME CandidatesFit, UNCHANGED <<prog, pass, resultMap>> PROVE CandidatesFit'
BY DEF CandidatesFit, FitsBlock

LEMMA WellSelectedStays ==
  ASSUME UNCHANGED <<prog, resultMap>>, NEW b, NEW P, WellSelected(b, P) PROVE WellSelected(b, P)'
<1>1. \A p : Profitable(b, p)' <=> Profitable(b, p)
  BY DEF Profitable, SwOf, HwTime
<1> QED
  BY <1>1 DEF WellSelected, Disjoint

LEMMA SelectedStayWell ==
  ASSUME SelectedWell, UNCHANGED <<prog, resultMap, selected>>, pc' = "estimate" => pc = "estimate"
  PROVE  SelectedWell'
BY WellSelectedStays DEF SelectedWell

(***************************************************************************)
(* The selection selects well in every block.                              *)
(***************************************************************************)
LEMMA SelectsWell ==
  ASSUME NEW sel \in Selections
  PROVE  \A b \in DOMAIN sel : WellSelected(b, sel[b])
<1>1. CASE opt.selection = "random"
  <2>1. sel = <<>>
    BY <1>1 DEF Selections
  <2> QED
    BY <2>1
<1>2. CASE opt.selection # "random"
  <2> DEFINE S == SUBSET UNION {resultMap[b] : b \in DOMAIN resultMap}
  <2>1. PICK s \in [DOMAIN resultMap -> S] :
          /\ \A b \in DOMAIN resultMap : s[b] \in Selectable(b)
          /\ sel = [b \in {c \in DOMAIN s : s[c] # {}} |-> s[b]]
    BY <1>2 DEF Selections
  <2> HIDE DEF S
  <2>2. \A b \in DOMAIN resultMap : s[b] # {} => WellSelected(b, s[b])
    BY <2>1 DEF Selectable, WellSelected
  <2>3. \A b \in DOMAIN sel : b \in DOMAIN resultMap /\ sel[b] = s[b] /\ s[b] # {}
    BY <2>1
  <2> QED
    BY <2>2, <2>3
<1> QED
  BY <1>1, <1>2

(***************************************************************************)
(* In one block: the runtime with custom instructions is at least that of  *)
(* the patterns, and below the one in software when none is dearer for the *)
(* identification than for the selection.                                  *)
(***************************************************************************)
LEMMA BlockTimes ==
  ASSUME IInv, EstimateInv, pc = "estimate", NEW b \in dfgMap
  PROVE  /\ SwBlock(b) \in Nat
         /\ b \in DOMAIN selected =>
              /\ HwTotal(b, selected[b]) \in Nat /\ HwOf(b) \in Nat
              /\ HwTotal(b, selected[b]) <= HwOf(b)
              /\ NoneDearer => HwOf(b) < SwBlock(b)
<1> DEFINE V == 1..prog.size[b]
           w == prog.sw[b]
           hid == prog.hw["identification"][b]
           hsel == prog.hw["selection"][b]
<1>1. b \in Blocks /\ IsProgram(prog)
  BY DEF IInv, TypeOK
<1>2. /\ prog.size[b] \in Nat /\ w \in [V -> Nat]
      /\ hid \in [SUBSET V -> Nat] /\ hsel \in [SUBSET V -> Nat]
  BY <1>1 DEF IsProgram, Blocks, Objects
<1>3. IsFiniteSet(V)
  BY <1>2, FS_Interval
<1>4. SwBlock(b) = SumFunction(w)
  <2>1. [v \in V |-> w[v]] = w
    BY <1>2
  <2>2. SumFunction([v \in V |-> w[v]]) = SumFunction(w)
    BY <2>1, Zenon
  <2> QED
    BY <2>2 DEF SwBlock, SwOf
<1>5. SumFunction(w) \in Nat
  <2> HIDE DEF V, w
  <2> QED
    BY <1>2, <1>3, SumsCompare
<1>6. ASSUME b \in DOMAIN selected
      PROVE  /\ HwTotal(b, selected[b]) \in Nat /\ HwOf(b) \in Nat
             /\ HwTotal(b, selected[b]) <= HwOf(b)
             /\ NoneDearer => HwOf(b) < SwBlock(b)
  <2> DEFINE P == selected[b]
             t == [p \in P |-> SumFunction([v \in p |-> w[v]])]
             h == [p \in P |-> hid[p]]
  <2>1. P \in SUBSET (SUBSET V) /\ Disjoint(P) /\ P # {} /\ \A p \in P : Profitable(b, p)
    <3>1. pass = "ise" /\ b \in DOMAIN resultMap
      BY <1>6 DEF IInv, PassInv, TypeOK
    <3> QED
      BY <1>6, <3>1 DEF EstimateInv, CandidatesFit, SelectedWell, FitsBlock, WellSelected
  <2>2. SwTotal(b, P) = SumFunction(t) /\ HwTotal(b, P) = SumFunction(h)
    BY DEF SwTotal, SwOf, HwTotal, HwTime
  <2>3. \A p \in P : t[p] > hsel[p] /\ h[p] = hid[p] /\ hid[p] \in Nat /\ hsel[p] \in Nat
    <3> TAKE p \in P
    <3>1. p \in SUBSET V /\ Profitable(b, p)
      BY <2>1
    <3>2. SwOf(b, p) = t[p]
      BY DEF SwOf
    <3>3. SwOf(b, p) > hsel[p]
      BY <3>1 DEF Profitable, HwTime
    <3> QED
      BY <1>2, <3>1, <3>2, <3>3
  <2>4. NoneDearer => \A p \in P : hid[p] <= hsel[p]
    BY <1>6 DEF NoneDearer, HwTime
  <2>5. HwOf(b) = SumFunction(w) - SwTotal(b, P) + HwTotal(b, P)
    BY <1>4 DEF HwOf
  <2>6. h \in [P -> Nat]
    BY <2>3
  <2> HIDE DEF V, w, P, hid, hsel
  <2>7. IsFiniteSet(P) /\ t \in [P -> Nat] /\ SumFunction(t) <= SumFunction(w)
    BY <1>2, <1>3, <2>1, PatternsFit
  <2> HIDE DEF t, h
  <2>8. SumFunction(t) \in Nat /\ SumFunction(h) \in Nat
    BY <2>6, <2>7, SumsCompare
  <2>9. ASSUME NoneDearer PROVE SumFunction(h) < SumFunction(t)
    <3>1. \A p \in P : h[p] < t[p] /\ h[p] <= t[p]
      <4> TAKE p \in P
      <4>1. h[p] \in Nat /\ t[p] \in Nat
        BY <2>6, <2>7
      <4> QED
        BY <2>3, <2>4, <2>9, <4>1
    <3>2. \E p \in P : h[p] < t[p]
      BY <2>1, <3>1
    <3> QED
      BY <2>6, <2>7, <3>1, <3>2, SumsCompare
  <2>10. HwTotal(b, P) \in Nat /\ HwOf(b) \in Nat /\ HwTotal(b, P) <= HwOf(b)
    BY <1>5, <2>2, <2>5, <2>7, <2>8
  <2>11. NoneDearer => HwOf(b) < SwBlock(b)
    BY <1>4, <1>5, <2>2, <2>5, <2>7, <2>8, <2>9
  <2> QED
    BY <2>10, <2>11 DEF P
<1> QED
  BY <1>4, <1>5, <1>6

(***************************************************************************)
(* The summands of the estimate, block by block.                           *)
(***************************************************************************)
SwCost(b) == SwBlock(b) * prog.count[b]
HwCost(b) == (IF b \in DOMAIN selected THEN HwOf(b) ELSE SwBlock(b)) * prog.count[b]
PatternCost(b) == HwTotal(b, selected[b]) * prog.count[b]

LEMMA BlockCosts ==
  ASSUME IInv, EstimateInv, pc = "estimate", NEW b \in dfgMap
  PROVE  /\ SwCost(b) \in Nat /\ HwCost(b) \in Nat
         /\ b \in DOMAIN selected => PatternCost(b) \in Nat /\ PatternCost(b) <= HwCost(b)
         /\ b \notin DOMAIN selected => HwCost(b) = SwCost(b)
         /\ NoneDearer => HwCost(b) <= SwCost(b)
         /\ NoneDearer /\ b \in DOMAIN selected /\ prog.count[b] > 0 => HwCost(b) < SwCost(b)
<1>1. prog.count[b] \in Nat
  BY ProgramFacts DEF IInv, TypeOK
<1>2. CASE b \in DOMAIN selected
  <2>1. /\ SwBlock(b) \in Nat /\ HwTotal(b, selected[b]) \in Nat /\ HwOf(b) \in Nat
        /\ HwTotal(b, selected[b]) <= HwOf(b) /\ (NoneDearer => HwOf(b) < SwBlock(b))
    BY <1>2, BlockTimes
  <2>2. HwCost(b) = HwOf(b) * prog.count[b]
    BY <1>2 DEF HwCost
  <2>3. SwCost(b) \in Nat /\ HwCost(b) \in Nat
    BY <1>1, <2>1, <2>2 DEF SwCost
  <2>4. PatternCost(b) \in Nat /\ PatternCost(b) <= HwCost(b)
    BY <1>1, <2>1, <2>2, TimesGrows DEF PatternCost
  <2>5. ASSUME NoneDearer
        PROVE  HwCost(b) <= SwCost(b) /\ (prog.count[b] > 0 => HwCost(b) < SwCost(b))
    <3>1. HwOf(b) < SwBlock(b) /\ HwOf(b) <= SwBlock(b)
      BY <2>1, <2>5
    <3> QED
      BY <1>1, <2>1, <2>2, <3>1, TimesGrows DEF SwCost
  <2> QED
    BY <1>2, <2>3, <2>4, <2>5
<1>3. CASE b \notin DOMAIN selected
  <2>1. SwBlock(b) \in Nat /\ HwCost(b) = SwCost(b) /\ SwCost(b) = SwBlock(b) * prog.count[b]
    BY <1>3, BlockTimes DEF SwCost, HwCost
  <2> QED
    BY <1>1, <1>3, <2>1
<1> QED
  BY <1>2, <1>3

(***************************************************************************)
(* Estimate computes such estimates ...                                    *)
(***************************************************************************)
LEMMA EstimateStep ==
  ASSUME IInv, EstimateInv, Estimate PROVE EstimateBounded' /\ SelectionPays'
<1>1. TypeOK /\ pc = "estimate" /\ prog' = prog /\ selected' = selected
  BY DEF IInv, Estimate, input
<1>2. IsFiniteSet(dfgMap) /\ DOMAIN selected \in SUBSET dfgMap
  <2>1. dfgMap \subseteq 1..Len(prog.name) /\ Len(prog.name) \in Nat
    BY <1>1, BlockFacts DEF TypeOK
  <2>2. IsFiniteSet(1..Len(prog.name))
    BY <2>1, FS_Interval
  <2> QED
    BY <1>1, <2>1, <2>2, FS_Subset DEF TypeOK
<1> DEFINE f == [b \in dfgMap |-> SwCost(b)]
           g == [b \in dfgMap |-> HwCost(b)]
           h == [b \in DOMAIN selected |-> PatternCost(b)]
<1>3. /\ \A b \in dfgMap : /\ f[b] \in Nat /\ g[b] \in Nat
                           /\ b \notin DOMAIN selected => g[b] = f[b]
                           /\ NoneDearer => g[b] <= f[b]
      /\ \A b \in DOMAIN selected : /\ h[b] \in Nat /\ h[b] <= g[b]
                                    /\ NoneDearer /\ prog.count[b] > 0 => g[b] < f[b]
  BY <1>1, <1>2, BlockCosts
<1>4. f \in [dfgMap -> Nat] /\ g \in [dfgMap -> Nat] /\ h \in [DOMAIN selected -> Nat]
  BY <1>3
<1>5. estimate'.sw = SumFunction(f) /\ estimate'.hw = SumFunction(g) /\ Executed = SumFunction(h)
  BY DEF Estimate, SwCost, HwCost, PatternCost, Executed
<1>6. DOMAIN selected = {} => f = g
  BY <1>3
<1> HIDE DEF f, g, h
<1>7. SumFunction(h) <= SumFunction(g)
  BY <1>2, <1>3, <1>4, SumsCompare
<1>8. SumFunction(h) \in Nat /\ SumFunction(g) \in Nat
  BY <1>2, <1>3, <1>4, SumsCompare
<1>9. ASSUME NoneDearer
      PROVE  /\ SumFunction(g) <= SumFunction(f)
             /\ (\E b \in DOMAIN selected : prog.count[b] > 0) => SumFunction(g) < SumFunction(f)
  <2>1. dfgMap \in SUBSET dfgMap /\ \A b \in dfgMap : g[b] <= f[b]
    BY <1>3, <1>9
  <2>2. (\E b \in DOMAIN selected : prog.count[b] > 0) => \E b \in dfgMap : g[b] < f[b]
    BY <1>2, <1>3, <1>9
  <2> QED
    BY <1>2, <1>4, <2>1, <2>2, SumsCompare
<1>10. Executed' = Executed /\ NoneDearer' = NoneDearer
  BY <1>1 DEF Executed, HwTotal, HwTime, NoneDearer
<1>11. EstimateBounded'
  <2>1. estimate'.hw >= Executed' /\ (DOMAIN selected' = {} => estimate'.hw = estimate'.sw)
    BY <1>1, <1>5, <1>6, <1>7, <1>8, <1>10
  <2> QED
    BY <2>1 DEF EstimateBounded, Executed
<1>12. SelectionPays'
  <2>1. NoneDearer' =>
          /\ estimate'.hw <= estimate'.sw
          /\ (\E b \in DOMAIN selected' : prog'.count[b] > 0) => estimate'.hw < estimate'.sw
    BY <1>1, <1>5, <1>9, <1>10
  <2> QED
    BY <2>1 DEF SelectionPays
<1> QED
  BY <1>11, <1>12

(***************************************************************************)
(* ... and a finished estimate stays as long as nothing is started.        *)
(***************************************************************************)
LEMMA EstimateStays ==
  ASSUME EstimateBounded, SelectionPays, UNCHANGED <<input, pass, selected, estimate>>,
         pc' = "returned" => pc = "returned"
  PROVE  EstimateBounded' /\ SelectionPays'
<1>1. /\ prog' = prog /\ opt' = opt /\ selected' = selected /\ estimate' = estimate
      /\ pass' = pass
  BY DEF input
<1>2. Executed' = Executed /\ NoneDearer' = NoneDearer
  BY <1>1 DEF Executed, HwTotal, HwTime, NoneDearer
<1>3. Estimated' => Estimated
  BY <1>1 DEF Estimated
<1>4. EstimateBounded <=>
        (Estimated => estimate.hw >= Executed
                      /\ (DOMAIN selected = {} => estimate.hw = estimate.sw))
  BY DEF EstimateBounded, Executed
<1>5. EstimateBounded' <=>
        (Estimated' => estimate'.hw >= Executed'
                       /\ (DOMAIN selected' = {} => estimate'.hw = estimate'.sw))
  BY DEF EstimateBounded, Executed
<1>6. EstimateBounded'
  BY <1>1, <1>2, <1>3, <1>4, <1>5
<1>7. SelectionPays'
  BY <1>1, <1>2, <1>3 DEF SelectionPays
<1> QED
  BY <1>6, <1>7

(***************************************************************************)
(* No estimate, no claim.                                                  *)
(***************************************************************************)
LEMMA NoEstimateYet ==
  ASSUME ~Estimated'
  PROVE  EstimateBounded' /\ SelectionPays'
BY DEF EstimateBounded, SelectionPays

(***************************************************************************)
(* Every step of the passes keeps what the estimate relies on.             *)
(***************************************************************************)
LEMMA EstimateInvStep ==
  ASSUME IInv, EstimateInv, [Next]_vars PROVE EstimateInv'
<1>1. TypeOK /\ PassInv /\ EstimateBounded /\ SelectionPays
  BY DEF IInv, EstimateInv
<1>2. prog' = prog /\ found' = found /\ opt' = opt /\ UNCHANGED input
  <2>1. UNCHANGED input
    BY StepKeepsInput DEF vars
  <2> QED
    BY <2>1 DEF input
<1>3. CandidatesFit /\ SelectedWell
  BY DEF EstimateInv
<1>4. ASSUME StartIse PROVE EstimateInv'
  <2>1. resultMap' = <<>> /\ pc' = "block"
    BY <1>4 DEF StartIse, Fresh
  <2>2. EstimateBounded' /\ SelectionPays'
    BY <2>1, NoEstimateYet DEF Estimated
  <2> QED
    BY <2>1, <2>2 DEF EstimateInv, CandidatesFit, SelectedWell
<1>5. ASSUME StartSelect PROVE EstimateInv'
  <2>1. pass' = "ise-sel" /\ pc' = "read"
    BY <1>5 DEF StartSelect
  <2>2. EstimateBounded' /\ SelectionPays'
    BY <2>1, NoEstimateYet DEF Estimated
  <2> QED
    BY <2>1, <2>2 DEF EstimateInv, CandidatesFit, SelectedWell
<1>6. ASSUME SkipUnread \/ ReadFile \/ AllRead PROVE EstimateInv'
  <2>1. pass' = "ise-sel" /\ pc' \in {"read", "threw", "select"}
    BY <1>1, <1>6 DEF SkipUnread, ReadFile, AllRead, PassInv
  <2>2. EstimateBounded' /\ SelectionPays'
    BY <2>1, NoEstimateYet DEF Estimated
  <2> QED
    BY <2>1, <2>2 DEF EstimateInv, CandidatesFit, SelectedWell
<1>7. ASSUME Identify PROVE EstimateInv'
  <2>1. /\ pass = "ise" /\ pass' = pass /\ block \in Blocks
        /\ pc' \in {"block", "open"} /\ resultMap' = Kept(Candidates)
    BY <1>1, <1>7 DEF Identify, AtBlock, PassInv, FoundIn
  <2>2. FitsBlock(block, Candidates)
    BY DEF FitsBlock, Candidates
  <2>3. Candidates \subseteq Patterns
    BY <2>1 DEF Candidates, Patterns
  <2>4. \A b \in DOMAIN resultMap' : FitsBlock(b, resultMap'[b])
    <3> TAKE b \in DOMAIN resultMap'
    <3>1. CASE b = block /\ Candidates # {}
      BY <1>1, <2>1, <2>2, <2>3, <3>1, KeptFacts
    <3>2. CASE ~(b = block /\ Candidates # {})
      <4>1. b \in DOMAIN resultMap /\ resultMap'[b] = resultMap[b]
        BY <1>1, <2>1, <2>3, <3>2, KeptFacts
      <4> QED
        BY <2>1, <4>1 DEF EstimateInv, CandidatesFit
    <3> QED
      BY <3>1, <3>2
  <2>5. EstimateBounded' /\ SelectionPays'
    BY <2>1, NoEstimateYet DEF Estimated
  <2>6. CandidatesFit'
    BY <1>2, <2>4 DEF CandidatesFit, FitsBlock
  <2> QED
    BY <2>1, <2>5, <2>6 DEF EstimateInv, SelectedWell
<1>8. ASSUME Select PROVE EstimateInv'
  <2>1. /\ UNCHANGED <<pass, resultMap>> /\ selected' \in Selections
        /\ pc' = IF pass = "ise" /\ opt.estimation THEN "estimate" ELSE "returned"
    BY <1>8 DEF Select
  <2>2. EstimateBounded' /\ SelectionPays'
    BY <1>2, <2>1, NoEstimateYet DEF Estimated
  <2>3. \A b \in DOMAIN selected' : WellSelected(b, selected'[b])
    BY <2>1, SelectsWell
  <2>4. CandidatesFit' /\ SelectedWell'
    BY <1>2, <1>3, <2>1, <2>3, CandidatesStayFit, WellSelectedStays DEF SelectedWell
  <2> QED
    BY <2>2, <2>4 DEF EstimateInv
<1>9. ASSUME Estimate PROVE EstimateInv'
  <2>1. UNCHANGED <<pass, resultMap>> /\ pc' = "returned"
    BY <1>9 DEF Estimate
  <2>2. EstimateBounded' /\ SelectionPays'
    BY <1>9, EstimateStep
  <2>3. CandidatesFit'
    BY <1>2, <1>3, <2>1, CandidatesStayFit
  <2> QED
    BY <2>1, <2>2, <2>3 DEF EstimateInv, SelectedWell
<1>10. ASSUME EndOfModule PROVE EstimateInv'
  <2>1. /\ UNCHANGED <<pass, resultMap>>
        /\ pc' = IF opt.benchmark \/ opt.stop THEN "returned" ELSE "select"
    BY <1>10 DEF EndOfModule, memory
  <2>2. EstimateBounded' /\ SelectionPays'
    BY <1>2, <2>1, NoEstimateYet DEF Estimated
  <2>3. CandidatesFit'
    BY <1>2, <1>3, <2>1, CandidatesStayFit
  <2> QED
    BY <2>1, <2>2, <2>3 DEF EstimateInv, SelectedWell
<1>11. ASSUME \/ SkipEmpty \/ Benchmark \/ OpenFile \/ WriteFile \/ Collect \/ Alarm \/ Interrupt
              \/ UNCHANGED vars
       PROVE  EstimateInv'
  <2>1. /\ UNCHANGED <<pass, resultMap, selected, estimate>>
        /\ pc' \in {"block", "write", "killed"} \/ pc' = pc
    BY <1>11 DEF SkipEmpty, Benchmark, OpenFile, WriteFile, Collect, Alarm, Interrupt, vars,
                 memory
  <2>2. EstimateBounded' /\ SelectionPays'
    BY <1>1, <1>2, <2>1, EstimateStays
  <2>3. CandidatesFit' /\ SelectedWell'
    BY <1>2, <1>3, <2>1, CandidatesStayFit, SelectedStayWell
  <2> QED
    BY <2>2, <2>3 DEF EstimateInv
<1> QED
  BY <1>4, <1>5, <1>6, <1>7, <1>8, <1>9, <1>10, <1>11 DEF Next

(***************************************************************************)
(* When -ise has estimated the program, with the selected patterns it is   *)
(* no faster than these take alone in hardware, and as fast as in software *)
(* when there are none: no block is given away, as it would be were two    *)
(* selected patterns to share a vertex.                                    *)
(***************************************************************************)
THEOREM EstimateIsBounded == Spec => []EstimateBounded
<1>1. Init => EstimateInv
  BY DEF Init, EstimateInv, CandidatesFit, SelectedWell, EstimateBounded, SelectionPays, Estimated
<1>2. IInv /\ EstimateInv /\ [Next]_vars => EstimateInv'
  BY EstimateInvStep
<1>3. EstimateInv => EstimateBounded
  BY DEF EstimateInv
<1> QED
  BY <1>1, <1>2, <1>3, PassInvariant, PTL DEF Spec

(***************************************************************************)
(* Unless a selected pattern is dearer for the Architecture object of the  *)
(* identification than for that of the selection, the estimate with custom *)
(* instructions is below the one in software as soon as a block that has   *)
(* any is executed, and never above it.                                    *)
(***************************************************************************)
THEOREM SelectionIsWorthIt == Spec => []SelectionPays
<1>1. Init => EstimateInv
  BY DEF Init, EstimateInv, CandidatesFit, SelectedWell, EstimateBounded, SelectionPays, Estimated
<1>2. IInv /\ EstimateInv /\ [Next]_vars => EstimateInv'
  BY EstimateInvStep
<1>3. EstimateInv => SelectionPays
  BY DEF EstimateInv
<1> QED
  BY <1>1, <1>2, <1>3, PassInvariant, PTL DEF Spec
=============================================================================
