# Formal models of woolcano-ise

woolcano-ise looks for instruction-set extensions: an LLVM pass takes each basic
block of a program apart, identifies subgraphs of its data-flow graph that a
reconfigurable processor could execute as one custom instruction, and selects
the best of them. This directory holds TLA+ models of that program, the TLC
runs that check them and TLAPS proofs about them.

## Inventory

All paths are below `src/`.

| Part | State it keeps | Operations | What makes it correct | Here |
|---|---|---|---|---|
| Data-flow graph (`ise/lib/common/DataFlowGraph.cpp`) | a Boost graph, a map from values to vertices, counts of inputs and outputs | build from a basic block, split constants, build from a pattern, queries, topological order, longest path | edges are the operands; inputs, outputs and constants are classified as the block uses them | modelled (`DataFlowGraph`, `BlockDfg`, `RuntimeEstimation`), proved |
| MaxMISO (`AlgoMaxMiso.cpp`) | `fanout`, `processed`, the pattern being generated, the recursion | `run`, `generateMaxMiso` | finds exactly the maximal single-output subgraphs | modelled, proved |
| SingleCut (`AlgoSingleCut.cpp`) | `cut`, `lti`, `inputVector` shared by all calls; counters passed down | `run`, `search` (both choices), `checkInvalid` | finds every feasible cut, and only convex ones | modelled, first half proved; second half violated |
| MultipleCuts (`AlgoMultipleCuts.cpp`) | the same for k cuts | `run`, `search`, `setNumCuts` | counters of each cut exact, assertions hold, one cut is SingleCut | modelled, proved |
| Union (`AlgoUnion.cpp`) | regions, conflicts, cones kept per vertex, excluded vertices, `remExts` shared by the recursion | `run`, regions, upward and downward cones, `Union`, checks | results are legal, found once, and not lost; it ends | modelled, proved but for termination; one part violated |
| Architecture (`Architecture*.cpp`) | limits, bus widths, clock | setters, transfer overhead, timing tables | settings reach the objects they are meant for, overhead is what is transferred | modelled; what does hold is proved, the rest violated (see below) |
| Runtime estimation (`RuntimeEstimation.cpp`) | arrays over the vertices | sum in software, longest path in hardware | right in every topological order | modelled, proved |
| Selection (`SelectionMethod1.cpp`) | candidate list, selection, masks per block | `run` | patterns disjoint, limits kept, greedy choice right | modelled, proved |
| Random selection (`SelectionRandom.cpp`) | none | `run`, with another signature than the base class | would have to override the base class | modelled as it is called: not at all |
| Pass driver (`ISEPass.cpp`) | maps from blocks to graphs and results, files of candidates, alarm | identify, write, select, estimate; the separate selection pass reads the files | what one pass writes the other reads, also after a run that was ended | modelled, proved |
| Job runner (`misc-tools/bash_threads`) | lock files, the manager's arrays, background processes | `launch_workers`, `update_workers_status`, `wait_till_*`, `start_worker` | no slot used twice, every line run, ends | modelled, proved |
| Primitives, `Util`, `Benchmark`, bitcode statistics | none, or counters | predicates, file output, tick counting | | what other parts use is in their models; the rest has no behaviour over time |
| Other tools of `misc-tools`, `benchmarks`, build files, results | | | | not modelled: scripts that convert and draw, programs of others, data |

How they interact: `ISEPass::runOnModule` builds a graph per block, calls one
identification algorithm through `IseAlgorithm::run` with the graph and the
architecture, keeps its patterns in a map (and, on request, in files that
`-ise-sel` reads in another process), reads the profile and calls a selection
algorithm with all of it; the selection has the graph of each pattern built and
its runtimes estimated with the tables of the architecture. Everything in one
process is sequential and by direct call; an alarm or interrupt may end it at
any moment. The job runner is the one concurrent part: a manager shell and
background shells that share lock files.

What is hard here:

* recursion over shared arrays. `fanout` (MaxMISO), `cut`, `lti` and
  `inputVector` (SingleCut, MultipleCuts) and `remExts`, the cached cones and the
  excluded vertices (Union) are changed by every call and put back, if at all, by
  another call. A test sees the outcome on a graph, not which orders of vertices
  and parallel edges could break it.
* pruning. SingleCut gives up a branch on its first violated constraint, Union
  drops cones, neighbours and extension points it takes for useless; that is
  right only if nothing they lead to is lost.
* results that must not depend on which topological order is found.
* selection by a list, a map and a mask that must stay consistent.
* settings that one part of the driver makes and another part asks for, in
  different objects.
* files that a run may be writing when it is ended, and the next one reads.
* a manager that reads the state of its workers file by file while they change
  it, with only a sleep between fork and lock file, and nothing that removes the
  files of workers that died.

`PROJECT.json` lists each hazard at its line with the properties that cover it.

## Modules

**`DataFlowGraph`**: a graph is a record (vertices, edges with source and
target, operator type, whether the value is an instruction, whether the
architecture supports it); `InEdges`, `OutEdges`, `OutDegree` and so on are the
queries of `DataFlowGraph.h`. Edges are operand slots, so `add x, x` has two
edges between the same vertices. `ReverseTopologicalSorts` are all the orders
`boost::topological_sort` might leave; the code takes one. `FromBasicBlock` says
what `fromBasicBlock` and `splitConstants` make of a block: this is proved about
`BlockDfg`; the runs of the algorithms take it for granted, their proofs ask for
less, a well-formed graph (`IsDFG`).
`Convex` is the property a pattern must have to be one instruction.

**`BlockDfg`**: the construction itself, over a list of instructions with their
operands; each turn of a loop over operands or edges is a step. `Phi`,
`AddInstruction`, `AddOperand` and `EndOfBlock` are `fromBasicBlock`, with
`forcedOutputs` and the test of uses in other blocks; `SplitEdge` and
`EndOfVertex` are `splitConstants`; `Identify` picks a pattern as an algorithm
would, and `AddMember`, `NextMember`, `Outgoing`, `Incoming` and what ends each loop
are `fromBitVector`, with members in the order of vertex descriptors and the edges
of a member in any order, since `splitConstants` changes it. A lookup that fails sets
`failed`, as the assertion does. `IsBlock` is what LLVM's verifier asks of a block
that can be reached: phis first, one terminator, at the end, and operands before
their uses.

**`Miso`**: which vertices MaxMISO holds for invalid, and what a MISO and a
maximal one are.

**`MisoCover`**: the abstract specification of MaxMISO. The graph is taken apart
one maximal MISO or one invalid vertex at a time until nothing is left.

**`MaxMiso`**: `AlgoMaxMiso`. The recursion is the variable `stack`; `todo` holds
the in-edges that active calls have yet to pass, so a call may pass its edges in
any order, of which the edge iterator's is one. `Advance`, `SkipInvalid`,
`StartRoot` and `ReturnToRun` are the loop of `run`; `PassEdge`, `AbsorbParent`
and `ReturnToCaller` are `generateMaxMiso`. `fanout` is an integer, so that going
below zero is visible.

**`SingleCut`**: `AlgoSingleCut`. `calls` is the stack of active calls of
`search`, with the counters each has computed; `cut`, `lti` and `inputVector` are
the shared members. `Include` and `IncludePruned` are the call with choice true
that goes on or returns at once, `Exclude` is the call with choice false, `Return`
and `Finish` the end of a call and of `run`. `nodes`, `cuts` and `feasibleCuts`
only feed output that is commented out.

**`MultipleCuts`**: `AlgoMultipleCuts`, in the same form: `Search(i, c)` and
`SearchPruned(i, c)` are the call that puts position `i` in cut `c` (0 for none),
after `Left` has taken back what the call for cut `c + 1` added. Its own result
is a number. With one cut it refines `SingleCut` (`ImplementsSingleCut`).

**`UnionCuts`**: `AlgoUnion`. `Start` computes regions and conflicts,
`EnumerateUpwardCones` the upward cones of a region, `SkipVertex`,
`NoExtensions`, `CallUnion`, `EndOfRegion` and `Finish` are the loops of `run`. `calls` is
the stack of active calls of `Union`: `SkipChoice` and `JoinChoice` are one round of its
loop over combinations of extension points, `Deepen` the round that calls
itself, `ReturnToUnion` and `ReturnToRun` its end. Downward cones are added to
`dc_set` when a call first asks for them, with the vertices excluded at that
moment, and kept.

**`Timing`**: the tables of both architectures, as functions of an instruction.
Cases of the code that can never be reached (conversions inside the branch for
binary operators) have the time of any other instruction.

**`Architecture`**: the `Architecture` objects a pass makes and the setters it
calls on each, in the order of the code, one step each; then the queries. The
clock that is compared before it is initialized and the two members no
constructor sets are choices over what the memory may hold. Options of type `int`
become members of type `unsigned int` (`ToUnsigned`), what the free transfers carry
is unsigned and then put into an `int` (`ToInt`), and the cost is unsigned again:
all of it wraps at `Word`, the number of values of an `unsigned int`. Where the code
converts a `double` that no `unsigned int` holds, which the language leaves
undefined, the model takes the low bits, as 64-bit builds do. The conversion to
cycles is in integers: the float `1e-10f` lies a little above 10^-10, so that a
whole number of cycles is rounded up to one more.

**`RuntimeEstimation`**: the two estimates and `getLongestPath`, each a sweep with
one step per vertex, in any topological order.

**`SelectionMethod1`**: the selection. A candidate carries the outcome of the
estimations (inputs, software and hardware cycles, rank of its value) as data;
the order of values is all the code uses of them. `NoCandidates`, `Consider`,
`NextBlock` are the first loop, `Sort` the stable list sort, `TakeFirst`,
`TakeAnother`, `LeaveOut`, `Stop` the greedy loop.

**`IsePass`**: the driver, over several runs of `-ise` and one of `-ise-sel`. `SkipEmpty`,
`Benchmark`, `Identify`, `OpenFile`, `WriteFile` are one block of `-ise`;
`EndOfModule`, `Select` and `Estimate` its end; `Collect` is the user moving files of
the working directory to where `-ise-sel` looks; `StartSelect`, `SkipUnread`,
`ReadFile` and `AllRead` are `-ise-sel`. `Alarm` and `Interrupt` end a pass
anywhere; a file that is open then stays partial. What the algorithm finds in
each block is an input of the run, and selection chooses any disjoint candidates that
are faster in hardware: the modules above say more about both. The two parts of
the driver have an `Architecture` object each, with other settings: `hw` gives the
time of a pattern for either, and they need not agree. Selection judges
profitability with its own (`Profitable`), the estimate uses that of the
identification (`HwOf`). So a pattern can be selected that makes the estimate worse
than the software runtime; `SelectionPays` says that nothing else can. The signal
handler is one step.

**`BashThreads`**: the job runner. Manager: `LookAt` is one round of
`update_workers_status`, on one lock file; the other actions are what the function
`pc` names does with a finished scan. Workers: `phase[j]` is where the shell of
line j is; `worker_id` and `bg_pid` are the copies it gets when it is forked.
`CreateLock`, `Succeed`, `Fail` and `Release` are `start_worker` and `run_task`. Lock
files may be left from an earlier run, and `Kill` is a worker that dies, which
leaves its file. `Timely` says that a worker creates its file within the sleeps
of the manager.

**`MaxMisoProofs`, `SingleCutProofs`, `MultipleCutsProofs`, `UnionCutsProofs`,
`SelectionMethod1Proofs`, `IsePassProofs`, `BashThreadsProofs`**: proofs about the
modules of that name. **`EstimationProofs`**: about `RuntimeEstimation`, which it
extends, and `Architecture` and `BlockDfg`, which it extends too: that is why the
initial predicates, the steps and the specifications of these two are named `ArchInit`,
`ArchNext`, `ArchSpec`, `BuildInit`, `BuildNext` and `BuildSpec`. The three share
no variable.

**`MC...`**: bounded inputs for TLC (`MCDataFlowGraph`: all small graphs). Runs of
`BashThreads` need constants only.

How they compose: `BlockDfg` establishes what the inputs of `MaxMiso`, `SingleCut`,
`MultipleCuts`, `UnionCuts` and `RuntimeEstimation` satisfy (`FromBasicBlock`);
their patterns are what `IsePass` takes as found and `BlockDfg` rebuilds; the
estimates of `RuntimeEstimation` under `Architecture` are the data of
`SelectionMethod1`. One module over all of them would only multiply their states:
calls are synchronous and share nothing but these values.

An operator whose name ends in `Fault` is not part of a model: it is the operator
below it with a plausible mistake. Put in its place it makes a run fail, which
shows that the property of that run can notice it (`PROJECT.json`, "mutants").

## Runs

Each run's module and configuration have the names given; times are for two TLC
workers.

| Run | Bounds | Shows |
|---|---|---|
| `max_miso` (`MCMaxMiso.cfg`, 1 min) | every graph of 1 to 3 vertices, with one doubled edge; every graph of 4 with simple edges; every order, benchmark or not | the patterns are exactly the maximal MISOs (`FindsAllMaximal`), taken whole (`ImplementsCover`), no vertex in two (`Disjoint`); `fanout` does not wrap; `IInv` is invariant |
| `single_cut` (`MCSingleCut.cfg`, 1 min) | the same graphs with one kind of input; ports (1 in, 2 out) and (2 in, 1 out) | shared arrays and counters are exact throughout the recursion (`SearchInv`); the result is exactly the feasible cuts with no two-edge detour: pruning loses none |
| `single_cut_convex` (`MCSingleCutConvex.cfg`) | one chain of 4 instructions | **violated**: a cut that is not convex is returned |
| `multiple_cuts` (`MCMultipleCuts.cfg`, 1 min) | 1 to 3 cuts; graphs of 1 to 3 vertices, and of 4 with 4 operand slots | counters of every cut exact (permanent inputs never overestimated), the assertions hold, one cut is `SingleCut` |
| `union` (`MCUnionCuts.cfg`, 2 min) | every graph up to 3 vertices; graphs of 4 with 2 to 6 edges and live results, descriptors in either order; graphs of 5 with 4 edges; two graphs on which the algorithm fails its comments; 32 graphs of 6 and one of 8 on which `Union` calls itself | what is kept is legal and connected, cones stay cones while vertices are excluded, no vertex is an extension point twice, no pattern is found twice, no feasible upward cone is missed, it ends |
| `union_extension` (`MCUnionCutsExtension.cfg`) | one graph of 5 | **violated**: an extension point that leads to new nodes is removed |
| `block_dfg` (`MCBlockDfg.cfg`) | blocks of two instructions and a terminator with any operands, loops of a phi and two instructions; constants split or not; every pattern | the graph is what the algorithms rely on, marks exactly the values needed later, keeps every use; the graph of a pattern counts inputs and outputs right |
| `architecture` (`MCArchitecture.cfg`) | three architecture names, each pass, up to two options at a time or nearly all; unsigned integers of 1024 values | no setting is undone by another or reaches the wrong object, the tables agree, the cost of transfers where nothing leaves its range and the cycles are monotone and within one step |
| `runtime_estimation` (`MCRuntimeEstimation.cfg`) | graphs of 3 with one doubled edge, plain ones of 4, slow, fast and free instructions, both tables, every order | each entry passed is final and the heaviest (longest) path; the estimates bound each other |
| `selection` (`MCSelectionMethod1.cfg`) | 2 blocks, up to 3 overlapping candidates in one and 2 in the other, one for each reason to be dropped, limit 0 to 3 | disjoint patterns, limits kept, nothing better left out |
| `ise_pass` (`MCIsePass.cfg`) | 3 blocks, named or two without name, one perhaps empty; patterns as dear, dearer or cheaper for the identification's architecture; 2 runs of `-ise`, then `-ise-sel`; ended anywhere | a complete run owns its files, nothing is selected after a broken file, what is read back is what was found, the estimate is at least what the selected patterns take, and a selection pays unless a pattern is dearer in the estimate than it was in the selection |
| `bash_threads` (`MCBashThreads.cfg`, 1 min) | 3 workers (the configured number), up to 4 lines, every set of leftover files, one killed worker | no slot shared, no orphaned slot handed out, Done only after every line, every line is run, the manager ends |

Why the bounds are enough to be interesting. The smallest diamond (a value used
twice inside a MISO), a value used inside and outside, an unsupported vertex
between two supported ones, parallel edges, and a MISO that a second root could
re-enter all fit in four vertices. In SingleCut four vertices are the least for a
cut with an excluded vertex between two members and another input; the shape
its convexity test misses needs a path over two excluded vertices. Three cuts
and three positions let a vertex leave one cut for another between two others.
In Union four vertices are enough for two regions and for a cone that was cached
before a vertex in it was excluded; both orders of the descriptors matter because
neighbours are dropped by them; five for an extension point that `removeExt`
loses. None of these makes `Union` call itself: that needs an
extension point with a new operand, a user in the pattern and another user that
cannot be. The family `Nested` adds edges to such a graph of six, and
`NestedTwice` goes three calls deep. Both kinds of `INPUT` (instruction or not) differ
for MaxMISO, where an argument may be part of a pattern, and not for the other
algorithms. In `BlockDfg` two instructions and a phi give a value used by a later
instruction, by itself through the phi, and by the terminator, and a constant with
three uses. Three workers and four lines make the manager wait for a slot and hand
one out again. Two runs of `-ise` are what it takes to find files of another run.
With 1024 values (`Word`) 257 free transfers of two operands no longer fit an `int`,
and a negative bus clock is a large unsigned one: every wrap of the cost is
reached, and the costs that do fit still have room to differ. The proofs are for any
even `Word`; the code has 2^32.

Fairness. The algorithms are sequential: `WF_vars(Next)` says they go on while
they can, and termination is then a property of the algorithm. `UnionCuts` states the
same as `[]<>Done \/ []<><<Next>>_vars`, which holds of the same behaviours since `Next`
is enabled until `Done`. `IsePass` has no fairness: its properties are of safety, and
its algorithms take exponential time. In `BashThreads`
manager and each worker are processes of their own, each weakly fair: the system
schedules them, and every command ends. `Kill` is not fair. `EveryLineRuns` and
`ManagerEnds` say on which lost slots they depend (`Lost`).

Where a configuration turns deadlock checking off, the modelled program has
ended: its last state has no step.

## Disagreements between code and documentation

Two are among the runs:

* `AlgoSingleCut.cpp:87`: `lti` marks the direct operands of vertices in the cut only,
  where `AlgoSingleCut.h:61-62` and `AlgoSingleCut.cpp:68-70` speak of nodes that lead
  to the cut. A path through two excluded vertices is not seen. `FindsAllFeasible`
  says exactly what the code does compute. AlgoMultipleCuts has the same lines.
* `AlgoUnion.cpp:622`: `removeExt` looks in the direction of the call that ends, the
  extension points are used in the other, and one that does lead to new nodes is
  removed, against the comments at lines 616 and 644. On the graph of the run the
  pattern {1,2,3,4} is returned in some topological orders and not in others.

The others have a configuration each that TLC finds violated, kept beside the
runs:

| Configuration | The code | What it is held against |
|---|---|---|
| `MCUnionCutsConvex` | `isConvex` follows two edges (`AlgoUnion.cpp:312`) | "if convex" (`AlgoUnion.cpp:136`) |
| `MCUnionCutsConflict` | conflicts are looked up for the chosen extension points only (`AlgoUnion.cpp:583`) | "check if pattern contains conflicting nodes" (`AlgoUnion.cpp:582`) |
| `MCMultipleCutsLti` | a mark of a branch given up stays (`AlgoMultipleCuts.cpp:90`) | `AlgoMultipleCuts.h:68-69` |
| `MCArchitectureMaxCI` | the selection asks an architecture of its own (`ISEPass.cpp:217`) | "Overwrite max number of custom_instruction" (`ISEPass.cpp:120-122`) |
| `MCArchitectureClock` | a condition declares the variable it compares, and the clock becomes 1 Hz (`Architecture.cpp:20`) | "CI Clock frequency [MHz]" (`ISEPass.cpp:115-117`) |
| `MCArchitectureFree` | two members no constructor sets (`Architecture.cpp:14`) | "(def. 0)" (`ISEPass.cpp:91-97`) |
| `MCArchitectureRest` | rounding up comes after an integer division (`Architecture.cpp:109`) | "count rest" (`Architecture.cpp:107`) |
| `MCArchitectureWrap` | what the free transfers carry is an unsigned product put into an `int` (`Architecture.cpp:106`): 257 of two operands, for 10 bits, make the first operand dear | "do not count first CommNoInOverhead transfers" (`Architecture.cpp:105`) |
| `MCArchitectureExact` | a float constant, then rounding up (`Architecture.cpp:86`) | "1/10th of a nanosecond" (`ArchitectureVirtexFx.cpp:149`) |
| `MCBlockDfgAsm` | the callee of inline assembly is no vertex | the assertion at `DataFlowGraph.cpp:170` |
| `MCIsePassRandom` | `SelectionRandom::run` does not override the virtual function | "method1 (def.), random" (`ISEPass.cpp:145-147`) |
| `MCBashThreadsSlow` | after the last fork the manager waits one second (`threads.sh:95`) | "Done" (`threads.sh:97`) |
| `MCBashThreadsPid` | `$!` in a background subshell is the pid of the worker before (`threads.sh:47`) | `threads.sh:7` and `46` |
| `MCBashThreadsLastLine` | a last line without newline is lost (`libmanager.sh:113`) | `README.txt:4` |

`ISEPass.cpp:86-88` calls `virtual` the default architecture and initializes the
option to `virtex`.

## Proofs

Two devices serve throughout. Induction over data is done with the least
counterexample: a set of natural numbers has a least element
(`NatLessThanWellFounded` and `WFMin`), a set of subsets of a finite set has a smallest
one (`FS_StrictSubsetOrderingWellFounded`); and a sum is taken as a function on the
subsets of its set, which is shown to exist and to be what `MapThenSumSet` computes
in the order it chooses (`SumExists`, `AnyOrderAdds`).

`MaxMisoProofs`, for every set of finite graphs and every order:
`InductiveInvariant`, and from it `TypeCorrect`, `FanoutNeverWraps`,
`PatternsAreDisjoint`, `PatternsAreMisos`, `CountIsTheSize`. None of the
properties is inductive alone. The argument: whatever earlier roots have taken is
closed under users (`EarlierInv`), because the order puts users first (lemma
`UsersAreEarlier`); so the vertex at the iterator has all its users behind it
(`RootInv`). `fanout` counts the uses not yet passed (`FanoutInv`), uses are passed
once and only by calls on members (`StackInv`), so a vertex that reaches zero has
all its uses in the MISO, is not in an earlier one and was not a member before
(`ParentIsNew`). `AllMaximalAreFound` adds what lies around the pattern in the
making: an operand that is not in it and that no call has yet to pass either is
invalid or has a user outside, so that a MISO that is generated cannot be
enlarged; with the MISOs disjoint and every valid vertex in one, these are all the
maximal ones. `CoverIsImplemented` maps every step to a step of
`MisoCover` or to a stutter; that the cover goes on is left to TLC. Assumption:
`GraphsAssumption`, the graphs are finite and well-formed.

`SingleCutProofs`, for every set of finite graphs, order and number of ports:
`SearchIsExact` and `AllFeasibleAreFound`. The stack of calls is a path of the search
tree: position i is decided by the call at depth i, and `cut`, `lti` and
`inputVector` say what those decisions say. The counters of a call are cardinalities
of sets that grow by one vertex, or by its operands; permanent inputs, once counted,
never leave. A branch is given up when a count that can only grow is over its
limit, or when two decided vertices already lie on both ends of a two-edge path through
one that is out: every completion violates the same constraint (the pruning
lemmas). So whatever is feasible is still ahead of some call or has been reported.

`MultipleCutsProofs`, likewise and for any number of cuts: `CountersStayExact`,
`AssertionsNeverFail` and `OneCutIsSingleCut`. Each call has a frame on the stack with
the counters of its cut (`FramesInv`), and what `Left` takes back is what its call
added. `perm_inputs` is bounded from one side only, since a vertex that changes from one
cut to another keeps its marks: the code never overestimates it. With one cut every
step is a step of `SingleCut` or a stutter; what `SingleCutProofs` says holds through
an instance of it.

`UnionCutsProofs`, for all graphs, ports and orders. `ExtensionsAreUsedOnce` and
`RecursionIsBounded`: a call takes its extension points, at least one, from
`remExts`, which all calls share and which loses them; nothing is put back while a
call is active, so the number of active calls and of points left never exceeds
the number of vertices by more than one. `PatternsAreLegal` (`UnionInv`) and
`NothingIsFoundTwice`: what a vertex has cached is a set of cones of the graph
without the vertices excluded at the time, and each exclusion leaves those of them
that avoid the vertex; the combinations of cones that a call tries are numbered as bits
of a vector, as in the code, and each is tried once; a pattern contains the vertex of
`run` and none excluded before, which separates the patterns of two vertices.
`UpwardConesAreFound` rests on the recursion of the cones: `Descendants` is the
least set closed under users, the cones of a vertex are the products of the
cones of its operands (`Product` is the set of joins), and the solution is built by
the rank of a vertex in the order; regions are numbered and closed under
edges. What is behind a vertex of a feasible cone needs no more inputs than it and is
convex like it (`BehindFits`), and what an eliminated operand leads to is behind one
that is kept (`BehindIsBunch`), so that the enumeration builds every cone that is wanted
(`WantedAreEnumerated`) and run() keeps it (`CompleteInv`). Assumption:
`GraphsAssumption`.

`EstimationProofs`, about `RuntimeEstimation`, for every graph, instruction and
reverse topological order: `SweepFindsHeaviestPaths`, `LongestPathIsFound` and
`EstimatesAreBounded`. The sweeps compute a recursion over users; paths are sets of
vertices. The order falls along a path (`PathDescends`), so the paths
from a vertex are itself and the paths of its users with it in front (`PathGrows`,
`PathShrinks`), and the maximum over them obeys the recursion (`BestStep`). The
inductive invariant (`EstimationInv`) says of each of the three sweeps that
entries it has passed are final. Assumption: `InputsAssumption`, the graphs are
well-formed and exactly the vertices with operands are operators.
About `Architecture`: `SettingsAreInForce`, `OverheadIsMonotone` and `CyclesAreEnough`.
The calls of a pass are a script, in which none is made twice and an object is
constructed before it is adjusted (`ProgramIsScript`); after k calls what they set is
as they set it and the rest as constructed (`AfterCalls`). The bounds on cost
and cycles hold for any number of operands and any hardware time
(`OverheadSteps`, `CyclesCoverTime`), the tables by cases. The cost of transfers is
monotone only where it is in range (`InRange`): there the wraps of the code are
the identity (`SumFits`), elsewhere `MCArchitectureWrap` shows what happens.
`OptionsInForce` says nothing of a clock that is given, which the code sets to
one hertz or not at all (`MCArchitectureClock`). Assumptions: `WordAssumption`,
`LeftoverAssumption` and `OptionsAssumption`: an option is any value of its type, no
bus has width zero.

About `BlockDfg`, for every set of blocks of any length, with constants split or not, every
pattern and every order of the edges: `GraphsAreWellFormed`, `OutputsAreExact`,
`BuildsWhatAlgorithmsTake`, `AlgorithmsGetGraphs` and `PatternGraphIsExact`, all from one
inductive invariant (`BuildInv`); none of them is inductive, since they speak of
finished graphs.
The first half of it (`WholeInv`) says of the graph of the block
that each value met has one vertex, of the type the whole block will justify
(`VertexInv`): that needs the phis, which come first, to have told what they use
(`ForcedInv`); that an operand passed is an edge, and as many as it is listed
(`UsesInv`); that edges lead to later instructions (`EdgeInv`), so there is no
cycle; and that a constant has a use, which `splitConstants` counts on when it
steps over the first edge, and just one once it is split (`ConstantInv`). The
second half (`PatternInv`) says which edges the loops of `fromBitVector` have
passed, at their source or at their target (`PassedOut`, `PassedIn`). The values
the pattern's graph holds are those of the members and of the sources of edges passed
(`SubInv`), a member is an output when an edge passed leaves the pattern (`Mark`),
and the uses of a value by a member are the edges passed between them (`CopyInv`): with
all edges passed this is the property. Constants have no mark and may share a
value, which is why the uses are told of the other members only. That
`Descendants`, a function defined by recursion, stays in a set that no edge leaves is
shown by building the walk it follows (`EndlessWalk`). Assumption:
`BlocksAssumption` (`IsBlock`).

`SelectionMethod1Proofs`, for any profile and any number of candidates: `SafeInvariant`,
`SelectionIsDisjoint` and `SelectionFits`; then `InductiveInvariant` and
`GreedyIsRight`. The mask of a block is the union of what was taken in it
(`MaskInv`) and the counter is the number of what was taken (`CountInv`): the
patterns of a block are disjoint because each was compared with the mask. For
the greedy choice the ranks of the stable sort are shown to be a permutation
(by counting those that go before), so that the sorted list has the same entries
in order of value; during the first loop every eligible candidate seen is in the
list (`CollectInv`), in the second it is in the list, taken, or overlaps something
taken of at least its value (`SelectInv`); at the end the list is empty or the
limit is reached by better ones (`ChosenInv`). Assumption: `InputsAssumption`,
patterns are finite, not empty and each found once in its block.

`IsePassProofs`, for every module, command line and number of runs, each of which
may be ended at any moment: `PassInvariant`, `FilesAreOwn`, `SelectionReadsFiles`,
`PassesAgree`, `EstimateIsBounded` and `SelectionIsWorthIt`. The argument: each pass has its own part of the code
(`PassInv`); up to the next block the files are this run's and whole, except that
the one being written may have the name of an earlier block (`WrittenInv`: its
completion makes it whole again, with the same run); up to the next block
`resultMap` is what the files say, and nothing changes files while `-ise-sel` reads
(`ReadInv`). For what is read back, a file holds what its run found in the last
block of that name it has reached (`CandidatesInv`), and what the user has collected is
that of a complete run (`CollectedInv`). For the estimate (`EstimateInv`), each pattern selected is in
its block and disjoint from the others, so that their software times add up to no
more than that of the block (`PatternsFit`, by taking one pattern after another out of
the union), each is faster in hardware for the selection, and the sums over patterns
and blocks compare term by term (`SumsCompare`). With `NoneDearer`, the condition
that is not the code's, what is added for a pattern is less than what is
subtracted. Assumptions: `MaxRunsAssumption` and `ProgramsAssumption` (the lists are
sequences, times and counts of executions are natural numbers).

`BashThreadsProofs`, for every number of workers and lines, every leftover file
and any workers killed: `InductiveInvariant`; `TypeCorrect`, with the point that
`launch_workers` always finds a slot in range although a scan counts one slot too
many (lemma `SlotIsFree`, by counting); and, assuming `Timely`, `SlotsAreExclusive`,
`DoneIsFinished` and the action property `OrphansAreAvoided`. The argument: while
the manager scans no worker has still to create its file (`ForkedInv`), so files
can only disappear; then every busy slot looked at is in its picture
(`PictureInv`), and a slot not in the picture is nobody's. A file stays as long as
its worker holds it (`HoldsInv`), because no other worker has the slot: the
properties are proved together. Assumptions: the named ones of the module.

Only model-checked: `Terminates`, `EveryLineRuns` and `ManagerEnds`, and that
`MisoCover` goes on, in `ImplementsCover`: liveness and `ENABLED` are out of the prover's reach.

## Not modelled

* Graphviz output, progress messages and statistics; the wall-clock benchmark mode
  beyond its flag; floating-point values where they are only compared.
* The reading of profiles (`readProfilingInfo`): the counts of executions are an
  input.
* The body of `SelectionRandom::run`: nothing can call it through the base class,
  which is what the driver does.
* A bus width of zero, which the command line accepts and which divides by zero.
* Builds where a `double` too large for an `unsigned int` becomes something else than
  its low bits, and the rounding of floating-point numbers that are not exact: of a cost
  above 2^53 before it is converted, and of the ratio of two times above 2^24.
* Times of a pattern or block that overflow: in `IsePass` they are natural numbers.
* Errors when a file of candidates is written (the code does not look at the
  stream after it opened it), and what a signal handler that prints and exits may
  meet in the middle of a library call: the handler is one step.
* The unsigned counts of Union (combinations of cones, steps of `defineRegions`):
  they wrap for a vertex with tens of neighbours, out of reach of enumeration.
* `moveSubgraphToFunction` and `backup_workers_files`, which are never called.
* The tools that format and draw, the benchmark programs and the build.

Lock files are created and removed in one step each: a reader that finds a file
empty takes its slot for busy, as it does when the content is there.

## What is left

Everything of the system that keeps state over time has a module, and every
invariant the passing runs check is proved. What one proof takes from another is not
stated as a theorem: that the graphs `BlockDfg` builds are among the `Graphs` of
the algorithms (`AlgorithmsGetGraphs` gives what these assume; a module that composes
construction and identification would give the step), and that the patterns
they return are such as `Offered` of `BlockDfg` describes.
