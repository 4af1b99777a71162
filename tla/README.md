# A verification development for helesta

helesta compiles SysY (a C subset with `int` and `float`) to ARMv7 assembly. It optimises on an SSA
intermediate representation, splits loops over threads with a small run-time library it writes in
assembly, allocates registers by graph colouring, and prints the program. A simulator of the
intermediate representation (`ir/ir.cpp`, `exec`) serves its tests.

This directory models that compiler from the syntax tree to the intermediate code without phis, what the
generated threads do to each other, and register allocation. Paths below are relative to `src/src/`.

## Inventory

| Part | State it keeps | Operations | What makes it correct |
|---|---|---|---|
| Thread run time (`arm/program.cpp`) | a lock word, a barrier word, exclusive monitors | `__create_threads`, `__join_threads`, `__lock`, `__unlock`, `__barrier`, `__bind_core` | exclusion; nobody passes a barrier early, nobody stays behind |
| Parallel loops (`ir/opt/loop_ops.cpp`: `loop_parallel`, `loop_parallel_ex`) | a counter, a lock and two barrier words per loop, all global; each thread's loop variable | fork chain, slices, exit code, tail; two barrier calls before each child loop | every iteration once, before control leaves the loop; executions of the same loop do not disturb each other |
| Dependence test (`dependent`, `add_expr.hpp`) | affine addresses of loads and stores | compare two accesses in two iterations | "independent" only if no two iterations conflict |
| IRC register allocator (`arm/irc_coloring_alloc.hpp`) | interference and move edges, work list, select stack, aliases, spills | build, simplify, coalesce, freeze, spill, rewrite, colour | registers alive together differ; the program means the same; the rounds end |
| Function driver (`arm/func.cpp`) | code, stack objects, frame | `reg_allocate`, `allocate_register`, `check_store_stack` | offsets agree with the pushes; the restarts end |
| Middle end (`ir/opt/`, order in `opt.hpp`) | the intermediate code; marks on calls and objects that outlive a pass | rewriting passes on a function or the unit | same observable behaviour; what a pass knows is true when it is used |
| ARM selection and peepholes (`arm/block.cpp`, `arm/inst.*`, `arm/opt/`) | instruction lists | selection, dce, branch elimination, merging | same observable behaviour |
| Leaving SSA, block clean-up (`ir/opt/bb_ops.cpp`) | blocks, phis | `remove_phi`, merges, conditional propagation | the copies of an edge act in parallel |
| IR simulator (`ir/ir.cpp`, `exec`) | memory, a queue of threads | round-robin scheduling, lock, fork, join | simulates the run time it stands for |
| Front end (`ast/`, `parser/`) | symbol tables | typed translation of the syntax tree | translation |

How they meet: the passes hand each other the code, the marks `no_store`, `no_load` and `is_const`, and
nothing else: the dominator tree, the loop tree, the pointers and the effects are computed again by each
pass that wants them. `loop_parallel*` rewrites a loop the dependence test accepts into blocks that call the
run time; the calls are ordinary calls to the allocator; the allocator's result and the frame of
`func.cpp` are shared by all threads of the region, because `clone` gets the parent's `sp`.

The hard behaviours: threads running against each other on words that are reused by later
generations and later executions; failing `clone`; store-exclusives that fail; graph edits that must
keep a symmetric relation, a queue and a stack consistent; restarts that must make progress; facts about
calls, memory and loops that were true when a pass wrote them down and are used after another pass; the
order of passes, any of which can be switched off. They are listed, each at its line, under `hazards` in `PROJECT.json`.

## Modules

| Module | Models |
|---|---|
| `PhaseSync` | abstract: threads run child loops in lock step |
| `Barrier` | `__barrier` and its use by `loop_parallel_ex`; implements `PhaseSync` |
| `BarrierProofs` | proofs about `Barrier` |
| `LoopRegion` | abstract: a loop whose iterations happen once each in any order |
| `ParallelLoop` | the region `loop_parallel` builds, with the run time it calls; implements `LoopRegion` |
| `MCParallelLoop` | instances of `ParallelLoop` |
| `ParallelLoopProofs` | proofs about `ParallelLoop` |
| `Coloring` | one `run` of `IRCColoringAllocator` on an interference graph |
| `MCColoring` | the graphs for `Coloring` |
| `ColoringProofs` | proofs about `Coloring` |
| `FiniteLemmas` | what the library's operators on sets, sequences and folds return, for the proofs |
| `RegAlloc` | `Coloring` with the code: `calc_live`, `build_graph`, `rewrite_function`, the loop of `reg_allocate` |
| `Frame` | `RegAlloc` with the layout of the frame, `check_store_stack`, calls and parameters on the stack, and the emitted code running on it |
| `MCRegAlloc` | functions for `Frame` |
| `RegAllocProofs` | proofs about `RegAlloc` and the rounds of `Frame` |
| `FrameProofs` | proofs about the stack of `Frame` |
| `MeaningProofs` | proofs that the code means the same in every round |
| `MachineProofs` | proofs about what is emitted: machine registers, then a real stack |
| `IR` | the intermediate code and what it means (`ir/ir.hpp`, `exec`, `ir/scalar.hpp`) |
| `Syntax`, `FrontEnd` | programs; their translation (`ast/`), and their meaning, from which the translation is checked |
| `Flow` | dominator tree, loop depths, the loop tree `DAG_IR` and the order its visitors are called in |
| `SSA` | `mem2reg`, the construction of SSA form, `remove_unused_def` |
| `BlockOps` | `ir/opt/bb_ops.cpp`: branches, unused and trivial blocks, critical edges, `remove_phi` |
| `Numbering` | value numbering (`gvn.cpp`) and code motion (`gcm.cpp`) |
| `MiddleEnd`, `MCMiddleEnd` | the passes on one function in their order; programs |
| `Calls` | call graph, purity, tail recursion, inlining, `global_to_local`, `cache_pure_func` |
| `Memory` | `side_effect.cpp`: pointers, effects, loads, stores and calls that are not needed, constant objects |
| `Arithmetic` | divisions that need not be done (`arith.cpp`) |
| `Expressions` | sums written out again with fewer instructions (`SimplifyExpr`) |
| `LoopDeps` | loop variables, affine addresses and the dependence test |
| `LoopOps` | sums in closed form, unrolling, loops without effect, known ranges, `LoadToRegV2` |
| `Optimizer`, `MCOptimizer` | all passes of `optimize_ir` on whole programs; programs |

### Barrier

One action per instruction that touches the shared words: `Ldrex`, `StrexOk`, `StrexFail` (a lost
monitor or another thread's store), and the load of the spin that reads 0 (`LeaveFirst` on
`barrier1`, which goes straight on to the second call, `LeaveSecond` on `barrier2`). A spin that reads
something else changes nothing and is left out. `moveq`/`sub` between load and store only touch a
register, so they are `NextCount` inside `Ldrex`. `Arrive` is the end of the block in front of a child
loop. Memory is sequentially consistent.

### ParallelLoop

The surrounding code reaches the loop `Rounds` times (`Head`): it runs the sequential copy when the
range is short, else it stores the counter and starts thread 1. Thread i creates thread i+1 (`Fork`,
`ForkFail`), runs its slice (`Iterate`, `LeaveLoop`), calls `__join_threads(0)` (`Wait`: the call does
not wait, see below), and either polls the counter (`Poll`, thread 1) or takes the lock, decrements and
exits (`LockLoad` ... `Exit`). Since threads of the last round may still be between their decrement and
their exit when the next round starts, a thread is a pair of round and slice. Slice bounds are computed
in machine words (`Wrap`). Each copy tests its bound as the code emits it (`InSlice`): the last one
keeps the original test, the others get a rebuilt branch, in which the order of the targets matters
(`ExitFirst`).

`LoopRegion` is what the region has to keep: an execution of the loop enters with some range, each
iteration of it happens once, and control leaves when all have. `ParallelLoop` implements it in every round
that is `Regular`. Three kinds of round are not: the header's first target leaves (`header.exit`); r lies so
far below l that the difference wraps to a length worth a region (`WrapsIntoRegion`); `i <= r` with the largest
r, which is undefined in the source. The first two are defects of the code, see the findings. To the abstract
loop such a round does not happen, so nothing is claimed of what it runs, but the rounds after it have to
be right although its threads may still be there.

### Coloring and RegAlloc

`Coloring` is a step machine with one action for a turn of each loop of the allocator. A move edge is
one pair instead of an entry at both ends, `get_alias` is always compressed, and only allocable machine
registers exist. The order in which `std::sort` leaves moves of equal weight is left open. The assertion
of `select_spill` is the guard of `Spill`: a state where it would fail is a deadlock. Spill costs are
compared as cost times degree, which is what the division by the degree and the power of four of the
loop depth amount to as long as depths differ by at most 12. `Rank` is what a run has left to do.

`RegAlloc` builds the graph from a program: blocks of instructions of which only the defined and used
registers, moves, constants and spill code are told apart. `LiveOuts` is the solution the work list of
`calc_live` converges to. `Rewrite` is `rewrite_function` for all spilled nodes at once: `Sites` are the
places where a temporary is made, and `Temp` numbers them in the order the code does. `Behaviour` runs a
program along a path and records where each operand of each instruction came from: `Effect` is what one
instruction does to registers, slots, array words and the arguments pushed for the next call. A value is a number,
the address of an array, or the distance of a slot from `sp`; what is not the program's to do (to read what was
never written, to leave an array, to compute with an address of the stack) is a fault of the run (`Meaningful`).

`Frame` goes around `RegAlloc`: `allocate_register` and its loop. `Finish` lays out the frame and is done;
`Replace` is what `check_store_stack` does when a store does not reach its slot, after which everything is
coloured again. `AllocInv` is its invariant, in four parts. `FrameInv` says how a round hangs together: the graph
is the one of the code at hand, and the allocator keeps its invariant on it. `StackInv` follows the stack
through the rounds: what they put into the code leaves `sp` alone, and each slot belongs to a register that
was spilled once and whose number is not given out again. `WordsApart` says of the frame laid out that no
word has two uses. `RunInv` says that the code, in every round, runs without a fault on every path and observes
what the source does. `objects` grows by a slot for each spilled register (`Spilling`) and the newest slot is the
lowest, so every round moves the older ones. `CallOf` and `Params` are the code that `Block::construct` and
`handle_params` make; the functions of `MCRegAlloc` are put together with them. `AtReturn` runs the emitted
code from the prologue to the epilogue with a real stack: one memory by words, `sp` moved by pushes, offsets
relative to where the compiler believes `sp` to be (`SpOffset`), and a callee that destroys everything
below `sp`. `FrameBehaviour` compares that with the source, in which slots, arrays and arguments are apart by
definition. One argument is passed in a register where the code has four, and only integer registers occur.

### The middle end

`IR` has the code as a record per function: lists of instructions by block, each `[op, d, u, k, t]` (the
register defined, the registers used, a constant, blocks). `Behaviour` runs it as the simulator does:
one loop of `exec` per block, phis read before they are written, a frame per call, memory by words.
What a local object holds before it is written is `Garbage`, a value no program computes. Floats are left
out everywhere: their cases repeat those of integers.

`FrontEnd` is the visitor, with its registers, blocks, scopes and jump lists. `Meaning` says what a
program means without intermediate code; nothing of it comes from the code, and the translation is
compared with it.

`MiddleEnd` has one action per pass up to `before_backend`, on each function by itself, `Optimizer` the
whole sequence of `optimize_ir` for units of several functions. Both take any set of disabled passes
(`--no-<pass>`). A pass is one step, since it runs to its end before another looks at the code; inside it
the order of visits is the code's (`ForwardEvents` and `BackwardEvents` are the calls a `LoopVisitor`
gets). Where the code walks an `unordered_map`, the model chooses (`CHOOSE`), the results differing in
names only. `gvn` means numbering, removal of unused definitions and `simplify_expr`; `dag_ir` is
the sequence `DagBy`.

What a pass knows is computed where the pass runs, and a property compares it with what the code then
does: `Accesses` collects which register reaches which word in a run, `Trace` adds how often each block
had been visited. So `PointersRight`, `EffectsRight`, `ConstantsStay` and `LoopsIndependent` hold a
static analysis against every access of the runs, at every pass that uses it.

`LoopDeps` has the products of registers a polynomial is made of as functions from registers to powers,
in the order of the `std::map` that holds them, because the test for a possible conflict goes by that
order (`Sooner`). `LoopOps` builds the copies of a loop with `LoopCopyTool`'s steps, in its order.

## Runs

| Run | Configuration | Shows |
|---|---|---|
| `barrier` | 3 threads, 3 child loops | `Inv`, `PhaseSeparation`, `NoRearmUnderSpinner`, refinement of `PhaseSync`, `AllFinish` |
| `parallel_loop` | 3 threads, 2 rounds, 4-bit words, 8 pairs of bounds, `clone` may fail | `Inv`, `LockExclusion`, `OnlyEpilogueLeft`, refinement of `LoopRegion`, `AllRoundsFinish` |
| `coloring` | 2 machine registers, of which one occurs, 4 others, all graphs with at least 5 interferences | `Inv`, its types among it; no node or edge is lost, colouring is possible and valid, spills only when stuck, termination |
| `reg_alloc` | 3 machine registers, 7 functions, a reach of one word | `AllocInv` in every round, no spilled register left; the rewritten, the coloured and the emitted code compute the same, the caller finds registers, memory and `sp` as they were, calls are aligned, callee-saved registers without gaps, progress, termination |
| `middle_end` | 173 programs, 5 sets of disabled passes, 3 inputs | `SameBehaviour` after each pass, `InSSAForm`, `AnalysesRight` (dominators, loop tree), `NoDoubleEdge`, `LoopsContiguous` |
| `whole` | 128 programs of several functions, 4 sets of disabled passes, 2 inputs | `WholeBehaviour`, `WholeSSA`, `MarksHold`, `PointersRight`, `EffectsRight`, `ConstantsStay`, `LoopsIndependent` |
| `exit_first` | headers whose first target leaves | violates `RegionComplete` |
| `two_cycles` | a loop that exchanges two pairs of variables and copies one of the first pair | violates `PhisReplaced` |
| `dead_store` | a global stored to around a call that reads it | violates `StoresStillSeen` |
| `tail_array` | a recursive function that hands itself its own array | violates `TailCallsKept` |
| `stale_load` | a loop that loads a word, stores to some word, loads the first again; after it a store to a word nothing is known of, and the load of another | violates `LoadsSeeLast` |
| `same_place` | a loop that stores to one word in every iteration | violates `SlicesIndependent` |

Bounds. Three threads are the fewest with a first, a middle and a last slice, and with two threads that
compete while a third spins. Three child loops use each barrier word three times, so that a word is
re-armed after a release twice. Two rounds let stragglers meet the next execution. The bounds of the
range cover an empty range, one below the threshold, lengths divisible by 3 and not, both ends of
the word, and differences that do not fit it: one that wraps to 1, so that an empty loop is run in place,
one that wraps to -2, so that a long loop is, and one that wraps to 3, the defect described below. `MinPar` is
3 where the code has 64 or 4096. Four pseudo registers and one machine register
over two colours give graphs that need a spill, graphs where coalescing is refused and accepted, merged
nodes that are merged again, and freezes. All graphs, without the lower bound on interferences, and the
graphs with three colours and four pseudo registers pass as well; they are not part of the runs because
they take longer and show nothing else. `MaxNode` of `reg_alloc` is large enough that no allocation
reaches it (`Allocates` would fail). `Reach` is 1 word for 255, so that a function with three slots has far
stores; `Wrapper` saves an odd number of registers around a call; `Crowded` has registers for offsets that are spilled and far stores for their slots. `Allocates`
depends on the reach: see the findings.

The programs of `middle_end` are all combinations of a condition, what is done under it and what
follows, plain, in a loop and in two loops left in every way, and all ways three variables can change
places in a loop, so that the copies of an edge have every shape three variables can give them, up to
a cycle of three or one of two with a copy beside it; and two exchanges on one edge. An exchange beside
an exchange and a copy is what `two_cycles` shows to go wrong, so it is not among them. Those of
`whole` are all pairs of eight statements that touch the same variable and the same array (a store, a
load, and functions that store, load, both, or neither), some of them in a loop; recursive functions of
each kind the call passes tell apart; arrays of a function, with initialisers; and loops for each test
and each rewriting of `LoopOps`. They read their input, so nothing is decided by constants alone.
`Rounds` bounds the rounds and calls of a run that counts: a program that does more is not compared.
`Fuel` = 8 lets a run of the code visit 256 blocks. The switches leave out one pass that others rely
on each; with everything off nothing is left to show. Constants of the code that only shift a threshold
are smaller: `CacheSize`/`CachePrime` 4/3 for 1010/1007, so that keys collide, `MaxUnroll` 3 for 32,
`MaxUnrollInstr` 60 for 1024, `UnrollN` 2 for 4. `MaxUnroll` below and above the number of rounds of
some loop makes both kinds of unrolling happen.

`par` and `simd` are always off in `whole`: what the first produces is `ParallelLoop`. The sum of an
address that is not written, of an index outside its array, of an overflow or a division by zero is never
computed by these programs. Programs with one of the faults below are left out of `whole` and have a run
of their own, or are described below; the pair of statements `<<4, 5>>` is left out of the pairs in a
loop because unrolling makes it an instance of `dead_store`. `mem2reg` is on in `whole`.

Fairness. Threads are processes of the kernel, which keeps running every runnable one: weak fairness
for each thread. A store-exclusive that is retried for ever succeeds in the end, which is the guarantee
the architecture gives for such loops: strong fairness on its success. That `clone` succeeds is not
assumed. The allocator is sequential: weak fairness on its step. `MiddleEnd` and `Optimizer` have only
safety properties: a pass is one step of the model, and that it ends is not shown (its loops over data
are recursive operators, which TLC would not evaluate to an end otherwise).

`CHECK_DEADLOCK FALSE` is set for `ParallelLoop` only, where the program ends after the last round and
a region whose `clone` failed polls without changing anything.

## Findings

* `exit_first`: when the first target of a header's branch leaves the loop, `checkLoopHeadExit` negates
  the condition and the loop is accepted as `i < r`; the slices' branches are rebuilt with the targets in
  their old order, so all slices but the last leave at once. The loop's iterations are lost, against
  `doc/report.tex:114`.
* `two_cycles`: `remove_phi` takes the copies of a cycle of phis from a stack and leaves its last element
  there, the register that still has the value the cycle overwrote. With a second cycle on the edge that
  register is copied to once more: after e <- a, a <-> b, c <-> d the copies are e <- a, a <- b, b <- e, n <- c,
  e <- c, c <- d, d <- n, and e has the value of c (`Cycles`, `Unwound`). Against `doc/report.tex:38`. When nothing
  is copied from any of the cycles, the element left is the extra register and no harm is done.
* `dead_store`: `RemoveUnusedStoreInBB` keeps the addresses it will see stored to across a call that
  reads but does not write memory; the store before the call is erased. Against `doc/report.tex:78`.
* `tail_array`: a tail call that hands over an array of the function itself becomes a jump, and what were
  arrays of two calls is one. Against `doc/report.tex:66`.
* `stale_load`: `LoadToRegV2` forgets, at a store, only what it knows of the same affine expression,
  though another one may be the same word. The run shows a second way: the order on addresses leaves out
  `bad` (`add_expr.hpp:33`, `57`), so that a store to an index nothing is known of is remembered under what is left of
  it, which for `a[n]` is the index 0 (`PlaceOf`), and a load whose index comes out as 0 gets that value. The
  index of that load is a sum only `MulAddExpr` finds to be 0, because a plain index 0 has been folded away by
  then. An index like `1 + n`, with n unknown, counts as 0 too and not as 1: the sum keeps its 1 (`PlusPoly`),
  but `AddrExpr::add_eq` adds it to an empty one (`AddIndex`). Against `doc/report.tex:77`.
* `same_place`: `dependent` never compares a store with itself in another iteration, so that a loop storing
  to one word counts as independent. Against `doc/report.tex:114`.

Seen while modelling and without a run, because no sentence of the repository contradicts them, because
they need a case the models leave out, or because a run for them would repeat another:

* `ir/opt/loop_ops.cpp:883`: `n = r - l` is computed by the compiler, in a word. For r far below l it wraps to
  a large positive length, and the region is taken although the source loop `i < r` is empty and well defined.
  With 4-bit words, three threads and the bounds 7 and -6, n is 3 and a slice is one iteration: the first, from 7
  to r0 = -8, leaves at once, the second runs -8 and the third -7, up to -6. `RegionComplete` as an invariant
  of `ParallelLoop.cfg` shows it; `parallel_loop` and the theorems leave the round out by `WrapsIntoRegion`.
* `arm/program.cpp:304`: `__join_threads(0)` passes -1 as the `idtype` of `waitid` (`P_ALL` is 0, defined and
  unused); the call fails and does not wait, though `doc/report.tex:103` says it does (`Wait` does nothing). With
  the default options the counter does the waiting and the failure is harmless; with `no-lock=1` control leaves
  the region while slices still run: `UseLock` = FALSE in `ParallelLoopExitFirst.cfg`, with headers that stay,
  violates `RegionComplete`.
* `arm/func.cpp:87`: the register for the offset of a far store is not put into `spilling_reg`. It may be
  spilled; if its slot is far as well, the store to it needs another one between the two instructions of the
  first, and so on, each time with one more temporary alive. With `Reach` = 0 and `MCRegAlloc`'s `Loop` the
  temporaries end up more than the registers, which is the assertion at `irc_coloring_alloc.hpp:422`. With the
  code's 255 words and 14 registers it takes thousands of far stores whose offsets are all spilled.
* `arm/block.cpp:320`: for a call in a slice, `sp` goes down by a megabyte per thread after the arguments have
  been pushed, so that the callee finds its stack parameters elsewhere; `Frame` has calls outside of slices.
* `arm/opt/replace_complex_instr.cpp:18`: a float that is loaded from out of reach goes through the integer
  register of the same number, which may be in use, and ends at the assertion of `ComplexLoad::gen_asm`.
* `ir/opt/side_effect.cpp:28`: a phi takes the base of its first operand that has one; after
  `tail_rec_to_loop` a phi of two arrays has the base of one.
* `ir/opt/loop_ops.cpp:1385`: the closed form of a sum modulo an even number halves after reducing; the
  sum of squares reaches the assertion at 1402; `SUB` and `DIV` reductions forget the modulus; an
  invariant that is negative goes through an unsigned multiplication.
* `ir/opt/simplify_expr.cpp:251`: `get_c_if` of a bad expression is the constant it began with, or 0 (`ConstIf`), so that in a loop up to a bound that
  is read a branch on the variable may be decided wrongly (`remove_branch_by_range`).
* `ir/opt/loop_ops.cpp:1634`: `unroll_simple_for_loop` inverts the test of a loop whose first target leaves.
* With `mem2reg` off, one list order of replacements in `mem2reg_func` matters when it runs after
  inlining.
* `ir/opt/side_effect.cpp:345`: `GlobalInitToGlobalConst` frees a load the table of definitions still has.
* `cache_pure_func` leaves code that is not in SSA form until the next code motion (`KeyMisplaced`).
* Missed optimisations: the product of two variables makes an `AddExpr` bad; `schedule_late` never
  considers the earliest block itself, so that what was above a loop may sink into its header.
* `doc/report.tex:63` has recursive functions unrolled by inlining, which does not happen; `:64` speaks of
  the same argument in all calls, where only functions with one call are looked at.

## Proofs

Checked by TLAPS for every value of the constants, under the assumptions stated with them (`NAssumption`
and so on).

`BarrierProofs`. The inductive invariant `Inv` says more than the properties. `Rank(t)` counts the
countdowns thread t has completed; `CountdownInv` says that ranks differ by at most one, that a thread
that is ahead spins on a word whose value is N minus the number of threads ahead, and that the other
word is 0. `ExclusiveInv` says that a store that can still succeed stores the successor of the current
value. Without the second, a store could write a stale count; without the first nothing is known of the
word a thread reads. From `Inv`: `PhaseSeparation`, `NoRearmUnderSpinner`, and the refinement of
`PhaseSync`.

`ParallelLoopProofs`. `Inv` says that the counter is the number of threads that have not reported
(`CounterInv`). To be inductive it needs: which claims on the lock can still succeed (`ClaimInv`), that
a pending store is current (`PendingInv`), which threads have which role (`RoleInv`), that threads of
other rounds are past their report (`RoundInv`), that nobody exists beyond the end of the fork chain
(`ChainInv`), that thread 1 leaves only when all have reported (`RegionInv`), and how far each thread is
in its slice (`SliceInv`: the iterations done are those from its first one up to its variable, and a
thread that has left its slice has done all of it). The proof is by one lemma for each part, one step per
action. It is stated for `UseLock`; without the lock the region has no counter. From it: `LockExclusion`,
`OnlyEpilogueLeft`, `TypeOK`, and two statements that the slices, computed by wrapping multiplications and
divisions, are a partition of the range:

* `RegionComplete` of every round that is `Regular`. It cannot be stated for all rounds: `exit_first` is a
  counterexample, the wrapped length of the bounds 7 and -6 another. Of the lengths that do not fit a word only
  those with r below l that wrap into a region are left out (`WrapsIntoRegion`): a negative or short one makes the
  sequential copy run, whose test is the source's, and with r above l a difference that does not fit is
  negative (`WrapLength`, `WrapLong`).
* The refinement of `LoopRegion`, for all headers and bounds. The mapping shows the abstract loop the regular
  rounds only. The round's header and bounds, and with them `Regular`, are fixed while control is in it
  (`RegularKept`), so an irregular round is an idle one from its start to its end (`AbsIdle`), and a regular one that
  follows starts as `Enter` does, whoever is left of the rounds before (`AbsEnter`).

`FiniteLemmas` has the facts about library operators that the proofs about the allocator need (the ends
of a finite set, removing from and adding to a finite set and a sequence, sorting a set, sums of a
sequence and of parts of it, what flattening puts where, a value carried along a sequence of changes), each
stated once. Where the library's induction takes an operator, the lemmas here take a set or a function
(`SubsetInduction`, `FoldBy`), which is enough for what a recursive function on numbers or a fold over a
finite set returns.

`ColoringProofs`. No property of `Coloring` is inductive. `Inv` has, besides them: what the move lists and
the stack hold (`ListsTyped`); that edges join nodes of the graph, in both directions
(`EdgesJoinActive`); that names are compressed (`Representatives`); that every pseudo register has one
place (`Places`); that simplify's queue has all free nodes and no other, and that no node is free once
the allocator comes to freeze or spill (`QueueRight`), which is why spills happen only when the graph is
stuck; that the list a node takes along is short and names only nodes that left later (`ListsLater`), which
is why a register is left for it; and, during colouring, that coloured neighbours differ and an
uncoloured one has the others in its list (`Colored`). From it all safety properties of the run, for every
graph, every number of registers and every choice the sort leaves open. Assumptions: there is a machine
register (`RegisterAssumption`), and graphs are symmetric, without loops, with moves between different
registers and costs that are numbers (`GraphsAssumption`), which is what `build_graph` makes.

Further, every step of a run makes `Rank` lexicographically smaller (`RunDescends`), and `Rank` consists of
naturals (`RankNatural`). Its parts are: the nodes and moves left, counted twice to leave room for a
coalesce that has merged something and will go around; the place in the loop of `run`; and the turns an
inner loop has left. With weak fairness of `Step` this is why `run` ends for every graph; the last
conclusion is about fairness and stays with TLC (`Terminates`).

`RegAllocProofs`. `Coloring` assumes its graph, here `build_graph` makes it. `FrameInv` says that in every
round of `reg_allocate` and `allocate_register` the code is well formed with all registers below `reg_n`
(`CodeOK`), that the graph is the one of the present code, that `Inv` holds while it is coloured, and that
the code emitted has callee-saved registers without gaps and registers alive together apart (`AliveApart`).
Each part needs the others: the graph is symmetric and without loops because the code is well formed, the
colours fit the code only as long as the graph is that of the code, and the code is well formed in the
next round because `rewrite_function` and `check_store_stack` number new registers from `reg_n`. The steps
are: what `calc_live` finds are registers of the code (`LiveOutsTyped`, by induction over the rounds of the
solution), so that `GraphOf` meets what `Coloring` assumes (`GraphTyped`); a new round starts in a state
`Coloring` may start in (`BuildInv`); during a round the code stands still, so its invariant carries over
(`StepInv`); registers alive together are joined in the graph, so valid colours keep them apart
(`ColorsFit`, `FinishInv`); and the operands `rewrite_function` writes are old registers that were not
spilled or new ones, numbered apart (`RewrittenForm`, `TempRange`). Assumptions besides those of `Coloring`:
functions are well formed and constants are known only of registers that occur (`ProgramsAssumption`);
the reach is a number and `LR` is callee-saved (`FrameAssumption`). From it: `AliveApart`, `CalleeSavePrefix` and
`SpilledAreGone`, for every function and every number of rounds.

`FrameProofs`. The layout is right only if what it counts on was true in every round before, which is
`StackInv`: `rewrite_function` and `check_store_stack` put only instructions that leave `sp` where it is in place
of one (`StandingIn`, `RewrittenStands`, `CheckedStands`), so that a block still gives back what its calls took
(`Balanced`); an object's number belongs to no register of the code and to none still to come, so that a
register spilled later gets a slot of its own (`NewSlots`, `SpilledOnce`). This needs `FrameInv`, which says
where new registers are numbered from, and the frame emitted is the layout of the objects at that time.

* `WordsApart` follows from `StackInv`: `Place` is a sum over the objects after one, and sums over parts of a
  sequence that lie apart do not overlap (`ObjectsApart`, `LayoutParts`).
* `CallsAligned` and `StackRestored` (the first part of `CallerUnharmed`) are about a run of the emitted code.
  A run is a fold of `Execute` over the places on a path; `Good` relates the machine before each of them to
  `SpAfter`, with a frame that is even together with the saved registers. One instruction keeps it
  (`ExecuteStep`), a block takes it from its start to its end, where `sp` is back (`BlockWalk`), so a path
  does, whatever its length and however it goes around (`PathWalk`), and the epilogue undoes the prologue
  (`ReturnGood`).

The theorems are `StackInv`, `WordsApart` and the two about
runs. They assume of the code that comes in (`StackAssumption`): its blocks give back what their calls
take and calls find `sp` even, which is what `Block::construct` writes for each call (`CallOf`, from the words pushed
and one more if they are odd); the instructions that move `sp` and the calls define machine registers only;
a path is a sequence of blocks; arrays are objects of their own, which in the model means numbers that no
register has. TLC evaluates it for the functions of `MCRegAlloc`, whose calls `CallOf` writes: without the
word of padding it is false.

`MeaningProofs`. `RewritePreserves` is no invariant by itself: that a round keeps the meaning depends on the
registers spilled in it being fresh to memory, on spilled constants having one definition, and on runs without
faults, which `RunInv` says. A run before the round and one after it go side by side, related by `Matches`: registers
that were not spilled hold the same, the slot of a spilled register holds what the register held, and a known
constant held its value, which is what is loaded again. `Rewritten` replaces one instruction by a sequence: its loads fill the
temporaries and disturb nothing else (`ReloadsRun`), the renamed instruction does to them what the instruction did
(`NamedRuns`), its stores bring the slots up to date (`WriteBacksRun`). `Checked` gets a lemma of its kind. A path is then
walked instruction by instruction, and the next round starts with `RunInv` again. From it: `AllocInv` as a whole and
`RewritePreserves`, for every set of registers spilled in any number of rounds.

`MachineProofs` has the way from the last round to the machine, in two steps.

* `ColorsRun`: after colouring, a run with pseudo registers and one with machine registers agree on what is live
  (`InPlaceOf`). The fact behind it is that `LiveOuts`, which stops after as many rounds as there are blocks, is closed
  under the edges of the function (`LiveOutsClosed`: every round finds a register live in one more block or in no new one);
  then `AliveApart` says that a definition overwrites no live register, except by a move of the same value. From
  it `SameBehaviour`.
* `Realized` relates a run with machine registers to one on the stack: a value is the word it stands for
  (an address becomes the place of the array below the prologue's `sp`, a distance a number of words), slots and
  arrays are in the places `frame.at` gives them, pushed arguments lie from `sp` up, saved registers and the caller's
  words are untouched. `StepRealized` shows it for each kind of instruction: that the offset the assembler prints fits
  `sp` at that place is `maintain_sp` summed over the block, and that a store hits nothing else is `WordsApart`, together
  with the run without faults that keeps array accesses inside their array. A call destroys what is below
  `sp`, where nothing is that is needed. Blocks and paths follow (`BlockRealized`, `PathRealized`), the prologue
  starts it (`StartRealized`), and the epilogue finds what was saved (`EpilogueReturns`). From it `FrameBehaviour`
  and `CallerUnharmed`, for every function, path, reach and number of registers.

These assume of the code that comes in (`RunAssumption`, which TLC evaluates for the functions of the run): it runs
without faults along its paths, which are paths of its graph; the registers known as constants are defined where
`block.cpp:24-40` puts them into `constant_reg` or `symbol_reg`, by one `LoadConst` or load of an address, and are no machine
registers; instructions without a result (`def_reg` in `inst.hpp`) define nothing; and addresses are of objects of
the function. What is a fault bounds what is proved: a function that writes outside its arrays may harm its caller, and
in SysY it has no meaning that could be kept. Not covered, because the model has it nowhere: addresses of the
stack handed to a callee, and what a callee does with them.

Only model-checked: liveness, among it that the allocator ends (`Terminates`, `Allocates`), that threads reach their
ends (`AllFinish`, `AllRoundsFinish`). Then everything about `MiddleEnd` and `Optimizer` (`SameBehaviour`,
`InSSAForm`, `AnalysesRight`, `NoDoubleEdge`, `LoopsContiguous`, `WholeBehaviour`, `WholeSSA`, `MarksHold`,
`PointersRight`, `EffectsRight`, `ConstantsStay`, `LoopsIndependent`): the passes recurse over code and trees
(`IR`, `FrontEnd`, `Flow`, `SSA`, `BlockOps`, `Numbering`, `Calls`, `Memory`, `LoopDeps`, `LoopOps`), the reference is
an interpreter that recurses over calls, and what such operators compute for every program needs an
induction over data, which is out of the prover's reach.

## Not modelled, and the plan

Not modelled: the grammar and its generated parser, and the driver (input and output only); ARM
selection, peepholes and printing; the memory model of ARM (the modules above are sequentially
consistent). Of the parts that are modelled:

* front end: floats, `const` declarations and their evaluation, unary plus, strings, the checks that reject
  a program;
* middle end: floats; SIMD; `change_array_access_pattern`, `merge_inst` and the other passes that prepare
  for ARM (`arith.cpp` from line 77); `special`, which replaces a function named `multiply` by a library
  function when the name of the input has "fft" in it; what `loop_parallel` does to the code of a loop, of
  which `ParallelLoop` models the effect;
* register allocation: the float registers, which are allocated by the same code after the integer ones, and
  with them `vpush`; calls in slices;
* simulator: its threads.

What comes next, in this order:

1. `SimExec`: the simulator's scheduler (queue, quantum, lock, fork, join), against the run time.
2. `Frame` for the threads of a region, which share it.
3. `loop_parallel_ex` with its child-loop slices, on the loops of `LoopDeps`.
4. Division by constants and block clean-up of the ARM backend, against reference definitions.
5. `SimpleColoring` for functions compiled without the IRC allocator.

Theorems to follow, when their subjects are modelled: two slices whose spilled registers share a frame (item 2) from
`WordsApart`; and the copies of `remove_phi`, once their order is stated by functions on finite sets instead of
recursive operators: that they are one parallel assignment on an edge with at most one cycle, or with none from
which anything is copied elsewhere. More is not true as long as `ready` keeps an element between cycles.
