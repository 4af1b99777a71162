------------------------------- MODULE Optimizer ------------------------------
(***************************************************************************)
(* The passes of optimize_ir (ir/opt/opt.hpp) on a whole program: calls,   *)
(* memory, loops, and everything MiddleEnd has in between.  Any set of     *)
(* passes may be disabled; par and simd always are.                        *)
(***************************************************************************)
EXTENDS FrontEnd, Arithmetic, LoopOps

CONSTANTS
  Programs,      \* the programs to translate
  Switches,      \* the sets of passes that may be disabled
  Inputs,        \* what a program may read
  Rounds,        \* the loop rounds and calls of a run that are looked at
  Fuel           \* and 2 to that power its blocks

VARIABLES
  source,        \* the program
  disabled,      \* disabled_passes
  stage,         \* the passes done
  unit,          \* the CompileUnit; no functions before the front end is done
  meaning        \* what the program should do with each input
vars == <<source, disabled, stage, unit, meaning>>

\* dag_ir, and the passes of optimize_ir up to remove_phi.
DagBy(loops) == <<"local_init", "clean", "memory", "arith", loops, "local_init", "arith">>
DagIR == DagBy("loop_ops")
Passes == <<"lower", "mem2reg", "remove_unused_def", "clean", "gvn", "gcm", "gvn", "call_graph">>
  \o DagIR \o <<"gvn", "call_graph", "gvn">>
  \o DagIR \o <<"gvn", "func_inline", "remove_unused_func", "global_to_local", "gvn", "cache_pure_func">>
  \o DagIR \o <<"gvn", "gcm", "gvn">> \o DagIR \o <<"gvn">> \o DagBy("last_loop_ops") \o <<"gvn">> \o DagIR
  \o <<"gvn", "gcm", "gvn", "clean", "remove_phi">>

Init ==
  /\ source \in Programs /\ disabled \in Switches
  /\ stage = 0 /\ unit = [fn |-> <<>>] /\ meaning = <<>>

Finished == stage = Len(Passes)

\* A pass runs in its turn, unless one of its names is disabled.
Pass(name, switches, P(_)) ==
  /\ ~Finished /\ Passes[stage + 1] = name
  /\ stage' = stage + 1
  /\ unit' = IF switches \cap disabled = {} THEN P(unit) ELSE unit
  /\ UNCHANGED <<source, disabled, meaning>>

Translate(V(_), M(_, _, _)) ==
  /\ stage = 0
  /\ stage' = 1 /\ unit' = V(source)
  /\ meaning' = [inp \in Inputs |-> M(source, inp, Rounds)]
  /\ UNCHANGED <<source, disabled>>
Lower == Translate(VisitCompUnit, Meaning)

\* remove_unused_def, gvn, gcm, mem2reg and arith go over every function.
RemoveUnused(u) == LET P(f) == RemoveUnusedDef(f, u.noStore) IN EachFunc(u, P)
ShortenUnit(u) == IF "se" \in disabled THEN u ELSE EachFunc(u, SimplifyExpr)
NumberUnit(u) == ShortenUnit(RemoveUnused(IF "gvn" \in disabled THEN u ELSE EachFunc(u, GVN)))
MoveUnit(u) == LET P(f) == CodeMotion(IF "before-gcm" \in disabled THEN f ELSE BeforeGcm(f)) IN EachFunc(u, P)
PromoteUnit(u) == EachFunc(u, Mem2Reg)
ArithUnit(u) == LET P(f) == MulDiv(Mod2Div(GVN(f))) IN EachFunc(u, P)
CleanUnit(u) == EachFunc(RemoveUnusedMemObj(u), SimplifyBB)
LeaveSSA(f) == MergeBB(RemoveTrivialBB(CodeReorder(RemovePhi(CodeReorder(f)))))
LeaveUnit(u) == EachFunc(u, LeaveSSA)
InlineUnit(u) == FuncInline(u, {})
CallUnit(u) == CallGraph(u, disabled)
LoopsUnit(u) == LET P(f) == LoopOpsFirst(u, f) IN EachFunc(u, P)
LastLoopsUnit(u) == LET P(f) == LoopOpsLast(u, f) IN EachFunc(u, P)
LocalizeUnit(u) == PromoteUnit(NumberUnit(GlobalToLocal(u)))

PromoteToRegisters == Pass("mem2reg", {"mem2reg"}, PromoteUnit)
RemoveDefs == Pass("remove_unused_def", {}, RemoveUnused)
Clean == Pass("clean", {}, CleanUnit)
NumberValues == Pass("gvn", {}, NumberUnit)
MoveCode == Pass("gcm", {"gcm"}, MoveUnit)
AnalyseCalls == Pass("call_graph", {}, CallUnit)
InitGlobals == Pass("local_init", {}, LocalInit)
ReduceMemory == Pass("memory", {"dag"}, MemoryRound)
ReduceArith == Pass("arith", {}, ArithUnit)
SimplifyLoops == Pass("loop_ops", {"loop-ops"}, LoopsUnit)
UnrollLoops == Pass("last_loop_ops", {"loop-ops"}, LastLoopsUnit)
Inline == Pass("func_inline", {"inline"}, InlineUnit)
DropFunctions == Pass("remove_unused_func", {"ruf"}, RemoveUnusedFunc)
LocalizeGlobals == Pass("global_to_local", {"g2l", "gvn"}, LocalizeUnit)
CacheFunctions == Pass("cache_pure_func", {"cpf"}, CacheResults)
LeaveSSAForm == Pass("remove_phi", {}, LeaveUnit)
Done == Finished /\ UNCHANGED vars

Next ==
  \/ Lower \/ PromoteToRegisters \/ RemoveDefs \/ Clean \/ NumberValues \/ MoveCode \/ AnalyseCalls
  \/ InitGlobals \/ ReduceMemory \/ ReduceArith \/ SimplifyLoops \/ UnrollLoops \/ Inline \/ DropFunctions \/ LocalizeGlobals
  \/ CacheFunctions \/ LeaveSSAForm \/ Done
Spec == Init /\ [][Next]_vars

-------------------------------------------------------------------------------
Funcs == Range(unit.fn)
Upcoming == IF Finished THEN "none" ELSE Passes[stage + 1]

\* Whatever passes run, in their order, the code does what the program means:
\* the same output, and the same result of main.
WholeBehaviour ==
  stage > 0 => \A inp \in Inputs : meaning[inp].ends => Behaviour(unit, inp, Fuel) = meaning[inp]

\* Until remove_phi every function is in SSA form.  What cache_pure_func adds
\* is not, until the next code motion: the key it computes on one way into the
\* return block is used there.
CachedAt == CHOOSE n \in DOMAIN Passes : Passes[n] = "cache_pure_func"
MovedAt == Min({n \in DOMAIN Passes : n > CachedAt /\ Passes[n] = "gcm"})
KeyMisplaced == stage \in CachedAt .. MovedAt - 1 /\ "cpf" \notin disabled
WholeSSA == stage \in 1 .. Len(Passes) - 1 /\ ~KeyMisplaced => \A f \in Funcs : SSAForm(f)

\* A call marked no_store or no_load never writes or reads memory, at any
\* later pass: what is marked before inlining and caching still holds after.
MarksHold ==
  stage > 0 => /\ unit.noStore \cap DOMAIN unit.fn \subseteq NeverDo(unit, "store")
               /\ unit.noLoad \cap DOMAIN unit.fn \subseteq NeverDo(unit, "load")

\* PointerBase and update_alias, when LoadToReg and the others use them: a load
\* or store only touches an object its register may point into, at the offset
\* it must have.
Right(a, x) ==
  LET p == a.ptr[x.k][x.reg] IN
  \E w \in x.at : w[1] \in May(a, x.k, x.reg) /\ (p.at = {} \/ w[2] \in p.at)
PointersRightBy(a) == \A inp \in Inputs : \A x \in Accesses(unit, inp, Fuel) : Right(a, x)
Analysed == Upcoming = "memory" /\ "dag" \notin disabled /\ ~KeyMisplaced
PointersRight == Analysed => PointersRightBy(Analysis(unit))

\* SideEffect: what a call of a function touches, itself or by what it calls,
\* is in what the function is said to read or write.
EffectOf(a, x, k) == IF x.op = "load" THEN a.loop[k][Top].r \cup unit.const ELSE a.loop[k][Top].w
EffectsRightBy(a) ==
  \A inp \in Inputs : \A x \in Accesses(unit, inp, Fuel) : \A k \in x.callers :
    AnyMem \in EffectOf(a, x, k) \/ \E w \in x.at : w[1] \in EffectOf(a, x, k)
EffectsRight == Analysed => EffectsRightBy(Analysis(unit))

\* An object marked is_const is never written again.
ConstantsStay ==
  stage > 0 /\ ~KeyMisplaced => \A inp \in Inputs : \A x \in Accesses(unit, inp, Fuel) :
    x.op = "store" => \A w \in x.at : w[1] \notin unit.const

\* ArrayReadWrite: in a loop of main that may be cut into slices no iteration
\* stores where another one loads or stores.  Two accesses are in one run of
\* the loop if the blocks outside were visited equally often, and in different
\* iterations if the header was not.
Conflict(x, y, h, outside) ==
  /\ x.at = y.at /\ "store" \in {x.op, y.op}
  /\ x.visits[h] # y.visits[h] /\ \A b \in outside : x.visits[b] = y.visits[b]
IndependentIn(trace, h, inside) ==
  LET here == {x \in trace : x.bb \in inside} IN
  \A x, y \in here : ~Conflict(x, y, h, Blocks(unit.fn[unit.main]) \ inside)
IndependentBy(f, l, trace) ==
  \A h \in ParallelLoops(unit, f, l) : IndependentIn(trace, h, {b \in l.live : InLoop(l, b, h)})
LoopsIndependent ==
  Upcoming = "last_loop_ops" /\ ~KeyMisplaced =>
    LET f == unit.fn[unit.main] IN \A inp \in Inputs : IndependentBy(f, Loops(f), Trace(unit, inp, Fuel))

-------------------------------------------------------------------------------
\* doc/report.tex:78: a store goes if it does not change what is read later:
\* the passes on memory keep what the program does.
StoresStillSeen == Upcoming # "lower" /\ Passes[stage] = "memory" => WholeBehaviour

\* doc/report.tex:66: tail recursion becomes a loop, that does the same.
TailCallsKept == Upcoming # "lower" /\ Passes[stage] = "call_graph" => WholeBehaviour

\* doc/report.tex:77: a load is replaced by the value last loaded or stored:
\* the last loop_ops keeps what the program does.
LoadsSeeLast == Upcoming # "lower" /\ Passes[stage] = "last_loop_ops" => WholeBehaviour

\* doc/report.tex:114: only loops whose iterations do not depend on each other
\* are cut into slices.
SlicesIndependent == LoopsIndependent
===============================================================================
