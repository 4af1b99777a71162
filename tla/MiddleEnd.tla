------------------------------- MODULE MiddleEnd ------------------------------
(***************************************************************************)
(* The way of a program from its syntax tree to the code the ARM backend   *)
(* gets: the front end, the passes of optimize_ir (ir/opt/opt.hpp) on each *)
(* function by itself, and before_backend.  Any set of passes may be       *)
(* disabled (--no-<pass>).                                                 *)
(***************************************************************************)
EXTENDS FrontEnd, Numbering

CONSTANTS
  Programs,      \* the programs to translate
  Switches,      \* the sets of passes that may be disabled
  Inputs,        \* what a program may read
  Rounds,        \* the loop rounds and calls of a run that are looked at
  Fuel           \* and 2 to that power its blocks

VARIABLES
  source,        \* the program
  disabled,      \* disabled_passes
  stage,         \* the passes done
  unit,          \* the CompileUnit; no functions before the front end is done
  meaning        \* what the program should do with each input
vars == <<source, disabled, stage, unit, meaning>>

Passes == <<"lower", "mem2reg", "remove_unused_def", "remove_unused_BB", "gvn", "before_gcm", "gcm", "gvn",
            "simplify_BB", "code_reorder", "remove_phi", "code_reorder", "remove_trivial_BB", "merge_BB">>

Init ==
  /\ source \in Programs /\ disabled \in Switches
  /\ stage = 0 /\ unit = [fn |-> <<>>] /\ meaning = <<>>

Finished == stage = Len(Passes)

\* A pass runs in its turn, unless one of its names is disabled.
Pass(name, switches, P(_)) ==
  /\ ~Finished /\ Passes[stage + 1] = name
  /\ stage' = stage + 1
  /\ unit' = IF switches \cap disabled = {} THEN EachFunc(unit, P) ELSE unit
  /\ UNCHANGED <<source, disabled, meaning>>

Translate(V(_), M(_, _, _)) ==
  /\ stage = 0
  /\ stage' = 1 /\ unit' = V(source)
  /\ meaning' = [inp \in Inputs |-> M(source, inp, Rounds)]
  /\ UNCHANGED <<source, disabled>>
Lower == Translate(VisitCompUnit, Meaning)

\* Before call_graph no call of a function is known to change nothing.
RemoveUnused(f) == RemoveUnusedDef(f, {})

PromoteToRegisters == Pass("mem2reg", {"mem2reg"}, Mem2Reg)
RemoveDefs == Pass("remove_unused_def", {}, RemoveUnused)
RemoveBlocks == Pass("remove_unused_BB", {}, SimplifyBB)
NumberValues ==
  LET P(f) == RemoveUnused(IF "gvn" \in disabled THEN f ELSE GVN(f)) IN Pass("gvn", {}, P)
SplitEdges == Pass("before_gcm", {"gcm", "before-gcm"}, BeforeGcm)
MoveCode == Pass("gcm", {"gcm"}, CodeMotion)
SimplifyBlocks == Pass("simplify_BB", {}, SimplifyBB)
Reorder == Pass("code_reorder", {}, CodeReorder)
LeaveSSA == Pass("remove_phi", {}, RemovePhi)
RemoveTrivial == Pass("remove_trivial_BB", {}, RemoveTrivialBB)
MergeBlocks == Pass("merge_BB", {}, MergeBB)
Done == Finished /\ UNCHANGED vars

Next ==
  \/ Lower \/ PromoteToRegisters \/ RemoveDefs \/ RemoveBlocks \/ NumberValues \/ SplitEdges
  \/ MoveCode \/ SimplifyBlocks \/ Reorder \/ LeaveSSA \/ RemoveTrivial \/ MergeBlocks \/ Done
Spec == Init /\ [][Next]_vars

-------------------------------------------------------------------------------
Funcs == Range(unit.fn)
WithPhis == stage \in 1 .. 10   \* remove_phi is the eleventh pass

\* Whatever passes run, in their order, the code does what the program means:
\* the same output, and the same result of main.
SameBehaviour ==
  stage > 0 => \A inp \in Inputs : meaning[inp].ends => Behaviour(unit, inp, Fuel) = meaning[inp]

\* Until remove_phi, every function is in SSA form: each use is below its only
\* definition, and a phi has an operand for each way into its block.
InSSAForm == WithPhis => \A f \in Funcs : SSAForm(f)

\* What the passes ask about control flow: the dominator tree is the dominance
\* relation, and the loop tree has every block in one loop body, in topological
\* order (check_dag).  merge_BB may copy the head of a loop: nothing asks later.
AnalysesRight ==
  \A f \in Funcs : DomTreeCorrect(f) /\ (stage < Len(Passes) => DagCorrect(f))

\* Nothing jumps twice to one block (the backend's tables are by block).
NoDoubleEdge ==
  \A f \in Funcs : \A b \in Blocks(f) : Cardinality(Range(Succ(f, b))) = Len(Succ(f, b))

\* code_reorder puts the blocks of a loop one after the other.
LoopsContiguous ==
  stage \in {10, 12} => \A f \in Funcs :
    LET l == LoopTree(f)
        Places(h) == {n \in DOMAIN f.order : InLoop(l, f.order[n], h)}
    IN  \A h \in l.heads : Places(h) = Min(Places(h)) .. Max(Places(h))

\* doc/report.tex:38: the last step of the middle end takes the phi instructions
\* away (SSA destruction): what they do is done by copies from then on.
PhisReplaced == stage > 0 /\ Passes[stage] = "remove_phi" => SameBehaviour
===============================================================================
