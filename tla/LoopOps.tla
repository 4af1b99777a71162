-------------------------------- MODULE LoopOps -------------------------------
(***************************************************************************)
(* Loops rewritten (ir/opt/loop_ops.cpp): loops without effect go, sums    *)
(* get a closed form, short loops are written out and others are done in   *)
(* steps of several rounds; at last, branches on a variable with a known   *)
(* range are decided and loads take what was stored.  The loops run in     *)
(* slices by threads are in ParallelLoop; SIMD is not modelled.            *)
(***************************************************************************)
EXTENDS LoopDeps, Expressions

CONSTANTS
  MaxUnroll,       \* max-unroll: the rounds of a loop that is written out,
  MaxUnrollInstr,  \* max-unroll-instr: and the instructions it becomes
  UnrollN          \* unroll-n: the rounds done in one step
ASSUME UnrollAssumption == MaxUnroll \in Nat /\ MaxUnrollInstr \in Nat /\ UnrollN \in Nat \ {0, 1}

(***************************************************************************)
(* LoopCopyTool.  A copy of a loop is [head, bb, reg]: its header, and what*)
(* its blocks and registers are copies of, as maps from the loop's own.    *)
(***************************************************************************)
Through(m, x) == IF x \in DOMAIN m THEN m[x] ELSE x
Numbered(S, n) == LET s == Sorted(S) IN Strict([x \in S |-> n + (CHOOSE k \in DOMAIN s : s[k] = x)])
Itself(S) == Strict([x \in S |-> x])
Original(lp) == [head |-> lp.head, bb |-> Itself(lp.bbs), reg |-> Itself(lp.defs)]
Renamed(lp, bb, reg) == [head |-> bb[lp.head], bb |-> bb, reg |-> reg]
NthCopy(f, lp, n) ==
  Renamed(lp, Numbered(lp.bbs, f.bbs + (n - 1) * Cardinality(lp.bbs)), Numbered(lp.defs, f.regs + (n - 1) * Cardinality(lp.defs)))
Copies(f, lp, n) == <<Original(lp)>> \o [k \in 1 .. n |-> NthCopy(f, lp, k)]

CopyInstr(c, i) == [MapBB(MapUse(i, LAMBDA r : Through(c.reg, r)), LAMBDA b : Through(c.bb, b)) EXCEPT !.d = Through(c.reg, @)]
CopyBlock(c, is) == Strict([n \in DOMAIN is |-> CopyInstr(c, is[n])])
AddBlock(f, c, b) == [WithBlock(f, c.bb[b], CopyBlock(c, f.code[b])) EXCEPT
  !.regs = @ + Cardinality({i \in Range(f.code[b]) : i.d # 0}),
  !.noUnroll = @ \cup (IF b \in @ THEN {c.bb[b]} ELSE {})]
AddCopy(f, c) == Fold(LAMBDA g, b : AddBlock(g, c, b), f, Sorted(DOMAIN c.bb))
AddCopies(f, cs) == Fold(AddCopy, f, Tail(cs))

OnPhis(is, G(_)) == Strict([n \in DOMAIN is |-> IF is[n].op = "phi" THEN G(is[n]) ELSE is[n]])
Inside(c) == Range(c.bb)

\* entry_del_edge: back edges or the edge from before the loop.
EntryDelEdge(f, c, back) ==
  [f EXCEPT !.code[c.head] = OnPhis(@, LAMBDA i : PhiFrom(i, {b \in Range(i.t) : (b \in Inside(c)) # back}))]
EntryPrev(f, c) == CHOOSE b \in UNION {Range(i.t) : i \in {i \in Range(f.code[c.head]) : i.op = "phi"}} : b \notin Inside(c)
ExitNext(f, c, in) == CHOOSE b \in Range(Back(f.code[c.head]).t) : (b \in Inside(c)) = in
ExitTo(f, c, b) == [f EXCEPT !.code[c.head] = NewControl(@, Jump(b))]
NoExit(f, c) == ExitTo(f, c, ExitNext(f, c, TRUE))

\* BB::map_BB of one block for another, and of control instructions only.
MapTo(i, x, y) == MapBB(i, LAMBDA b : IF b = x THEN y ELSE b)
MapBlock(f, b, x, y) == [f EXCEPT !.code[b] = Strict([n \in DOMAIN @ |-> MapTo(@[n], x, y)])]
MapControl(is, x, y) == NewControl(is, MapTo(Back(is), x, y))
BackEdgeTo(f, c, b) ==
  [f EXCEPT !.code = Strict([x \in DOMAIN @ |-> IF x \in Inside(c) THEN MapControl(@[x], c.head, b) ELSE @[x]])]

ChangePhi(c, w, i) ==
  MapBB(MapUse(i, LAMBDA r : Through(w.reg, Through(AntiFunction(c.reg), r))), LAMBDA b : Through(w.bb, Through(AntiFunction(c.bb), b)))
\* change_to: what the phis of b take from loop c they take from loop w.
ChangeTo(f, c, w, b) == [f EXCEPT !.code[b] = OnPhis(@, LAMBDA i : ChangePhi(c, w, i))]
MapUsesOutside(f, inside, m) ==
  [f EXCEPT !.code = Strict([b \in DOMAIN @ |->
     IF b \in inside THEN @[b] ELSE Strict([n \in DOMAIN @[b] |-> MapUse(@[b][n], LAMBDA r : Through(m, r))])])]
UseAfter(f, cs, c) == MapUsesOutside(f, UNION {Inside(w) : w \in Range(cs)}, c.reg)

UpTo(n) == [k \in 1 .. n |-> k]
\* The n-th copy is left only to the copy after it, which is entered only from there.
Opened(f, cs, ns, ms) == Fold(LAMBDA g, n : EntryDelEdge(NoExit(g, cs[n[1]]), cs[n[2]], FALSE), f, Zip(ns, ms))
Joined(f, cs, n) == ChangeTo(BackEdgeTo(f, cs[n], cs[n + 1].head), cs[n + 1], cs[n], cs[n + 1].head)
Chained(f, cs, n) == Fold(LAMBDA g, k : Joined(g, cs, k), f, UpTo(n))

-------------------------------------------------------------------------------
\* unroll_fixed: n rounds written out; the last copy only tests.
Spread(f, cs, n) == Chained(Opened(EntryDelEdge(f, cs[1], TRUE), cs, UpTo(n), Tail(UpTo(n + 1))), cs, n)
EndedBy(f, cs, c, next) == UseAfter(ChangeTo(ExitTo(f, c, next), cs[1], c, next), cs, c)
WrittenOutBy(f, cs, n, next) == EndedBy(Spread(f, cs, n), cs, cs[n + 1], next)
UnrollBy(f, cs, n, next) == WrittenOutBy(AddCopies(f, cs), cs, n, next)
UnrollFixed(f, lp, n) == UnrollBy(f, Copies(f, lp, n), n, ExitNext(f, Original(lp), FALSE))

Nested(l, h) == \E w \in Range(l.body[h]) \ {h} : w \in l.heads
Innermost(l, h) == Len(l.body[h]) > 1 /\ ~Nested(l, h)
InstrCount(f, bs) == Fold(LAMBDA n, b : n + Len(f.code[b]), 0, Listed(bs))

RECURSIVE Rounds0(_, _, _, _, _)
Rounds0(e, v, x, y, n) ==
  IF n > MaxUnroll \/ ~Compared(e, x, y[1]) THEN n ELSE Rounds0(e, v, Compute2(v.op, x, y[2]), y, n + 1)
\* How often the loop runs, MaxUnroll + 1 if more than MaxUnroll times.
RoundsOf(e, v, const) == Rounds0(e, v, const[v.init], <<const[e.s2], const[v.step]>>, 0)
FixedVars(lp, e, const) == {v \in lp.ind : v.var = e.s1 /\ {v.init, v.step, e.s2} \subseteq DOMAIN const}
FixedRounds(f, l, lp, const) ==
  {n \in UNION {{RoundsOf(e, v, const) : v \in FixedVars(lp, e, const)} : e \in Condition(f, l, lp)} :
     n <= MaxUnroll /\ n * InstrCount(f, lp.bbs) <= MaxUnrollInstr}
TryUnrollFixed(f, l, lp, const) ==
  IF lp.head \in f.noUnroll \/ ~Innermost(l, lp.head) THEN {} ELSE {UnrollFixed(f, lp, n) : n \in FixedRounds(f, l, lp, const)}

-------------------------------------------------------------------------------
\* unroll_simple_for_loop: UnrollN rounds in one, and the rounds that are left.
LongestUnrolled == 256
FromLoop(c, i, exit) ==
  [i EXCEPT !.u = Strict([n \in DOMAIN @ |-> IF i.t[n] \in Inside(c) THEN @[n] ELSE AntiFunction(c.reg)[i.d]]),
            !.t = Strict([n \in DOMAIN @ |-> IF @[n] \in Inside(c) THEN @[n] ELSE exit])]
ThenRest(f, p, c, next) ==
  [[f EXCEPT !.code[p.head] = MapControl(@, next, c.head)] EXCEPT !.code[c.head] = OnPhis(@, LAMBDA i : FromLoop(c, i, p.head))]
AndBack(f, cs, n) == ChangeTo(BackEdgeTo(f, cs[n], cs[1].head), cs[1], cs[n], cs[1].head)
WithRest(f, cs, c, next) == UseAfter(ChangeTo(ThenRest(f, cs[1], c, next), cs[1], c, next), cs, c)
StepBy(f, cs, n) == AndBack(Chained(Opened(f, cs, Tail(UpTo(n)), Tail(UpTo(n))), cs, n - 1), cs, n)

\* Fault: the test is for this round, not for the last of the n.
StepTest_ThisRound(f, b, i, n) ==
  [f EXCEPT !.regs = @ + 1,
            !.code[b] = Front(@) \o <<Binary(IF i.eq THEN "leq" ELSE "less", f.regs + 1, i.var, i.limit),
                                        [Back(@) EXCEPT !.u = <<f.regs + 1>>]>>]
StepTest(f, b, i, n) ==
  [f EXCEPT !.regs = @ + 3,
            !.code[b] = Front(@) \o <<Const(f.regs + 1, n), Binary("add", f.regs + 2, i.var, f.regs + 1),
                                      Binary(IF i.eq THEN "leq" ELSE "less", f.regs + 3, f.regs + 2, i.limit),
                                      [Back(@) EXCEPT !.u = <<f.regs + 3>>]>>]
SteppedBy(f, cs, n, i, next) ==
  [StepTest(WithRest(StepBy(AddCopies(f, cs), cs, n), cs, cs[n + 1], next), cs[1].head, i, n)
     EXCEPT !.noUnroll = @ \cup {cs[1].head, cs[n + 1].head}]
UnrollSimple(f, lp, i) == SteppedBy(f, Copies(f, lp, UnrollN), UnrollN, i, ExitNext(f, Original(lp), FALSE))
TryUnrollSimple(f, l, lp, const) ==
  IF lp.head \in f.noUnroll \/ ~Innermost(l, lp.head) \/ InstrCount(f, lp.bbs) > LongestUnrolled THEN {}
  ELSE {UnrollSimple(f, lp, i) : i \in {i \in Ilr(f, l, lp, const) : i.less}}

-------------------------------------------------------------------------------
\* remove_unused_loop.
Bypass(f, lp, prev, next) == MapBlock(MapBlock(f, prev, lp.head, next), next, lp.head, prev)
TryRemove(u, f, l, lp, const) ==
  IF \E i \in lp.code : i.op = "store" \/ (i.op = "call" /\ ~SilentCall(u, i)) THEN {}
  ELSE IF IlrInside(f, l, lp, const) = {} THEN {}
  ELSE {Bypass(f, lp, EntryPrev(f, Original(lp)), ExitNext(f, Original(lp), FALSE))}
-------------------------------------------------------------------------------
(***************************************************************************)
(* simplify_reduction_var.  A sum of what is known at the start of the     *)
(* loop is a tree of <<"reg", r>>, <<"lc", constant>>, <<op, tree, tree>>  *)
(* and <<"lib", function, trees>>; CodeGen writes one out, each of its     *)
(* subtrees once.  m is {} or what the sum is taken modulo.                *)
(***************************************************************************)
Reg(r) == <<"reg", r>>
Lc(c) == <<"lc", c>>
Lib(k, ts) == <<"lib", k, ts>>

Emitted(g, tree, i) == [is |-> Append(g.is, i), last |-> i.d, at |-> (tree :> i.d) @@ g.at]
RECURSIVE Generate(_, _)
Written(g, tree, ts) ==
  IF tree[1] = "lib" THEN Emitted(g, tree, Call(g.last + 1, tree[2], Strict([n \in DOMAIN ts |-> g.at[ts[n]]])))
  ELSE Emitted(g, tree, Binary(tree[1], g.last + 1, g.at[ts[1]], g.at[ts[2]]))
AfterParts(g, tree, ts) == Written(Fold(Generate, g, ts), tree, ts)
Generate(g, tree) ==
  CASE tree \in DOMAIN g.at -> g
    [] tree[1] = "reg" -> [g EXCEPT !.at = (tree :> tree[2]) @@ @]
    [] tree[1] = "lc" -> Emitted(g, tree, Const(g.last + 1, tree[2]))
    [] OTHER -> AfterParts(g, tree, IF tree[1] = "lib" THEN tree[3] ELSE Tail(tree))
NoCode(last) == [is |-> <<>>, last |-> last, at |-> <<>>]

Mod(m) == Lc(CHOOSE c \in m : TRUE)
Plus1(m, a, b) == IF m = {} THEN <<"add", a, b>> ELSE Lib(UMod, <<<<"add", a, b>>, Mod(m)>>)
Minus(m, a, b) == IF m = {} THEN <<"sub", a, b>> ELSE Lib(UMod, <<<<"add", <<"sub", a, b>>, Mod(m)>>, Mod(m)>>)
Multiply(m, a, b) == IF m = {} THEN <<"mul", a, b>> ELSE Lib(UMulMod, <<a, b, Mod(m)>>)
Fixed(m, a) == IF m = {} THEN a ELSE Lib(FixMod, <<a, Mod(m)>>)
HalfSquared(m, a) == IF m = {} THEN Lib(HalfSquare, <<a>>) ELSE Lib(HalfSquareMod, <<a, Mod(m)>>)

\* calc: the sum of the steps for i = 0 .. x.  (i * i ends the compiler.)
Factors(w) == Concat([n \in DOMAIN Sorted(DOMAIN w) |-> [k \in 1 .. w[Sorted(DOMAIN w)[n]] |-> Sorted(DOMAIN w)[n]]])
TermTo(m, i, x, w, c) ==
  LET p == Fold(LAMBDA t, r : Multiply(m, t, IF r = i THEN HalfSquared(m, x) ELSE Reg(r)), Fixed(m, Lc(c)), Factors(w)) IN
  IF i \in DOMAIN w THEN p ELSE Multiply(m, p, x)
SumTo(m, i, step, x) == Fold(LAMBDA t, w : Plus1(m, t, TermTo(m, i, x, w, step.cs[w])), Lc(0), Monomials(step))
SumUpTo(m, i, step, x) == SumTo(m, i, step, Fixed(m, x))

\* What variable v is after the loop that counts by e.
LastOf(e) == IF e.eq THEN Reg(e.limit) ELSE <<"sub", Reg(e.limit), Lc(1)>>
RoundsIn(e) ==
  LET n == <<"sub", Reg(e.limit), Reg(e.init)>> IN IF e.eq THEN <<"add", n, Lc(1)>> ELSE n
Summed(v, e, step) ==
  Minus(v.mod, Plus1(v.mod, Fixed(v.mod, Reg(v.init)), SumUpTo(v.mod, e.var, step, LastOf(e))),
        SumUpTo(v.mod, e.var, step, <<"sub", Reg(e.init), Lc(1)>>))
AfterLoop(v, e, step, const) ==
  CASE v.op = "div" -> Lib(DivPow2, <<Reg(v.init), <<"mul", RoundsIn(e), Lc(CHOOSE n \in 1 .. 30 : 2 ^ n = const[v.step])>>>>)
    [] v.op = "sub" -> <<"sub", Reg(v.init), <<"mul", RoundsIn(e), Reg(v.step)>>>>
    [] v.op = "add" -> Summed(v, e, step)

\* Which sums: a step of what does not change in the loop, or of i; modulo a
\* constant only what can not be negative.
KnownIn(const, r) == IF r \in DOMAIN const THEN {const[r]} ELSE {}
ModFits(v, e, step, const) ==
  v.mod # {} => /\ \A c \in v.mod : c > 1
                /\ \A w \in DOMAIN step.cs : step.cs[w] >= 0
                /\ \E a \in KnownIn(const, e.init) : a >= 0
                /\ \E a \in KnownIn(const, v.init) : a >= 0
Summable(lp, v, e, step, const) ==
  CASE v.op = "div" -> \E c \in KnownIn(const, v.step) : \E n \in 1 .. 30 : 2 ^ n = c
    [] v.op = "sub" -> v.step \notin lp.defs
    [] v.op = "add" ->
         ~step.bad /\ (UNION {DOMAIN w : w \in DOMAIN step.cs}) \cap lp.defs \subseteq {e.var} /\ ModFits(v, e, step, const)
    [] OTHER -> FALSE
SumsIn(f, lp, e, info, const) ==
  {v \in lp.red : Uses(f, lp.bbs, v.var) = 1 /\ Summable(lp, v, e, info[v.step].add, const)}
\* The sums go to block bb2, run if the loop is; bb3 selects them or what they
\* were before.
SumBlocks(f, lp, e, next, vs, at, g) ==
  LET bb1 == f.bbs + 1
      n == g.last + 1
      test == Binary(IF e.eq THEN "leq" ELSE "less", n, e.init, e.limit)
      phis == Strict([k \in DOMAIN vs |-> Phi(n + k, <<vs[k].init, g.at[at[k]]>>, <<bb1, bb1 + 1>>)])
      new == WithBlock(WithBlock(WithBlock(f, bb1, <<test, Branch(n, bb1 + 1, bb1 + 2)>>),
                                 bb1 + 1, Append(g.is, Jump(bb1 + 2))), bb1 + 2, Append(phis, Jump(next)))
      h == MapBlock(MapBlock([new EXCEPT !.regs = n + Len(vs)], lp.head, next, bb1), next, lp.head, bb1 + 2)
  IN  MapUsesOutside(h, lp.bbs, Strict([r \in {v.var : v \in Range(vs)} |-> n + (CHOOSE k \in DOMAIN vs : vs[k].var = r)]))
SumsWith(f, lp, e, vs, at) ==
  SumBlocks(f, lp, e, ExitNext(f, Original(lp), FALSE), vs, at, Fold(Generate, NoCode(f.regs), at \o <<Reg(e.init), Reg(e.limit)>>))
SumsOf(f, lp, e, vs, info, const) ==
  SumsWith(f, lp, e, vs, Strict([k \in DOMAIN vs |-> AfterLoop(vs[k], e, info[vs[k].step].add, const)]))
SimplifyReduction(u, f, lp, e, vs, info, const) ==
  IF vs = {} THEN {}
  ELSE {RemoveUnusedDef(GVN(SumsOf(f, lp, e, SetToSortSeq(vs, LAMBDA v, w : v.var < w.var), info, const)), u.noStore)}
TrySimplifyReduction(u, f, l, lp, info, const) ==
  UNION {SimplifyReduction(u, f, lp, e, SumsIn(f, lp, e, info, const), info, const) : e \in Ilr(f, l, lp, const)}

-------------------------------------------------------------------------------
(***************************************************************************)
(* LoopOps::run: the first change that is possible, from outer loops to    *)
(* inner ones and back.  In the last loop_ops the first rounds only take   *)
(* loops away (and cut them into slices), until nothing is left to do.     *)
(***************************************************************************)
AfterUnroll(u, f) == RemoveTrivialBB(CodeReorder(RemoveUnusedDef(GVN(RemoveUnusedBB(f)), u.noStore)))
After(u, fs) == {AfterUnroll(u, f) : f \in fs}

RECURSIVE LoopEvents(_, _)
LoopEvents(l, h) ==
  LET inner == SelectSeq(l.body[h], LAMBDA w : w # h /\ w \in l.heads)
      all == Concat([n \in DOMAIN inner |-> LoopEvents(l, inner[n])])
  IN  IF h = Top THEN all ELSE <<<<"in", h>>>> \o all \o <<<<"out", h>>>>

OneOf(xs, ys) == IF xs # {} THEN xs ELSE ys
TryUnroll(f, l, lp, const, last) ==
  OneOf(TryUnrollFixed(f, l, lp, const), IF last THEN TryUnrollSimple(f, l, lp, const) ELSE {})
TryLoop(u, f, l, lp, info, const, last) ==
  OneOf(TrySimplifyReduction(u, f, l, lp, info, const), After(u, TryUnroll(f, l, lp, const, last)))
TryAt(u, f, l, ev, info, const, last, only) ==
  CASE ev[1] = "in" -> After(u, TryRemove(u, f, l, LoopOf(f, l, ev[2], const), const))
    [] ev[1] = "out" /\ ~only -> TryLoop(u, f, l, LoopOf(f, l, ev[2], const), info, const, last)
    [] OTHER -> {}
ChangesIn(u, f, l, info, const, last, only) ==
  Fold(LAMBDA fs, ev : IF fs # {} THEN fs ELSE TryAt(u, f, l, ev, info, const, last, only), {}, LoopEvents(l, Top))
ChangesWith(u, f, l, last, only) == ChangesIn(u, f, l, RegInfos(f, l), Constants(f), last, only)
Changes(u, f, last, only) == ChangesWith(u, f, Loops(f), last, only)

RECURSIVE LoopRounds(_, _, _, _, _)
NextRound(u, f, fs, last, only, n) ==
  IF fs # {} THEN LoopRounds(u, CHOOSE g \in fs : TRUE, last, only, n - 1)
  ELSE IF only THEN LoopRounds(u, f, last, FALSE, n - 1) ELSE f
RoundOn(u, f, last, only, n) == NextRound(u, f, Changes(u, f, last, only), last, only, n)
LoopRounds(u, f, last, only, n) == IF n = 0 THEN f ELSE RoundOn(u, BeforeGcm(f), last, only, n)

-------------------------------------------------------------------------------
(***************************************************************************)
(* remove_branch_by_range: outside of the headers, the variable of a loop  *)
(* that is left from its header alone is between its limits.               *)
(***************************************************************************)
Least == -2147483647 - 1
Most == 2147483647
\* get_c_if looks at cs alone: what nothing is known of counts as 0, and a sum
\* that is bad as the constant it began with.
ConstIf(e, unknown) == IF Terms(e) = {} THEN ConstOf(e) ELSE unknown
Range1(info, e) ==
  <<ConstIf(info[e.init].add, Least),
    ConstIf(IF e.eq THEN info[e.limit].add ELSE AddMono(info[e.limit].add, One, -1), Most)>>
RangesIn(f, l, info, const) ==
  UNION {{<<e.var, Range1(info, e)>> : e \in IlrInside(f, l, LoopOf(f, l, h, const), const)} : h \in l.heads}
RangeOf(ranges, r) == LET q == {q \in ranges : q[1] = r} IN IF q = {} THEN <<Least, Most>> ELSE (CHOOSE x \in q : TRUE)[2]

\* Which way a branch goes for certain.
Sure(e, c, q) == {Bool(Compared(e, x, c)) : x \in {q[1], q[2]}}
SureBy(e, ranges, const) ==
  IF e.s2 \in DOMAIN const THEN Sure(e, const[e.s2], RangeOf(ranges, e.s1))
  ELSE IF e.s1 \in DOMAIN const THEN Sure(Turned(e), const[e.s1], RangeOf(ranges, e.s2)) ELSE {0, 1}
SureAt(f, br, ranges, const) ==
  IF br.op # "br" THEN {0, 1} ELSE UNION {SureBy(e, ranges, const) : e \in Comparison(DefOf(f, br.u[1]))}
DecideAt(f, b, ways) == IF Cardinality(ways) = 1 THEN RemoveBranch(f, b, CHOOSE t \in ways : TRUE) ELSE f
RemoveBranches(f, l, ranges, const) ==
  Fold(LAMBDA g, b : IF b \in l.heads THEN g ELSE DecideAt(g, b, SureAt(g, Back(g.code[b]), ranges, const)), f, f.order)
Cleared(u, f, g) == IF g = f THEN f ELSE AfterUnroll(u, g)
RangeWith(u, f, l, const) == Cleared(u, f, RemoveBranches(f, l, RangesIn(f, l, RegInfos(f, l), const), const))
RemoveBranchByRange(u, f) == RangeWith(u, f, Loops(f), Constants(f))

-------------------------------------------------------------------------------
\* LoadToRegV2: m has the register with what is at a place; nothing is known at
\* a loop header, and a store only forgets the very same place.  The order on
\* AddrExpr ignores bad, so that a store with an index nothing is known of is
\* remembered under what its sum began with, as if it were a known place.
LongestKnown == 40
BadIndex(a) == a.bad \/ \E size \in DOMAIN a.at : a.at[size].bad
PlaceOf(a) == <<a.base, Strict([size \in DOMAIN a.at |-> a.at[size].cs])>>
StoredTo(m, a, r) == (PlaceOf(a) :> r) @@ (IF Cardinality(DOMAIN m) >= LongestKnown \/ BadIndex(a) THEN <<>> ELSE m)

LoadedFrom(s, i, a) ==
  IF BadIndex(a) THEN [s EXCEPT !.is = Append(@, i)]
  ELSE IF PlaceOf(a) \in DOMAIN s.m
       THEN [s EXCEPT !.is = Append(@, Unary("id", i.d, s.m[PlaceOf(a)])), !.reg = (i.d :> s.m[PlaceOf(a)]) @@ @]
       ELSE [s EXCEPT !.is = Append(@, i), !.m = (PlaceOf(a) :> i.d) @@ @]
LoadByPlace(u, info, s, i) ==
  CASE i.op = "load" -> LoadedFrom(s, i, info[i.u[1]].addr)
    [] i.op = "store" -> [s EXCEPT !.is = Append(@, i), !.m = StoredTo(@, info[i.u[1]].addr, i.u[2])]
    [] i.op = "call" /\ i.k \notin u.noStore -> [s EXCEPT !.is = Append(@, i), !.m = <<>>]
    [] OTHER -> [s EXCEPT !.is = Append(@, i)]
LoadsOf(u, info, l, acc, b) ==
  Visited(acc, b, Fold(LAMBDA s, i : LoadByPlace(u, info, s, Replaced(i, s.reg)),
                       [m |-> IF b \in l.heads THEN <<>> ELSE Facts(acc.in, b), reg |-> acc.reg, is |-> <<>>], acc.f.code[b]))
LoadToRegV2With(u, f, l, info) == LET At1(acc, b) == LoadsOf(u, info, l, acc, b) IN Walk(f, l, <<>>, At1)
LoadToRegV2In(u, f, l) == LoadToRegV2With(u, f, l, RegInfos(f, l))
LoadToRegV2(u, f) == LoadToRegV2In(u, f, Loops(f))

-------------------------------------------------------------------------------
\* loop_ops, of every function.
Iterations == 16
LoopOpsFirst(u, f) == LoopRounds(u, f, FALSE, FALSE, Iterations)
LoopOpsLast(u, f) == LoadToRegV2(u, LoopRounds(u, RemoveBranchByRange(u, f), TRUE, TRUE, 10 * Iterations))
===============================================================================
