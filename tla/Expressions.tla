------------------------------- MODULE Expressions -----------------------------
(***************************************************************************)
(* Sums written out again with fewer instructions (SimplifyExpr and        *)
(* AddExpr in ir/opt/simplify_expr.cpp).  A sum is c and, in cs, the       *)
(* coefficients of registers; bad if it became too long.                   *)
(***************************************************************************)
EXTENDS Memory

LongestSum == 20
Sum0 == [c |-> 0, cs |-> <<>>, bad |-> FALSE]
Leaf(r) == [Sum0 EXCEPT !.cs = r :> 1]

\* AddExpr::add_eq of one register, and of s times the sum w.
Coefficient(e, r) == IF r \in DOMAIN e.cs THEN e.cs[r] ELSE 0
Bounded(e, cs) == IF Cardinality(DOMAIN cs) > LongestSum THEN [e EXCEPT !.cs = <<>>, !.bad = TRUE] ELSE [e EXCEPT !.cs = cs]
WithTerm(e, r, v) == Bounded(e, IF v = 0 THEN Keep(e.cs, DOMAIN e.cs \ {r}) ELSE (r :> v) @@ e.cs)
AddTerm(e, r, a) == IF e.bad THEN e ELSE WithTerm(e, r, Coefficient(e, r) + a)
AddSum(e, w, s) ==
  IF e.bad \/ w.bad THEN [e EXCEPT !.bad = TRUE]
  ELSE Fold(LAMBDA x, r : AddTerm(x, r, w.cs[r] * s), [e EXCEPT !.c = @ + w.c * s], Sorted(DOMAIN w.cs))
\* AddExpr::set_mul: bad if neither is a constant.
ProductOf(v, w) ==
  IF v.bad \/ w.bad THEN [Sum0 EXCEPT !.bad = TRUE]
  ELSE IF v.cs = <<>> THEN AddSum(Sum0, w, v.c)
  ELSE IF w.cs = <<>> THEN AddSum(Sum0, v, w.c) ELSE [Sum0 EXCEPT !.bad = TRUE]

(***************************************************************************)
(* genIR: terms with the same coefficient, up to its sign, are added up    *)
(* before they are multiplied by it.  s is the code so far, the last       *)
(* register and the one with the sum; 0 if there is none yet.              *)
(***************************************************************************)
Emit(s, op, u) == [s EXCEPT !.is = Append(@, Instr(op, s.last + 1, u, 0, <<>>)), !.last = @ + 1, !.sum = s.last + 1]
Times(s, a) ==
  IF a = 1 THEN s
  ELSE [s EXCEPT !.is = @ \o <<Const(s.last + 1, a), Binary("mul", s.last + 2, s.sum, s.last + 1)>>,
                 !.last = @ + 2, !.sum = s.last + 2]

\* The first register with a positive coefficient changes places with the first.
Swapped(xs, ups) == IF ups = {} THEN xs ELSE [xs EXCEPT ![1] = xs[Min(ups)], ![Min(ups)] = xs[1]]
Positive(cs, xs) == Swapped(xs, {n \in DOMAIN xs : cs[xs[n]] > 0})
TermsOf(cs, a) == Positive(cs, Sorted({r \in DOMAIN cs : Abs(cs[r]) = a}))

Begin(s, cs, r) == IF cs[r] > 0 THEN [s EXCEPT !.sum = r] ELSE Emit(s, "neg", <<r>>)
AddUp(s, cs, xs) ==
  Fold(LAMBDA t, r : Emit(t, IF cs[r] > 0 THEN "add" ELSE "sub", <<t.sum, r>>), Begin(s, cs, Head(xs)), Tail(xs))
Plus(s, sum) == IF sum = 0 THEN s ELSE Emit(s, "add", <<sum, s.sum>>)
AddGroup(s, cs, a) == Plus(Times(AddUp(s, cs, TermsOf(cs, a)), a), s.sum)

\* set_last_def.
Named(s, result) ==
  IF s.is # <<>> THEN Front(s.is) \o <<[Back(s.is) EXCEPT !.d = result]>>
  ELSE IF s.sum = 0 THEN <<Const(result, 0)>> ELSE <<Unary("id", result, s.sum)>>
SumsFrom(c, last) ==
  IF c = 0 THEN [is |-> <<>>, last |-> last, sum |-> 0]
  ELSE [is |-> <<Const(last + 1, c)>>, last |-> last + 1, sum |-> last + 1]
GenIR(e, result, last) ==
  Named(Fold(LAMBDA s, a : AddGroup(s, e.cs, a), SumsFrom(e.c, last), Sorted({Abs(e.cs[r]) : r \in DOMAIN e.cs})), result)

-------------------------------------------------------------------------------
(***************************************************************************)
(* SimplifyExpr.  x maps the registers looked at in a block to [add, tree]:*)
(* the sum each is and how many instructions only its computation needs;   *)
(* 0 if its instruction stays.  What another block defines is a leaf, and  *)
(* so is what a phi looked at first.                                       *)
(***************************************************************************)
LookedUp(x, const, r) ==
  IF r \in DOMAIN x THEN x[r]
  ELSE IF r \in DOMAIN const THEN [add |-> [Sum0 EXCEPT !.c = const[r]], tree |-> 1] ELSE [add |-> Leaf(r), tree |-> 0]

SumOps == {"id", "neg", "add", "sub", "mul"}
SumOfInstr(i, vs) ==
  CASE i.op = "id" -> vs[1] [] i.op = "neg" -> AddSum(Sum0, vs[1], -1)
    [] i.op = "add" -> AddSum(vs[1], vs[2], 1) [] i.op = "sub" -> AddSum(vs[1], vs[2], -1)
    [] i.op = "mul" -> ProductOf(vs[1], vs[2])

UseCount(count, r) == IF r \in DOMAIN count THEN count[r] ELSE 0
Counted(count, i, n) == Fold(LAMBDA c, r : (r :> UseCount(c, r) + n) @@ c, count, i.u)

\* getExpr, of an instruction of the block.  A product of two sums stays.
OnlyHere(count, i) == IF UseCount(count, i.d) = 1 THEN SelectSeq(i.u, LAMBDA r : UseCount(count, r) = 1) ELSE <<>>
WithLooks(x, const, rs) == Fold(LAMBDA y, r : (r :> LookedUp(y, const, r)) @@ y, x, rs)
TreeSize(x, rs) == Fold(LAMBDA n, r : n + x[r].tree, 1, rs)
Sized(i, vs, add, tree) ==
  [add |-> add, tree |-> IF i.op = "mul" /\ add.bad /\ \A n \in DOMAIN vs : ~vs[n].bad THEN 0 ELSE tree]
SizedSum(i, vs, tree) == Sized(i, vs, SumOfInstr(i, vs), tree)
ExprOf(x, const, i, only) ==
  CASE i.op = "const" -> [add |-> [Sum0 EXCEPT !.c = i.k], tree |-> 1]
    [] i.op \in SumOps -> SizedSum(i, [n \in DOMAIN i.u |-> LookedUp(x, const, i.u[n]).add], TreeSize(x, only))
    [] OTHER -> [add |-> Leaf(i.d), tree |-> 0]
WithExpr(x, const, i, only) == (i.d :> ExprOf(x, const, i, only)) @@ x
LookFor(x, const, i, only) == WithExpr(WithLooks(x, const, only), const, i, only)
Look(x, const, count, i) ==
  IF i.d = 0 \/ i.d \in DOMAIN x THEN x ELSE LookFor(x, const, i, OnlyHere(count, i))

\* Backwards: an instruction without uses goes, a sum that gets shorter is
\* written out.
Kept(s, i) == [s EXCEPT !.is = <<i>> \o @]
ConstsIn(is) == LET cs == {i \in Range(is) : i.op = "const"} IN Strict([r \in {i.d : i \in cs} |-> (CHOOSE i \in cs : i.d = r).k])
WrittenOut(s, i, is) ==
  [is |-> is \o s.is, last |-> s.last + Len(is), const |-> ConstsIn(is) @@ s.const,
   count |-> Fold(LAMBDA c, j : Counted(c, j, 1), Counted(s.count, i, -1), is)]
IfShorter(s, i, is, tree) == IF Len(is) < tree THEN WrittenOut(s, i, is) ELSE Kept(s, i)
ShortenBy(w, s, i) ==
  IF w.tree # 0 /\ UseCount(s.count, i.d) = 0 THEN [s EXCEPT !.count = Counted(@, i, -1)]
  ELSE IF w.tree <= 1 \/ w.add.bad \/ i.d \in DOMAIN w.add.cs THEN Kept(s, i)
  ELSE IfShorter(s, i, GenIR(w.add, i.d, s.last), w.tree)
Shorten(x, s, i) == IF i.d = 0 THEN Kept(s, i) ELSE ShortenBy(x[i.d], s, i)

Looked(acc, is) == Fold(LAMBDA y, i : Look(y, acc.const, acc.count, i), <<>>, is)
ShortenAll(acc, is, x) ==
  Fold(LAMBDA t, i : Shorten(x, t, i), [is |-> <<>>, count |-> acc.count, last |-> acc.f.regs, const |-> acc.const], Reverse(is))
Simplified(acc, b, s) ==
  [f |-> [acc.f EXCEPT !.code[b] = s.is, !.regs = s.last], count |-> s.count, const |-> s.const]
SimplifyBlock(acc, b) == Simplified(acc, b, ShortenAll(acc, acc.f.code[b], Looked(acc, acc.f.code[b])))

UseCounts(f) == Fold(LAMBDA c, i : Counted(c, i, 1), <<>>, Concat(Strict([n \in DOMAIN f.order |-> f.code[f.order[n]]])))
SimplifyExpr(f) ==
  Fold(SimplifyBlock, [f |-> f, count |-> UseCounts(f), const |-> Constants(f)], f.order).f
===============================================================================
