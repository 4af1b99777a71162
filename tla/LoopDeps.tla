-------------------------------- MODULE LoopDeps -------------------------------
(***************************************************************************)
(* Which loops may run in slices (ir/opt/loop_ops.cpp): loops that count a *)
(* variable up to a limit (FindLoopVar) and whose iterations do not touch  *)
(* the same memory (ArrayReadWrite, with the polynomials MulAddExpr of     *)
(* ir/opt/simplify_expr.cpp).                                              *)
(***************************************************************************)
EXTENDS Memory

(***************************************************************************)
(* MulAddExpr: a sum of products of registers.  cs has the coefficient of  *)
(* every monomial, a function from registers to powers; One is that of the *)
(* constant.  A long one is bad: nothing is known of it, though cs may     *)
(* still have terms.                                                       *)
(***************************************************************************)
One == <<>>
Unknown == [cs |-> <<>>, bad |-> TRUE]
Zero == [cs |-> <<>>, bad |-> FALSE]

Cut(cs, w) == IF Cardinality(DOMAIN w) >= 4 \/ Cardinality(DOMAIN cs) >= 5 THEN Unknown ELSE [cs |-> cs, bad |-> FALSE]
SetCoef(e, w, v) == Cut(IF v = 0 THEN Keep(e.cs, DOMAIN e.cs \ {w}) ELSE (w :> v) @@ e.cs, w)
AddMono(e, w, a) == IF e.bad \/ a = 0 THEN e ELSE SetCoef(e, w, a + (IF w \in DOMAIN e.cs THEN e.cs[w] ELSE 0))

\* The order of std::map on monomials: the first pair that differs decides.
PowersOf(w) == LET rs == Sorted(DOMAIN w) IN [n \in DOMAIN rs |-> <<rs[n], w[rs[n]]>>]
Sooner(p, q) ==
  \E n \in 1 .. Len(p) + 1 :
    /\ n <= Len(q) /\ \A m \in 1 .. n - 1 : p[m] = q[m]
    /\ n = Len(p) + 1 \/ p[n][1] < q[n][1] \/ (p[n][1] = q[n][1] /\ p[n][2] < q[n][2])
Monomials(e) == SetToSortSeq(DOMAIN e.cs, LAMBDA v, w : Sooner(PowersOf(v), PowersOf(w)))

\* What was known of e stays behind when the sum becomes bad.
PlusPoly(e, w, s) ==
  IF e.bad \/ w.bad THEN [e EXCEPT !.bad = TRUE] ELSE Fold(LAMBDA x, k : AddMono(x, k, w.cs[k] * s), e, Monomials(w))
Power(w, r) == IF r \in DOMAIN w THEN w[r] ELSE 0
TimesMono(v, w) == Strict([r \in DOMAIN v \cup DOMAIN w |-> Power(v, r) + Power(w, r)])
AddTimes(e, k, c, w) == Fold(LAMBDA x, j : AddMono(x, TimesMono(k, j), c * w.cs[j]), e, Monomials(w))
TimesPoly(v, w) ==
  IF v.bad \/ w.bad THEN Unknown ELSE Fold(LAMBDA x, k : AddTimes(x, k, v.cs[k], w), Zero, Monomials(v))

(***************************************************************************)
(* ArrayReadWrite::visitBB: of every register its value add and, of an     *)
(* address, the object base and at, the index for every element size.      *)
(***************************************************************************)
NoAddr == [base |-> 0, at |-> <<>>, bad |-> TRUE]
InfoOf(e) == [add |-> e, addr |-> NoAddr]

AddIndex(addr, size, e) ==
  LET at == (size :> PlusPoly(IF size \in DOMAIN addr.at THEN addr.at[size] ELSE Zero, e, 1)) @@ addr.at IN
  IF addr.bad THEN addr ELSE [addr EXCEPT !.at = at, !.bad = Cardinality(DOMAIN at) > 3]

RegInfo(info, i) ==
  CASE i.op = "const" -> InfoOf(AddMono(Zero, One, i.k))
    [] i.op = "phi" -> InfoOf(AddMono(Zero, i.d :> 1, 1))
    [] i.op = "addr" -> [add |-> Unknown, addr |-> [base |-> i.k, at |-> <<>>, bad |-> FALSE]]
    [] i.op = "index" -> [add |-> Unknown, addr |-> AddIndex(info[i.u[1]].addr, i.k, info[i.u[2]].add)]
    [] i.op = "add" -> InfoOf(PlusPoly(info[i.u[1]].add, info[i.u[2]].add, 1))
    [] i.op = "sub" -> InfoOf(PlusPoly(info[i.u[1]].add, info[i.u[2]].add, -1))
    [] i.op = "mul" -> InfoOf(TimesPoly(info[i.u[1]].add, info[i.u[2]].add))
    [] OTHER -> InfoOf(Unknown)
RegInfos(f, l) ==
  Fold(LAMBDA info, i : IF i.d = 0 THEN info ELSE (i.d :> RegInfo(info, i)) @@ info,
       <<>>, Concat([n \in DOMAIN VisitOrder(l, Top) |-> f.code[VisitOrder(l, Top)[n]]]))

-------------------------------------------------------------------------------
(***************************************************************************)
(* FindLoopVar.  A loop is [head, bbs, code, defs, vars, ind, red]: its    *)
(* header, blocks and instructions, the registers these define, the phis   *)
(* of the header, and those of them that are computed anew from their last *)
(* value: ind the induction variables, by a step that stays the same, and  *)
(* red the reductions, by any step and perhaps modulo a constant.          *)
(***************************************************************************)
InstrsIn(f, bs) == UNION {Range(f.code[b]) : b \in bs}

\* checkVars: one operand from before the loop, the other computed in it.
Outer(l, h, i) == {n \in DOMAIN i.u : i.t[n] # h /\ Dom(l.dom, i.t[n], h)}
Carried(f, defs, i, before, after) ==
  IF Cardinality(before) # 1 \/ Cardinality(after) # 1 THEN {}
  ELSE {[var |-> i.d, init |-> i.u[CHOOSE k \in before : TRUE], next |-> DefOf(f, i.u[n])] :
          n \in {n \in after : i.u[n] \in defs /\ DefOf(f, i.u[n]).op \in BinaryOps}}
CarriedBy(f, l, h, defs, i) == Carried(f, defs, i, Outer(l, h, i), DOMAIN i.u \ Outer(l, h, i))

Variable(c, i, mod) == [var |-> c.var, init |-> c.init, step |-> i.u[2], op |-> i.op, mod |-> mod]
Inductions(cs, defs) == {Variable(c, c.next, {}) : c \in {c \in cs : c.next.u[1] = c.var /\ c.next.u[2] \notin defs}}
Reduction(f, const, c) ==
  IF c.next.u[1] = c.var THEN {Variable(c, c.next, {})}
  ELSE IF c.next.op # "mod" \/ c.next.u[2] \notin DOMAIN const THEN {}
  ELSE {Variable(c, i, {const[c.next.u[2]]}) :
          i \in {i \in {DefOf(f, c.next.u[1])} : i.op \in BinaryOps /\ i.u[1] = c.var}}

LoopWith(f, h, bs, is, defs, phis, const, cs) ==
  [head |-> h, bbs |-> bs, code |-> is, defs |-> defs, vars |-> {i.d : i \in phis},
   ind |-> Inductions(cs, defs), red |-> UNION {Reduction(f, const, c) : c \in cs}]
LoopOver(f, l, h, const, bs, is, defs, phis) ==
  LoopWith(f, h, bs, is, defs, phis, const, UNION {CarriedBy(f, l, h, defs, i) : i \in phis})
LoopBlocks(f, l, h, const, bs, is) ==
  LoopOver(f, l, h, const, bs, is, {i.d : i \in is} \ {0}, {i \in Range(f.code[h]) : i.op = "phi"})
LoopIn(f, l, h, const, bs) == LoopBlocks(f, l, h, const, bs, InstrsIn(f, bs))
LoopOf(f, l, h, const) == LoopIn(f, l, h, const, {b \in l.live : InLoop(l, b, h)})

\* CmpExpr: s1 < s2, or > unless less, or equal if eq.
Compared(e, x, y) == (e.eq /\ x = y) \/ (e.less /\ x < y) \/ (~e.less /\ x > y)
Comparison(i) ==
  IF i.op \in {"less", "leq"} THEN {[s1 |-> i.u[1], s2 |-> i.u[2], less |-> TRUE, eq |-> i.op = "leq"]} ELSE {}
Negated(e) == [e EXCEPT !.less = ~@, !.eq = ~@]
Turned(e) == [e EXCEPT !.s1 = e.s2, !.s2 = e.s1, !.less = ~@]

\* checkLoopHeadExit: a loop that is left from its header alone.  s1 changes
\* in the loop and s2 does not.
Fits(lp, e) == e.s1 \in lp.defs /\ e.s2 \notin lp.defs
Oriented(lp, e) == IF Fits(lp, e) THEN {e} ELSE IF Fits(lp, Turned(e)) THEN {Turned(e)} ELSE {}
StaysWhile(f, lp, br, e) == Oriented(lp, IF br.t[1] \in lp.bbs THEN e ELSE Negated(e))
Leaving(l, lp) == {u \in Range(l.body[lp.head]) : \E v \in Range(l.exits[lp.head][u]) : v \notin lp.bbs}
ConditionBy(f, lp, br) == UNION {StaysWhile(f, lp, br, e) : e \in Comparison(DefOf(f, br.u[1]))}
Condition(f, l, lp) == IF Leaving(l, lp) # {lp.head} THEN {} ELSE ConditionBy(f, lp, Back(f.code[lp.head]))

\* get_ilr: the induction variable and its limit, if it counts by ones.  The
\* registers of the header may have to be of no use after the loop.
UsesAt(f, p, r) == Cardinality({n \in DOMAIN At(f, p).u : At(f, p).u[n] = r})
Uses(f, bs, r) == Fold(LAMBDA n, p : n + UsesAt(f, p, r), 0, Listed(UNION {{b} \X DOMAIN f.code[b] : b \in bs}))
UsedOutside(f, l, lp, r) == Uses(f, l.live \ lp.bbs, r) > 0
OnlyUsedIn(f, l, lp) == \A i \in Range(f.code[lp.head]) : i.d = 0 \/ ~UsedOutside(f, l, lp, i.d)
CountsBy(v, const, k) == v.op = "add" /\ v.step \in DOMAIN const /\ const[v.step] = k
IlrBy(lp, const, e) ==
  {[var |-> v.var, init |-> v.init, limit |-> e.s2, less |-> e.less, eq |-> e.eq] :
     v \in {v \in lp.ind : v.var = e.s1 /\ CountsBy(v, const, 1)}}
Ilr(f, l, lp, const) ==
  IF \E i \in Range(f.code[lp.head]) : i.op = "store" THEN {}
  ELSE UNION {IlrBy(lp, const, e) : e \in Condition(f, l, lp)}
IlrInside(f, l, lp, const) == IF OnlyUsedIn(f, l, lp) THEN Ilr(f, l, lp, const) ELSE {}

-------------------------------------------------------------------------------
(***************************************************************************)
(* maybe_eq: can two addresses be the same in different iterations?  The   *)
(* indices must have the same terms, of registers whose change from one    *)
(* iteration to another is a multiple of a step (0: it does not change);   *)
(* then they differ unless the constants are at least that far apart.      *)
(***************************************************************************)
RECURSIVE Gcd(_, _)
Gcd(a, b) == IF b = 0 THEN a ELSE Gcd(b, Compute2("mod", a, b))

ConstOf(e) == IF One \in DOMAIN e.cs THEN e.cs[One] ELSE 0
Terms(e) == DOMAIN e.cs \ {One}

\* Steps(r) has the step of r, or nothing.
\* Fault: constants that are just one step apart are taken for different.
MaybeFrom_TooNear(steps, distance) == steps = {} \/ Fold(Gcd, 0, Listed(steps)) < distance
MaybeFrom(steps, distance) == Fold(Gcd, 0, Listed(steps)) <= distance

MaybeEqPoly(v, w, Steps(_)) ==
  LET moving == UNION {{<<k, r>> : r \in {r \in DOMAIN k : 0 \notin Steps(r)}} : k \in Terms(v)}
  IN  \/ v.bad \/ w.bad
      \/ Terms(v) # Terms(w) \/ \E k \in Terms(v) : v.cs[k] # w.cs[k]
      \/ \E m \in moving : Steps(m[2]) = {} \/ m[1][m[2]] # 1
      \/ MaybeFrom(UNION {Steps(m[2]) : m \in moving}, Abs(ConstOf(v) - ConstOf(w)))

MaybeEq(a, b, Steps(_)) ==
  LET Apart(size) == size \in DOMAIN b.at /\ ~MaybeEqPoly(a.at[size], b.at[size], Steps)
      Missing(size) == size \notin DOMAIN b.at
  IN  IF a.bad \/ b.bad THEN TRUE ELSE IF a.base # b.base THEN FALSE
      ELSE IF Cardinality(DOMAIN a.at) # Cardinality(DOMAIN b.at) THEN TRUE
      ELSE \A size \in DOMAIN a.at : Apart(size) => \E s \in DOMAIN a.at : s < size /\ Missing(s)

\* dependent.  A store is compared with the loads and the stores after it.
StepsIn(lp, const, r) ==
  IF r \notin lp.defs THEN {0} ELSE {const[v.step] : v \in {v \in lp.ind : v.var = r /\ v.step \in DOMAIN const}}
AddressesOf(lp, op) == {i.u[1] : i \in {i \in lp.code : i.op = op}}
SilentCall(u, i) == i.k \in u.noLoad \cap u.noStore /\ Len(i.u) <= 4
Clashing(lp, info, rs, ws, Steps(_)) ==
  \E w \in ws : \E r \in rs \cup {x \in ws : w < x} : MaybeEq(info[w].addr, info[r].addr, Steps)
Dependent(u, lp, info, const) ==
  LET rs == AddressesOf(lp, "load")
      ws == AddressesOf(lp, "store")
      Steps(r) == StepsIn(lp, const, r)
  IN  \/ \E i \in lp.code : i.op = "call" /\ ~SilentCall(u, i)
      \/ (Cardinality(rs) + Cardinality(ws)) * Cardinality(ws) >= 100
      \/ Cardinality(lp.vars) # 1
      \/ Clashing(lp, info, rs, ws, Steps)

\* loop_parallel: the headers of the loops that are cut into slices.
Sliced(u, f, l, lp, info, const) ==
  (\E i \in IlrInside(f, l, lp, const) : i.less) /\ ~Dependent(u, lp, info, const)
SlicedIn(u, f, l, info, const) == {h \in l.heads : Sliced(u, f, l, LoopOf(f, l, h, const), info, const)}
ParallelLoops(u, f, l) == SlicedIn(u, f, l, RegInfos(f, l), Constants(f))
===============================================================================
