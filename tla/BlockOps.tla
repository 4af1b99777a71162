------------------------------- MODULE BlockOps -------------------------------
(***************************************************************************)
(* Rewriting blocks (ir/opt/bb_ops.cpp): branches with a known condition,  *)
(* blocks no return is reached from, blocks with nothing in them, critical *)
(* edges, and leaving SSA form.                                            *)
(***************************************************************************)
EXTENDS SSA

Facts(fn, b) == IF b \in DOMAIN fn THEN fn[b] ELSE <<>>

NoPhiFrom(is, p) ==
  Strict([n \in DOMAIN is |-> IF is[n].op = "phi" THEN PhiFrom(is[n], Range(is[n].t) \ {p}) ELSE is[n]])

\* Fault: the other target keeps the phi operand of the edge.
RemoveBranch_KeepOperand(f, b, cond) ==
  LET c == Back(f.code[b]) IN
  [f EXCEPT !.code[b] = NewControl(@, Jump(IF cond # 0 THEN c.t[1] ELSE c.t[2]))]

\* remove_branch.
RemoveBranch(f, b, cond) ==
  LET c == Back(f.code[b])
      other == IF cond # 0 THEN c.t[2] ELSE c.t[1]
  IN  [f EXCEPT !.code[b] = NewControl(@, Jump(IF cond # 0 THEN c.t[1] ELSE c.t[2])),
                !.code[other] = NoPhiFrom(@, b)]

(***************************************************************************)
(* CondProp: a condition known on the way into a block.  A fact <<r, c>>   *)
(* holds in block c only, or everywhere below (c = 0).                     *)
(***************************************************************************)
CondFacts(in, b) ==
  LET here == {k \in DOMAIN in : k[2] \in {0, b}} IN
  Strict([k \in {<<p[1], 0>> : p \in here} |->
     in[IF <<k[1], b>> \in here THEN <<k[1], b>> ELSE k]])

CondPropBlock(acc, b) ==
  LET facts == CondFacts(Facts(acc.in, b), b)
      c == Back(acc.f.code[b])
      known == c.op = "br" /\ <<c.u[1], 0>> \in DOMAIN facts
  IN  CASE known -> [acc EXCEPT !.out = (b :> facts) @@ @, !.f = RemoveBranch(@, b, facts[<<c.u[1], 0>>])]
        [] c.op = "br" /\ ~known ->
             [acc EXCEPT !.out = (b :> ((<<c.u[1], c.t[1]>> :> 1) @@ (<<c.u[1], c.t[2]>> :> 0) @@ facts)) @@ @]
        [] c.op # "br" -> [acc EXCEPT !.out = (b :> facts) @@ @]

CondProp(f) ==
  LET l == Loops(f) IN
  Fold(LAMBDA acc, ev : IF ev[1] = "block" THEN CondPropBlock(acc, ev[2]) ELSE ForwardEdge(l, acc, ev),
           [f |-> f, in |-> <<>>, out |-> <<>>, loopOut |-> <<>>], ForwardEvents(l, Top)).f

SimplifyBranch(f) ==
  Fold(LAMBDA g, b :
             LET c == Back(g.code[b]) IN
             IF c.op = "br" /\ DefOf(g, c.u[1]).op = "const" THEN RemoveBranch(g, b, DefOf(g, c.u[1]).k) ELSE g,
           CondProp(f), f.order)

-------------------------------------------------------------------------------
\* remove_unused_BB: what no return is reached from goes, infinite loops too.
RemoveUnusedBB(f) ==
  LET used == Returnable(f)
      Cut(is) ==
        LET js == Strict([n \in DOMAIN is |-> IF is[n].op = "phi" THEN PhiFrom(is[n], used) ELSE is[n]])
            c == Back(is)
        IN  CASE c.op = "br" /\ c.t[1] \notin used -> NewControl(js, Jump(c.t[2]))
              [] c.op = "br" /\ c.t[1] \in used /\ c.t[2] \notin used -> NewControl(js, Jump(c.t[1]))
              [] OTHER -> js
      new == f.bbs + 1
  IN  IF used # {}
      THEN [f EXCEPT !.order = SelectSeq(@, LAMBDA b : b \in used), !.code = Strict([b \in used |-> Cut(f.code[b])])]
      ELSE [f EXCEPT !.order = <<new>>, !.entry = new, !.bbs = new, !.regs = @ + 1,
                     !.code = new :> <<Const(f.regs + 1, 0), Return(f.regs + 1)>>]

\* code_reorder: the blocks in the order DAG_IR visits them.
CodeReorder(f) ==
  LET l == Loops(f) IN [f EXCEPT !.order = VisitOrder(l, Top)]

-------------------------------------------------------------------------------
(***************************************************************************)
(* remove_trivial_BB.  First, what a block with one predecessor has before *)
(* its control instruction moves up, if that one only jumps here.          *)
(***************************************************************************)
MoveUp(f, b, prev) ==
  LET is == f.code[b]
      stop == Min({n \in DOMAIN is : is[n].op \in ControlOps \cup {"phi"}})
      p == CHOOSE p \in prev[b] : TRUE
  IN  IF Cardinality(prev[b]) # 1 THEN f
      ELSE IF Back(f.code[p]).op # "jump" THEN f
      ELSE [f EXCEPT !.code[p] = Push1(@, SubSeq(is, 1, stop - 1)), !.code[b] = SubSeq(is, stop, Len(is))]

\* Fault: both empty targets of a branch go.
KeptTargets_None(f, trivial) == [first |-> {}, after |-> {}]

\* n1 and n2: targets that stay so that no branch gets two equal targets.
KeptTargets(f, trivial) ==
  LET brs == {Back(f.code[b]) : b \in {b \in Blocks(f) : Back(f.code[b]).op = "br"}} IN
  [first |-> {c.t[1] : c \in {c \in brs : {c.t[1], c.t[2]} \subseteq trivial}},
   after |-> {c.t[2] : c \in {c \in brs : c.t[1] \in trivial /\ c.t[2] \notin trivial}}
               \cup {c.t[1] : c \in {c \in brs : c.t[1] \notin trivial /\ c.t[2] \in trivial}}]

RECURSIVE Follow(_, _)
Follow(next, b) == IF b \in DOMAIN next THEN Follow(next, next[b]) ELSE b

RemoveTrivialBB(f) ==
  LET prev == Strict([b \in Blocks(f) |-> Preds(f, b)])
      g == Fold(LAMBDA acc, b : MoveUp(acc, b, prev), f, Reverse(f.order))
      trivial == {b \in Blocks(f) : Cardinality(prev[b]) = 1 /\ Len(g.code[b]) = 1}
      kept == KeptTargets(g, trivial)
      gone == {b \in trivial : /\ b \notin kept.first
                               /\ Back(g.code[b]).op = "jump" /\ Back(g.code[b]).t[1] \notin kept.after}
      to == Strict([b \in gone |-> Back(g.code[b]).t[1]])
      from == Strict([b \in gone |-> CHOOSE p \in prev[b] : TRUE])
      Map(i) == MapBB(i, LAMBDA b : IF i.op = "phi" THEN Follow(from, b) ELSE Follow(to, b))
      h == MapCode(g, Map)
  IN  [h EXCEPT !.order = SelectSeq(@, LAMBDA b : b \notin gone),
                !.code = Strict([b \in Blocks(g) \ gone |-> @[b]])]

\* simplify_BB.
SimplifyBB(f) == RemoveTrivialBB(CodeReorder(RemoveUnusedBB(SimplifyBranch(f))))

-------------------------------------------------------------------------------
\* before_gcm_func: a block of its own on every critical edge.
BeforeGcm(f) ==
  LET edges == {e \in Blocks(f) \X Blocks(f) :
                  /\ e[2] \in Range(Succ(f, e[1]))
                  /\ Len(Succ(f, e[1])) > 1 /\ Cardinality(Preds(f, e[2])) > 1}
      Split(g, e) ==
        LET z == g.bbs + 1
            Old(b) == IF b = e[2] THEN z ELSE b
            From(b) == IF b = e[1] THEN z ELSE b
            h == WithBlock(g, z, <<Jump(e[2])>>)
        IN  [h EXCEPT !.code[e[1]] = NewControl(@, MapBB(Back(@), Old)),
                      !.code[e[2]] = Strict([n \in DOMAIN @ |-> IF @[n].op = "phi" THEN MapBB(@[n], From) ELSE @[n]])]
  IN  Fold(Split, f, Listed(edges))

-------------------------------------------------------------------------------
(***************************************************************************)
(* remove_phi: the phis of a block are copies <<from, to>> to be made at   *)
(* once on every edge.  Serial orders them: first copies to a register no  *)
(* copy reads any more; loc[a] is a place that has the value of a.  Left   *)
(* are cycles, broken at a register whose value is somewhere else as well, *)
(* or through the new register n.                                          *)
(***************************************************************************)
\* Fault: cycles are taken for trees.
Cycles_Ignored(ps, pred, loc, n) == <<>>

RECURSIVE Trees(_, _, _, _, _)
Trees(pred, ready, deg, loc, out) ==
  IF ready = <<>> THEN [loc |-> loc, out |-> out]
  ELSE LET b == Last(ready)
           a == pred[b]
           d == [deg EXCEPT ![a] = @ - 1]
           again == IF d[a] = 0 /\ a \in DOMAIN pred THEN <<a>> ELSE <<>>
       IN  Trees(pred, Front(ready) \o again, d, (a :> b) @@ loc, Append(out, <<a, b>>))

RECURSIVE CycleFrom(_, _, _)
CycleFrom(pred, b, x) == IF pred[x] = b THEN <<x>> ELSE <<x>> \o CycleFrom(pred, b, pred[x])

\* Is b on a cycle of copies?
OnCycle(pred, b) ==
  LET Up[k \in 0 .. Cardinality(DOMAIN pred)] ==
        IF k = 0 THEN b ELSE IF Up[k - 1] \in DOMAIN pred THEN pred[Up[k - 1]] ELSE 0
  IN  \E k \in 1 .. Cardinality(DOMAIN pred) : Up[k] = b

\* Each register of the stack is copied to the one before it; the last one stays.
Unwound(ready) == [k \in 1 .. Len(ready) - 1 |-> <<ready[k + 1], ready[k]>>]

\* The stack is not emptied between two cycles: what the last one left, the place
\* of its value, is at the top of the next and is overwritten.
Cycles(ps, pred, loc, n) ==
  LET Break(acc, b, src) ==
        LET ready == acc.ready \o CycleFrom(pred, b, b) \o <<src>>
        IN  [done |-> acc.done \cup Range(CycleFrom(pred, b, b)), ready |-> <<src>>,
             out |-> acc.out \o (IF src = n THEN <<<<b, n>>>> ELSE <<>>) \o Unwound(ready)]
      Rest(start, withLoc) ==
        Fold(LAMBDA acc, p :
                   IF p[2] \in acc.done \/ (withLoc /\ p[2] \notin DOMAIN loc) THEN acc
                   ELSE Break(acc, p[2], IF withLoc THEN loc[p[2]] ELSE n), start, ps)
      \* what Trees has copied from everywhere it is needed is no longer read
      trees == {p[2] : p \in {q \in Range(ps) : ~OnCycle(pred, q[2])}}
  IN  Rest(Rest([done |-> trees, ready |-> <<>>, out |-> <<>>], TRUE), FALSE).out

Serial(ps, n) ==
  LET pred == Strict([b \in {p[2] : p \in Range(ps)} |-> (CHOOSE p \in Range(ps) : p[2] = b)[1]])
      Deg(a) == Cardinality({b \in DOMAIN pred : pred[b] = a})
      deg == Strict([a \in DOMAIN pred \cup Range(pred) |-> Deg(a)])
      ready == SelectSeq([k \in DOMAIN ps |-> ps[k][2]], LAMBDA b : deg[b] = 0)
      tree == Trees(pred, ready, deg, <<>>, <<>>)
  IN  tree.out \o Cycles(ps, pred, tree.loc, n)

RemovePhi(f) ==
  LET Copies(p, b) ==
        LET mine(n) == LET i == f.code[b][n]
                           k == CHOOSE k \in DOMAIN i.t : i.t[k] = p
                       IN  <<i.u[k], i.d>>
            phis == SelectSeq([n \in DOMAIN f.code[b] |-> n],
                              LAMBDA n : f.code[b][n].op = "phi" /\ p \in Range(f.code[b][n].t))
        IN  SelectSeq([k \in DOMAIN phis |-> mine(phis[k])], LAMBDA c : c[1] # c[2])
      edges == {e \in Blocks(f) \X Blocks(f) : e[2] \in Range(Succ(f, e[1])) /\ Copies(e[1], e[2]) # <<>>}
      bare == [f EXCEPT !.code = Strict([b \in DOMAIN @ |-> SelectSeq(@[b], LAMBDA i : i.op # "phi")])]
      Insert(g, e) ==
        LET z == g.bbs + 1
            n == g.regs + 1
            cs == Serial(Copies(e[1], e[2]), n)
            Old(b) == IF b = e[2] THEN z ELSE b
            h == WithBlock(g, z, [k \in DOMAIN cs |-> Unary("id", cs[k][2], cs[k][1])] \o <<Jump(e[2])>>)
        IN  [h EXCEPT !.regs = n, !.code[e[1]] = NewControl(@, MapBB(Back(@), Old))]
  IN  Fold(Insert, bare, Listed(edges))

-------------------------------------------------------------------------------
\* What b does is done at the end of each block that jumps there.
MergeInto(f, ps, b) ==
  Fold(LAMBDA g, p : [g EXCEPT !.code[p] = Front(@) \o f.code[b]], f, Listed(ps))

\* merge_BB: short blocks that are only jumped to go, until none is left.
RECURSIVE MergeBB(_)
MergeBB(f) ==
  LET prev == Strict([b \in Blocks(f) |-> Preds(f, b)])
      One(acc, b) ==
        LET stays == \/ b = acc.f.entry \/ Len(acc.f.code[b]) > 3
                     \/ \E p \in prev[b] : p \in acc.del \/ p = b \/ Back(acc.f.code[p]).op # "jump"
        IN  IF stays THEN acc ELSE [f |-> MergeInto(acc.f, prev[b], b), del |-> acc.del \cup {b}]
      r == Fold(One, [f |-> f, del |-> {}], f.order)
  IN  IF r.del = {} THEN f
      ELSE MergeBB([r.f EXCEPT !.order = SelectSeq(@, LAMBDA b : b \notin r.del),
                               !.code = Strict([b \in DOMAIN @ \ r.del |-> @[b]])])
===============================================================================
