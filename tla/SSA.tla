---------------------------------- MODULE SSA ---------------------------------
(***************************************************************************)
(* Variables to registers: mem2reg (ir/opt/mem2reg.cpp), the construction  *)
(* of SSA form (ir/opt/ssa_constrcution.cpp) and the removal of            *)
(* definitions nobody needs (ir/opt/remove_unused_def.cpp).                *)
(***************************************************************************)
EXTENDS Flow

(***************************************************************************)
(* mem2reg_func: a local single variable becomes a value register, 0 at    *)
(* the entry; its loads and stores become copies.  value: object -> value  *)
(* register, addr: address register -> object.                             *)
(***************************************************************************)
PromoteInstr(acc, b, n) ==
  LET i == acc.f.code[b][n]
      o == IF i.op = "addr" THEN i.k ELSE 0
      single == o \in acc.f.single
      known == i.op \in {"load", "store"} /\ i.u[1] \in DOMAIN acc.addr
      v == acc.value[acc.addr[i.u[1]]]
  IN
  CASE single /\ o \in DOMAIN acc.value -> [acc EXCEPT !.addr = (i.d :> o) @@ @]
    [] single /\ o \notin DOMAIN acc.value ->
         [acc EXCEPT !.addr = (i.d :> o) @@ @, !.value = (o :> acc.f.regs + 1) @@ @, !.f.regs = @ + 1]
    [] known /\ i.op = "load" -> [acc EXCEPT !.f.code[b][n] = Unary("id", i.d, v)]
    [] known /\ i.op = "store" -> [acc EXCEPT !.f.code[b][n] = Unary("id", v, i.u[2])]
    [] OTHER -> acc

Promote(f) ==
  LET all == Concat([k \in DOMAIN f.order |->
               [n \in DOMAIN f.code[f.order[k]] |-> <<f.order[k], n>>]])
      done == Fold(LAMBDA acc, p : PromoteInstr(acc, p[1], p[2]),
                       [f |-> f, value |-> <<>>, addr |-> <<>>], all)
      regs == Range(done.value)
      zeros == [n \in 1 .. Cardinality(regs) |-> Const(Reverse(Sorted(regs))[n], 0)]
  IN  [f |-> [done.f EXCEPT !.code[f.entry] = zeros \o @], regs |-> regs]

-------------------------------------------------------------------------------
DefBlocks(f, r) == {p[1] : p \in {p \in DefPoints(f) : At(f, p).d = r}}

\* phi_insertion: the iterated dominance frontier of the definitions.
PhiBlocks(front, defs) ==
  LET RECURSIVE More(_)
      More(s) == LET t == s \cup UNION {front[b] : b \in s \cup defs} IN
                 IF t = s THEN s ELSE More(t)
  IN  More({})

(***************************************************************************)
(* varaible_renaming, block by block along the dominator tree.  reach is   *)
(* reaching_def, at is def_node; phis are the new phis by block, each with *)
(* the variable it stands for (origin_name).                               *)
(***************************************************************************)
Lookup(fn, x) == IF x \in DOMAIN fn THEN fn[x] ELSE 0

\* update_reaching_def: the nearest definition whose block dominates cur.
RECURSIVE Reaching(_, _, _, _)
Reaching(dom, acc, x, cur) ==
  IF x = 0 \/ (x \in DOMAIN acc.at /\ Dom(dom, acc.at[x], cur)) THEN x
  ELSE Reaching(dom, acc, Lookup(acc.reach, x), cur)

Update(dom, acc, r, cur) ==
  [acc EXCEPT !.reach = (r :> Reaching(dom, acc, Lookup(acc.reach, r), cur)) @@ @]

RenameInstr(dom, regs, acc, b, n) ==
  LET i == acc.f.code[b][n]
      used == IF i.op = "phi" THEN {} ELSE Range(i.u) \cap regs
      a1 == FoldSet(LAMBDA r, a : Update(dom, a, r, b), acc, used)
      a2 == [a1 EXCEPT !.f.code[b][n].u = Strict([k \in DOMAIN @ |-> IF @[k] \in used THEN a1.reach[@[k]] ELSE @[k]])]
      a3 == Update(dom, a2, i.d, b)
      new == a3.f.regs + 1
  IN  IF i.d \notin regs THEN a2
      ELSE [a3 EXCEPT !.f.regs = new, !.f.code[b][n].d = new, !.at = (new :> b) @@ @,
                      !.reach = (i.d :> new) @@ (new :> a3.reach[i.d]) @@ @]

\* The operand of phi n of block c for the edge from b.
PhiOperand(dom, regs, acc, b, c, n) ==
  LET i == acc.f.code[c][n]
      fresh == <<c, Len(acc.f.code[c]) - n>> \in DOMAIN acc.phis
      r == acc.phis[<<c, Len(acc.f.code[c]) - n>>]
      a == Update(dom, acc, r, b)
      mine == {k \in DOMAIN i.t : i.t[k] = b /\ i.u[k] \in regs}
      a2 == FoldSet(LAMBDA k, x : Update(dom, x, i.u[k], b), acc, mine)
  IN  IF i.op # "phi" THEN acc
      ELSE IF fresh
      THEN [a EXCEPT !.f.code[c][n].u = Append(@, a.reach[r]), !.f.code[c][n].t = Append(@, b)]
      ELSE [a2 EXCEPT !.f.code[c][n].u = Strict([k \in DOMAIN @ |-> IF k \in mine THEN a2.reach[@[k]] ELSE @[k]])]

RenameBlock(dom, regs, acc, b) ==
  LET a1 == Fold(LAMBDA a, n : RenameInstr(dom, regs, a, b, n), acc,
                     [n \in DOMAIN acc.f.code[b] |-> n])
  IN  Fold(LAMBDA a, c : Fold(LAMBDA x, n : PhiOperand(dom, regs, x, b, c, n), a,
                                      [n \in DOMAIN a.f.code[c] |-> n]),
               a1, Succ(a1.f, b))

\* ssa_construction for the registers regs.
Construct(f, regs) ==
  LET dom == DomTree(f)
      front == Strict([b \in Blocks(f) |-> Frontier(f, dom, b)])
      sites == Strict([r \in regs |-> PhiBlocks(front, DefBlocks(f, r))])
      Here(b) == Sorted({r \in regs : b \in sites[r]})
      withPhis == [f EXCEPT !.code = Strict([b \in DOMAIN @ |->
                     [n \in DOMAIN Here(b) |-> Phi(Here(b)[n], <<>>, <<>>)] \o @[b]])]
      \* a new phi is known by its distance from the end of the block
      phis == Strict([p \in UNION {{<<b, Len(withPhis.code[b]) - n>> : n \in DOMAIN Here(b)} : b \in Blocks(f)} |->
                 Here(p[1])[Len(withPhis.code[p[1]]) - p[2]]])
  IN  Fold(LAMBDA acc, b : RenameBlock(dom, regs, acc, b),
               [f |-> withPhis, phis |-> phis, reach |-> <<>>, at |-> <<>>],
               TreeOrder(dom, f.entry)).f

Mem2Reg(f) == LET p == Promote(f) IN Construct(p.f, p.regs)

-------------------------------------------------------------------------------
\* remove_unused_def_func: what stores, control and calls need, transitively.
Needed(f, keep) ==
  LET RECURSIVE Mark(_)
      Mark(ps) == LET regs == UNION {Range(At(f, p).u) : p \in ps}
                      t == ps \cup {p \in DefPoints(f) : At(f, p).d \in regs}
                  IN  IF t = ps THEN ps ELSE Mark(t)
  IN  Mark(keep)

\* noStore: the functions whose calls change nothing (CallInstr::no_store).
RemoveUnusedDef(f, noStore) ==
  LET roots == {p \in Points(f) : \/ At(f, p).op \in ControlOps \cup {"store"}
                                  \/ At(f, p).op = "call" /\ At(f, p).k \notin noStore}
      needed == Needed(f, roots)
  IN  [f EXCEPT !.code = Strict([b \in DOMAIN @ |->
         LET ns == Sorted({n \in DOMAIN @[b] : <<b, n>> \in needed})
         IN  Strict([k \in DOMAIN ns |-> @[b][ns[k]]])])]

-------------------------------------------------------------------------------
(***************************************************************************)
(* SSA form, as every pass between mem2reg and remove_phi relies on it:    *)
(* one definition of a register, above every use; a phi has one operand    *)
(* for every way into its block, defined above the end of that way; blocks *)
(* end in their only control instruction (checkIR, and what checkIR does   *)
(* not look at: dominance).                                                *)
(***************************************************************************)
SSAForm(f) ==
  LET dom == DomTree(f)
      defs == DefPoints(f)
      live == Reachable(f)
      Def(r) == CHOOSE p \in defs : At(f, p).d = r
      Above(p, q) == IF p[1] = q[1] THEN p[2] < q[2] ELSE Dom(dom, p[1], q[1])
  IN  /\ \A p, q \in defs : At(f, p).d = At(f, q).d => p = q
      /\ \A b \in Blocks(f) :
           /\ f.code[b] # <<>> /\ Back(f.code[b]).op \in ControlOps
           /\ \A n \in 1 .. Len(f.code[b]) - 1 : f.code[b][n].op \notin ControlOps
      /\ \A p \in Points(f) : Range(At(f, p).u) \subseteq DefinedRegs(f)
      /\ \A p \in {p \in Points(f) : p[1] \in live} :
           LET i == At(f, p) IN
           IF i.op = "phi"
           THEN /\ Range(i.t) = Preds(f, p[1]) /\ Cardinality(Range(i.t)) = Len(i.t)
                /\ \A k \in DOMAIN i.u : Dom(dom, Def(i.u[k])[1], i.t[k])
           ELSE \A k \in DOMAIN i.u : Above(Def(i.u[k]), p)
===============================================================================
