------------------------------- MODULE Numbering ------------------------------
(***************************************************************************)
(* Global value numbering (ir/opt/gvn.cpp) and global code motion          *)
(* (ir/opt/gcm.cpp).                                                       *)
(***************************************************************************)
EXTENDS BlockOps

(***************************************************************************)
(* GVNContext: f is the code so far, gone the points of removed            *)
(* instructions; uses holds the points that used a register at the start,  *)
(* and only those are rewritten when the register is replaced.  known maps *)
(* what is computed to the register that has it, value a register to its   *)
(* constant: both hold what dominates the current block.                   *)
(***************************************************************************)
Commutable == {"add", "mul", "eq", "neq"}

\* What an instruction computes, as a key of the tables.
Key(i) ==
  CASE i.op \in UnaryOps \cup BinaryOps -> <<i.op>> \o i.u
    [] i.op = "index" -> <<i.op>> \o i.u \o <<i.k>>
    [] i.op \in {"const", "arg", "addr"} -> <<i.op, i.k>>

\* is_useless_compute: the operand that is the result, 0 if there is none.
Useless(i, value) ==
  LET Is(k, c) == i.u[k] \in DOMAIN value /\ value[i.u[k]] = c IN
  CASE i.op = "id" -> i.u[1]
    [] i.op = "add" /\ Is(1, 0) -> i.u[2]
    [] i.op = "mul" /\ Is(1, 1) -> i.u[2]
    [] i.op \in {"add", "sub", "index"} /\ Is(2, 0) -> i.u[1]
    [] i.op \in {"mul", "div"} /\ Is(2, 1) -> i.u[1]
    [] OTHER -> 0

\* find_same_value: the one register a phi selects, 0 if there are several.
SameValue(i) ==
  LET rs == Range(i.u) \ {i.d} IN IF Cardinality(rs) = 1 THEN CHOOSE r \in rs : TRUE ELSE 0

Replace(t, p, r) ==
  LET From(x) == IF x = At(t.f, p).d THEN r ELSE x
      us == t.uses[At(t.f, p).d]
  IN  [t EXCEPT !.gone = @ \cup {p},
                !.f.code = Strict([b \in DOMAIN @ |-> Strict([n \in DOMAIN @[b] |->
                   IF <<b, n>> \in us THEN MapUse(@[b][n], From) ELSE @[b][n]])])]

\* process_scalar: the constant c defined at p, with its first definition above.
NumberConst(t, p, c) ==
  LET d == At(t.f, p).d IN
  IF <<"const", c>> \in DOMAIN t.known THEN Replace(t, p, t.known[<<"const", c>>])
  ELSE [t EXCEPT !.known = (<<"const", c>> :> d) @@ @, !.value = (d :> c) @@ @, !.f.code[p[1]][p[2]] = Const(d, c)]

NumberInstr(t, p) ==
  LET i == At(t.f, p)
      folds == i.op \in UnaryOps \cup BinaryOps /\ \A k \in DOMAIN i.u : i.u[k] \in DOMAIN t.value
      V(k) == t.value[i.u[k]]
      both == {Key(i)} \cup IF i.op \in Commutable THEN {Key([i EXCEPT !.u = Reverse(@)])} ELSE {}
  IN
  CASE i.op = "const" -> NumberConst(t, p, i.k)
    [] i.op = "phi" -> IF SameValue(i) # 0 THEN Replace(t, p, SameValue(i)) ELSE t
    [] i.op \in {"load", "store", "call"} \cup ControlOps -> t
    [] i.op = "index" /\ Useless(i, t.value) # 0 -> Replace(t, p, i.u[1])
    [] OTHER ->
         IF Key(i) \in DOMAIN t.known THEN Replace(t, p, t.known[Key(i)])
         ELSE IF folds /\ i.op \in UnaryOps THEN NumberConst(t, p, Compute1(i.op, V(1)))
         ELSE IF folds THEN NumberConst(t, p, Compute2(i.op, V(1), V(2)))
         ELSE IF Useless(i, t.value) # 0 THEN Replace(t, p, Useless(i, t.value))
         ELSE [t EXCEPT !.known = [k \in both |-> i.d] @@ @]

RECURSIVE NumberInstrs(_, _, _), NumberBlock(_, _, _), NumberAll(_, _, _)
NumberInstrs(t, b, n) ==
  IF n > Len(t.f.code[b]) THEN t ELSE NumberInstrs(NumberInstr(t, <<b, n>>), b, n + 1)

NumberAll(t, dom, bs) == IF bs = <<>> THEN t ELSE NumberAll(NumberBlock(t, dom, bs[1]), dom, Tail(bs))

\* dfs: a block, then what it dominates; then the tables are as before.
NumberBlock(t, dom, b) ==
  [NumberAll(NumberInstrs(t, b, 1), dom, dom.ch[b]) EXCEPT !.known = t.known, !.value = t.value]

GVN(f) ==
  LET uses == Strict([r \in 0 .. f.regs |-> {p \in Points(f) : r \in Range(At(f, p).u)}])
      t == NumberBlock([f |-> f, gone |-> {}, uses |-> uses, known |-> <<>>, value |-> <<>>], DomTree(f), f.entry)
  IN  [t.f EXCEPT !.code = Strict([b \in DOMAIN @ |->
         LET ns == SelectSeq([n \in DOMAIN @[b] |-> n], LAMBDA n : <<b, n>> \notin t.gone)
         IN  Strict([k \in DOMAIN ns |-> @[b][ns[k]]])])]

-------------------------------------------------------------------------------
(***************************************************************************)
(* Code motion.  An instruction is known by the register it defines:       *)
(* only those move.  place: where register r is defined, uses: where it is *)
(* used.  Of instructions that move to the front of one block together,    *)
(* those that use others come second, as in the code; the order is         *)
(* otherwise by register.                                                  *)
(***************************************************************************)
Pinned(i) ==
  i.op \in {"arg", "phi", "load", "store", "call"} \cup ControlOps /\ ~(i.op = "call" /\ i.k \in PureLib)

BlockOf(f, r) == CHOOSE b \in Blocks(f) : \E n \in DOMAIN f.code[b] : f.code[b][n].d = r
Without(f, b, r) == [f EXCEPT !.code[b] = SelectSeq(@, LAMBDA i : i.d # r)]

\* move_instr to the front, or before the control instruction.
MoveInstr(f, r, b, inFront) ==
  LET i == DefOf(f, r)
      g == Without(f, BlockOf(f, r), r)
  IN  [g EXCEPT !.code[b] = IF inFront THEN <<i>> \o @ ELSE Push1(@, <<i>>)]

\* schedule_early: below the deepest definition of an operand.
RECURSIVE Early(_, _, _), EarlyAll(_, _, _)
EarlyAll(t, dom, rs) == IF rs = <<>> THEN t ELSE EarlyAll(Early(t, dom, rs[1]), dom, Tail(rs))
Early(t, dom, r) ==
  LET i == DefOf(t.f, r)
      t1 == EarlyAll([t EXCEPT !.seen = @ \cup {r}], dom, i.u)
      bs == {t.f.entry} \cup {BlockOf(t1.f, i.u[k]) : k \in DOMAIN i.u}
      b == CHOOSE b \in bs : \A c \in bs : Depth(dom, c) <= Depth(dom, b)
  IN  IF r \in t.seen \/ Pinned(i) THEN t
      ELSE IF b = BlockOf(t1.f, r) THEN t1
      ELSE [t1 EXCEPT !.f = MoveInstr(@, r, b, FALSE)]

\* LCA of a set of blocks.
Lowest(dom, bs) ==
  LET above == {a \in DOMAIN dom.above : \A b \in bs : Dom(dom, a, b)} IN
  CHOOSE a \in above : \A c \in above : Dom(dom, c, a)

\* Where register r is used: a phi uses it at the end of the blocks it comes from.
UseBlocks(f, r) ==
  UNION {LET i == At(f, p) IN
         IF i.op = "phi" THEN {i.t[k] : k \in {k \in DOMAIN i.u : i.u[k] = r}} ELSE {p[1]}
         : p \in {p \in Points(f) : r \in Range(At(f, p).u)}}
Users(f, r) ==
  {At(f, p).d : p \in {p \in Points(f) : r \in Range(At(f, p).u) /\ At(f, p).d # 0}}

\* schedule_late: between there and the uses, in the outermost loop.
RECURSIVE Late(_, _, _, _), LateAll(_, _, _, _)
LateAll(t, dom, depth, rs) ==
  IF rs = <<>> THEN t ELSE LateAll(Late(t, dom, depth, rs[1]), dom, depth, Tail(rs))
Late(t, dom, depth, r) ==
  LET t1 == LateAll([t EXCEPT !.seen = @ \cup {r}], dom, depth, Sorted(Users(t.f, r)))
      here == BlockOf(t1.f, r)
      low == Lowest(dom, UseBlocks(t1.f, r))
      way == {b \in dom.above[low] : SDom(dom, here, b)}
      best == CHOOSE b \in way : \A c \in way : \/ depth[b] < depth[c]
                                                \/ depth[b] = depth[c] /\ Dom(dom, c, b)
  IN  IF r \in t.seen THEN t
      ELSE IF Pinned(DefOf(t.f, r)) \/ way = {} THEN t1
      ELSE [t1 EXCEPT !.f = MoveInstr(@, r, best, TRUE)]

\* global_code_motion_func.
CodeMotion(f) ==
  LET dom == DomTree(f)
      depth == LoopDepth(f, dom)
      pins == Concat([k \in DOMAIN f.order |-> SelectSeq(f.code[f.order[k]], Pinned)])
      \* schedule_early and schedule_late start at the pinned instructions
      early == EarlyAll([f |-> f, seen |-> {}], dom, Concat([k \in DOMAIN pins |-> pins[k].u])).f
      regs == SelectSeq([k \in DOMAIN pins |-> pins[k].d], LAMBDA r : r # 0)
  IN  LateAll([f |-> early, seen |-> {}], dom, depth, regs).f
===============================================================================
