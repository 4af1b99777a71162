--------------------------------- MODULE Calls --------------------------------
(***************************************************************************)
(* What is done about calls: the call graph and its uses                   *)
(* (ir/opt/call_graph.cpp), inlining (ir/opt/func_inline.cpp), and the     *)
(* globals only main has to do with (ir/opt/global_to_local.cpp).          *)
(***************************************************************************)
EXTENDS Numbering

CONSTANTS
  CacheSize,     \* N, the entries of the table of a cached function
  CachePrime     \* P, what their keys are taken modulo

OpAt(f, p) == At(f, p).op
CallPoints(f) == {p \in Points(f) : OpAt(f, p) = "call"}

\* The functions f calls, and all that are called in the end.
Callees(f) == {k \in {At(f, p).k : p \in CallPoints(f)} : k > 0}
RECURSIVE CalledFrom(_, _)
CalledFrom(u, ks) ==
  LET more == ks \cup UNION {Callees(u.fn[k]) : k \in ks} IN IF more = ks THEN ks ELSE CalledFrom(u, more)

\* isPure: the functions that never do op and call no library function but pure ones.
NeverDo(u, op) ==
  {k \in DOMAIN u.fn : \A j \in CalledFrom(u, {k}) : \A p \in Points(u.fn[j]) :
     OpAt(u.fn[j], p) # op /\ (OpAt(u.fn[j], p) = "call" => At(u.fn[j], p).k > 0 \/ At(u.fn[j], p).k \in PureLib)}
BuildPure(u) ==
  [u EXCEPT !.noStore = NeverDo(u, "store") \cup PureLib, !.noLoad = NeverDo(u, "load") \cup PureLib]

(***************************************************************************)
(* const_prop, for a function that one call calls: a constant argument     *)
(* moves into the function, one that repeats an earlier one is taken from  *)
(* there, and what then ends the list is no longer handed over.            *)
(***************************************************************************)
Sites(u, k) == UNION {{<<j, p>> : p \in {p \in CallPoints(u.fn[j]) : At(u.fn[j], p).k = k}} : j \in DOMAIN u.fn}

PropagateArgs(u, k, j, p) ==
  LET i == At(u.fn[j], p)
      Def(n) == DefOf(u.fn[j], i.u[n])
      First(n) == Min({m \in DOMAIN i.u : i.u[m] = i.u[n]})
      own == {n \in DOMAIN i.u : Def(n).op # "const" /\ First(n) = n}
      Inside(x) == IF x.op # "arg" THEN x
                   ELSE IF Def(x.k).op = "const" THEN Const(x.d, Def(x.k).k) ELSE Arg(x.d, First(x.k))
      shorter == [u EXCEPT !.fn[j].code[p[1]][p[2]].u = SubSeq(@, 1, Max({0} \cup own))]
  IN  IF own = DOMAIN i.u THEN u ELSE [shorter EXCEPT !.fn[k] = MapCode(@, Inside)]

ConstProp(u) ==
  Fold(LAMBDA v, k : LET s == Sites(v, k) IN
         IF Cardinality(s) = 1 THEN LET c == CHOOSE c \in s : TRUE IN PropagateArgs(v, k, c[1], c[2]) ELSE v,
       u, u.order)

\* remove_unused_ret: a result nobody uses is 0.  Callers come first.
UsedResults(u, j) ==
  LET f == u.fn[j]
      used == UNION {Range(At(f, p).u) : p \in Points(f)}
  IN  {At(f, p).k : p \in {p \in CallPoints(f) : At(f, p).d \in used}}

ReturnZero(u, k) ==
  LET f == u.fn[k]
      rets == {b \in Blocks(f) : Back(f.code[b]).op = "ret" /\ DefOf(f, Back(f.code[b]).u[1]).op # "const"}
      b == CHOOSE b \in rets : TRUE
      zero == f.regs + 1
      g == [f EXCEPT !.regs = zero, !.code[b] = Front(@) \o <<Const(zero, 0), Return(zero)>>]
  IN  IF rets = {} THEN u ELSE [u EXCEPT !.fn[k] = RemoveUnusedDef(g, u.noStore)]

RemoveUnusedRet(u) ==
  Fold(LAMBDA acc, k : LET used == acc.used \cup UsedResults(acc.u, k) IN
         [used |-> used, u |-> IF k \in used THEN acc.u ELSE ReturnZero(acc.u, k)],
       [u |-> u, used |-> {u.main}], Reverse(u.order)).u

-------------------------------------------------------------------------------
(***************************************************************************)
(* tail_rec_to_loop.  A block that ends in a call of the function itself   *)
(* and hands its result to the return jumps to the old entry instead; the  *)
(* arguments become phis there, and a new entry has them first.            *)
(***************************************************************************)
TailBlocks(f, k, phi) ==
  {b \in Range(phi.t) : LET is == f.code[b]
                            n == Len(is)
                        IN  /\ n >= 2 /\ is[n].op = "jump" /\ is[n - 1].op = "call" /\ is[n - 1].k = k
                            /\ \E m \in DOMAIN phi.t : phi.t[m] = b /\ phi.u[m] = is[n - 1].d}

LoopFrom(f, bb, tails) ==
  LET args == {At(f, p) : p \in {p \in Points(f) : OpAt(f, p) = "arg"}}
      ids == Sorted({i.k : i \in args})
      Given(n) == f.regs + 2 * n - 1
      Here(n) == f.regs + 2 * n
      To(r) == IF \E i \in args : i.d = r
               THEN Here(CHOOSE n \in DOMAIN ids : \E i \in args : i.d = r /\ i.k = ids[n]) ELSE r
      from == Listed(tails)
      Handed(n, b) == To(f.code[b][Len(f.code[b]) - 1].u[ids[n]])
      phis == [n \in DOMAIN ids |-> Phi(Here(n), <<Given(n)>> \o Strict([m \in DOMAIN from |-> Handed(n, from[m])]),
                                        <<f.bbs + 1>> \o from)]
      Rewritten(b) == LET is == IF b \in tails THEN SubSeq(f.code[b], 1, Len(f.code[b]) - 2) \o <<Jump(f.entry)>>
                                ELSE IF b = bb THEN <<PhiFrom(f.code[b][1], Range(f.code[b][1].t) \ tails), f.code[b][2]>>
                                ELSE f.code[b]
                          js == [n \in DOMAIN is |-> MapUse(is[n], To)]
                      IN  IF b = f.entry THEN Reverse(Strict(phis)) \o js ELSE js
      g == [f EXCEPT !.regs = @ + 2 * Len(ids), !.code = Strict([b \in DOMAIN @ |-> Strict(Rewritten(b))])]
  IN  [WithBlock(g, f.bbs + 1, [n \in DOMAIN ids |-> Arg(Given(n), ids[n])] \o <<Jump(f.entry)>>)
         EXCEPT !.entry = f.bbs + 1]

TailRecToLoop(f, k) ==
  LET bb == CHOOSE b \in Blocks(f) : Back(f.code[b]).op = "ret"
      phi == f.code[bb][1]
      tails == TailBlocks(f, k, phi)
  IN  IF Len(f.code[bb]) # 2 \/ phi.op # "phi" THEN f
      ELSE IF Cardinality(Preds(f, bb)) # Len(phi.t) \/ tails = {} THEN f
      ELSE LoopFrom(f, bb, tails)

TailRecursion(u) == [u EXCEPT !.fn = Strict([k \in DOMAIN @ |-> TailRecToLoop(@[k], k)])]

\* call_graph, with the passes that are not disabled.
CallGraph(u, disabled) ==
  LET a == IF "cgcp" \in disabled THEN u ELSE ConstProp(u)
      b == IF "pure" \in disabled THEN a ELSE BuildPure(a)
      c == IF "rur" \in disabled THEN b ELSE RemoveUnusedRet(b)
  IN  IF "cg" \in disabled THEN u ELSE IF "trtl" \in disabled THEN c ELSE TailRecursion(c)

RemoveUnusedFunc(u) ==
  LET used == CalledFrom(u, {u.main}) IN
  [u EXCEPT !.order = SelectSeq(@, LAMBDA k : k \in used), !.fn = Strict([k \in used |-> @[k]])]

-------------------------------------------------------------------------------
(***************************************************************************)
(* move_func: the call at p of function k is replaced by a copy of what it *)
(* calls.  Registers, blocks and local objects of the copy are new; what   *)
(* follows the call goes to a block of its own.                            *)
(***************************************************************************)
MoveFunc(u, k, p) ==
  LET f == u.fn[k]
      call == At(f, p)
      son == u.fn[call.k]
      objs == Sorted(DOMAIN son.size)
      Reg(r) == f.regs + r
      BBOf(b) == f.bbs + (CHOOSE n \in DOMAIN son.order : son.order[n] = b)
      nxt == f.bbs + Len(son.order) + 1
      ObjOf(n) == u.objects + n
      obj == Strict([o \in DOMAIN son.size |-> ObjOf(CHOOSE n \in DOMAIN objs : objs[n] = o)])
      Copied(i) ==
        LET d == IF i.d = 0 THEN 0 ELSE Reg(i.d) IN
        CASE i.op = "arg" -> <<Unary("id", d, call.u[i.k])>>
          [] i.op = "ret" -> <<Unary("id", call.d, Reg(i.u[1])), Jump(nxt)>>
          [] i.op = "addr" -> <<Addr(d, IF i.k \in DOMAIN obj THEN obj[i.k] ELSE i.k)>>
          [] OTHER -> <<[MapBB(MapUse(i, Reg), BBOf) EXCEPT !.d = d]>>
      copy == Strict([b \in {BBOf(c) : c \in Blocks(son)} |->
                 Concat(Strict([n \in DOMAIN son.code[son.order[b - f.bbs]] |-> Copied(son.code[son.order[b - f.bbs]][n])]))])
      is == f.code[p[1]]
      split == [f EXCEPT !.code = (p[1] :> SubSeq(is, 1, p[2] - 1) \o <<Jump(BBOf(son.entry))>>)
                                    @@ (nxt :> SubSeq(is, p[2] + 1, Len(is))) @@ copy @@ @,
                         !.order = @ \o [n \in DOMAIN son.order |-> f.bbs + n] \o <<nxt>>,
                         !.regs = @ + son.regs, !.bbs = nxt,
                         !.size = Strict([n \in Range(obj) |-> son.size[CHOOSE o \in DOMAIN obj : obj[o] = n]]) @@ @,
                         !.single = @ \cup {obj[o] : o \in son.single}]
      \* phi_src_rewrite
      From(b) == IF b = p[1] THEN nxt ELSE b
      after == Range(OutNodes(is))
      g == [split EXCEPT !.code = Strict([b \in DOMAIN @ |->
              IF b \in after
              THEN Strict([n \in DOMAIN @[b] |-> IF @[b][n].op = "phi" THEN MapBB(@[b][n], From) ELSE @[b][n]])
              ELSE @[b]])]
  IN  [u EXCEPT !.fn[k] = g, !.objects = @ + Len(objs)]

\* search_call_instr: until no call of target is left.
RECURSIVE InlineInto(_, _, _)
InlineInto(u, k, target) ==
  LET ps == {p \in CallPoints(u.fn[k]) : At(u.fn[k], p).k = target} IN
  IF ps = {} THEN u ELSE InlineInto(MoveFunc(u, k, CHOOSE p \in ps : TRUE), k, target)

\* func_inline: a function that calls no other any more goes into its callers.
RECURSIVE FuncInline(_, _)
FuncInline(u, done) ==
  LET ready == {k \in DOMAIN u.fn \ done : Callees(u.fn[k]) = {}}
      target == CHOOSE k \in ready : TRUE
  IN  IF ready = {} THEN u
      ELSE FuncInline(Fold(LAMBDA v, k : InlineInto(v, k, target), u, u.order), done \cup {target})

-------------------------------------------------------------------------------
\* global_to_local: main works on copies of the variables only it can name.
GlobalToLocal(u) ==
  LET AddressIn(k) == {At(u.fn[k], p).k : p \in {p \in Points(u.fn[k]) : OpAt(u.fn[k], p) = "addr"}}
      gs == Sorted((u.single \cap DOMAIN u.size) \ UNION {AddressIn(k) : k \in DOMAIN u.fn \ {u.main}})
      f == u.fn[u.main]
      local == Strict([g \in Range(gs) |-> u.objects + (CHOOSE n \in DOMAIN gs : gs[n] = g)])
      Renamed(i) == IF i.op = "addr" /\ i.k \in DOMAIN local THEN Addr(i.d, local[i.k]) ELSE i
      g == MapCode(f, Renamed)
      copies == Concat([n \in DOMAIN gs |-> LET r == f.regs + 3 * n IN
                  <<Addr(r - 2, gs[n]), Load(r - 1, r - 2), Addr(r, local[gs[n]]), Store(r, r - 1)>>])
  IN  [u EXCEPT !.objects = @ + Len(gs),
                !.fn[u.main] = [g EXCEPT !.code[f.entry] = copies \o @, !.regs = @ + 3 * Len(gs),
                                         !.size = [o \in Range(local) |-> 1] @@ @, !.single = @ \cup Range(local)]]

-------------------------------------------------------------------------------
(***************************************************************************)
(* cache_pure_func: a recursive function of one argument that loads and    *)
(* stores nothing keeps its results in a table, one for each remainder of  *)
(* the argument.  0, the key of an empty entry, is never looked up.        *)
(***************************************************************************)
Cached(u, k, key, val) ==
  LET f == u.fn[k]
      r == f.regs
      b == f.bbs
      bb == CHOOSE c \in Blocks(f) : Back(f.code[c]).op = "ret"
      result == Back(f.code[bb]).u[1]
      arg == r + 1
      hash == r + 7
      Entry(d, obj) == <<Addr(d, obj), Index(d + 1, d, hash, 1)>>
      first == <<Arg(arg, 1), Const(r + 2, 0), Binary("neq", r + 3, arg, r + 2), Branch(r + 3, b + 2, f.entry)>>
      look == <<Const(r + 4, CachePrime), Binary("mod", r + 5, arg, r + 4), Binary("add", r + 6, r + 5, r + 4),
                Binary("mod", hash, r + 6, r + 4)>> \o Entry(r + 8, key)
                \o <<Load(r + 10, r + 9), Binary("eq", r + 11, arg, r + 10), Branch(r + 11, b + 3, f.entry)>>
      hit == Entry(r + 12, val) \o <<Load(r + 14, r + 13), Jump(b + 4)>>
      keep == Entry(r + 15, key) \o <<Store(r + 16, arg)>> \o Entry(r + 17, val) \o <<Store(r + 18, result), Jump(b + 4)>>
      last == <<Phi(r + 19, <<r + 14, result>>, <<b + 3, bb>>), Return(r + 19)>>
  IN  [f EXCEPT !.entry = b + 1, !.regs = r + 19, !.bbs = b + 4, !.order = @ \o <<b + 1, b + 2, b + 3, b + 4>>,
                !.code = (b + 1 :> first) @@ (b + 2 :> look) @@ (b + 3 :> hit) @@ (b + 4 :> last)
                           @@ (bb :> Front(@[bb]) \o keep) @@ @]

CachePureFunc(u, k) ==
  LET f == u.fn[k]
      own == {p \in CallPoints(f) : At(f, p).k = k}
      key == u.objects + 1
  IN  IF /\ k \in u.noLoad \cap u.noStore
         /\ own # {} /\ \A p \in own : Len(At(f, p).u) = 1
         /\ \E p \in Points(f) : OpAt(f, p) = "arg"
      THEN [u EXCEPT !.fn[k] = Cached(u, k, key, key + 1), !.objects = @ + 2,
                     !.size = (key :> CacheSize) @@ (key + 1 :> CacheSize) @@ @]
      ELSE u

\* Fault: the calls are not marked again.
CacheResults_MarksKept(u) == Fold(CachePureFunc, BuildPure(u), u.order)
CacheResults(u) == BuildPure(Fold(CachePureFunc, BuildPure(u), u.order))
===============================================================================
