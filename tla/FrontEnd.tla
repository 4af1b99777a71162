------------------------------- MODULE FrontEnd -------------------------------
(***************************************************************************)
(* The translation of SysY to intermediate code (ast/ast_visitor.cpp,      *)
(* ast/symbol_table.cpp), and what a SysY program means.                   *)
(*                                                                         *)
(* A program is [globals, fns]: global declarations, and functions         *)
(* [params, void, body], the last of which is main.  Expressions:          *)
(*   <<"num", n>>  <<"lval", x, indices>>  <<"call", f, arguments>>        *)
(*   <<"op", o, e1, e2>>  <<"neg", e>>  <<"not", e>>                       *)
(*   <<"and", c1, c2>>  <<"or", c1, c2>>       in conditions only          *)
(* Statements: assign, exp, decl, init, block, if, ifelse, while, break,   *)
(* continue, return.  An initialiser is <<"e", e>> or <<"l", items>>.      *)
(***************************************************************************)
EXTENDS IR

RelOps == {"less", "leq", "greater", "geq", "eq", "neq"}
Arith(o) == CASE o = "greater" -> "less" [] o = "geq" -> "leq" [] OTHER -> o

\* Type::count_elements.
RECURSIVE Product(_)
Product(dims) == IF dims = <<>> THEN 1 ELSE dims[1] * Product(Tail(dims))

-------------------------------------------------------------------------------
(***************************************************************************)
(* The visitor: the function being built, cur_bb, the variable tables from *)
(* inner to outer, break_target, continue_target, return_value, return_bb, *)
(* and the number of memory objects so far.                                *)
(***************************************************************************)
EmptyFunc ==
  [entry |-> 1, order |-> <<1>>, code |-> 1 :> <<>>, regs |-> 0, bbs |-> 1, size |-> <<>>, single |-> {},
   noUnroll |-> {}]

Start(tables, objects) ==
  [f |-> EmptyFunc, cur |-> 1, env |-> tables, brk |-> <<>>, cont |-> <<>>, rets |-> <<>>,
   exit |-> 0, objects |-> objects]

NewReg(s) == s.f.regs + 1
Push(s, i) ==
  [s EXCEPT !.f.code[s.cur] = Append(@, i), !.f.regs = IF i.d > @ THEN i.d ELSE @]
PushAt(s, b, i) == [Push([s EXCEPT !.cur = b], i) EXCEPT !.cur = s.cur]
NewBB(s) == [s EXCEPT !.f = WithBlock(@, @.bbs + 1, <<>>)]
LastBB(s) == s.f.bbs
Enter(s, b) == [s EXCEPT !.cur = b]
OpenBB(s) == LET s1 == NewBB(s) IN Enter(s1, LastBB(s1))

\* register_var in the innermost table; recursively_resolve.
Register(s, x, entry) == [s EXCEPT !.env = <<(x :> entry) @@ Head(@)>> \o Tail(@)]
Resolve(s, x) == LET n == CHOOSE n \in DOMAIN s.env :
                            x \in DOMAIN s.env[n] /\ \A m \in 1 .. n - 1 : x \notin DOMAIN s.env[m]
                 IN  s.env[n][x]
NewObject(s, dims) ==
  [s EXCEPT !.objects = @ + 1, !.f.size = (s.objects + 1 :> Product(dims)) @@ @,
            !.f.single = IF dims = <<>> THEN @ \cup {s.objects + 1} ELSE @]
Scope(s) == [s EXCEPT !.env = <<(<<>>)>> \o @]
Unscope(s) == [s EXCEPT !.env = Tail(@)]

\* An IRValue or a CondJumpList: the branch targets still to be filled in.
Value(s, reg, left, dims) == [s |-> s, reg |-> reg, left |-> left, dims |-> dims]
JumpList(s, t, f) == [s |-> s, true |-> t, false |-> f]
IsList(v) == "true" \in DOMAIN v

FillIn(s, slots, b) ==
  Fold(LAMBDA acc, p : [acc EXCEPT !.f.code[p[1]][Len(acc.f.code[p[1]])].t[p[2]] = b],
           s, Listed(slots))

\* get_value in the state s reached since.
GetValue(s, v) ==
  IF v.left THEN Value(Push(s, Load(NewReg(s), v.reg)), NewReg(s), FALSE, <<>>)
  ELSE [v EXCEPT !.s = s]

\* to_CondJumpList.
ToList(v) ==
  IF IsList(v) THEN v
  ELSE LET g == GetValue(v.s, v)
           s1 == Push(g.s, Branch(g.reg, 0, 0))
       IN  JumpList([s1 EXCEPT !.cur = 0], {<<s1.cur, 1>>}, {<<s1.cur, 2>>})

\* to_IRValue.
ToValue(v) ==
  IF ~IsList(v) THEN v
  ELSE LET s1 == NewBB(NewBB(NewBB(v.s)))
           bt == LastBB(s1) - 2
           bf == LastBB(s1) - 1
           r == NewReg(s1)
           s2 == PushAt(PushAt(s1, bt, Const(r, 1)), bt, Jump(LastBB(s1)))
           s3 == PushAt(PushAt(s2, bf, Const(r + 1, 0)), bf, Jump(LastBB(s1)))
           s4 == FillIn(FillIn(s3, v.true, bt), v.false, bf)
       IN  Value(Push(Enter(s4, LastBB(s1)), Phi(r + 2, <<r, r + 1>>, <<bt, bf>>)), r + 2, FALSE, <<>>)

-------------------------------------------------------------------------------
RECURSIVE Visit(_, _, _), VisitAll(_, _, _), VisitIndices(_, _, _, _, _)

\* The indices of visitLVal, from the last to the first, each with its step.
VisitIndices(s, es, mode, dims, n) ==
  IF n = 0 THEN [s |-> s, regs |-> <<>>]
  ELSE LET v == ToValue(Visit(s, es[n], mode))
           g == GetValue(v.s, v)
           rest == VisitIndices(g.s, es, mode, dims, n - 1)
       IN  [s |-> rest.s, regs |-> Append(rest.regs, <<g.reg, Product(SubSeq(dims, n + 1, Len(dims)))>>)]

VisitLVal(s, x, es, mode) ==
  LET entry == Resolve(s, x)
      base == NewReg(s)
      s1 == Push(s, IF entry.arg > 0 THEN Arg(base, entry.arg) ELSE Addr(base, entry.obj))
      ind == VisitIndices(s1, es, mode, entry.dims, Len(es))
      step == Fold(LAMBDA acc, p :
                         [s |-> Push(acc.s, Index(NewReg(acc.s), acc.reg, p[1], p[2])),
                          reg |-> NewReg(acc.s)],
                       [s |-> ind.s, reg |-> base], ind.regs)
  IN  Value(step.s, step.reg, TRUE, SubSeq(entry.dims, Len(es) + 1, Len(entry.dims)))

VisitAll(s, es, vs) ==
  IF es = <<>> THEN [s |-> s, vs |-> vs]
  ELSE LET v == ToValue(Visit(s, es[1], "normal")) IN VisitAll(v.s, Tail(es), Append(vs, v))

\* Values are loaded when all of them have been visited; an array is its address.
Loaded(s, vs) ==
  Fold(LAMBDA acc, v : LET g == IF v.dims # <<>> THEN [v EXCEPT !.s = acc.s] ELSE GetValue(acc.s, v)
                           IN  [s |-> g.s, regs |-> Append(acc.regs, g.reg)],
           [s |-> s, regs |-> <<>>], vs)

\* visitLAndExp, visitLOrExp in a condition.
ShortCircuit(s, and, c1, c2) ==
  LET l == ToList(Visit(s, c1, "condition"))
      s1 == OpenBB(l.s)
      r == ToList(Visit(FillIn(s1, IF and THEN l.true ELSE l.false, s1.cur), c2, "condition"))
  IN  IF and THEN JumpList(r.s, r.true, r.false \cup l.false)
      ELSE JumpList(r.s, r.true \cup l.true, r.false)

Visit(s, e, mode) ==
  LET Emit(s1, i) == Value(Push(s1, i), i.d, FALSE, <<>>)
      Operand(x) == LET v == ToValue(Visit(s, x, "normal")) IN GetValue(v.s, v)
  IN
  CASE e[1] = "num" -> Emit(s, Const(NewReg(s), e[2]))
    [] e[1] = "lval" -> VisitLVal(s, e[2], e[3], mode)
    [] e[1] = "op" ->
         LET all == VisitAll(s, <<e[3], e[4]>>, <<>>)
             v == Loaded(all.s, all.vs)
             rs == IF e[2] \in {"greater", "geq"} THEN Reverse(v.regs) ELSE v.regs
         IN  Emit(v.s, Instr(Arith(e[2]), NewReg(v.s), rs, 0, <<>>))
    [] e[1] = "neg" -> LET g == Operand(e[2]) IN Emit(g.s, Unary("neg", NewReg(g.s), g.reg))
    [] e[1] = "not" /\ mode = "normal" ->
         LET g == Operand(e[2]) IN Emit(g.s, Unary("lnot", NewReg(g.s), g.reg))
    [] e[1] = "not" /\ mode = "condition" ->
         LET l == ToList(Visit(s, e[2], mode)) IN JumpList(l.s, l.false, l.true)
    [] e[1] \in {"and", "or"} -> ShortCircuit(s, e[1] = "and", e[2], e[3])
    [] e[1] = "call" ->
         LET all == VisitAll(s, e[3], <<>>)
             v == Loaded(all.s, all.vs)
         IN  Emit(v.s, Call(NewReg(v.s), e[2], v.regs))

-------------------------------------------------------------------------------
(***************************************************************************)
(* dfs_var_init: the registers of an initialiser list in the order of the  *)
(* elements, 0 where there is none.  A list that starts inside a row       *)
(* counts for one element.                                                 *)
(***************************************************************************)
RECURSIVE VarInit(_, _, _), VarInitItems(_, _, _, _)
VarInitItems(s, items, shape, regs) ==
  LET total == Product(shape)
      child == Product(Tail(shape))
  IN
  IF items = <<>> THEN [s |-> s, regs |-> regs \o [n \in 1 .. total - Len(regs) |-> 0]]
  ELSE IF items[1][1] = "e"
  THEN LET v == ToValue(Visit(s, items[1][2], "normal"))
           g == GetValue(v.s, v)
       IN  VarInitItems(g.s, Tail(items), shape, Append(regs, g.reg))
  ELSE LET sub == VarInit(s, items[1], Tail(shape))
           part == IF Len(regs) % child # 0 THEN <<sub.regs[1]>> ELSE sub.regs
       IN  VarInitItems(sub.s, Tail(items), shape, regs \o part)

\* parse_var_init.
VarInit(s, item, shape) ==
  IF item[1] = "l" THEN VarInitItems(s, item[2], shape, <<>>)
  ELSE LET v == ToValue(Visit(s, item[2], "normal"))
           g == GetValue(v.s, v)
       IN  [s |-> g.s, regs |-> <<g.reg>>]

\* gen_var_init_ir: a local is stored whole, of a global what is given.
GenVarInit(s, obj, regs, ignoreZero) ==
  LET base == NewReg(s)
      s1 == Push(s, Addr(base, obj))
      zero == NewReg(s1)
      s2 == IF ignoreZero THEN s1 ELSE Push(s1, Const(zero, 0))
      StoreOne(acc, n) ==
        LET v == IF regs[n] = 0 THEN zero ELSE regs[n]
            k == NewReg(acc)
        IN  IF regs[n] = 0 /\ ignoreZero THEN acc
            ELSE IF n = 1 THEN Push(acc, Store(base, v))
            ELSE Push(Push(Push(acc, Const(k, n - 1)), Index(k + 1, base, k, 1)), Store(k + 1, v))
  IN  Fold(StoreOne, s2, [n \in DOMAIN regs |-> n])

-------------------------------------------------------------------------------
RECURSIVE VisitStmt(_, _)
VisitStmts(s, ss) == Fold(LAMBDA acc, st : VisitStmt(acc, st), s, ss)

VisitIf(s, c, then, else) ==
  LET l == ToList(Visit(s, c, "condition"))
      s1 == OpenBB(l.s)
      s2 == Unscope(VisitStmt(Scope(s1), then))
      s3 == IF else = <<>> THEN s2 ELSE Unscope(VisitStmt(Scope(OpenBB(s2)), else))
      false_entry == LastBB(s2) + 1
      s4 == OpenBB(s3)
      s5 == PushAt(s4, s2.cur, Jump(s4.cur))
      s6 == IF else = <<>> THEN s5 ELSE PushAt(s5, s3.cur, Jump(s4.cur))
  IN  FillIn(FillIn(s6, l.true, s1.cur), l.false, false_entry)

VisitWhile(s, c, body) ==
  LET s1 == NewBB(s)
      entry == LastBB(s1)
      l == ToList(Visit(Enter(Push(s1, Jump(entry)), entry), c, "condition"))
      s2 == NewBB(NewBB(NewBB(l.s)))
      out == LastBB(s2) - 2
      s3 == [Enter(Scope(s2), out + 1) EXCEPT !.brk = Append(@, out), !.cont = Append(@, out + 2)]
      s4 == Push(VisitStmt(s3, body), Jump(out + 2))
      s5 == [Unscope(PushAt(s4, out + 2, Jump(entry))) EXCEPT !.brk = Front(@), !.cont = Front(@)]
  IN  FillIn(FillIn(Enter(s5, out), l.true, out + 1), l.false, out)

\* A local is an object of the function, named in the innermost table.
Declare(s, x, dims) ==
  Register(NewObject(s, dims), x, [obj |-> s.objects + 1, arg |-> 0, dims |-> dims])

VisitStmt(s, st) ==
  CASE st[1] = "assign" ->
         LET lhs == VisitLVal(s, st[2], st[3], "normal")
             rhs == ToValue(Visit(lhs.s, st[4], "normal"))
             g == GetValue(rhs.s, rhs)
         IN  Push(g.s, Store(lhs.reg, g.reg))
    [] st[1] = "exp" -> Visit(s, st[2], "normal").s
    [] st[1] = "decl" -> Declare(s, st[2], st[3])
    [] st[1] = "init" ->
         LET v == VarInit(Declare(s, st[2], st[3]), st[4], st[3]) IN
         GenVarInit(v.s, s.objects + 1, v.regs, FALSE)
    [] st[1] = "block" -> Unscope(VisitStmts(Scope(s), st[2]))
    [] st[1] = "if" -> VisitIf(s, st[2], st[3], <<>>)
    [] st[1] = "ifelse" -> VisitIf(s, st[2], st[3], st[4])
    [] st[1] = "while" -> VisitWhile(s, st[2], st[3])
    [] st[1] = "break" -> OpenBB(Push(s, Jump(Last(s.brk))))
    [] st[1] = "continue" -> OpenBB(Push(s, Jump(Last(s.cont))))
    [] st[1] = "return" /\ Len(st) = 1 -> OpenBB(Push(s, Jump(s.exit)))
    [] st[1] = "return" /\ Len(st) = 2 ->
         LET v == ToValue(Visit(s, st[2], "normal"))
             g == GetValue(v.s, v)
         IN  OpenBB([Push(g.s, Jump(s.exit)) EXCEPT !.rets = Append(@, <<g.reg, g.s.cur>>)])

-------------------------------------------------------------------------------
\* visitFuncDef.  main calls .init first.
VisitFuncDef(fn, isMain, init, globals, objects) ==
  LET s0 == NewBB(Start(<<(<<>>), globals>>, objects))
      s1 == [s0 EXCEPT !.exit = 2]
      s2 == IF isMain THEN Push(s1, Call(NewReg(s1), init, <<>>)) ELSE s1
      Param(s, n) ==
        LET p == fn.params[n]
            d == Declare(s, p[1], p[2])
            r == NewReg(d)
        IN  IF p[2] # <<>>
            THEN [Register(s, p[1], [obj |-> 0, arg |-> n, dims |-> p[2]]) EXCEPT !.objects = @ + 1]
            ELSE Push(Push(Push(d, Arg(r, n)), Addr(r + 1, d.objects)), Store(r + 1, r))
      s3 == VisitStmts(Fold(Param, s2, [n \in DOMAIN fn.params |-> n]), fn.body)
      r == NewReg(s3)
      s4 == IF fn.void THEN Push(s3, Jump(2))
            ELSE [Push(Push(s3, Const(r, 0)), Jump(2)) EXCEPT !.rets = Append(@, <<r, s3.cur>>)]
      r2 == NewReg(s4)
      s5 == PushAt(s4, 2, IF fn.void THEN Const(r2, 0)
                          ELSE Phi(r2, [n \in DOMAIN s4.rets |-> s4.rets[n][1]],
                                       [n \in DOMAIN s4.rets |-> s4.rets[n][2]]))
  IN  PushAt(s5, 2, Return(r2))

\* visitCompUnit: the globals and their initialisers, then the functions.
VisitCompUnit(prog) ==
  LET Global(s, g) ==
        LET d == Declare(s, g[1], g[2]) IN
        IF Len(g) = 2 THEN d
        ELSE LET v == VarInit(d, g[3], g[2]) IN GenVarInit(v.s, d.objects, v.regs, TRUE)
      s0 == Fold(Global, Start(<<(<<>>)>>, 0), prog.globals)
      s1 == Push(Push(s0, Const(NewReg(s0), 0)), Return(NewReg(s0)))
      n == Len(prog.fns)
      fns == Fold(LAMBDA acc, k :
                        LET v == VisitFuncDef(prog.fns[k], k = n, n + 1, s1.env[1], acc.objects) IN
                        [fn |-> Append(acc.fn, v.f), objects |-> v.objects],
                      [fn |-> <<>>, objects |-> s1.objects], [k \in 1 .. n |-> k])
  IN  [fn |-> Append(fns.fn, [s1.f EXCEPT !.size = <<>>, !.single = {}]), main |-> n,
       order |-> <<n + 1>> \o [k \in 1 .. n |-> k], size |-> s1.f.size, single |-> s1.f.single,
       objects |-> fns.objects, init |-> <<>>, const |-> {}, noStore |-> PureLib, noLoad |-> PureLib]

-------------------------------------------------------------------------------
(***************************************************************************)
(* What a program means, without blocks and registers: values of variables *)
(* by location, scopes as a stack, and how a statement ends.  Loops are    *)
(* unrolled as far as fuel lasts.                                          *)
(***************************************************************************)
RECURSIVE Eval(_, _, _), EvalAll(_, _, _, _), Do(_, _, _), DoAll(_, _, _), CallFn(_, _, _, _)

Allocate(w, x, dims) ==
  [w EXCEPT !.env = <<(x :> [loc |-> w.next, dims |-> dims])>> \o @, !.next = @ + Product(dims)]
Find(w, x) == LET n == CHOOSE n \in DOMAIN w.env :
                         x \in DOMAIN w.env[n] /\ \A m \in 1 .. n - 1 : x \notin DOMAIN w.env[m]
              IN  w.env[n][x]

EvalAll(prog, w, es, vs) ==
  IF es = <<>> THEN [w |-> w, v |-> vs]
  ELSE LET r == Eval(prog, w, es[1]) IN EvalAll(prog, r.w, Tail(es), Append(vs, r.v))

Place(prog, w, x, es) ==
  LET is == EvalAll(prog, w, es, <<>>)
      d == Find(w, x)
      Step(n) == Product(SubSeq(d.dims, n + 1, Len(d.dims)))
  IN  [w |-> is.w, v |-> Fold(LAMBDA a, n : a + is.v[n] * Step(n), d.loc, [n \in DOMAIN es |-> n]),
       array |-> Len(es) < Len(d.dims)]

Eval(prog, w, e) ==
  CASE e[1] = "num" -> [w |-> w, v |-> e[2]]
    [] e[1] = "lval" ->
         LET p == Place(prog, w, e[2], e[3]) IN
         [w |-> p.w, v |-> IF p.array THEN p.v ELSE ReadMem(p.w.mem, p.v)]
    [] e[1] = "op" ->
         LET r == EvalAll(prog, w, <<e[3], e[4]>>, <<>>) IN
         [w |-> r.w, v |-> CASE e[2] = "greater" -> Bool(r.v[1] > r.v[2])
                             [] e[2] = "geq" -> Bool(r.v[1] >= r.v[2])
                             [] OTHER -> Compute2(e[2], r.v[1], r.v[2])]
    [] e[1] = "neg" -> LET r == Eval(prog, w, e[2]) IN [r EXCEPT !.v = -@]
    [] e[1] = "not" -> LET r == Eval(prog, w, e[2]) IN [r EXCEPT !.v = Bool(@ = 0)]
    [] e[1] \in {"and", "or"} ->
         LET r == Eval(prog, w, e[2]) IN
         IF (r.v = 0) = (e[1] = "and") THEN [r EXCEPT !.v = Bool(@ # 0)]
         ELSE LET q == Eval(prog, r.w, e[3]) IN [q EXCEPT !.v = Bool(@ # 0)]
    [] e[1] = "call" ->
         LET r == EvalAll(prog, w, e[3], <<>>) IN
         IF e[2] = PutInt THEN [w |-> [r.w EXCEPT !.out = Append(@, r.v[1])], v |-> 0]
         ELSE IF e[2] = GetInt
         THEN [w |-> [r.w EXCEPT !.inp = IF @ = <<>> THEN @ ELSE Tail(@)],
               v |-> IF r.w.inp = <<>> THEN -1 ELSE r.w.inp[1]]
         ELSE CallFn(prog, r.w, e[2], r.v)

\* The cells an initialiser gives a value to, in the order of evaluation.
RECURSIVE Cells(_, _, _)
Cells(items, shape, base) ==
  IF items = <<>> THEN <<>>
  ELSE LET row == Product(Tail(shape))
           it == items[1]
           inRow == it[1] = "l" /\ base % row # 0
           here == IF it[1] = "e" THEN <<<<base, it[2]>>>>
                   ELSE IF inRow THEN SubSeq(Cells(it[2], Tail(shape), base), 1, 1)
                   ELSE Cells(it[2], Tail(shape), base)
           next == base + (IF it[1] = "e" \/ inRow THEN 1 ELSE row)
       IN  here \o Cells(Tail(items), shape, next)

Initialise(prog, w, x, dims, init) ==
  LET w1 == Allocate(w, x, dims)
      cells == IF init[1] = "e" THEN <<<<0, init[2]>>>> ELSE Cells(init[2], dims, 0)
      vals == EvalAll(prog, w1, [n \in DOMAIN cells |-> cells[n][2]], <<>>)
      zero == [a \in w.next .. w.next + Product(dims) - 1 |-> 0]
  IN  [vals.w EXCEPT !.mem = [n \in {w.next + cells[k][1] : k \in DOMAIN cells} |->
                                vals.v[CHOOSE k \in DOMAIN cells : w.next + cells[k][1] = n]] @@ zero @@ @]

DoAll(prog, w, ss) ==
  IF ss = <<>> \/ w.how # "next" THEN w ELSE DoAll(prog, Do(prog, w, ss[1]), Tail(ss))

Leave(w, w1) == [w1 EXCEPT !.env = w.env]

Do(prog, w, st) ==
  CASE st[1] = "assign" ->
         LET p == Place(prog, w, st[2], st[3])
             r == Eval(prog, p.w, st[4])
         IN  [r.w EXCEPT !.mem = (p.v :> r.v) @@ @]
    [] st[1] = "exp" -> Eval(prog, w, st[2]).w
    [] st[1] = "decl" -> Allocate(w, st[2], st[3])
    [] st[1] = "init" -> Initialise(prog, w, st[2], st[3], st[4])
    [] st[1] = "block" -> Leave(w, DoAll(prog, w, st[2]))
    [] st[1] \in {"if", "ifelse"} ->
         LET r == Eval(prog, w, st[2]) IN
         IF r.v # 0 THEN Leave(w, Do(prog, r.w, st[3]))
         ELSE IF st[1] = "if" THEN r.w ELSE Leave(w, Do(prog, r.w, st[4]))
    [] st[1] = "while" ->
         LET r == Eval(prog, w, st[2])
             body == Leave(w, Do(prog, [r.w EXCEPT !.fuel = @ - 1], st[3]))
         IN  IF r.v = 0 THEN r.w
             ELSE IF r.w.fuel = 0 THEN [r.w EXCEPT !.how = "stuck"]
             ELSE IF body.how = "break" THEN [body EXCEPT !.how = "next"]
             ELSE IF body.how \in {"return", "stuck"} THEN body
             ELSE Do(prog, [body EXCEPT !.how = "next"], st)
    [] st[1] \in {"break", "continue"} -> [w EXCEPT !.how = st[1]]
    [] st[1] = "return" /\ Len(st) = 1 -> [w EXCEPT !.how = "return"]
    [] st[1] = "return" /\ Len(st) = 2 ->
         LET r == Eval(prog, w, st[2]) IN
         [r.w EXCEPT !.how = IF @ = "stuck" THEN @ ELSE "return", !.val = r.v]

CallFn(prog, w, k, args) ==
  LET fn == prog.fns[k]
      globals == <<Last(w.env)>>
      Bind(x, n) ==
        IF fn.params[n][2] # <<>>
        THEN [x EXCEPT !.env = <<(fn.params[n][1] :> [loc |-> args[n], dims |-> fn.params[n][2]])>> \o @]
        ELSE LET y == Allocate(x, fn.params[n][1], <<>>) IN [y EXCEPT !.mem = (x.next :> args[n]) @@ @]
      w1 == Fold(Bind, [w EXCEPT !.env = globals, !.val = 0], [n \in DOMAIN fn.params |-> n])
      w2 == IF w.fuel = 0 THEN [w EXCEPT !.how = "stuck"]
            ELSE DoAll(prog, [w1 EXCEPT !.fuel = @ - 1], fn.body)
  IN  [w |-> [w2 EXCEPT !.env = w.env, !.how = IF @ = "stuck" THEN @ ELSE "next"], v |-> w2.val]

Meaning(prog, inp, fuel) ==
  LET w0 == [mem |-> <<>>, env |-> <<(<<>>)>>, next |-> 0, out |-> <<>>, inp |-> inp,
             fuel |-> fuel, how |-> "next", val |-> 0]
      Global(w, g) ==
        LET w1 == Initialise(prog, w, g[1], g[2], IF Len(g) = 2 THEN <<"l", <<>>>> ELSE g[3]) IN
        [w1 EXCEPT !.env = <<Head(@) @@ Last(@)>>]
      r == CallFn(prog, Fold(Global, w0, prog.globals), Len(prog.fns), <<>>)
  IN  IF r.w.how = "stuck" THEN [ends |-> FALSE] ELSE [ends |-> TRUE, out |-> r.w.out, val |-> r.v]
===============================================================================
