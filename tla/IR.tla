---------------------------------- MODULE IR ----------------------------------
(***************************************************************************)
(* The intermediate code every pass works on (ir/ir.hpp) and what it means *)
(* (exec in ir/ir.cpp, compute in ir/scalar.hpp).                          *)
(*                                                                         *)
(* A unit is                                                               *)
(*   [fn, order, main, size, single, init, objects, const, noStore, noLoad]*)
(* fn: functions by id, order their list, main the id of main, size[o] the *)
(* words of global object o, init[o] the words it starts with that are not *)
(* 0, objects the last object id, const the objects marked is_const,       *)
(* noStore and noLoad the functions whose calls are marked so.             *)
(* A function is                                                           *)
(*   [entry, order, code, regs, bbs, size, single, noUnroll]               *)
(* order is the list bbs, code[b] the instructions of block b, regs and    *)
(* bbs are max_reg_id and max_bb_id, size[o] the words of local object o,  *)
(* single the objects that are single variables (is_single_var), noUnroll  *)
(* the blocks marked disable_unroll.                                       *)
(* An instruction is [op, d, u, k, t]: the register it defines (0: none),  *)
(* the registers it uses, a constant (value, object, argument or callee)   *)
(* and blocks (targets of a jump, origins of the operands of a phi).       *)
(* Integers only: the float operations are parallel to them.               *)
(***************************************************************************)
EXTENDS Integers, Sequences, FiniteSets, SequencesExt

(***************************************************************************)
(* Sequences and functions as TLC evaluates them well: Fold is FoldLeft of *)
(* SequencesExt, Concat its FlattenSeq, Listed its SetToSeq, Sorted its    *)
(* SetToSortSeq with <.                                                    *)
(* Strict(fn) is fn, computed once instead of at every application, and    *)
(* Evaluated is true: TLC has x when it has seen it.                       *)
(***************************************************************************)
Evaluated(x) == Len(<<x>>) = 1
Fold(Op(_, _), base, s) ==
  LET RECURSIVE From(_, _, _)
      From(acc, i, j) ==
        IF j < i THEN acc ELSE IF i = j THEN Op(acc, s[i])
        ELSE LET m == (i + j) \div 2
                 left == From(acc, i, m)
             IN  IF Evaluated(left) THEN From(left, m + 1, j) ELSE left
  IN  From(base, 1, Len(s))
RECURSIVE Listed(_), Sorted(_)
Listed(S) == IF S = {} THEN <<>> ELSE LET x == CHOOSE x \in S : TRUE IN <<x>> \o Listed(S \ {x})
Sorted(S) == IF S = {} THEN <<>> ELSE LET x == Min(S) IN <<x>> \o Sorted(S \ {x})
Strict(fn) == fn @@ <<>>
Concat(ss) == LET s == Strict(ss) IN Fold(LAMBDA a, x : a \o x, <<>>, s)

Instr(op, d, u, k, t) == [op |-> op, d |-> d, u |-> u, k |-> k, t |-> t]

Const(d, k) == Instr("const", d, <<>>, k, <<>>)
Addr(d, o) == Instr("addr", d, <<>>, o, <<>>)
Arg(d, n) == Instr("arg", d, <<>>, n, <<>>)
Unary(op, d, a) == Instr(op, d, <<a>>, 0, <<>>)
Binary(op, d, a, b) == Instr(op, d, <<a, b>>, 0, <<>>)
Index(d, a, b, step) == Instr("index", d, <<a, b>>, step, <<>>)
Load(d, a) == Instr("load", d, <<a>>, 0, <<>>)
Store(a, v) == Instr("store", 0, <<a, v>>, 0, <<>>)
Jump(b) == Instr("jump", 0, <<>>, 0, <<b>>)
Branch(c, b1, b0) == Instr("br", 0, <<c>>, 0, <<b1, b0>>)
Return(r) == Instr("ret", 0, <<r>>, 0, <<>>)
Call(d, f, args) == Instr("call", d, args, f, <<>>)
Phi(d, u, t) == Instr("phi", d, u, 0, t)

UnaryOps == {"id", "neg", "lnot"}
BinaryOps == {"add", "sub", "mul", "div", "mod", "less", "leq", "eq", "neq"}
ControlOps == {"jump", "br", "ret"}

-------------------------------------------------------------------------------
\* BB::back, BB::getOutNodes (target0 first), build_prev, build_defs.
Back(is) == is[Len(is)]
OutNodes(is) ==
  LET c == Back(is) IN
  CASE c.op = "jump" -> c.t [] c.op = "br" -> <<c.t[2], c.t[1]>> [] OTHER -> <<>>
Succ(f, b) == OutNodes(f.code[b])
Blocks(f) == Range(f.order)
Preds(f, b) == {p \in Blocks(f) : b \in Range(Succ(f, p))}

Points(f) == UNION {{b} \X DOMAIN f.code[b] : b \in Blocks(f)}
At(f, p) == f.code[p[1]][p[2]]
DefPoints(f) == {p \in Points(f) : At(f, p).d # 0}
DefinedRegs(f) == {At(f, p).d : p \in DefPoints(f)}
DefOf(f, r) == At(f, CHOOSE p \in DefPoints(f) : At(f, p).d = r)

\* Instr::map_use, Instr::map_BB, BB::map_phi_use.
MapUse(i, G(_)) == [i EXCEPT !.u = Strict([k \in DOMAIN @ |-> G(@[k])])]
MapBB(i, G(_)) == [i EXCEPT !.t = Strict([k \in DOMAIN @ |-> G(@[k])])]
MapCode(f, G(_)) ==
  [f EXCEPT !.code = Strict([b \in DOMAIN @ |-> Strict([n \in DOMAIN @[b] |-> G(@[b][n])])])]

\* A phi without the operands that come from blocks outside keep.
PhiFrom(i, keep) ==
  LET ks == Sorted({k \in DOMAIN i.t : i.t[k] \in keep}) IN
  [i EXCEPT !.u = Strict([n \in DOMAIN ks |-> i.u[ks[n]]]), !.t = Strict([n \in DOMAIN ks |-> i.t[ks[n]]])]

\* BB::push1: before the control instruction; BB::pop and push: in its place.
Push1(is, new) == Front(is) \o new \o <<Back(is)>>
NewControl(is, c) == Append(Front(is), c)

EachFunc(u, G(_)) == [u EXCEPT !.fn = Strict([k \in DOMAIN @ |-> G(@[k])])]

WithBlock(f, b, is) ==
  [f EXCEPT !.code = (b :> is) @@ @, !.order = Append(@, b), !.bbs = b]

-------------------------------------------------------------------------------
\* compute on 32-bit words, for operands far from their limits: / truncates.
Bool(p) == IF p THEN 1 ELSE 0
Abs(a) == IF a < 0 THEN -a ELSE a
Quotient(a, b) ==
  IF b = 0 THEN 0 ELSE IF (a < 0) = (b < 0) THEN Abs(a) \div Abs(b) ELSE -(Abs(a) \div Abs(b))

Compute2(op, a, b) ==
  CASE op = "add" -> a + b [] op = "sub" -> a - b [] op = "mul" -> a * b
    [] op = "div" -> Quotient(a, b)
    [] op = "mod" -> IF b = 0 THEN 0 ELSE a - b * Quotient(a, b)
    [] op = "less" -> Bool(a < b) [] op = "leq" -> Bool(a <= b)
    [] op = "eq" -> Bool(a = b) [] op = "neq" -> Bool(a # b)

Compute1(op, a) ==
  CASE op = "id" -> a [] op = "neg" -> -a [] op = "lnot" -> Bool(a = 0)

-------------------------------------------------------------------------------
(***************************************************************************)
(* run in exec, for one thread.  m is the machine: memory, output, what is *)
(* left of the input, the result val of the last return, and the calls, a  *)
(* stack of [k, bb, n, prev, regs, tmps, args, sp]: the function, the      *)
(* block, the next instruction in it, the block before, the registers, the *)
(* values of the phis, the arguments and where the objects lie.  A         *)
(* register nobody wrote holds Garbage, as does memory above the globals.  *)
(* A machine with a field seen keeps there what loads and stores touch;    *)
(* one with a field visits counts how often main came to each block, and   *)
(* traces what main loads and stores with the counts at that time.         *)
(***************************************************************************)
Garbage == 7777
PutInt == -1    \* external: putint
GetInt == -2    \* external: getint

\* The library functions that only compute, on words without sign except
\* HalfSquare: they stand for sums with a closed form.
UMulMod == -3        \* __umulmod
HalfSquareMod == -4  \* __u_c_np1_2_mod, of a word that is not negative
HalfSquare == -5     \* __s_c_np1_2
UMod == -6           \* __umod
FixMod == -7         \* __fixmod
DivPow2 == -8        \* __divpow2
PureLib == DivPow2 .. UMulMod

Unsigned(a, c) == IF a >= 0 THEN a % c ELSE (((4 * ((2 ^ 30) % c)) % c) + (a % c)) % c
PureResult(k, a) ==
  CASE k = UMulMod -> (Unsigned(a[1], a[3]) * Unsigned(a[2], a[3])) % a[3]
    [] k = HalfSquareMod -> ((a[1] * a[1] + a[1]) \div 2) % a[2]
    [] k = HalfSquare -> (a[1] * a[1] + a[1]) \div 2
    [] k = UMod -> Unsigned(a[1], a[2])
    [] k = FixMod -> a[1] % a[2]
    [] k = DivPow2 -> IF a[2] \in 0 .. 31 THEN Quotient(a[1], 2 ^ a[2]) ELSE 0

\* compute_data_offset: the objects of a scope lie one after the other.
RECURSIVE SumSizes(_, _)
SumSizes(size, os) ==
  IF os = {} THEN 0 ELSE LET o == CHOOSE x \in os : TRUE IN size[o] + SumSizes(size, os \ {o})
TotalSize(size) == SumSizes(size, DOMAIN size)
Offset(size, o) == SumSizes(size, {x \in DOMAIN size : x < o})

ReadMem(mem, a) == IF a \in DOMAIN mem THEN mem[a] ELSE Garbage

\* The phis of block b are read at once, before the block starts.
EnterBlock(f, fr, b) ==
  LET is == f.code[b]
      phis == {n \in DOMAIN is : is[n].op = "phi"}
      PhiValue(i) == LET from == {k \in DOMAIN i.t : i.t[k] = fr.bb} IN
                     IF from = {} THEN Garbage ELSE fr.regs[i.u[Max(from)]]
  IN  [fr EXCEPT !.prev = fr.bb, !.bb = b, !.n = 1,
                 !.tmps = Strict([r \in {is[n].d : n \in phis} |-> PhiValue(is[CHOOSE n \in phis : is[n].d = r])])]

NewFrame(u, k, args, sp) ==
  EnterBlock(u.fn[k],
             [k |-> k, bb |-> 0, n |-> 1, prev |-> 0, regs |-> Strict([r \in 0 .. u.fn[k].regs |-> Garbage]),
              tmps |-> <<>>, args |-> args, sp |-> sp], u.fn[k].entry)

\* What an instruction that only computes gives.
ComputedOps == {"const", "phi", "addr", "arg", "index", "load"} \cup UnaryOps \cup BinaryOps
Computed(u, f, m, fr, i) ==
  LET R(k) == fr.regs[i.u[k]] IN
  CASE i.op = "const" -> i.k
    [] i.op \in BinaryOps -> Compute2(i.op, R(1), R(2))
    [] i.op \in UnaryOps -> Compute1(i.op, R(1))
    [] i.op = "phi" -> fr.tmps[i.d]
    [] i.op = "addr" -> IF i.k \in DOMAIN f.size THEN fr.sp + Offset(f.size, i.k) ELSE Offset(u.size, i.k)
    [] i.op = "arg" -> fr.args[i.k]
    [] i.op = "index" -> R(1) + R(2) * i.k
    [] i.op = "load" -> ReadMem(m.mem, R(1))

\* A load or store i at address a: who called it, and the objects at a.
ObjectsAt(size, sp, a) ==
  {o \in DOMAIN size : sp + Offset(size, o) <= a /\ a < sp + Offset(size, o) + size[o]}
Touch(u, m, fr, i, a) ==
  LET on == Range(m.calls) \cup {fr}
      locals == UNION {{<<o, a - x.sp - Offset(u.fn[x.k].size, o)>> : o \in ObjectsAt(u.fn[x.k].size, x.sp, a)} : x \in on}
      globals == {<<o, a - Offset(u.size, o)>> : o \in ObjectsAt(u.size, 0, a)}
  IN  [op |-> i.op, k |-> fr.k, reg |-> i.u[1], callers |-> {x.k : x \in on}, at |-> locals \cup globals]
Seen(u, m, fr, i, a) ==
  CASE "seen" \in DOMAIN m -> [m EXCEPT !.seen = @ \cup {Touch(u, m, fr, i, a)}]
    [] "visits" \in DOMAIN m /\ m.calls = <<>> ->
         [m EXCEPT !.trace = @ \cup {[op |-> i.op, at |-> a, bb |-> fr.bb, visits |-> m.visits]}]
    [] OTHER -> m
Visiting(m, fr) == IF "visits" \in DOMAIN m /\ m.calls = <<>> /\ fr.n = 1 THEN [m EXCEPT !.visits[fr.bb] = @ + 1] ELSE m

\* The frame fr runs to the end of its block, or to a call.
RECURSIVE RunInstrs(_, _, _, _, _)
RunInstrs(u, f, is, m, fr) ==
  LET i == is[fr.n]
      R(k) == fr.regs[i.u[k]]
      Go(m1, fr1) == RunInstrs(u, f, is, m1, [fr1 EXCEPT !.n = @ + 1])
      Continue(b) == [m EXCEPT !.calls = Append(@, EnterBlock(f, fr, b))]
  IN
  CASE i.op \in ComputedOps -> Go(IF i.op = "load" THEN Seen(u, m, fr, i, R(1)) ELSE m, [fr EXCEPT !.regs[i.d] = Computed(u, f, m, fr, i)])
    [] i.op = "store" -> Go([Seen(u, m, fr, i, R(1)) EXCEPT !.mem = (R(1) :> R(2)) @@ @], fr)
    [] i.op = "call" /\ i.k = PutInt -> Go([m EXCEPT !.out = Append(@, R(1))], fr)
    [] i.op = "call" /\ i.k = GetInt ->
         Go([m EXCEPT !.inp = IF @ = <<>> THEN @ ELSE Tail(@)],
            [fr EXCEPT !.regs[i.d] = IF m.inp = <<>> THEN -1 ELSE m.inp[1]])
    [] i.op = "call" /\ i.k \in PureLib ->
         Go(m, [fr EXCEPT !.regs[i.d] = PureResult(i.k, Strict([n \in DOMAIN i.u |-> R(n)]))])
    [] i.op = "call" /\ i.k > 0 ->
         [m EXCEPT !.calls = @ \o <<fr, NewFrame(u, i.k, Strict([k \in DOMAIN i.u |-> R(k)]), fr.sp + TotalSize(f.size))>>]
    [] i.op = "jump" -> Continue(i.t[1])
    [] i.op = "br" -> Continue(IF R(1) # 0 THEN i.t[1] ELSE i.t[2])
    [] i.op = "ret" /\ m.calls = <<>> -> [m EXCEPT !.val = R(1)]
    [] i.op = "ret" /\ m.calls # <<>> ->
         LET caller == Last(m.calls)
             d == u.fn[caller.k].code[caller.bb][caller.n].d
         IN  [m EXCEPT !.val = R(1),
                       !.calls = Append(Front(@), [caller EXCEPT !.n = @ + 1, !.regs[d] = R(1)])]

\* At most 2^fuel blocks and returns.
RECURSIVE RunFor(_, _, _)
RunFor(u, m, fuel) ==
  IF m.calls = <<>> THEN m
  ELSE IF fuel > 0 THEN RunFor(u, RunFor(u, m, fuel - 1), fuel - 1)
  ELSE LET fr == Last(m.calls)
           f == u.fn[fr.k]
       IN  RunInstrs(u, f, f.code[fr.bb], Visiting([m EXCEPT !.calls = Front(@)], fr), fr)

\* The globals, as they are when the program starts.
InitialMemory(u) ==
  LET given == UNION {{<<Offset(u.size, o) + p, u.init[o][p]>> : p \in DOMAIN u.init[o]} :
                        o \in DOMAIN u.init \cap DOMAIN u.size}
  IN  [a \in 0 .. TotalSize(u.size) - 1 |->
         IF \E g \in given : g[1] = a THEN (CHOOSE g \in given : g[1] = a)[2] ELSE 0]

Machine(u, inp) ==
  [mem |-> InitialMemory(u), out |-> <<>>, inp |-> inp, val |-> 0,
   calls |-> <<NewFrame(u, u.main, <<>>, TotalSize(u.size))>>]

\* What a run of main shows: its output and result, unless it does not end.
Shown(m) == IF m.calls # <<>> THEN [ends |-> FALSE] ELSE [ends |-> TRUE, out |-> m.out, val |-> m.val]
Behaviour(u, inp, fuel) == Shown(RunFor(u, Machine(u, inp), fuel))

\* The loads and stores of a run; those of main, with the visits of its blocks.
Accesses(u, inp, fuel) == RunFor(u, [seen |-> {}] @@ Machine(u, inp), fuel).seen
Trace(u, inp, fuel) ==
  RunFor(u, [visits |-> Strict([b \in Blocks(u.fn[u.main]) |-> 0]), trace |-> {}] @@ Machine(u, inp), fuel).trace
===============================================================================
