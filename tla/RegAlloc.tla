------------------------------- MODULE RegAlloc -------------------------------
(***************************************************************************)
(* The register allocation of a function: reg_allocate (arm/func.cpp) runs *)
(* the allocator of module Coloring on the interference graph of the code, *)
(* rewrites the code around the registers that were spilled, and starts    *)
(* again until a run succeeds.  This module has the code: calc_live        *)
(* (arm/program.cpp), build_graph and rewrite_function.                    *)
(*                                                                         *)
(* A function is a sequence of blocks, a block a sequence of instructions. *)
(* Of an instruction the model keeps the registers it defines and uses,    *)
(* and a tag that says which instruction of the source it is:              *)
(*   "op"     computes something from its operands                         *)
(*   "move"   MoveReg                                                      *)
(*   "const"  load_imm, load_symbol_addr: the same value every time        *)
(*   "load", "store"  LoadStack, StoreStack of the slot of a spilled node  *)
(*   "offset", "far"  LoadStackOffset of a slot, and the ComplexStore that  *)
(*            goes through it                                              *)
(*   "addr"   LoadStackAddr of an array; "get" and "put" read and write    *)
(*            the word that many places into it                            *)
(*   "param"  a parameter passed on the stack; "push" and "call" pass one; *)
(*   "sp"     ChangeSP, in words                                           *)
(* Module Frame has what the last two lines are about.                     *)
(***************************************************************************)
EXTENDS Coloring

CONSTANT Programs   \* the functions to allocate, with their arrays and paths through them

VARIABLES
  source,   \* the function as it came: [blocks, paths, remat, arrays]
  blocks,   \* its code now
  reg_n,    \* the next register number
  remat,    \* constant_reg and symbol_reg: a register's constant
  temps     \* spilling_reg

code == <<source, blocks, reg_n, remat, temps>>

Uses(i) == Range(i.use)

Regs(bs) ==
  UNION {UNION {Uses(i) \cup i.def : i \in Range(b.insts)} : b \in Range(bs)}

Kind == {"op", "move", "const", "load", "store", "offset", "far", "addr", "get", "put", "param",
         "push", "call", "sp"}

\* The operands an instruction has at least.
Arity(kind) ==
  CASE kind \in {"move", "store", "get", "push"} -> 1
    [] kind \in {"put", "far"} -> 2
    [] OTHER -> 0

\* Instructions with registers below n.
Insn(n) ==
  {i \in [kind : Kind, tag : Int, def : SUBSET (0 .. n - 1), use : Seq(0 .. n - 1)] :
     Len(i.use) >= Arity(i.kind)}

Block(n) == [insts : Seq(Insn(n)), succ : SUBSET Nat, depth : Nat]

\* Constants are known of registers that occur; a constant or address is a number here.
ASSUME ProgramsAssumption ==
  \A p \in Programs :
    /\ p.blocks \in Seq(Block(MaxNode))
    /\ DOMAIN p.remat \subseteq Regs(p.blocks)
    /\ \A r \in DOMAIN p.remat : p.remat[r] \in Int

-------------------------------------------------------------------------------
\* Registers live before the instructions of a block, given those live after it.
LiveThrough(insts, out) ==
  FoldRight(LAMBDA i, live : (live \ i.def) \cup Uses(i), insts, out)

\* The registers paired with block b.
LiveAt(outs, b) == {p[2] : p \in {q \in outs : q[1] = b}}

(* The worklist of calc_live computes the least solution of                *)
(* live_out = union of the live_in of the successors, here as a set of     *)
(* pairs; a register travels along at most every block.                    *)
LiveOuts(bs) ==
  LET edges == {e \in (DOMAIN bs) \X (DOMAIN bs) : e[2] \in bs[e[1]].succ}
      Out[n \in 0 .. Len(bs)] ==
        IF n = 0 THEN {}
        ELSE UNION {{e[1]} \X LiveThrough(bs[e[2]].insts, LiveAt(Out[n - 1], e[2])) : e \in edges}
  IN  Out[Len(bs)]

\* Live after instruction i of a block.
LiveAfter(outs, bs, b, i) ==
  LiveThrough(SubSeq(bs[b].insts, i + 1, Len(bs[b].insts)), LiveAt(outs, b))

(***************************************************************************)
(* The sets of registers build_graph makes pairwise interfere: those live  *)
(* before a block's first instruction, and after each instruction those    *)
(* live together with those it defines (a value nobody reads still         *)
(* overwrites its register).                                               *)
(***************************************************************************)
\* Instructions by block and position; position 0 is before the first.
Instructions(bs) == UNION {{b} \X DOMAIN bs[b].insts : b \in DOMAIN bs}
Points(bs) == Instructions(bs) \cup ((DOMAIN bs) \X {0})
At(bs, p) == bs[p[1]].insts[p[2]]

\* Fault: only live registers interfere.
Cliques_LiveOnly(bs) ==
  LET outs == LiveOuts(bs) IN {LiveAfter(outs, bs, p[1], p[2]) : p \in Points(bs)}

Cliques(bs) ==
  LET outs == LiveOuts(bs) IN
  {LiveAfter(outs, bs, p[1], p[2])
     \cup (IF p[2] = 0 THEN {} ELSE At(bs, p).def) : p \in Points(bs)}

\* get_exp: m to the power of n.
GetExp(m, n) ==
  LET e[k \in 0 .. n] == IF k = 0 THEN 1 ELSE m * e[k - 1]
  IN  e[n]

\* build_graph.
GraphOf(bs) ==
  LET cliques == Cliques(bs)
      occ == Regs(bs)
      all == Instructions(bs)
      Inst(p) == At(bs, p)
      Ends(p) == Inst(p).def \cup Uses(Inst(p))
      moves == {p \in all : Inst(p).kind = "move" /\ Cardinality(Ends(p)) = 2}
      Defs(n) == Cardinality({p \in all : n \in Inst(p).def})
      UseCount(n) ==
        Cardinality({q \in all \X (1 .. 3) :
                       q[2] \in DOMAIN Inst(q[1]).use /\ Inst(q[1]).use[q[2]] = n})
      Depth(n) == Max({bs[p[1]].depth : p \in {q \in all : n \in Ends(q)}})
  IN  [occur |-> occ,
       adj |-> [n \in Node |-> (UNION {c \in cliques : n \in c}) \ {n}],
       move |-> [e \in {Ends(p) : p \in moves} |-> Cardinality({p \in moves : Ends(p) = e})],
       cost |-> [n \in occ |-> (Defs(n) + UseCount(n)) * GetExp(4, Depth(n))],
       useCost |-> [n \in occ |-> UseCount(n) * GetExp(4, Depth(n))],
       remat |-> DOMAIN remat,
       temp |-> temps]

-------------------------------------------------------------------------------
(***************************************************************************)
(* rewrite_function: every use and definition of a spilled register gets a *)
(* temporary of its own, numbered in the order of the code and, within an  *)
(* instruction, of spilled_nodes.                                          *)
(***************************************************************************)
\* The definition of a spilled constant goes away with its instruction.
Erased(i) == i.def \cap Range(spilled) \cap DOMAIN remat # {}

\* Fault: an instruction that only defines the register is left alone.
Sites_UsesOnly ==
  {s \in Instructions(blocks) \X DOMAIN spilled :
     ~Erased(At(blocks, s[1])) /\ spilled[s[2]] \in Uses(At(blocks, s[1]))}

Sites ==
  {s \in Instructions(blocks) \X DOMAIN spilled :
     LET i == At(blocks, s[1])
         r == spilled[s[2]]
     IN  ~Erased(i) /\ (r \in Uses(i) \/ (r \in i.def /\ r \notin DOMAIN remat))}

Earlier(s, t) ==
  \/ s[1][1] < t[1][1]
  \/ s[1][1] = t[1][1] /\ s[1][2] < t[1][2]
  \/ s[1] = t[1] /\ s[2] < t[2]

\* Fault: the number is taken after counting up.
Temp_Late(s) == reg_n + 1 + Cardinality({t \in Sites : Earlier(t, s)})

Temp(s) == reg_n + Cardinality({t \in Sites : Earlier(t, s)})

Load(t, slot) == [kind |-> "load", tag |-> slot, def |-> {t}, use |-> <<>>]
Store(t, slot) == [kind |-> "store", tag |-> slot, def |-> {}, use |-> <<t>>]
Const(t, c) == [kind |-> "const", tag |-> c, def |-> {t}, use |-> <<>>]

\* What goes before instruction i for spilled register r, and what goes after.
Reload(i, r, t) ==
  IF r \notin Uses(i) THEN <<>>
  ELSE IF r \in DOMAIN remat THEN <<Const(t, remat[r])>>
  ELSE <<Load(t, r)>>

\* Fault: the store is left out when the instruction also reads the register.
WriteBack_NotUsed(i, r, t) == IF r \in i.def \ Uses(i) THEN <<Store(t, r)>> ELSE <<>>

WriteBack(i, r, t) == IF r \in i.def THEN <<Store(t, r)>> ELSE <<>>

\* The code that replaces the instruction at point p: later registers are
\* loaded after earlier ones, and stored before them.
Rewritten(p) ==
  LET i == At(blocks, p)
      m == Len(spilled)
      Here(j) == <<p, j>> \in Sites
      Around(Part(_, _, _), j) ==
        IF Here(j) THEN Part(i, spilled[j], Temp(<<p, j>>)) ELSE <<>>
      Name(r) ==
        IF \E j \in 1 .. m : spilled[j] = r /\ Here(j)
        THEN Temp(<<p, CHOOSE j \in 1 .. m : spilled[j] = r>>) ELSE r
      named == [i EXCEPT !.def = {Name(r) : r \in @}, !.use = [k \in DOMAIN @ |-> Name(@[k])]]
  IN  IF Erased(i) THEN <<>>
      ELSE FlattenSeq([j \in 1 .. m |-> Around(Reload, j)])
             \o <<named>> \o FlattenSeq([j \in 1 .. m |-> Around(WriteBack, m + 1 - j)])

-------------------------------------------------------------------------------
RegInit ==
  /\ source \in Programs
  /\ blocks = source.blocks
  /\ reg_n = 1 + Max(Regs(source.blocks) \cup Machine)
  /\ remat = source.remat
  /\ temps = {}
  /\ pc = "build"
  /\ graph = <<>> /\ adj = <<>> /\ move = <<>> /\ remain = {} /\ work = <<>>
  /\ stack = <<>> /\ alias = <<>> /\ todo = <<>> /\ gain = 0 /\ frozen = <<>>
  /\ spilled = <<>> /\ color = <<>> /\ used = {}

Build ==
  /\ pc = "build"
  /\ \E g \in {GraphOf(blocks)} : Restart(g)
  /\ UNCHANGED code

\* The run failed: rewrite the function, and around the loop of reg_allocate.
Rewrite ==
  /\ pc = "rewrite"
  /\ reg_n + Cardinality(Sites) <= MaxNode
  /\ blocks' = [b \in DOMAIN blocks |->
                  [blocks[b] EXCEPT !.insts =
                     FlattenSeq([k \in DOMAIN @ |-> Rewritten(<<b, k>>)])]]
  /\ reg_n' = reg_n + Cardinality(Sites)
  /\ temps' = temps \cup {Temp(s) : s \in Sites}
  /\ LET again == {s \in Sites : spilled[s[2]] \in DOMAIN remat} IN
       remat' = [r \in DOMAIN remat \cup {Temp(s) : s \in again} |->
                   IF r \in DOMAIN remat THEN remat[r]
                   ELSE remat[spilled[(CHOOSE s \in again : Temp(s) = r)[2]]]]
  /\ pc' = "build"
  /\ UNCHANGED <<source, graph, adj, move, remain, work, stack, alias, todo, gain, frozen,
                 spilled, color, used>>

RegStep == Build \/ (Step /\ UNCHANGED code)

-------------------------------------------------------------------------------
(***************************************************************************)
(* What a program does along a path, as far as registers matter: for every *)
(* "op" and "call" in turn, where each of its operands comes from.  A      *)
(* value is a number, the address of an array, or the distance of a slot   *)
(* from where sp is.  m is the machine: what registers and the words of    *)
(* slots and arrays hold, where sp is, the stack arguments pushed for the  *)
(* next call, and the observations so far.                                 *)
(***************************************************************************)
Passed(k) == -100 - k   \* the value of stack parameter k

Num(n) == <<"num", n, 0>>
Address(a) == <<"address", a, 0>>
Distance(x, sp) == <<"distance", x, sp>>

\* maintain_sp
SpChange(i) == CASE i.kind = "push" -> -1 [] i.kind = "sp" -> i.tag [] OTHER -> 0

\* What is in a place; nothing has been put there yet where f does not say.
Held(f, x) == IF x \in DOMAIN f THEN f[x] ELSE Num(0)

\* Value v in place x, and f over what was in places before.
In(x, v) == [y \in {x} |-> v]
Over(f, g) == [x \in DOMAIN f \cup DOMAIN g |-> IF x \in DOMAIN f THEN f[x] ELSE g[x]]

Operands(m, i, reg) == [k \in DOMAIN i.use |-> Held(m.val, reg[i.use[k]])]

Result(m, i, in) ==
  CASE i.kind = "move" -> in[1]
    [] i.kind = "addr" -> Address(i.tag)
    [] i.kind = "offset" -> Distance(i.tag, m.sp)
    [] i.kind = "load" -> Held(m.slot, <<i.tag, 0>>)
    [] i.kind = "get" -> Held(m.slot, <<in[1][2], i.tag>>)
    [] i.kind = "param" -> Num(Passed(i.tag))
    [] OTHER -> Num(i.tag)

\* What a store puts where: word 0 of a slot, or a word of an array.
Written(i, in) ==
  CASE i.kind = "store" -> In(<<i.tag, 0>>, in[1])
    [] i.kind = "far" -> In(<<in[2][2], 0>>, in[1])
    [] i.kind = "put" -> In(<<in[1][2], i.tag>>, in[2])
    [] OTHER -> <<>>

Numbers(in) == [k \in DOMAIN in |-> in[k][2]]

Seen(m, i, in) ==
  CASE i.kind = "op" -> Append(m.seen, <<i.tag, Numbers(in), <<>>>>)
    [] i.kind = "call" -> Append(m.seen, <<i.tag, Numbers(in), m.pushed>>)
    [] OTHER -> m.seen

(***************************************************************************)
(* What a program relies on: registers, slots and words are written before *)
(* they are read, arrays are accessed inside, stack parameters are there,  *)
(* addresses of the stack are not handed out, a distance is used where sp  *)
(* still is, and sp moves for calls only, below where the function has it. *)
(***************************************************************************)
Meaningful(arrays, m, i, reg, in) ==
  /\ \A k \in DOMAIN i.use : reg[i.use[k]] \in DOMAIN m.val
  /\ i.kind = "load" => <<i.tag, 0>> \in DOMAIN m.slot
  /\ i.kind = "get" => <<in[1][2], i.tag>> \in DOMAIN m.slot
  /\ i.kind \in {"get", "put"} =>
       \E a \in Range(arrays) : in[1] = Address(a.id) /\ i.tag \in 0 .. a.size - 1
  /\ i.kind = "param" => i.tag \in 1 .. MaxNode
  /\ i.kind = "far" => in[2] = Distance(i.tag, m.sp)
  /\ i.kind \in {"op", "call", "push"} => \A k \in DOMAIN in : in[k][1] = "num"
  /\ i.kind = "sp" => m.pushed = <<>>
  /\ m.sp + SpChange(i) <= 0

\* reg: the place of each register (itself, before colouring).
Effect(arrays, m, i, reg) ==
  LET in == Operands(m, i, reg) IN
  [val |-> Over([x \in {reg[d] : d \in i.def} |-> Result(m, i, in)], m.val),
   slot |-> Over(Written(i, in), m.slot),
   sp |-> m.sp + SpChange(i),
   pushed |-> CASE i.kind = "push" -> <<in[1][2]>> \o m.pushed
                [] i.kind = "call" -> <<>>
                [] OTHER -> m.pushed,
   seen |-> Seen(m, i, in),
   faults |-> m.faults \cup (IF Meaningful(arrays, m, i, reg, in) THEN {} ELSE {i})]

AtStart ==
  [val |-> [r \in Machine |-> Num(-1 - r)], slot |-> [a \in {} |-> Num(0)], sp |-> 0,
   pushed |-> <<>>, seen |-> <<>>, faults |-> {}]

CodeAlong(bs, path) == FlattenSeq([k \in DOMAIN path |-> bs[path[k]].insts])

\* The machine m after code.
After(arrays, reg, m, insts) == FoldLeft(LAMBDA n, i : Effect(arrays, n, i, reg), m, insts)

Outcome(arrays, bs, reg, path) == After(arrays, reg, AtStart, CodeAlong(bs, path))

Behaviour(bs, reg, path) == Outcome(source.arrays, bs, reg, path).seen

Identity == [n \in Node |-> n]

-------------------------------------------------------------------------------
Slot(n) == [id |-> n, size |-> 1]

\* Spill code is about slots, stores and what moves sp define nothing,
\* addresses are of arrays, and a register with a known constant is defined
\* by load_imm or load_symbol_addr alone.
Sound(i, objs, rm) ==
  /\ i.kind \in {"load", "store", "offset", "far"} => Slot(i.tag) \in Range(objs)
  /\ i.kind \in {"store", "far", "put", "push", "sp"} => i.def = {}
  /\ i.kind = "addr" => \E x \in Range(objs) : x.id = i.tag
  /\ \A r \in i.def \cap DOMAIN rm : i.kind = "const" /\ i.def = {r} /\ i.tag = rm[r]

\* The steps of a path are edges of the function.
Follows(path, bs) == \A k \in 1 .. Len(path) - 1 : path[k + 1] \in bs[path[k]].succ

\* Functions come with code that means something on every path.
ASSUME RunAssumption ==
  \A p \in Programs :
    /\ DOMAIN p.remat \cap Machine = {}
    /\ \A q \in Instructions(p.blocks) : Sound(At(p.blocks, q), p.arrays, p.remat)
    /\ \A path \in p.paths :
         Follows(path, p.blocks) /\ Outcome(p.arrays, p.blocks, Identity, path).faults = {}

(***************************************************************************)
(* Rewriting around spills changes nothing: along every path each operand  *)
(* still gets the value of the same instruction of the source.             *)
(***************************************************************************)
RewritePreserves ==
  pc = "build" =>
    \A p \in source.paths :
      Behaviour(blocks, Identity, p) = Behaviour(source.blocks, Identity, p)

(***************************************************************************)
(* The whole allocation changes nothing: with machine registers in place   *)
(* of pseudo registers, merged moves, slots and constants loaded again,    *)
(* every operand gets the value it got in the source.                      *)
(***************************************************************************)
SameBehaviour ==
  pc = "done" =>
    \A p \in source.paths :
      Behaviour(blocks, color, p) = Behaviour(source.blocks, Identity, p)

(***************************************************************************)
(* Rounds make progress: a register that was spilled is gone from the      *)
(* code, so no register is spilled twice and the loop of reg_allocate ends.*)
(***************************************************************************)
SpilledAreGone ==
  [][Rewrite => \A n \in Range(spilled) : n \notin Regs(blocks')]_<<vars, code>>

(***************************************************************************)
(* What the graph is for: in the code that is emitted, registers that are  *)
(* alive together, or one defined while the other is alive, have different *)
(* machine registers (calc_live and build_graph with assign_colors).       *)
(***************************************************************************)
AliveApart ==
  pc \in {"done", "framed"} =>
    \A c \in Cliques(blocks) : \A x, y \in c :
      color[x] \in Machine /\ (x # y => color[x] # color[y])

-------------------------------------------------------------------------------
\* The code is code: new registers are numbered above those in use.
CodeOK ==
  /\ reg_n \in K .. MaxNode
  /\ blocks \in Seq(Block(reg_n))
  /\ DOMAIN remat \subseteq 0 .. reg_n - 1
  /\ \A r \in DOMAIN remat : remat[r] \in Int
===============================================================================
