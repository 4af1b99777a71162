-------------------------------- MODULE Frame --------------------------------
(***************************************************************************)
(* Func::allocate_register (arm/func.cpp): once every register has its     *)
(* colour, the stack objects get their places in the frame and the         *)
(* callee-saved registers in use are saved above them.  A store whose      *)
(* offset from sp does not fit its instruction is replaced by one through  *)
(* a new register, and the allocation starts again.  This module has the   *)
(* layout, the code of calls and parameters that moves sp and relies on    *)
(* it (arm/block.cpp, handle_params), and what the emitted code does.      *)
(*                                                                         *)
(* Sizes, offsets and addresses are in words.  sp is 0 where the function  *)
(* is entered; what lies above belongs to the caller.                      *)
(***************************************************************************)
EXTENDS RegAlloc

CONSTANTS
  Reach,   \* a load or store reaches -Reach .. Reach words from its base
  LR       \* the register with the return address

ASSUME FrameAssumption == Reach \in Nat /\ LR \in CalleeSave

VARIABLES
  objects,   \* stack_objects: [id, size], the arrays, then the slots of spilled registers
  frame      \* the layout: where each object is, its size, the registers saved

state == <<vars, code, objects, frame>>

Instr(kind, tag, def, use) == [kind |-> kind, tag |-> tag, def |-> def, use |-> use]
Move(d, s) == Instr("move", 0, {d}, <<s>>)
ChangeSP(n) == Instr("sp", n, {}, <<>>)

-------------------------------------------------------------------------------
\* A call, with one argument in a register and the others pushed, the last
\* one first; sp is moved so that it is a multiple of eight bytes.
CallOf(tag, args) ==
  LET n == Len(args)
      odd == (n - 1) % 2
  IN  (IF odd = 1 THEN <<ChangeSP(-1)>> ELSE <<>>)
        \o [k \in 1 .. n |-> IF k = n THEN Move(0, args[1]) ELSE Instr("push", 0, {}, <<args[n + 1 - k]>>)]
        \o <<Instr("call", tag, {0, LR}, <<0>>)>>
        \o (IF n > 1 THEN <<ChangeSP(n - 1 + odd)>> ELSE <<>>)

\* handle_params: the parameters arrive the way CallOf passes them.
Params(regs) ==
  [k \in DOMAIN regs |-> IF k = 1 THEN Move(regs[1], 0) ELSE Instr("param", k - 1, {regs[k]}, <<>>)]

\* Where sp is after the first k instructions, relative to the start of their block.
SpAfter(insts, k) == FoldLeft(LAMBDA n, i : n + SpChange(i), 0, SubSeq(insts, 1, k))

\* Fault: only pushes count.
SpOffset_PushOnly(p) ==
  FoldLeft(LAMBDA n, i : n + (IF i.kind = "push" THEN -1 ELSE 0), 0, SubSeq(blocks[p[1]].insts, 1, p[2]))

SpOffset(p) == SpAfter(blocks[p[1]].insts, p[2])

\* A block gives back what its calls took; these find sp at an even word and
\* leave their results in machine registers.
Balanced(insts) ==
  /\ SpAfter(insts, Len(insts)) = 0
  /\ \A k \in DOMAIN insts :
       /\ insts[k].kind = "call" => SpAfter(insts, k) % 2 = 0
       /\ insts[k].kind \in {"push", "sp", "call"} => insts[k].def \subseteq Machine

\* Calls are written as CallOf does, and arrays are numbered after the registers.
ASSUME StackAssumption ==
  \A p \in Programs :
    /\ \A b \in DOMAIN p.blocks : Balanced(p.blocks[b].insts)
    /\ p.paths \subseteq Seq(DOMAIN p.blocks)
    /\ p.arrays \in Seq([id : Nat \ Node, size : Nat])
    /\ \A j, k \in DOMAIN p.arrays : p.arrays[j].id = p.arrays[k].id => j = k

-------------------------------------------------------------------------------
Size(objs) == FoldLeft(LAMBDA n, o : n + o.size, 0, objs)

\* The callee-saved registers some register of the code got.
Saved == Ascending({r \in CalleeSave : \E n \in Node : color[n] = r})

\* Fault: the saved registers are not counted.
Padded_ObjectsOnly == Size(objects) + (Size(objects) % 2)

\* With the saved registers, a multiple of eight bytes.
Padded == Size(objects) + ((Size(objects) + Len(Saved)) % 2)

Place(x) == Size(SubSeq(objects, 1 + CHOOSE k \in DOMAIN objects : objects[k].id = x, Len(objects)))

\* Fault: the parameters follow the objects.
Layout_NoSaves ==
  [at |-> [x \in {o.id : o \in Range(objects)} |-> Place(x)],
   size |-> Padded, saved |-> Saved, params |-> Padded]

\* Objects from the last one up, a word for alignment, the saved registers,
\* the parameters on the stack.
Layout ==
  [at |-> [x \in {o.id : o \in Range(objects)} |-> Place(x)],
   size |-> Padded, saved |-> Saved, params |-> Padded + Len(Saved)]

FarStores(f) ==
  {p \in Instructions(blocks) :
     At(blocks, p).kind = "store" /\ f.at[At(blocks, p).tag] - SpOffset(p) \notin -Reach .. Reach}

\* The register for the offset of the store at p.
OffsetReg(far, p) == reg_n + Cardinality({q \in far : Earlier(<<q, 0>>, <<p, 0>>)})

\* What check_store_stack makes of the instruction at p.
Checked(far, p) ==
  LET i == At(blocks, p)
      r == OffsetReg(far, p)
  IN  IF p \in far
      THEN <<Instr("offset", i.tag, {r}, <<>>), Instr("far", i.tag, {}, <<i.use[1], r>>)>>
      ELSE <<i>>

-------------------------------------------------------------------------------
FrameInit == RegInit /\ objects = source.arrays /\ frame = <<>>

\* rewrite_function gives the registers that are no constants a slot each.
SlotFor(n) == IF n \in DOMAIN remat THEN <<>> ELSE <<Slot(n)>>

Spilling ==
  /\ Rewrite
  /\ objects' = objects \o FlattenSeq([k \in DOMAIN spilled |-> SlotFor(spilled[k])])
  /\ UNCHANGED frame

\* check_store_stack had something to replace: around the loop again.
Replace ==
  /\ pc = "done"
  /\ LET far == FarStores(Layout) IN
       /\ far # {}
       /\ reg_n + Cardinality(far) <= MaxNode
       /\ blocks' = [b \in DOMAIN blocks |->
                       [blocks[b] EXCEPT !.insts =
                          FlattenSeq([k \in DOMAIN @ |-> Checked(far, <<b, k>>)])]]
       /\ reg_n' = reg_n + Cardinality(far)
  /\ pc' = "build"
  /\ UNCHANGED <<source, remat, temps, graph, adj, move, remain, work, stack, alias, todo, gain,
                 frozen, spilled, color, used, objects, frame>>

Finish ==
  /\ pc = "done"
  /\ FarStores(Layout) = {}
  /\ frame' = Layout
  /\ pc' = "framed"
  /\ UNCHANGED <<code, graph, adj, move, remain, work, stack, alias, todo, gain, frozen, spilled,
                 color, used, objects>>

Allocate == RegStep /\ UNCHANGED <<objects, frame>>

FrameStep == Allocate \/ Spilling \/ Replace \/ Finish

Framed == pc = "framed" /\ UNCHANGED state

FrameSpec == FrameInit /\ [][FrameStep \/ Framed]_state /\ WF_state(FrameStep)

-------------------------------------------------------------------------------
(***************************************************************************)
(* What the emitted code does (gen_asm, replace_complex_inst): m is the    *)
(* machine with its registers, memory and sp, the stack arguments pushed   *)
(* for the next call, and the observations, as in Effect.  A callee may    *)
(* overwrite whatever is below sp.                                         *)
(***************************************************************************)
\* The word at a; nothing has been put there yet where the memory does not say.
Word(m, a) == IF a \in DOMAIN m.mem THEN m.mem[a] ELSE 0

Put(m, a, v) == [m EXCEPT !.mem = Over(In(a, v), @)]
Drop(m) == [m EXCEPT !.mem = [a \in {b \in DOMAIN @ : b >= m.sp} |-> @[a]]]

Execute(m, p) ==
  LET i == At(blocks, p)
      in == [k \in DOMAIN i.use |-> m.val[color[i.use[k]]]]
      Set(v) == [m EXCEPT !.val = Over([x \in {color[d] : d \in i.def} |-> v], @)]
      Offset == frame.at[i.tag] - SpOffset(p)
  IN  CASE i.kind = "op" -> [Set(i.tag) EXCEPT !.seen = Append(@, <<i.tag, in, <<>>>>)]
        [] i.kind = "move" -> Set(in[1])
        [] i.kind = "const" -> Set(i.tag)
        [] i.kind = "load" -> Set(Word(m, m.sp + Offset))
        [] i.kind = "store" -> Put(m, m.sp + Offset, in[1])
        [] i.kind = "offset" -> Set(Offset)
        [] i.kind = "far" -> Put(m, m.sp + in[2], in[1])
        [] i.kind = "addr" -> Set(m.sp + Offset)
        [] i.kind = "get" -> Set(Word(m, in[1] + i.tag))
        [] i.kind = "put" -> Put(m, in[1] + i.tag, in[2])
        [] i.kind = "param" -> Set(Word(m, m.sp + frame.params + i.tag - 1 - SpOffset(p)))
        [] i.kind = "push" -> [Put(m, m.sp - 1, in[1]) EXCEPT !.sp = @ - 1, !.pushed = @ + 1]
        [] i.kind = "call" ->
             [Drop(Set(i.tag)) EXCEPT
                !.seen = Append(@, <<i.tag, in, [k \in 1 .. m.pushed |-> Word(m, m.sp + k - 1)]>>),
                !.pushed = 0, !.aligned = @ /\ m.sp % 2 = 0]
        [] i.kind = "sp" -> [m EXCEPT !.sp = @ + i.tag]

\* Fault: the frame is made before the registers are saved.
Prologue_FrameFirst(m) ==
  LET low == m.sp - Len(frame.saved) - frame.size IN
  [m EXCEPT !.sp = low,
            !.mem = Over([a \in {low + k - 1 : k \in DOMAIN frame.saved} |->
                            m.val[frame.saved[a - low + 1]]], @)]

Prologue(m) ==
  LET low == m.sp - Len(frame.saved) IN
  [m EXCEPT !.sp = low - frame.size,
            !.mem = Over([a \in low .. m.sp - 1 |-> m.val[frame.saved[a - low + 1]]], @)]

\* The saved link register is popped into pc; otherwise bx lr returns.
Epilogue(m) ==
  LET low == m.sp + frame.size
      Saves(k) == Word(m, low + k - 1)
      back == [r \in Range(frame.saved) |-> Saves(CHOOSE k \in DOMAIN frame.saved : frame.saved[k] = r)]
  IN  [m EXCEPT !.sp = low + Len(frame.saved), !.val = Over(back, @)]

AtEntry ==
  [val |-> [r \in Machine |-> -1 - r], mem |-> [a \in 0 .. MaxNode |-> Passed(a + 1)],
   sp |-> 0, pushed |-> 0, aligned |-> TRUE, seen |-> <<>>]

AtReturn(path) ==
  Epilogue(FoldLeft(Execute, Prologue(AtEntry),
                    FlattenSeq([k \in DOMAIN path |->
                                  [i \in DOMAIN blocks[path[k]].insts |-> <<path[k], i>>]])))

-------------------------------------------------------------------------------
(***************************************************************************)
(* The emitted code does what the source does, on a real stack: every      *)
(* operand and every stack argument of a call is the one of the source,    *)
(* wherever sp stands when a slot or a parameter is read or written, and   *)
(* however often the allocation started again.                             *)
(***************************************************************************)
FrameBehaviour ==
  pc = "framed" =>
    \A p \in source.paths : AtReturn(p).seen = Behaviour(source.blocks, Identity, p)

(***************************************************************************)
(* The caller gets back its stack pointer, its callee-saved registers and  *)
(* its memory, and is returned to: no slot, array element, push or saved   *)
(* register lies in the place of another.                                  *)
(***************************************************************************)
CallerUnharmed ==
  pc = "framed" =>
    \A p \in source.paths :
      LET m == AtReturn(p) IN
      /\ m.sp = 0
      /\ \A r \in CalleeSave : m.val[r] = AtEntry.val[r]
      /\ \A a \in DOMAIN AtEntry.mem : Word(m, a) = AtEntry.mem[a]

(***************************************************************************)
(* sp is a multiple of eight bytes at every call, which takes the layout   *)
(* and the call sequences together.                                        *)
(***************************************************************************)
CallsAligned == pc = "framed" => \A p \in source.paths : AtReturn(p).aligned

(***************************************************************************)
(* allocate_register comes to an end: the rounds of the allocator do, and  *)
(* those check_store_stack adds, although registers for offsets may spill  *)
(* and make the frame larger.                                              *)
(***************************************************************************)
Allocates == <>(pc = "framed")

-------------------------------------------------------------------------------
(***************************************************************************)
(* In every round the graph is that of the code as it is then, a run of    *)
(* the allocator keeps its invariant, and its colours fit the code until   *)
(* the code is emitted or changed.                                         *)
(***************************************************************************)
FrameInv ==
  /\ CodeOK
  /\ pc # "build" => graph = GraphOf(blocks)
  /\ pc \notin {"build", "framed"} => Inv
  /\ CalleeSavePrefix
  /\ AliveApart

(***************************************************************************)
(* No word of the frame has two uses: the objects lie apart from each      *)
(* other and below the saved registers, and the parameters above those.    *)
(***************************************************************************)
WordsApart ==
  pc = "framed" =>
    /\ frame.params = frame.size + Len(frame.saved)
    /\ \A x, y \in Range(objects) :
         /\ frame.at[x.id] >= 0 /\ frame.at[x.id] + x.size <= frame.size
         /\ x # y => \/ frame.at[x.id] + x.size <= frame.at[y.id]
                     \/ frame.at[y.id] + y.size <= frame.at[x.id]

(***************************************************************************)
(* The stack through the rounds: whatever is put into the code leaves sp   *)
(* where it was, and each slot belongs to a register that was spilled once *)
(* and whose number is not given out again.                                *)
(***************************************************************************)
StackInv ==
  /\ source \in Programs
  /\ DOMAIN blocks = DOMAIN source.blocks
  /\ \A b \in DOMAIN blocks : Balanced(blocks[b].insts)
  /\ objects \in Seq([id : Nat, size : Nat])
  /\ \A j, k \in DOMAIN objects : objects[j].id = objects[k].id => j = k
  /\ \A x \in Range(objects) : x.id \notin Regs(blocks) \cup (reg_n .. MaxNode - 1)
  /\ IsInjective(spilled)
  /\ pc = "framed" => frame = Layout

(***************************************************************************)
(* The code through the rounds: it means something on every path, and what *)
(* the source means; spill code finds its slot, and a register that is     *)
(* loaded again as a constant has no other definition.                     *)
(***************************************************************************)
RunInv ==
  /\ DOMAIN remat \cap Machine = {}
  /\ Range(source.arrays) \subseteq Range(objects)
  /\ \A q \in Instructions(blocks) : Sound(At(blocks, q), objects, remat)
  /\ \A b \in DOMAIN blocks : blocks[b].succ = source.blocks[b].succ
  /\ \A path \in source.paths :
       LET run == Outcome(source.arrays, blocks, Identity, path) IN
       run.faults = {} /\ run.seen = Behaviour(source.blocks, Identity, path)

AllocInv == FrameInv /\ StackInv /\ WordsApart /\ RunInv
=============================================================================
