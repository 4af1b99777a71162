--------------------------------- MODULE Memory -------------------------------
(***************************************************************************)
(* What a program does with memory (ir/opt/side_effect.cpp): where         *)
(* addresses come from, what functions and loops may read and write, and   *)
(* the loads, stores and calls that are not needed for that reason.        *)
(***************************************************************************)
EXTENDS Calls

(***************************************************************************)
(* PointerBase: an address register points into base, a memory object      *)
(* <<"mem", o>> or argument n of function k <<"arg", k, n>>, at the offset *)
(* in at if that is known (mustbe).                                        *)
(***************************************************************************)
Pointer(base, at) == [base |-> base, at |-> at]

\* Fault: the offset is still known after an index that is not.
OffsetAfter_Kept(w, i, const) == w.at
OffsetAfter(w, i, const) == IF i.u[2] \in DOMAIN const THEN {a + const[i.u[2]] * i.k : a \in w.at} ELSE {}

\* What i defines points to: one pointer or none.
PointerOf(ptr, k, i, const) ==
  CASE i.op = "addr" -> {Pointer(<<"mem", i.k>>, {0})}
    [] i.op = "arg" -> {Pointer(<<"arg", k, i.k>>, {})}
    [] i.op = "index" -> {Pointer(ptr[i.u[1]].base, OffsetAfter(ptr[i.u[1]], i, const))}
    [] i.op \in {"phi", "id"} ->
         LET known == {n \in DOMAIN i.u : i.u[n] \in DOMAIN ptr} IN
         IF known = {} THEN {} ELSE {ptr[i.u[Min(known)]]}
    [] OTHER -> {}

\* get_const of Defs.
Constants(f) ==
  LET cs == {At(f, p) : p \in {p \in Points(f) : OpAt(f, p) = "const"}} IN
  Strict([r \in {i.d : i \in cs} |-> (CHOOSE i \in cs : i.d = r).k])

PointersAlong(f, k, order, const) ==
  Fold(LAMBDA ptr, i : LET w == PointerOf(ptr, k, i, const) IN
                       IF w = {} THEN ptr ELSE (i.d :> CHOOSE x \in w : TRUE) @@ ptr,
       <<>>, Concat([n \in DOMAIN order |-> f.code[order[n]]]))

Pointers(f, k, l) == PointersAlong(f, k, VisitOrder(l, Top), Constants(f))

(***************************************************************************)
(* update_alias: what an argument points to is what some call hands over;  *)
(* maybe of a register is the objects its base stands for in the end.      *)
(***************************************************************************)
Alias(u, ptr) ==
  UNION {UNION {LET i == At(u.fn[k], p) IN
                {<<ptr[k][i.u[n]].base, <<"arg", i.k, n>>>> : n \in {n \in DOMAIN i.u : i.u[n] \in DOMAIN ptr[k]}}
                : p \in {p \in CallPoints(u.fn[k]) : At(u.fn[k], p).k > 0}} : k \in DOMAIN u.fn}

RECURSIVE Sources(_, _)
Sources(alias, S) ==
  LET more == S \cup {e[1] : e \in {e \in alias : e[2] \in S}} IN IF more = S THEN S ELSE Sources(alias, more)
Objects(alias, base) == {s[2] : s \in {s \in Sources(alias, {base}) : s[1] = "mem"}}

MaybeOf(ptr, alias) ==
  Strict([k \in DOMAIN ptr |-> Strict([r \in DOMAIN ptr[k] |-> Objects(alias, ptr[k][r].base)])])

-------------------------------------------------------------------------------
(***************************************************************************)
(* SideEffect: a is what is known of the unit: ptr and may of every        *)
(* function, its loop tree in tree, and loop[k][h], what the loop of       *)
(* header h may read (r) and write (w); Top is the function.  AnyMem stands   *)
(* for memory nothing is known of (nullptr).                               *)
(***************************************************************************)
AnyMem == 0
Nothing == [r |-> {}, w |-> {}]
Both(x, y) == [r |-> x.r \cup y.r, w |-> x.w \cup y.w]
May(a, k, r) == IF r \in DOMAIN a.may[k] THEN a.may[k][r] ELSE {}

\* Fault: what a called function writes is forgotten.
CalleeEffect_ReadsOnly(a, k) == [r |-> a.loop[k][Top].r, w |-> {}]
CalleeEffect(a, k) == a.loop[k][Top]

InstrEffect(u, a, k, i) ==
  CASE i.op = "load" -> [r |-> a.may[k][i.u[1]], w |-> {}]
    [] i.op = "store" -> [r |-> {}, w |-> a.may[k][i.u[1]]]
    [] i.op = "call" /\ i.k = k ->
         [r |-> IF k \in u.noLoad THEN {} ELSE {AnyMem}, w |-> IF k \in u.noStore THEN {} ELSE {AnyMem}]
    [] i.op = "call" /\ i.k > 0 /\ i.k # k -> CalleeEffect(a, i.k)
    [] i.op = "call" /\ i.k < 0 ->
         LET given == UNION {May(a, k, i.u[n]) : n \in DOMAIN i.u} IN [r |-> given, w |-> given]
    [] OTHER -> Nothing

\* visitBB; what is never written is not read either.
BlockEffect(u, a, k, b) ==
  LET is == u.fn[k].code[b]
      all == Fold(LAMBDA x, i : Both(x, InstrEffect(u, a, k, i)), Nothing, is)
  IN  [all EXCEPT !.r = @ \ u.const]

LoopEffect(l, effect, h) ==
  LET bs == {b \in l.live : InLoop(l, b, h)} IN
  [r |-> UNION {effect[b].r : b \in bs}, w |-> UNION {effect[b].w : b \in bs}]

\* Callees before callers: the order of the functions.
AddEffect(u, a, k) ==
  LET l == a.tree[k]
      effect == Strict([b \in l.live |-> BlockEffect(u, a, k, b)])
  IN  [a EXCEPT !.loop = (k :> Strict([h \in l.heads \cup {Top} |-> LoopEffect(l, effect, h)])) @@ @]

WithEffects(u, tree, ptr) ==
  Fold(LAMBDA a, k : AddEffect(u, a, k),
       [tree |-> tree, ptr |-> ptr, may |-> MaybeOf(ptr, Alias(u, ptr)), loop |-> <<>>], u.order)
WithPointers(u, tree) ==
  WithEffects(u, tree, Strict([k \in DOMAIN u.fn |-> Pointers(u.fn[k], k, tree[k])]))
Analysis(u) == WithPointers(u, Strict([k \in DOMAIN u.fn |-> Loops(u.fn[k])]))

\* may_read and may_write of a called function.
MayRead(a, k) == IF k \in PureLib THEN {} ELSE IF k < 0 THEN {AnyMem} ELSE a.loop[k][Top].r
MayWrite(a, k) == IF k \in PureLib THEN {} ELSE IF k < 0 THEN {AnyMem} ELSE a.loop[k][Top].w

\* checkWAR: can what is written be what is read?
Clash(ws, rs) == ws # {} /\ rs # {} /\ (AnyMem \in ws \cup rs \/ ws \cap rs # {})

\* Fault: what is handed on is not looked at.
FindConstant_StoresOnly(u, a) ==
  LET bases == UNION {{a.ptr[k][At(u.fn[k], p).u[1]].base : p \in {p \in Points(u.fn[k]) : OpAt(u.fn[k], p) = "store"}}
                      : k \in DOMAIN u.fn}
  IN  {o \in DOMAIN u.size : <<"mem", o>> \notin bases}

\* find_constant: the objects no address of which is stored to or handed on.
FindConstant(u, a) ==
  LET Given(k) == UNION {LET i == At(u.fn[k], p) IN
                         IF i.op = "store" THEN {i.u[1]} ELSE IF i.op = "call" THEN Range(i.u) ELSE {}
                         : p \in Points(u.fn[k])}
      bases == UNION {{a.ptr[k][r].base : r \in Given(k) \cap DOMAIN a.ptr[k]} : k \in DOMAIN u.fn}
      all == DOMAIN u.size \cup UNION {DOMAIN u.fn[k].size : k \in DOMAIN u.fn}
  IN  {o \in all : <<"mem", o>> \notin bases}

-------------------------------------------------------------------------------
(***************************************************************************)
(* The forward visitors.  acc is the function so far, what holds on the    *)
(* ways into and out of blocks and loops, and reg, the registers replaced  *)
(* (ReplaceReg).  At a loop header only what the loop does not write holds.*)
(***************************************************************************)
Walk(f, l, in, VisitBB(_, _)) ==
  Fold(LAMBDA acc, ev : IF ev[1] = "block" THEN VisitBB(acc, ev[2]) ELSE ForwardEdge(l, acc, ev),
       [f |-> f, in |-> in, out |-> <<>>, loopOut |-> <<>>, reg |-> <<>>], ForwardEvents(l, Top)).f

Visited(acc, b, s) ==
  [acc EXCEPT !.f.code[b] = s.is, !.out = (b :> s.m) @@ @, !.reg = s.reg]
Replaced(i, reg) == LET To(r) == IF r \in DOMAIN reg THEN reg[r] ELSE r IN MapUse(i, To)
Keep(m, ks) == Strict([x \in ks |-> m[x]])

\* LoadToReg: m has, of addresses, the register with what is stored there.
Forget(a, k, m, ws) == Keep(m, {r \in DOMAIN m : ~Clash(ws, May(a, k, r))})

LoadToRegInstr(a, k, s, x) ==
  LET i == Replaced(x, s.reg)
      d == i.d
  IN
  CASE i.op = "load" /\ i.u[1] \in DOMAIN s.m ->
         [s EXCEPT !.is = Append(@, Unary("id", d, s.m[i.u[1]])), !.reg = (d :> s.m[i.u[1]]) @@ @]
    [] i.op = "load" /\ i.u[1] \notin DOMAIN s.m -> [s EXCEPT !.is = Append(@, i), !.m = (i.u[1] :> d) @@ @]
    [] i.op = "store" ->
         [s EXCEPT !.is = Append(@, i), !.m = (i.u[1] :> i.u[2]) @@ Forget(a, k, @, May(a, k, i.u[1]))]
    [] i.op = "call" -> [s EXCEPT !.is = Append(@, i), !.m = Forget(a, k, @, MayWrite(a, i.k))]
    [] OTHER -> [s EXCEPT !.is = Append(@, i)]

LoadToReg(a, k, f) ==
  LET l == a.tree[k]
      VisitBB(acc, b) ==
        LET m == Facts(acc.in, b)
            m0 == IF b \in l.heads THEN Forget(a, k, m, a.loop[k][b].w) ELSE m
        IN  Visited(acc, b, Fold(LAMBDA s, i : LoadToRegInstr(a, k, s, i),
                                 [m |-> m0, reg |-> acc.reg, is |-> <<>>], acc.f.code[b]))
  IN  Walk(f, l, <<>>, VisitBB)

\* MergePureCall: m has the result of a call <<f, arguments>> that is still right.
StillRight(a, m, ws) == Keep(m, {c \in DOMAIN m : ~Clash(ws, MayRead(a, c[1]))})

MergeCall(u, a, k, s, x) ==
  LET i == Replaced(x, s.reg)
      c == <<i.k, i.u>>
      pure == i.op = "call" /\ i.k \in u.noStore
  IN
  CASE i.op = "store" -> [s EXCEPT !.is = Append(@, i), !.m = StillRight(a, @, May(a, k, i.u[1]))]
    [] pure /\ c \in DOMAIN s.m -> [s EXCEPT !.is = Append(@, Unary("id", i.d, s.m[c])), !.reg = (i.d :> s.m[c]) @@ @]
    [] pure /\ c \notin DOMAIN s.m -> [s EXCEPT !.is = Append(@, i), !.m = (c :> i.d) @@ @]
    [] i.op = "call" /\ ~pure -> [s EXCEPT !.is = Append(@, i), !.m = StillRight(a, @, MayWrite(a, i.k))]
    [] OTHER -> [s EXCEPT !.is = Append(@, i)]

MergePureCall(u, a, k, f) ==
  LET l == a.tree[k]
      VisitBB(acc, b) ==
        LET m == Facts(acc.in, b)
            m0 == IF b \in l.heads THEN StillRight(a, m, a.loop[k][b].w) ELSE m
        IN  Visited(acc, b, Fold(LAMBDA s, i : MergeCall(u, a, k, s, i),
                                 [m |-> m0, reg |-> acc.reg, is |-> <<>>], acc.f.code[b]))
  IN  Walk(f, l, <<>>, VisitBB)

\* GlobalInitProp: m has the objects that still are as they were initialised.
InitialWord(u, o, n) == IF o \in DOMAIN u.init THEN IF n \in DOMAIN u.init[o] THEN u.init[o][n] ELSE 0 ELSE 0
Unwritten(m, ws) == Keep(m, {o \in DOMAIN m : ~Clash(ws, {o})})

PropagateInit(u, a, k, s, i) ==
  LET p == a.ptr[k][i.u[1]]
      given == UNION {May(a, k, r) : r \in Range(i.u)}
      known == /\ p.at # {}
               /\ p.base[2] \in u.const \cup DOMAIN s.m
  IN
  CASE i.op = "load" ->
         [s EXCEPT !.is = Append(@, IF known THEN Const(i.d, InitialWord(u, p.base[2], Min(p.at))) ELSE i)]
    [] i.op = "store" -> [s EXCEPT !.is = Append(@, i), !.m = Unwritten(@, May(a, k, i.u[1]))]
    [] i.op = "call" -> [s EXCEPT !.is = Append(@, i), !.m = Unwritten(@, IF i.k > 0 THEN MayWrite(a, i.k) ELSE given)]
    [] OTHER -> [s EXCEPT !.is = Append(@, i)]

GlobalInitProp(u, a, k, f) ==
  LET l == a.tree[k]
      VisitBB(acc, b) ==
        LET m == Facts(acc.in, b)
            m0 == IF b \in l.heads THEN Unwritten(m, a.loop[k][b].w) ELSE m
        IN  Visited(acc, b, Fold(LAMBDA s, i : PropagateInit(u, a, k, s, i),
                                 [m |-> m0, reg |-> acc.reg, is |-> <<>>], acc.f.code[b]))
  IN  Walk(f, l, IF k = u.main THEN f.entry :> Strict([o \in DOMAIN u.size |-> TRUE]) ELSE <<>>, VisitBB)

-------------------------------------------------------------------------------
\* RemoveUnusedStoreInBB: cur has the addresses stored to later in the block.
StoresInBlock(u, is) ==
  Fold(LAMBDA s, i :
         CASE i.op = "store" /\ i.u[1] \in s.cur -> s
           [] i.op = "store" /\ i.u[1] \notin s.cur -> [cur |-> s.cur \cup {i.u[1]}, is |-> <<i>> \o s.is]
           [] i.op = "load" \/ (i.op = "call" /\ i.k \notin u.noStore) -> [cur |-> {}, is |-> <<i>> \o s.is]
           [] OTHER -> [s EXCEPT !.is = <<i>> \o @],
       [cur |-> {}, is |-> <<>>], Reverse(is)).is
RemoveUnusedStoreInBB(u, f) == [f EXCEPT !.code = Strict([b \in DOMAIN @ |-> StoresInBlock(u, @[b])])]

(***************************************************************************)
(* RemoveUnusedStore, backwards through main: a store goes if nothing it   *)
(* may change may be read later.                                           *)
(***************************************************************************)
InnerLoop(l, h, u) == u # h /\ u \in l.heads

BackwardEdge(l, acc, ev) ==
  LET Into(fn, x, more) == (x :> (more \cup (IF x \in DOMAIN fn THEN fn[x] ELSE {}))) @@ fn
      In(b) == IF b \in DOMAIN acc.in THEN acc.in[b] ELSE {}
      To(h, x, more) == IF InnerLoop(l, h, x) THEN [acc EXCEPT !.loopOut = Into(@, x, more)]
                        ELSE [acc EXCEPT !.out = Into(@, x, more)]
  IN  CASE ev[1] = "edge" -> To(l.head[ev[3]], ev[2], In(ev[3]))
        [] ev[1] = "back" -> To(ev[2], ev[3], acc.loopOut[ev[2]])
        [] ev[1] = "exit" -> [acc EXCEPT !.out = Into(@, ev[3], acc.loopOut[ev[2]])]
        [] OTHER -> acc

StoresNeeded(a, k, is, later) ==
  Fold(LAMBDA s, i :
         CASE i.op = "load" -> [s EXCEPT !.is = <<i>> \o @, !.in = @ \cup May(a, k, i.u[1])]
           [] i.op = "store" -> IF Clash(May(a, k, i.u[1]), s.in) THEN [s EXCEPT !.is = <<i>> \o @] ELSE s
           [] i.op = "call" ->
                [s EXCEPT !.is = <<i>> \o @,
                          !.in = @ \cup (IF i.k > 0 THEN MayRead(a, i.k) ELSE UNION {May(a, k, r) : r \in Range(i.u)})]
           [] OTHER -> [s EXCEPT !.is = <<i>> \o @],
       [in |-> later, is |-> <<>>], Reverse(is))

RemoveUnusedStore(a, k, f) ==
  LET l == a.tree[k]
      VisitBB(acc, b) ==
        LET s == StoresNeeded(a, k, acc.f.code[b], IF b \in DOMAIN acc.out THEN acc.out[b] ELSE {}) IN
        [acc EXCEPT !.f.code[b] = s.is, !.in = (b :> s.in) @@ @]
  IN  Fold(LAMBDA acc, ev : IF ev[1] = "block" THEN VisitBB(acc, ev[2]) ELSE BackwardEdge(l, acc, ev),
           [f |-> f, in |-> <<>>, out |-> <<>>, loopOut |-> Strict([h \in l.heads |-> a.loop[k][h].r])],
           BackwardEvents(l, Top)).f

-------------------------------------------------------------------------------
(***************************************************************************)
(* DAG_IR_ALL: one round of these passes over all functions, with what is  *)
(* known at its start.                                                     *)
(***************************************************************************)
RemoveUnusedMemObj(u) ==
  LET used == {At(u.fn[q[1]], q[2]).k : q \in UNION {{<<k, p>> : p \in {p \in Points(u.fn[k]) : OpAt(u.fn[k], p) = "addr"}}
                                                     : k \in DOMAIN u.fn}}
      Left(f) == [f EXCEPT !.size = Keep(@, DOMAIN @ \cap used), !.single = @ \cap used]
  IN  [EachFunc(u, Left) EXCEPT !.size = Keep(@, DOMAIN @ \cap used), !.single = @ \cap used]

FuncRound(u, a, k, f) ==
  LET g == RemoveUnusedStoreInBB(u, MergePureCall(u, a, k, LoadToReg(a, k, f))) IN
  GlobalInitProp(u, a, k, IF k = u.main THEN RemoveUnusedStore(a, k, g) ELSE g)

RoundWith(u, a) ==
  LET v == [u EXCEPT !.const = FindConstant(u, a)] IN
  [v EXCEPT !.fn = Strict([k \in DOMAIN @ |-> FuncRound(v, a, k, @[k])])]
MemoryRound(u) == RoundWith(u, Analysis(u))

-------------------------------------------------------------------------------
(***************************************************************************)
(* LocalInitToGlobalConst: a local object every store to which puts the    *)
(* same constant at a known place, and no call gets, is a new global that  *)
(* starts with these words.  kv maps such objects to them.                 *)
(***************************************************************************)
ConstantWords(f, ptr, const) ==
  LET is == {At(f, p) : p \in Points(f)}
      Into(o) == {i \in is : i.op = "store" /\ i.u[1] \in DOMAIN ptr /\ ptr[i.u[1]].base = <<"mem", o>>}
      Given(o) == \E i \in is : i.op = "call" /\ \E r \in Range(i.u) : r \in DOMAIN ptr /\ ptr[r].base = <<"mem", o>>
      Fixed(i) == ptr[i.u[1]].at # {} /\ i.u[2] \in DOMAIN const
      Same(i, j) == ptr[i.u[1]].at = ptr[j.u[1]].at => const[i.u[2]] = const[j.u[2]]
      kept == {o \in DOMAIN f.size : ~Given(o) /\ \A i \in Into(o) : Fixed(i) /\ \A j \in Into(o) : Fixed(j) => Same(i, j)}
  IN  Strict([o \in kept |-> Strict([n \in UNION {ptr[i.u[1]].at : i \in Into(o)} |->
                const[(CHOOSE i \in Into(o) : n \in ptr[i.u[1]].at).u[2]]])])

MoveToGlobals(u, k, ptr, kv) ==
  LET f == u.fn[k]
      os == Sorted(DOMAIN kv)
      to == Strict([o \in DOMAIN kv |-> u.objects + (CHOOSE n \in DOMAIN os : os[n] = o)])
      from == Strict([w \in Range(to) |-> CHOOSE o \in DOMAIN to : to[o] = w])
      Gone(i) == i.op = "store" /\ ptr[i.u[1]].base \in {<<"mem", o>> : o \in DOMAIN kv}
      Moved(i) == IF i.op = "addr" /\ i.k \in DOMAIN to THEN Addr(i.d, to[i.k]) ELSE i
      g == [f EXCEPT !.code = Strict([b \in DOMAIN @ |-> SelectSeq(@[b], LAMBDA i : ~Gone(i))])]
  IN  [u EXCEPT !.objects = @ + Len(os), !.fn[k] = MapCode(g, Moved),
                !.size = Strict([w \in DOMAIN from |-> f.size[from[w]]]) @@ @,
                !.single = @ \cup {to[o] : o \in DOMAIN kv \cap f.single},
                !.init = Strict([w \in DOMAIN from |-> kv[from[w]]]) @@ @]

(***************************************************************************)
(* GlobalInitToGlobalConst: the constants main stores into small globals   *)
(* before its first call are what they start with, and what it loads there *)
(* is known.  A global is locked by the first store or load where the      *)
(* place is not known, or the value of a store.                            *)
(***************************************************************************)
AbsorbInstr(u, ptr, const, s, i) ==
  LET p == ptr[i.u[1]]
      o == p.base[2]
      words == s.init[o]
      skip == [s EXCEPT !.is = Append(@, i)]
      locks == [skip EXCEPT !.locked = @ \cup {o}]
  IN
  CASE s.over \/ i.op \notin {"load", "store", "call"} -> skip
    [] i.op = "call" -> [skip EXCEPT !.over = TRUE]
    [] OTHER ->
         IF o \notin DOMAIN s.init \/ o \in s.locked THEN skip
         ELSE IF p.at = {} \/ (i.op = "store" /\ i.u[2] \notin DOMAIN const) THEN locks
         ELSE IF i.op = "store" THEN [s EXCEPT !.init[o] = (Min(p.at) :> const[i.u[2]]) @@ @]
         ELSE [s EXCEPT !.is = Append(@, Const(i.d, IF Min(p.at) \in DOMAIN words THEN words[Min(p.at)] ELSE 0))]

AbsorbStores(u, ptr, const) ==
  LET f == u.fn[u.main]
      small == {o \in DOMAIN u.size : u.size[o] <= 64}
      s == Fold(LAMBDA acc, i : AbsorbInstr(u, ptr, const, acc, i),
                [is |-> <<>>, locked |-> {}, over |-> FALSE,
                 init |-> Strict([o \in small |-> IF o \in DOMAIN u.init THEN u.init[o] ELSE <<>>])], f.code[f.entry])
  IN  [u EXCEPT !.init = s.init @@ @, !.fn[u.main].code[f.entry] = s.is]

\* local_init_to_global.
LocalInitWith(u, k, ptr, const) ==
  LET v == MoveToGlobals(u, k, ptr, ConstantWords(u.fn[k], ptr, const)) IN
  IF k = u.main THEN AbsorbStores(v, ptr, const) ELSE v
LocalInitToGlobal(u, k) == LocalInitWith(u, k, Pointers(u.fn[k], k, Loops(u.fn[k])), Constants(u.fn[k]))
LocalInit(u) == Fold(LocalInitToGlobal, u, u.order)
===============================================================================
