--------------------------------- MODULE Flow ---------------------------------
(***************************************************************************)
(* Control flow of a function: the dominator tree (ir/opt/dom.cpp), the    *)
(* loop depths code motion uses (ir/opt/loop.cpp), and the loop tree every *)
(* other pass walks (DAG_IR in ir/opt/dag_ir.cpp).                         *)
(***************************************************************************)
EXTENDS IR

\* Depth-first: the blocks from b that seen does not have, in preorder.
RECURSIVE Preorder(_, _, _)
Preorder(f, b, seen) ==
  IF b \in Range(seen) THEN seen
  ELSE Fold(LAMBDA acc, c : Preorder(f, c, acc), Append(seen, b), Succ(f, b))

\* What dfs(entry) marks: blocks reached from todo without entering seen.
RECURSIVE Reach(_, _, _)
Reach(f, todo, seen) ==
  LET new == todo \ seen IN
  IF new = {} THEN seen
  ELSE Reach(f, UNION {Range(Succ(f, b)) : b \in new}, seen \cup new)

Avoiding(f, b) == Reach(f, {f.entry}, {b}) \ {b}

\* Fault: the first node stays.
ImmediateDom_First(pre, cut) == IF cut = {} THEN 0 ELSE pre[Min(cut)]

\* Of the nodes that cut a block off, by preorder number, the last one stays.
ImmediateDom(pre, cut) == IF cut = {} THEN 0 ELSE pre[Max(cut)]

(***************************************************************************)
(* construct_dom_tree.  Every block the entry does not reach around a node *)
(* gets that node for a father; the last node in preorder stays.  A block  *)
(* that is not reached at all hangs below the last node.                   *)
(*   fa     the father, 0 for the entry     above  a block and its fathers *)
(*   dfn    the tree in preorder            ch     children in list order  *)
(***************************************************************************)
DomTree(f) ==
  LET pre == Preorder(f, f.entry, <<>>)
      around == Strict([n \in DOMAIN pre |-> Avoiding(f, pre[n])])
      Cut(b) == {n \in DOMAIN pre : pre[n] # b /\ b \notin around[n]}
      fa == Strict([b \in Blocks(f) |-> ImmediateDom(pre, Cut(b))])
      up[b \in Blocks(f)] == {b} \cup (IF fa[b] = 0 THEN {} ELSE up[fa[b]])
      ch == Strict([b \in Blocks(f) |-> SelectSeq(f.order, LAMBDA c : fa[c] = b)])
  IN  [fa |-> fa, above |-> Strict([b \in Blocks(f) |-> up[b]]), ch |-> ch]

RECURSIVE TreeOrder(_, _)
TreeOrder(dom, b) == <<b>> \o Concat([n \in DOMAIN dom.ch[b] |-> TreeOrder(dom, dom.ch[b][n])])

Dom(dom, a, b) == a \in dom.above[b]
SDom(dom, a, b) == a # b /\ Dom(dom, a, b)
Depth(dom, b) == Cardinality(dom.above[b]) - 1

\* construct_dom_frontiers: from every edge a -> b up to the dominators of b.
Frontier(f, dom, x) ==
  {b \in Blocks(f) : \E a \in Preds(f, b) :
     /\ Dom(dom, x, a)
     /\ \A y \in dom.above[a] : Dom(dom, x, y) => ~SDom(dom, y, b)}

\* The reference: a dominates b when there is no way to b around a.
Dominates(f, a, b) == a = b \/ b \notin Avoiding(f, a)
Reachable(f) == Reach(f, {f.entry}, {})

DomTreeCorrect(f) ==
  LET dom == DomTree(f)
      live == Reachable(f)
  IN  \A a, b \in live : Dom(dom, a, b) <=> Dominates(f, a, b)

-------------------------------------------------------------------------------
(***************************************************************************)
(* construct_loop_tree.  From the source of a back edge the second dfs     *)
(* walks up the dominator tree to the header and gives every block on the  *)
(* way that header; headers are taken in reverse preorder, and a later one *)
(* overwrites.  Blocks beside that chain get no loop.                      *)
(***************************************************************************)
BackEdges(f, dom) == UNION {{<<a, b>> : b \in {b \in Range(Succ(f, a)) : Dom(dom, b, a)}} : a \in Blocks(f)}

LoopDepth(f, dom) ==
  LET pre == Preorder(f, f.entry, <<>>)
      back == BackEdges(f, dom)
      heads == {e[2] : e \in back}
      \* the header that walks over b last is the first in preorder
      Over(b) == {n \in DOMAIN pre : \E e \in back : e[2] = pre[n] /\ b \in dom.above[e[1]]
                                                     /\ SDom(dom, e[2], b)}
      head(b) == IF Over(b) = {} THEN 0 ELSE pre[Min(Over(b))]
      dep[b \in Range(pre)] ==
        IF head(b) # 0 THEN dep[head(b)] + Bool(b \in heads) ELSE Bool(b \in heads)
  IN  Strict([b \in Blocks(f) |-> IF b \in Range(pre) THEN dep[b] ELSE 0])

-------------------------------------------------------------------------------
(***************************************************************************)
(* DAG_IR.  Loops are found from the leaves of the dominator tree up:      *)
(* find_loop walks back from the back edges of a header to the header and  *)
(* puts every block it meets, or the loop that already has that block,     *)
(* directly below it.  head[b] is loop_head: the innermost loop around b   *)
(* (around the whole loop, for a header), 0 at the top.                    *)
(***************************************************************************)
RECURSIVE FindLoop(_, _, _, _, _)
FindLoop(f, live, w, h, head) ==
  IF w = h \/ w \notin live THEN head
  ELSE IF w \in DOMAIN head THEN FindLoop(f, live, head[w], h, head)
  ELSE Fold(LAMBDA acc, p : FindLoop(f, live, p, h, acc), (w :> h) @@ head,
                Sorted(Preds(f, w) \cap live))

\* is_loop_head and, of every block, the loop_head.
Heads(f, dom, live) == {e[2] : e \in {e \in BackEdges(f, dom) : e[1] \in live}}

LoopHead(f, dom, live, heads) ==
  LET \* reverse_view(dom->dfn)
      order == SelectSeq(Reverse(TreeOrder(dom, f.entry)), LAMBDA b : b \in heads)
      One(head, h) ==
        Fold(LAMBDA acc, p : FindLoop(f, live, p, h, acc), head,
                 Sorted({p \in Preds(f, h) \cap live : Dom(dom, h, p)}))
      found == Fold(One, <<>>, order)
  IN  Strict([b \in live |-> IF b \in DOMAIN found THEN found[b] ELSE 0])

\* The loops around b, from b's own header outwards.
Top == 0
RECURSIVE LoopsAround(_, _, _)
LoopsAround(head, heads, b) ==
  IF b = Top THEN {} ELSE ({b} \cap heads) \cup LoopsAround(head, heads, head[b])

(***************************************************************************)
(* The loop tree: dom, the headers heads, head and, of a block b, around:  *)
(* the headers of the loops it is in.  leave[w] is loop_exit: where        *)
(* control goes from w, or out of the loop of header w.                    *)
(***************************************************************************)
InLoop(l, b, h) == h = Top \/ h \in l.around[b]

TreeOf(f, dom, live, heads, head) ==
  LET around == Strict([b \in live |-> LoopsAround(head, heads, b)])
      Out(w) == {c \in UNION {Range(Succ(f, b)) : b \in {b \in live : w \in around[b]}} : w \notin around[c]}
  IN  [dom |-> dom, live |-> live, heads |-> heads, head |-> head, around |-> around,
       leave |-> Strict([w \in live |-> IF w \in heads THEN Listed(Out(w)) ELSE Succ(f, w)])]
TreeFrom(f, dom, live, heads) == TreeOf(f, dom, live, heads, LoopHead(f, dom, live, heads))
TreeAbove(f, dom, live) == TreeFrom(f, dom, live, Heads(f, dom, live))
LoopTree(f) == TreeAbove(f, DomTree(f), Reachable(f))

Exits(f, l, h, w) == IF w = h THEN Succ(f, w) ELSE l.leave[w]

\* _build_dag_dfn: the body of loop h in topological order, an inner loop
\* standing as its header for all of its blocks.
RECURSIVE PostBody(_, _, _, _, _)
PostBody(f, l, h, w, done) ==
  IF w \in Range(done.seen) \/ (w # h /\ l.head[w] # h) THEN done
  ELSE LET kids == Fold(LAMBDA acc, c : PostBody(f, l, h, c, acc),
                            [done EXCEPT !.seen = Append(@, w)], Exits(f, l, h, w))
       IN  [kids EXCEPT !.post = Append(@, w)]

Body(f, l, h) ==
  Reverse(PostBody(f, l, h, IF h = Top THEN f.entry ELSE h, [seen |-> <<>>, post |-> <<>>]).post)

\* The loop tree, with the body of every loop and the exits of its members.
WithExits(f, l, body) ==
  [body |-> body, dom |-> l.dom, live |-> l.live, heads |-> l.heads, head |-> l.head, around |-> l.around,
   exits |-> Strict([h \in DOMAIN body |-> Strict([w \in Range(body[h]) |-> Exits(f, l, h, w)])])]
WithBodies(f, l) == WithExits(f, l, Strict([h \in l.heads \cup {Top} |-> Body(f, l, h)]))
Loops(f) == WithBodies(f, LoopTree(f))

\* Fault: the inner loops of a loop come after it.
RECURSIVE VisitOrder_Flat(_, _)
VisitOrder_Flat(l, h) ==
  LET inner == SelectSeq(l.body[h], LAMBDA w : w # h /\ w \in l.heads) IN
  l.body[h] \o Concat([n \in DOMAIN inner |-> Tail(VisitOrder_Flat(l, inner[n]))])

\* visit: the blocks in the order a forward LoopVisitor sees them.
RECURSIVE VisitOrder(_, _)
VisitOrder(l, h) ==
  LET In(w) == IF w # h /\ w \in l.heads THEN VisitOrder(l, w) ELSE <<w>> IN
  Concat([n \in DOMAIN l.body[h] |-> In(l.body[h][n])])

\* The return blocks and what leads to them (rev_traverse).
RECURSIVE LeadsTo(_, _, _)
LeadsTo(f, live, good) ==
  LET more == {b \in live \ good : Range(Succ(f, b)) \cap good # {}} IN
  IF more = {} THEN good ELSE LeadsTo(f, live, good \cup more)
Returnable(f) ==
  LET live == Reachable(f) IN LeadsTo(f, live, {b \in live : Back(f.code[b]).op = "ret"})

-------------------------------------------------------------------------------
(***************************************************************************)
(* DAG_IR::visit and visit_rev: what a LoopVisitor is told, in order.      *)
(*   <<"begin", h>>       the loop of header h begins (visitLoopTreeNode)  *)
(*   <<"block", b>>       visitBB                                          *)
(*   <<"edge", u, v>>     visitEdge; u stands for its whole loop if it is  *)
(*                        the header of an inner one                       *)
(*   <<"exit", h, u>>     visitMayExit: loop h may be left from member u   *)
(*   <<"back", h, u>>     visitBackEdge (backwards only)                   *)
(*   <<"head", h>>        visitLoopHead (backwards only)                   *)
(***************************************************************************)
EdgeEvents(l, h, u) ==
  LET out == SelectSeq(l.exits[h][u], LAMBDA v : v # h /\ l.head[v] = h) IN
  [n \in DOMAIN out |-> <<"edge", u, out[n]>>]
ExitEvents(l, h) ==
  IF h = Top THEN <<>>
  ELSE LET us == SelectSeq(l.body[h], LAMBDA u : \E v \in Range(l.exits[h][u]) : v # h /\ l.head[v] # h)
       IN  [n \in DOMAIN us |-> <<"exit", h, us[n]>>]

RECURSIVE ForwardEvents(_, _), BackwardEvents(_, _)
ForwardEvents(l, h) ==
  <<<<"begin", h>>>>
    \o Concat([n \in DOMAIN l.body[h] |->
         LET u == l.body[h][n] IN
         (IF u = h THEN <<<<"block", u>>>>
          ELSE IF u \in l.heads THEN ForwardEvents(l, u) ELSE <<<<"begin", u>>, <<"block", u>>>>)
         \o EdgeEvents(l, h, u)])
    \o ExitEvents(l, h)

BackwardEvents(l, h) ==
  ExitEvents(l, h)
    \o Concat([n \in DOMAIN l.body[h] |->
         LET u == Reverse(l.body[h])[n] IN
         (IF u # h /\ u \in l.heads THEN <<<<"head", u>>>> ELSE <<>>)
         \o (IF h \in Range(l.exits[h][u]) THEN <<<<"back", h, u>>>> ELSE <<>>)
         \o EdgeEvents(l, h, u)
         \o (IF u = h THEN <<<<"block", u>>>>
             ELSE IF u \in l.heads THEN BackwardEvents(l, u) ELSE <<<<"block", u>>>>)])

(***************************************************************************)
(* ForwardLoopVisitor: what holds on every way in (meet_eq).  A loop that  *)
(* is over gives loop_out, from its members that may leave it.             *)
(***************************************************************************)
Common(a, b) == Strict([k \in {k \in DOMAIN a \cap DOMAIN b : a[k] = b[k]} |-> a[k]])
MeetAt(fn, x, a) == (x :> (IF x \in DOMAIN fn THEN Common(fn[x], a) ELSE a)) @@ fn

\* get_out of member u, seen from loop h.
OutOf(l, acc, h, u) == IF u # h /\ u \in l.heads THEN acc.loopOut[u] ELSE acc.out[u]

ForwardEdge(l, acc, ev) ==
  CASE ev[1] = "edge" -> [acc EXCEPT !.in = MeetAt(@, ev[3], OutOf(l, acc, l.head[ev[3]], ev[2]))]
    [] ev[1] = "exit" -> [acc EXCEPT !.loopOut = MeetAt(@, ev[2], OutOf(l, acc, ev[2], ev[3]))]
    [] OTHER -> acc

-------------------------------------------------------------------------------
(***************************************************************************)
(* check_dag, for a function without irreducible loops: every block is in  *)
(* exactly one body, edges inside a body go forward or to its header, and  *)
(* a loop has an edge back exactly if it has a header.                     *)
(***************************************************************************)
DagRight(f, l) ==
  LET at == Strict([h \in DOMAIN l.body |-> Strict([w \in Range(l.body[h]) |->
              CHOOSE n \in DOMAIN l.body[h] : l.body[h][n] = w])])
      Own(h) == DOMAIN at[h] \ {h}
  IN  /\ \A b \in l.live : Cardinality({h \in DOMAIN l.body : b \in Own(h)}) = 1
      /\ \A h \in DOMAIN l.body : \A w \in DOMAIN at[h] :
           /\ w = h => at[h][w] = 1
           /\ \A c \in Range(l.exits[h][w]) \cap Own(h) : at[h][w] < at[h][c]
      /\ \A b \in l.live : \A c \in Range(Succ(f, b)) : Dom(l.dom, c, b) => InLoop(l, b, c)
DagCorrect(f) == DagRight(f, Loops(f))
===============================================================================
