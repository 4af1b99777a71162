------------------------------- MODULE Coloring -------------------------------
(***************************************************************************)
(* Iterated register coalescing: one run of IRCColoringAllocator           *)
(* (arm/irc_coloring_alloc.hpp) on an interference graph, from the graph   *)
(* to a register for every node or to the nodes that have to be spilled.   *)
(* RegAlloc adds the program the graph comes from and the rewriting of     *)
(* spilled registers.                                                      *)
(*                                                                         *)
(* Registers are numbered as in the code, machine registers first; only    *)
(* allocable ones are in the model.  get_alias compresses paths; here      *)
(* alias is always compressed.  A move edge is kept once, as a pair of     *)
(* nodes, where the code keeps it at both of its ends.                     *)
(***************************************************************************)
EXTENDS Integers, Sequences, FiniteSets, FiniteSetsExt, Functions, SequencesExt

CONSTANTS
  K,           \* allocable machine registers, 0 .. K-1
  CalleeSave,  \* those a function has to save before it uses them
  MaxNode,     \* bound on the number of registers
  Graphs       \* the graphs a run may start from

ASSUME RegisterAssumption ==
  K \in Nat \ {0} /\ MaxNode \in Nat /\ K <= MaxNode /\ CalleeSave \subseteq 0 .. K - 1

Machine == 0 .. K - 1
Node == 0 .. MaxNode - 1
Pairs(S) == {e \in SUBSET S : Cardinality(e) = 2}

(***************************************************************************)
(* What build_graph leaves behind.  adj: the interference edges; move:     *)
(* move edges with their weights; cost, useCost: defs and uses (uses) of a *)
(* node, times 4 to its loop depth; remat: nodes holding a constant or an  *)
(* address; temp: nodes that an earlier spill introduced (spilling_reg).   *)
(***************************************************************************)
IsGraph(g) ==
  /\ g.occur \subseteq Node
  /\ g.adj \in [Node -> SUBSET g.occur]
  /\ \A u, v \in Node : u \in g.adj[v] => v \in g.adj[u] /\ u # v
  /\ DOMAIN g.move \subseteq Pairs(g.occur)
  /\ \A e \in DOMAIN g.move : g.move[e] \in Nat \ {0}
  /\ \A n \in g.occur \ Machine : g.cost[n] \in Nat /\ g.useCost[n] \in Nat

ASSUME GraphsAssumption == \A g \in Graphs : IsGraph(g)

VARIABLES
  pc,       \* the function of the allocator that runs
  graph,    \* the graph this run started from
  adj,      \* interfere_edge
  move,     \* move_edges
  remain,   \* remain_pesudo_nodes
  work,     \* simplify_worklist, a queue
  stack,    \* select_stack: nodes with their neighbours when they left
  alias,    \* the node a node has been merged into
  todo,     \* worklist_moves: the edges this coalesce still has to look at
  gain,     \* coalesced_degree
  frozen,   \* frozen_moves, summed per pair
  spilled,  \* spilled_nodes
  color,    \* ans: the register of each node, -1 for none
  used      \* registers handed out so far

vars == <<pc, graph, adj, move, remain, work, stack, alias, todo, gain, frozen,
          spilled, color, used>>

Location == {"build", "loop", "simplify", "coalesce", "freeze", "color", "done", "rewrite"}

-------------------------------------------------------------------------------
Degree(n) == Cardinality(adj[n])
Weight(f, e) == IF e \in DOMAIN f THEN f[e] ELSE 0
MoveNeighbors(n) == {m \in Node : {n, m} \in DOMAIN move}

\* Fault: nodes that moves could still be coalesced into are queued too.
CanSimplify_Moves(n, moves) == Degree(n) < K

CanSimplify(n, moves) == (\A e \in moves : n \notin e) /\ Degree(n) < K

\* The members of S in the order of their numbers.
Ascending(S) ==
  [i \in 1 .. Cardinality(S) |-> CHOOSE n \in S : Cardinality({m \in S : m < n}) = i - 1]

\* The start of run, build_graph done.
StartOn(g) ==
  /\ pc = "loop"
  /\ graph = g
  /\ adj = g.adj
  /\ move = g.move
  /\ remain = g.occur \ Machine
  /\ work = <<>>
  /\ stack = <<>>
  /\ alias = [n \in Node |-> IF n \in g.occur THEN n ELSE -1]
  /\ todo = <<>>
  /\ gain = 0
  /\ frozen = <<>>
  /\ spilled = <<>>
  /\ color = [n \in Node |-> -1]
  /\ used = {}

Init == \E g \in Graphs : StartOn(g)

\* clear, and build_graph again for the next run.
Restart(g) ==
  /\ pc' = "loop"
  /\ graph' = g
  /\ adj' = g.adj
  /\ move' = g.move
  /\ remain' = g.occur \ Machine
  /\ work' = <<>>
  /\ stack' = <<>>
  /\ alias' = [n \in Node |-> IF n \in g.occur THEN n ELSE -1]
  /\ todo' = <<>>
  /\ gain' = 0
  /\ frozen' = <<>>
  /\ spilled' = <<>>
  /\ color' = [n \in Node |-> -1]
  /\ used' = {}

(* prepare_for_simplify: a move between nodes that interfere, or between   *)
(* two machine registers, cannot be coalesced; the first nodes to take out.*)
Useful(e) ==
  /\ \A u, v \in e : u \notin adj[v]
  /\ ~(e \subseteq Machine)

Prepare ==
  /\ pc = "loop"
  /\ remain # {}
  /\ move' = Restrict(move, {e \in DOMAIN move : Useful(e)})
  /\ work' = Ascending({n \in remain : CanSimplify(n, DOMAIN move')})
  /\ pc' = "simplify"
  /\ UNCHANGED <<graph, adj, remain, stack, alias, todo, gain, frozen, spilled, color, used>>

\* Fault: the degree is compared as if the edge to n were gone already.
Released_Late(n) ==
  {m \in adj[n] \ Machine : Degree(m) = K - 1 /\ MoveNeighbors(m) = {}}

\* The neighbours that reach degree K-1 when n leaves.
Released(n) ==
  {m \in adj[n] \ Machine : Degree(m) = K /\ MoveNeighbors(m) = {}}

\* The graph without n's edges.
Without(n) == [m \in Node |-> IF m = n THEN {} ELSE adj[m] \ {n}]

(* One turn of simplify's loop, with remove.                               *)
Simplify ==
  /\ pc = "simplify"
  /\ work # <<>>
  /\ LET n == Head(work) IN
       /\ stack' = Append(stack, [node |-> n, nbrs |-> adj[n]])
       /\ work' = Tail(work) \o Ascending(Released(n))
       /\ adj' = Without(n)
       /\ remain' = remain \ {n}
  /\ UNCHANGED <<pc, graph, move, alias, todo, gain, frozen, spilled, color, used>>

(* The queue is empty and nodes remain: collect the edges to coalesce.     *)
StartCoalesce ==
  /\ pc = "simplify"
  /\ work = <<>>
  /\ remain # {}
  /\ todo' = move
  /\ gain' = 0
  /\ pc' = "coalesce"
  /\ UNCHANGED <<graph, adj, move, remain, work, stack, alias, frozen, spilled, color, used>>

(* The Briggs test on u and v merged: a shared neighbour loses an edge.    *)
Conservative(u, v) ==
  LET shared == adj[u] \cap adj[v]
      unique == SymDiff(adj[u], adj[v])
  IN  Cardinality({n \in unique : Degree(n) >= K} \cup {n \in shared : Degree(n) > K}) < K

\* Fault: nodes merged into v earlier keep v as their representative.
Merged_NoTransfer(u, v) == [alias EXCEPT ![v] = u]

\* Everything that stood for v now stands for u.
Merged(u, v) == [n \in Node |-> IF alias[n] = v THEN u ELSE alias[n]]

\* Fault: v's neighbours forget v but are not given u.
MergedAdj_Drop(u, v) == [n \in Node |-> IF n = v THEN {} ELSE adj[n] \ {v}]

MergedAdj(u, v) ==
  [n \in Node |->
     IF n = v THEN {}
     ELSE IF n = u THEN adj[u] \cup adj[v]
     ELSE IF v \in adj[n] THEN (adj[n] \ {v}) \cup {u}
     ELSE adj[n]]

MergedMove(u, v) ==
  LET Image(e) == IF v \in e THEN (e \ {v}) \cup {u} ELSE e
      kept == {Image(e) : e \in DOMAIN move \ {{u, v}}}
  IN  [e \in kept |->
         Weight(move, e) + (IF u \in e THEN Weight(move, (e \ {u}) \cup {v}) ELSE 0)]

(* combine(u, v): v, a pseudo register, is merged into u.                  *)
Combine(u, v) ==
  /\ remain' = remain \ {v}
  /\ alias' = Merged(u, v)
  /\ adj' = MergedAdj(u, v)
  /\ move' = MergedMove(u, v)

\* A move edge can be coalesced: its ends are two nodes still, not both machine
\* registers, they do not interfere and the merged node stays colourable.
CanCombine(u, v) ==
  /\ u # v
  /\ ~(u \in Machine /\ v \in Machine)
  /\ u \notin adj[v]
  /\ Conservative(u, v)

(***************************************************************************)
(* One turn of coalesce's loop: the heaviest edge left, its ends replaced  *)
(* by what they have been merged into.  The order among equal weights is   *)
(* left open, as std::sort leaves it.                                      *)
(***************************************************************************)
Coalesce ==
  /\ pc = "coalesce"
  /\ \E e \in DOMAIN todo :
       LET u == alias[Max(e)]
           v == alias[Min(e)]
       IN  /\ \A d \in DOMAIN todo : todo[d] <= todo[e]
           /\ todo' = Restrict(todo, DOMAIN todo \ {e})
           /\ \/ /\ CanCombine(u, v)
                 /\ IF v \in Machine THEN Combine(v, u) ELSE Combine(u, v)
                 /\ gain' = gain + todo[e]
              \/ /\ ~CanCombine(u, v)
                 /\ UNCHANGED <<adj, move, remain, alias, gain>>
  /\ UNCHANGED <<pc, graph, work, stack, frozen, spilled, color, used>>

\* Fault: the loop of run goes around whether anything was merged or not.
EndCoalesce_Again ==
  /\ pc = "coalesce"
  /\ DOMAIN todo = {}
  /\ pc' = "loop"
  /\ UNCHANGED <<graph, adj, move, remain, work, stack, alias, todo, gain, frozen, spilled,
                 color, used>>

EndCoalesce ==
  /\ pc = "coalesce"
  /\ DOMAIN todo = {}
  /\ pc' = IF gain > 0 THEN "loop" ELSE "freeze"
  /\ UNCHANGED <<graph, adj, move, remain, work, stack, alias, todo, gain, frozen, spilled,
                 color, used>>

-------------------------------------------------------------------------------
Freezable == {n \in remain : MoveNeighbors(n) # {} /\ Degree(n) < K}

\* The first of the largest degree, in the order of the numbers.
FreezeChoice ==
  Min({n \in Freezable : \A m \in Freezable : Degree(m) <= Degree(n)})

EdgesAt(n) == {e \in DOMAIN move : n \in e}

(* freeze: give up the moves of one node of small degree.                  *)
Freeze ==
  /\ pc = "freeze"
  /\ Freezable # {}
  /\ LET E == EdgesAt(FreezeChoice) IN
       /\ frozen' = [e \in DOMAIN frozen \cup E |->
                      Weight(frozen, e) + (IF e \in E THEN move[e] ELSE 0)]
       /\ move' = Restrict(move, DOMAIN move \ E)
  /\ pc' = "loop"
  /\ UNCHANGED <<graph, adj, remain, work, stack, alias, todo, gain, spilled, color, used>>

\* Temporaries of earlier spills are not spilled again.
Spillable == remain \ graph.temp

\* Least cost per degree, the first in the order of the numbers.
Cheapest(S, cost) ==
  Min({n \in S : \A m \in S : cost[n] * Degree(m) <= cost[m] * Degree(n)})

\* Fault: a temporary may be chosen again.
SpillChoice_Any == Cheapest(remain, graph.cost)

\* A constant or an address is preferred: it is loaded again, not stored.
SpillChoice ==
  IF Spillable \cap graph.remat # {}
  THEN Cheapest(Spillable \cap graph.remat, graph.useCost)
  ELSE Cheapest(Spillable, graph.cost)

(* select_spill, when everything left has K neighbours or more.  Nothing   *)
(* to choose from (assert(selected_spill != -1)) shows as a deadlock.      *)
Spill ==
  /\ pc = "freeze"
  /\ Freezable = {}
  /\ Spillable # {}
  /\ LET n == SpillChoice IN
       /\ spilled' = Append(spilled, n)
       /\ remain' = remain \ {n}
       /\ adj' = Without(n)
       /\ move' = Restrict(move, DOMAIN move \ EdgesAt(n))
  /\ pc' = "loop"
  /\ UNCHANGED <<graph, work, stack, alias, todo, gain, frozen, color, used>>

-------------------------------------------------------------------------------
(* The loop of run ends: rewrite the function, or assign_colors, which     *)
(* starts from the machine registers that occur.                           *)
Leave ==
  /\ pc = "loop" \/ (pc = "simplify" /\ work = <<>>)
  /\ remain = {}
  /\ \/ /\ spilled # <<>>
        /\ pc' = "rewrite"
        /\ UNCHANGED <<color, used>>
     \/ /\ spilled = <<>>
        /\ pc' = "color"
        /\ color' = [n \in Node |-> IF n \in graph.occur \cap Machine THEN n ELSE -1]
        /\ used' = graph.occur \cap Machine
  /\ UNCHANGED <<graph, adj, move, remain, work, stack, alias, todo, gain, frozen, spilled>>

\* Registers of the neighbours the node on top of the stack had when it left.
\* Fault: the neighbours are looked up by the names they had then.
Taken_Stale == {color[m] : m \in Last(stack).nbrs}

Taken == {color[alias[m]] : m \in Last(stack).nbrs}

\* Moves frozen between n and a node that has register r by now.
FrozenTo(n, r) ==
  {e \in DOMAIN frozen :
     \E a, b \in e : alias[a] = n /\ alias[b] # n /\ color[alias[b]] = r}

\* A register that costs nothing to use, and the frozen moves it would save.
Score(n, r) ==
  (IF r \notin CalleeSave \/ r \in used THEN 1 ELSE 0)
    + MapThenSumSet(LAMBDA e : frozen[e], FrozenTo(n, r))

\* Fault: the last of the best score.
BestRegister_Last(n) ==
  Max({r \in Machine \ Taken : \A q \in Machine \ Taken : Score(n, q) <= Score(n, r)})

\* The first of the best score.
BestRegister(n) ==
  Min({r \in Machine \ Taken : \A q \in Machine \ Taken : Score(n, q) <= Score(n, r)})

(* One turn of assign_colors' loop over the stack, from the top.           *)
Color ==
  /\ pc = "color"
  /\ stack # <<>>
  /\ LET n == Last(stack).node
         r == BestRegister(n)
     IN  /\ color' = [color EXCEPT ![n] = r]
         /\ used' = used \cup {r}
  /\ stack' = Front(stack)
  /\ UNCHANGED <<pc, graph, adj, move, remain, work, alias, todo, gain, frozen, spilled>>

\* Merged nodes get the register of what they were merged into.
EndColor ==
  /\ pc = "color"
  /\ stack = <<>>
  /\ color' = [n \in Node |-> IF n \in graph.occur THEN color[alias[n]] ELSE -1]
  /\ pc' = "done"
  /\ UNCHANGED <<graph, adj, move, remain, work, stack, alias, todo, gain, frozen, spilled,
                 used>>

Step ==
  \/ Prepare \/ Simplify
  \/ StartCoalesce \/ Coalesce \/ EndCoalesce
  \/ Freeze \/ Spill
  \/ Leave \/ Color \/ EndColor

\* run has returned.
Finished == pc \in {"done", "rewrite"} /\ UNCHANGED vars

Next == Step \/ Finished

Spec == Init /\ [][Next]_vars

\* One thread runs the allocator to its end.
FairSpec == Spec /\ WF_vars(Step)
-------------------------------------------------------------------------------
Active == remain \cup (graph.occur \cap Machine)
OnStack == {stack[i].node : i \in DOMAIN stack}
Coalesced == {n \in graph.occur : alias[n] # n}

\* The steps up to the colouring, in which the graph is taken apart.
Dismantling == pc \in {"loop", "simplify", "coalesce", "freeze"}

TypeOK ==
  /\ pc \in Location
  /\ IsGraph(graph)
  /\ adj \in [Node -> SUBSET Node]
  /\ DOMAIN move \subseteq Pairs(Node)
  /\ remain \subseteq Node \ Machine
  /\ work \in Seq(remain)
  /\ \A i \in DOMAIN stack : stack[i].node \in Node \ Machine /\ stack[i].nbrs \subseteq Node
  /\ alias \in [Node -> Node \cup {-1}]
  /\ DOMAIN todo \subseteq Pairs(Node) /\ DOMAIN frozen \subseteq Pairs(Node)
  /\ gain \in Nat
  /\ spilled \in Seq(Node \ Machine)
  /\ color \in [Node -> Machine \cup {-1}]
  /\ used \subseteq Machine

(***************************************************************************)
(* Every pseudo register is at exactly one place: in the graph, on the     *)
(* select stack once, merged into another one, or spilled.  A node queued  *)
(* twice or lost while edges move breaks it (assert(ans[..] == -1) and     *)
(* assert(alias[..] == ..) of assign_colors rely on it).                   *)
(***************************************************************************)
NodesAccounted ==
  Dismantling =>
    /\ \A n \in graph.occur \ Machine :
         Cardinality({p \in {"graph", "stack", "merged", "spilled"} :
                        \/ p = "graph" /\ n \in remain
                        \/ p = "stack" /\ n \in OnStack
                        \/ p = "merged" /\ n \in Coalesced
                        \/ p = "spilled" /\ n \in Range(spilled)}) = 1
    /\ \A i, j \in DOMAIN stack : stack[i].node = stack[j].node => i = j
    /\ \A n \in Active : \A m \in adj[n] : m \in Active /\ n \in adj[m] /\ m # n
    /\ \A e \in DOMAIN move : e \subseteq Active

(***************************************************************************)
(* No interference is forgotten while the graph is taken apart: two        *)
(* registers that interfered in the program stand for different nodes;     *)
(* while both nodes are in the graph they are neighbours, and when one has *)
(* left before the other it has the other in the list it took along.       *)
(***************************************************************************)
EdgesKept ==
  Dismantling =>
    \A x \in graph.occur : \A y \in graph.adj[x] :
      LET a == alias[x]
          b == alias[y]
      IN  /\ a # b
          /\ a \in Active /\ b \in Active => b \in adj[a]
          /\ \A i \in DOMAIN stack :
               stack[i].node = a /\ (b \in Active \/ \E j \in DOMAIN stack :
                                                        j > i /\ stack[j].node = b)
                 => b \in {alias[m] : m \in stack[i].nbrs}

(***************************************************************************)
(* A node on the stack finds a register: fewer than K names in its list    *)
(* (assert(cur_ans >= 0)), all of which have their register by then.       *)
(***************************************************************************)
AlwaysColorable ==
  /\ \A i \in DOMAIN stack : Cardinality(stack[i].nbrs) < K
  /\ pc = "color" /\ stack # <<>> => Taken \subseteq Machine /\ Taken # Machine

(***************************************************************************)
(* The result: registers that interfere get different machine registers,   *)
(* machine registers keep their own, and nothing is left without one.      *)
(***************************************************************************)
ValidColoring ==
  pc = "done" =>
    /\ \A x \in graph.occur :
         /\ color[x] \in Machine
         /\ \A y \in graph.adj[x] : color[x] # color[y]
    /\ \A r \in graph.occur \cap Machine : color[r] = r

(***************************************************************************)
(* Callee-saved registers are taken in order, without gaps.  The frame of  *)
(* Func::allocate_register relies on it for float registers: vpush saves   *)
(* the whole range from the lowest to the highest one used, but the        *)
(* offsets of the stack arguments count only those used.                   *)
(***************************************************************************)
CalleeSavePrefix ==
  \A r \in used \cap CalleeSave :
    r \notin graph.occur => \A q \in CalleeSave : q < r => q \in used

(***************************************************************************)
(* A register is spilled only when the graph is stuck: every node left has *)
(* at least K neighbours.  (simplify's queue has missed none.)             *)
(***************************************************************************)
SpillOnlyWhenStuck ==
  [][spilled' # spilled => \A n \in remain : Degree(n) >= K]_vars

(* The allocator's loop ends.                                              *)
Terminates == <>(pc \in {"done", "rewrite"})

-------------------------------------------------------------------------------
(***************************************************************************)
(* The invariant behind these properties, in parts: what the lists hold,   *)
(* where registers are, and what is known of the nodes not coloured yet.   *)
(***************************************************************************)
ListsTyped ==
  /\ remain \subseteq graph.occur
  /\ DOMAIN move \subseteq Pairs(Active)
  /\ \A e \in DOMAIN move : move[e] \in Nat \ {0}
  /\ \A e \in DOMAIN todo : todo[e] \in Nat \ {0}
  /\ pc = "coalesce" =>
       \A e \in DOMAIN todo : \A n \in e : n \in graph.occur /\ alias[n] \in Active
  /\ DOMAIN frozen \subseteq Pairs(graph.occur)
  /\ \A e \in DOMAIN frozen : frozen[e] \in Nat
  /\ stack \in Seq([node : graph.occur \ Machine, nbrs : SUBSET graph.occur])
  /\ Range(spilled) \subseteq graph.occur

\* Edges join different nodes that are still in the graph, in both directions.
EdgesJoinActive ==
  \A n \in Node : \A m \in adj[n] : m \in Active /\ n \in adj[m] /\ m # n

\* A register stands for itself until it is merged, and alias is compressed.
Representatives ==
  /\ \A n \in Node :
       IF n \in graph.occur
       THEN alias[n] \in graph.occur /\ alias[alias[n]] = alias[n]
       ELSE alias[n] = -1
  /\ \A n \in Active \cup OnStack \cup Range(spilled) : alias[n] = n

\* Every pseudo register has a place, and no two of them.
Places ==
  /\ \A i, j \in DOMAIN stack : stack[i].node = stack[j].node => i = j
  /\ Dismantling =>
       /\ graph.occur \ Machine \subseteq remain \cup OnStack \cup Coalesced \cup Range(spilled)
       /\ remain \cap OnStack = {}
       /\ remain \cap Range(spilled) = {}
       /\ OnStack \cap Range(spilled) = {}

\* A node that can be taken out at once.
Free(n) == EdgesAt(n) = {} /\ Degree(n) < K

\* The queue holds free nodes of the graph, each once, and while simplify runs all of them.
QueueRight ==
  /\ pc # "simplify" => work = <<>>
  /\ \A n \in Range(work) : Free(n)
  /\ IsInjective(work)
  /\ pc = "simplify" => \A n \in remain : Free(n) => n \in Range(work)
  /\ pc = "freeze" \/ (pc = "coalesce" /\ gain = 0) => \A n \in remain : ~Free(n)

\* The list a node took along is short and names nodes that left after it.
ListsLater ==
  \A i \in DOMAIN stack :
    /\ Cardinality(stack[i].nbrs) < K
    /\ \A m \in stack[i].nbrs :
         /\ Dismantling =>
              alias[m] \in Active \cup {stack[j].node : j \in i + 1 .. Len(stack)}
                             \cup Range(spilled)
         /\ \A j \in 1 .. i : alias[m] # stack[j].node

\* Representatives that are not on the stack: coloured, once assign_colors runs.
Settled == {n \in graph.occur : alias[n] = n /\ n \notin OnStack}

Colored ==
  /\ \A n \in Node : color[n] \in used \cup {-1}
  /\ pc = "color" =>
       /\ \A n \in Settled : color[n] \in Machine
       /\ \A r \in graph.occur \cap Machine : color[r] = r
       /\ \A x \in graph.occur : \A y \in graph.adj[x] :
            /\ alias[x] # alias[y]
            /\ alias[x] \in Settled /\ alias[y] \in Settled => color[alias[x]] # color[alias[y]]
            /\ \A i \in DOMAIN stack :
                 stack[i].node = alias[x] /\ (\A j \in 1 .. i : stack[j].node # alias[y])
                   => alias[y] \in {alias[m] : m \in stack[i].nbrs}

\* All of it: each step of the allocator keeps the graph, the queue, the stack and the
\* names registers go by consistent (run and the functions it calls).
Inv ==
  /\ TypeOK /\ ListsTyped
  /\ EdgesJoinActive /\ Representatives /\ Places
  /\ QueueRight
  /\ EdgesKept /\ ListsLater
  /\ Colored /\ ValidColoring /\ CalleeSavePrefix
-------------------------------------------------------------------------------
(***************************************************************************)
(* What is left to do, so that the loop of run ends: nodes and moves to    *)
(* take out of the graph (a merge is paid for when coalesce, having merged *)
(* something, goes around the loop), then how far around the loop the      *)
(* allocator is, then the turns of the inner loop.                         *)
(***************************************************************************)
Phase ==
  [build |-> 6, loop |-> 5, simplify |-> 4, coalesce |-> 3, freeze |-> 2, color |-> 1,
   rewrite |-> 0, done |-> 0][pc]

Rank ==
  <<2 * (Cardinality(remain) + Cardinality(DOMAIN move))
      + (IF pc = "coalesce" /\ gain > 0 THEN 1 ELSE 0),
    Phase,
    Cardinality(DOMAIN todo) + Len(stack)>>

\* Lexicographic order.
Below(a, b) ==
  \E i \in 1 .. 3 : a[i] < b[i] /\ \A j \in 1 .. i - 1 : a[j] = b[j]

(* Each step of the allocator leaves less to do: no loop of run, simplify, *)
(* coalesce or assign_colors goes on for ever.                             *)
Descends == [][Step => Below(Rank', Rank)]_vars
===============================================================================
