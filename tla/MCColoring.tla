------------------------------ MODULE MCColoring ------------------------------
(***************************************************************************)
(* Instances of Coloring for TLC.  Register 0 occurs in the program, the   *)
(* other machine registers do not; every graph in which each pair of the   *)
(* registers that occur is unrelated, interferes, or is joined by a move.  *)
(***************************************************************************)
EXTENDS Coloring

Occurring == {0} \cup (Node \ Machine)

\* A graph from the role of each pair; the first pseudo register is a constant.
GraphOf(role) ==
  [occur |-> Occurring,
   adj |-> [n \in Node |-> {m \in Occurring \ {n} : {n, m} \in DOMAIN role /\ role[{n, m}] = "edge"}],
   move |-> [e \in {d \in DOMAIN role : role[d] = "move"} |-> 1],
   cost |-> [n \in Node |-> 1 + (n % 2)],
   useCost |-> [n \in Node |-> 1],
   remat |-> {K},
   temp |-> {}]

\* With fewer than five interferences the graph falls apart at once.
MCGraphs ==
  {GraphOf(role) :
     role \in {r \in [Pairs(Occurring) -> {"none", "edge", "move"}] :
                Cardinality({e \in DOMAIN r : r[e] = "edge"}) >= 5}}
===============================================================================
