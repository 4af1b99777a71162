------------------------------ MODULE LoopRegion ------------------------------
(***************************************************************************)
(* What replacing a loop by a parallel region has to preserve: each time   *)
(* control reaches the loop, every iteration of its range happens exactly  *)
(* once, in any order, and control leaves the loop only when all of them   *)
(* have.  Nothing is said of threads; module ParallelLoop implements this. *)
(***************************************************************************)
EXTENDS Integers

CONSTANT
  Iteration   \* the values the loop variable can take

VARIABLES
  inside,   \* control is in the loop
  range,    \* the iterations of the current execution of the loop
  ran       \* how often each iteration has happened in it

vars == <<inside, range, ran>>

NoneRan == [i \in Iteration |-> 0]

Init ==
  /\ inside = FALSE
  /\ range = {}
  /\ ran = NoneRan

Enter ==
  /\ ~inside
  /\ inside' = TRUE
  /\ range' \in SUBSET Iteration
  /\ ran' = NoneRan

Iterate(i) ==
  /\ inside
  /\ ran[i] = 0
  /\ ran' = [ran EXCEPT ![i] = 1]
  /\ UNCHANGED <<inside, range>>

Leave ==
  /\ inside
  /\ \A i \in range : ran[i] = 1
  /\ inside' = FALSE
  /\ range' = {}
  /\ ran' = NoneRan

Next == Enter \/ Leave \/ \E i \in range : Iterate(i)

Spec == Init /\ [][Next]_vars
===============================================================================
