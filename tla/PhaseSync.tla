------------------------------ MODULE PhaseSync -------------------------------
(***************************************************************************)
(* What loop_parallel_ex promises of the child loops it splits: every      *)
(* thread runs its share of each child loop in turn, and no thread starts  *)
(* its share of a child loop before every thread has finished its share of *)
(* the previous one.  How the threads wait for each other is left out;     *)
(* module Barrier implements this one.                                     *)
(***************************************************************************)
EXTENDS Integers

CONSTANTS
  Thread,   \* the threads of the parallel region
  Phases    \* how many child loops each of them runs, over all outer iterations

VARIABLES
  phase,    \* phase[t]: the number of child loops t has started
  busy      \* busy[t]: t is running its share (or, at 0, the code before the first)

vars == <<phase, busy>>

\* u has nothing left to do in child loop p.
Finished(u, p) == phase[u] > p \/ (phase[u] = p /\ ~busy[u])

Init ==
  /\ phase = [t \in Thread |-> 0]
  /\ busy = [t \in Thread |-> TRUE]

Finish(t) ==
  /\ busy[t]
  /\ busy' = [busy EXCEPT ![t] = FALSE]
  /\ UNCHANGED phase

Start(t) ==
  /\ ~busy[t]
  /\ phase[t] < Phases
  /\ \A u \in Thread : Finished(u, phase[t])
  /\ phase' = [phase EXCEPT ![t] = @ + 1]
  /\ busy' = [busy EXCEPT ![t] = TRUE]

Next == \E t \in Thread : Finish(t) \/ Start(t)

Spec == Init /\ [][Next]_vars
===============================================================================
