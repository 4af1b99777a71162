------------------------------- MODULE Barrier --------------------------------
(***************************************************************************)
(* The thread barrier of the generated code and its use by                 *)
(* loop_parallel_ex.  __barrier (arm/program.cpp) is a hand-written        *)
(* load-exclusive / store-exclusive loop on one word that counts down from *)
(* the number of threads, followed by a spin until the word is 0; 0 is     *)
(* also the value from which the next caller re-arms it.  The word can     *)
(* therefore not be reused at once, and loop_parallel_ex emits two calls,  *)
(* on barrier1 and then barrier2, in front of every child loop.            *)
(*                                                                         *)
(* A thread's registers are its own; the two words are shared.  Memory is  *)
(* sequentially consistent in this module.                                 *)
(***************************************************************************)
EXTENDS Integers, FiniteSets

CONSTANTS
  N,        \* the number of threads, option num-threads
  Phases    \* child loops run by each thread: outer iterations * child loops

ASSUME NAssumption == N \in Nat /\ N >= 1
ASSUME PhasesAssumption == Phases \in Nat

Thread == 1 .. N
Cell == {1, 2}     \* barrier1 and barrier2

VARIABLES
  pc,       \* where each thread is: see Location
  phase,    \* phase[t]: the number of child loops t has started
  at,       \* at[t]: the word t passed to its last __barrier call
  r3,       \* r3[t]: the register that holds the decremented count
  monitor,  \* monitor[t]: t's exclusive monitor still covers the word
  cell      \* the two shared words

vars == <<pc, phase, at, r3, monitor, cell>>

\* "body" is everything a thread does outside __barrier: its copy of the outer
\* loop and its share of the current child loop.
Location == {"body", "ldrex", "strex", "spin", "done"}

TypeOK ==
  /\ pc \in [Thread -> Location]
  /\ phase \in [Thread -> Nat]
  /\ at \in [Thread -> Cell]
  /\ r3 \in [Thread -> 0 .. N - 1]
  /\ monitor \in [Thread -> BOOLEAN]
  /\ cell \in [Cell -> 0 .. N - 1]

-------------------------------------------------------------------------------
(* Both words are global ints, zero at program start.                      *)
Init ==
  /\ pc = [t \in Thread |-> "body"]
  /\ phase = [t \in Thread |-> 0]
  /\ at = [t \in Thread |-> 1]
  /\ r3 = [t \in Thread |-> 0]
  /\ monitor = [t \in Thread |-> FALSE]
  /\ cell = [b \in Cell |-> 0]

(* The end of the block before a child loop: bl __barrier with barrier1.   *)
Arrive(t) ==
  /\ pc[t] = "body"
  /\ phase[t] < Phases
  /\ pc' = [pc EXCEPT ![t] = "ldrex"]
  /\ at' = [at EXCEPT ![t] = 1]
  /\ UNCHANGED <<phase, r3, monitor, cell>>

\* Fault: the counter is not re-armed from 0 (moveq r3, r1 left out).
NextCount_NoRearm(v) == v - 1

\* Fault: __barrier is passed cnt - 1, the value the exit counter starts from.
NextCount_CountMinusOne(v) == IF v = 0 THEN N - 2 ELSE v - 1

(* cmp r3, #0; moveq r3, r1; sub r3, r3, #1                                *)
NextCount(v) == IF v = 0 THEN N - 1 ELSE v - 1

(* ldrex r3, [r0] and the arithmetic up to strex, which is thread-local.   *)
Ldrex(t) ==
  /\ pc[t] = "ldrex"
  /\ r3' = [r3 EXCEPT ![t] = NextCount(cell[at[t]])]
  /\ monitor' = [monitor EXCEPT ![t] = TRUE]
  /\ pc' = [pc EXCEPT ![t] = "strex"]
  /\ UNCHANGED <<phase, at, cell>>

\* Fault: str in place of strex, so the store succeeds whatever happened since
\* the load.
StrexOk_PlainStore(t) ==
  /\ pc[t] = "strex"
  /\ cell' = [cell EXCEPT ![at[t]] = r3[t]]
  /\ pc' = [pc EXCEPT ![t] = "spin"]
  /\ UNCHANGED <<phase, at, r3, monitor>>

(* strex r2, r3, [r0] succeeds: the store clears every monitor on the word.*)
StrexOk(t) ==
  /\ pc[t] = "strex"
  /\ monitor[t]
  /\ cell' = [cell EXCEPT ![at[t]] = r3[t]]
  /\ monitor' = [u \in Thread |-> monitor[u] /\ at[u] # at[t]]
  /\ pc' = [pc EXCEPT ![t] = "spin"]
  /\ UNCHANGED <<phase, at, r3>>

(* strex fails, because another thread stored to the word or because the   *)
(* monitor was lost (an interrupt, a store nearby): bne __barrier.         *)
StrexFail(t) ==
  /\ pc[t] = "strex"
  /\ monitor' = [monitor EXCEPT ![t] = FALSE]
  /\ pc' = [pc EXCEPT ![t] = "ldrex"]
  /\ UNCHANGED <<phase, at, r3, cell>>

\* Fault: only one barrier in front of a child loop.
LeaveFirst_SingleBarrier(t) ==
  /\ pc[t] = "spin"
  /\ at[t] = 1
  /\ cell[1] = 0
  /\ pc' = [pc EXCEPT ![t] = "body"]
  /\ phase' = [phase EXCEPT ![t] = @ + 1]
  /\ UNCHANGED <<at, r3, monitor, cell>>

(* The spin on barrier1 reads 0: return, then bl __barrier with barrier2.  *)
LeaveFirst(t) ==
  /\ pc[t] = "spin"
  /\ at[t] = 1
  /\ cell[1] = 0
  /\ at' = [at EXCEPT ![t] = 2]
  /\ pc' = [pc EXCEPT ![t] = "ldrex"]
  /\ UNCHANGED <<phase, r3, monitor, cell>>

(* The spin on barrier2 reads 0: return and start the share of the loop.   *)
LeaveSecond(t) ==
  /\ pc[t] = "spin"
  /\ at[t] = 2
  /\ cell[2] = 0
  /\ pc' = [pc EXCEPT ![t] = "body"]
  /\ phase' = [phase EXCEPT ![t] = @ + 1]
  /\ UNCHANGED <<at, r3, monitor, cell>>

(* The outer loop ends; every thread's copy makes the same iterations.     *)
Finish(t) ==
  /\ pc[t] = "body"
  /\ phase[t] = Phases
  /\ pc' = [pc EXCEPT ![t] = "done"]
  /\ UNCHANGED <<phase, at, r3, monitor, cell>>

Step(t) ==
  \/ Arrive(t)
  \/ Ldrex(t)
  \/ StrexOk(t)
  \/ StrexFail(t)
  \/ LeaveFirst(t)
  \/ LeaveSecond(t)
  \/ Finish(t)

\* All threads are at the end of the region; anything else that cannot move is
\* a deadlock.
Terminated ==
  /\ \A t \in Thread : pc[t] = "done"
  /\ UNCHANGED vars

Next ==
  \/ \E t \in Thread : Step(t)
  \/ Terminated

Spec == Init /\ [][Next]_vars

(***************************************************************************)
(* Every thread runs on (the kernel schedules each runnable thread), and a *)
(* store-exclusive that keeps being retried succeeds in the end: the       *)
(* forward progress the architecture gives load/store-exclusive loops.     *)
(***************************************************************************)
Fairness ==
  \A t \in Thread : WF_vars(Step(t)) /\ SF_vars(StrexOk(t))

FairSpec == Spec /\ Fairness

-------------------------------------------------------------------------------
(* Position of a thread in the sequence of countdowns it performs, two per *)
(* child loop: the number of stores to either word it has completed.       *)
Rank(t) ==
  2 * phase[t] + (IF pc[t] = "spin" THEN at[t]
                  ELSE IF pc[t] \in {"ldrex", "strex"} THEN at[t] - 1
                  ELSE 0)

\* The threads that already counted down in the generation in progress.
Ahead == {t \in Thread : \E u \in Thread : Rank(u) < Rank(t)}

(***************************************************************************)
(* The counter relates to the threads: no thread is more than one countdown*)
(* ahead of another, a thread that is ahead is spinning on a word whose    *)
(* value is the number of threads still missing there, and the other word  *)
(* is 0; when nobody is ahead both words are 0.  A lost decrement, a word  *)
(* re-armed too early or a thread released too early breaks it.            *)
(***************************************************************************)
CountdownInv ==
  /\ \A t, u \in Thread : Rank(t) <= Rank(u) + 1
  /\ Ahead = {} => \A b \in Cell : cell[b] = 0
  /\ \A t \in Ahead :
       /\ pc[t] = "spin"
       /\ cell[at[t]] = N - Cardinality(Ahead)
       /\ cell[3 - at[t]] = 0

(* A thread whose store can still succeed holds the successor of the       *)
(* current value.                                                          *)
ExclusiveInv ==
  \A t \in Thread :
    pc[t] = "strex" /\ monitor[t] => r3[t] = NextCount(cell[at[t]])

\* Nobody starts more child loops than there are.
PhaseBound ==
  \A t \in Thread :
    /\ phase[t] <= Phases
    /\ pc[t] \in {"ldrex", "strex", "spin"} => phase[t] < Phases

\* The inductive invariant.
Inv == TypeOK /\ PhaseBound /\ CountdownInv /\ ExclusiveInv

(***************************************************************************)
(* What the two calls are for: a thread that is in child loop k has every  *)
(* other thread past child loop k-1 (loop_parallel_ex makes the child      *)
(* loops depend on each other only through this).                          *)
(***************************************************************************)
PhaseSeparation ==
  \A t, u \in Thread :
    pc[t] \in {"body", "done"} /\ phase[u] < phase[t] =>
      /\ phase[u] = phase[t] - 1
      /\ pc[u] # "body"

(***************************************************************************)
(* A barrier word leaves 0 only when no thread is still spinning on it: a  *)
(* thread that missed the 0 would wait for a whole further generation.     *)
(* This is what the second word buys; with one word it is false.           *)
(***************************************************************************)
NoRearmUnderSpinner ==
  [][\A b \in Cell :
       cell[b] = 0 /\ cell'[b] # 0 =>
         \A t \in Thread : ~(pc[t] = "spin" /\ at[t] = b)]_vars

(* No thread is left spinning: the region's threads all get to the end.    *)
AllFinish == <>(\A t \in Thread : pc[t] = "done")

(* Barrier implements PhaseSync.                                           *)
Busy == [t \in Thread |-> pc[t] = "body"]
Abs == INSTANCE PhaseSync WITH busy <- Busy
ImplementsPhaseSync == Abs!Spec
===============================================================================
