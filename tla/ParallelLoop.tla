----------------------------- MODULE ParallelLoop -----------------------------
(***************************************************************************)
(* The parallel region loop_parallel (ir/opt/loop_ops.cpp) builds around a *)
(* counted loop, running on the generated runtime (arm/program.cpp):       *)
(* N copies of the loop, each on a slice of the range; thread i creates    *)
(* thread i+1 and runs slice i; at the end threads 2..N take a spin lock,  *)
(* decrement the counter "barrier" and exit, and thread 1 polls the        *)
(* counter and goes on to the tail block.                                  *)
(*                                                                         *)
(* The surrounding code reaches the loop Rounds times; the threads of one  *)
(* round may still be releasing the lock when the next round starts, so a  *)
(* thread is a pair <<round, slice>>.  The lock and the counter are        *)
(* globals shared by all rounds.  loop_parallel_ex ends its region in the  *)
(* same way.                                                               *)
(***************************************************************************)
EXTENDS Integers, FiniteSets

CONSTANTS
  N,          \* number of threads, option num-threads
  Rounds,     \* times the region is reached
  UseLock,    \* FALSE with option no-lock=1
  MinPar,     \* min_par_loop_cnt: shorter loops keep the sequential copy
  MaxWord,    \* machine words are -MaxWord-1 .. MaxWord
  Bounds,     \* the pairs <<l, r>> the loop is reached with
  ExitFirst,  \* which headers occur: TRUE when target1 leaves the loop
  ForkMayFail \* whether clone may return an error

ASSUME NAssumption == N \in Nat /\ N >= 1
ASSUME RoundsAssumption == Rounds \in Nat
ASSUME SwitchAssumption ==
  UseLock \in BOOLEAN /\ ForkMayFail \in BOOLEAN /\ ExitFirst \subseteq BOOLEAN
ASSUME WordAssumption ==
  /\ MaxWord \in Nat
  /\ MinPar \in 1 .. MaxWord
  /\ Bounds \subseteq (-MaxWord - 1 .. MaxWord) \X (-MaxWord - 1 .. MaxWord)

Word == -MaxWord - 1 .. MaxWord
Modulus == 2 * MaxWord + 2
Wrap(x) == ((x + MaxWord + 1) % Modulus) - MaxWord - 1

Thread == (1 .. Rounds) \X (1 .. N)

VARIABLES
  header,   \* the loop header: [le: i <= r, not i < r; exit: target1 leaves]
  main,     \* where the surrounding code is
  round,    \* the number of times the loop has been reached
  lo, hi,   \* the bounds of the current round
  pc,       \* where each thread is
  idx,      \* each copy's loop variable (and, in main, the sequential copy's)
  reg,      \* the register between the load and the store of the counter
  barrier,  \* the counter of unfinished threads
  mutex,    \* the lock word
  monitor,  \* a thread's exclusive monitor on the lock word
  ran       \* ran[i]: how often iteration i has been executed this round

shared == <<barrier, mutex, monitor>>
region == <<header, main, round, lo, hi>>
vars == <<region, pc, idx, reg, shared, ran>>

Location ==
  {"none", "lost", "fork", "loop", "wait", "ldrex", "strex", "load", "store",
   "unlock", "exit", "poll", "tail", "dead"}

TypeOK ==
  /\ header \in [le : BOOLEAN, exit : BOOLEAN]
  /\ main \in {"head", "seq", "region"}
  /\ round \in 0 .. Rounds
  /\ lo \in Word /\ hi \in Word
  /\ pc \in [Thread -> Location]
  /\ idx \in [Thread -> Word]
  /\ reg \in [Thread -> 0 .. N - 1]
  /\ barrier \in 0 .. N - 1
  /\ mutex \in {0, 1}
  /\ monitor \in [Thread -> BOOLEAN]
  /\ ran \in [Word -> Nat]

-------------------------------------------------------------------------------
(* The iterations of the source loop: i = l, l+1, ... while i < r (i <= r).*)
SourceRange(l, r) == {i \in Word : l <= i /\ (i < r \/ (header.le /\ i = r))}

Length == Wrap(hi - lo)

(* n / cnt on a positive n.                                                *)
StepLen == Length \div N

(* l0 after i-1 additions of step; l0 + step is the slice's bound r0.      *)
SliceStart(i) == Wrap(lo + (i - 1) * StepLen)
SliceEnd(i) == Wrap(SliceStart(i) + StepLen)

(* The header's test on the original bound, kept by the last slice and by  *)
(* the sequential copy p0: whatever the polarity, TRUE is "stay".          *)
OriginalTest(i) == i < hi \/ (header.le /\ i = hi)

\* Fault: the slice keeps the original test, and runs on to r.
InSlice_KeepTest(t) == OriginalTest(idx[t])

(* Copy i of the header.  For i < cnt the branch is rebuilt as "i < r0 ?   *)
(* target1 : target0" from the targets in the order they had.              *)
InSlice(t) ==
  IF t[2] = N
  THEN OriginalTest(idx[t])
  ELSE (idx[t] < SliceEnd(t[2])) # header.exit

-------------------------------------------------------------------------------
(* Globals are zero at program start.                                      *)
Init ==
  /\ header \in [le : BOOLEAN, exit : ExitFirst]
  /\ main = "head"
  /\ round = 0
  /\ lo = 0 /\ hi = 0
  /\ pc = [t \in Thread |-> "none"]
  /\ idx = [t \in Thread |-> 0]
  /\ reg = [t \in Thread |-> 0]
  /\ barrier = 0
  /\ mutex = 0
  /\ monitor = [t \in Thread |-> FALSE]
  /\ ran = [i \in Word |-> 0]

\* The block a new thread starts in: create the next one, or the last slice.
Entry(i) == IF i < N THEN "fork" ELSE "loop"

\* Fault: the counter is initialised to cnt, counting thread 1 as well.
CounterStart_All == N

\* Fault: the counter is initialised to cnt - 2.
CounterStart_Short == IF N > 1 THEN N - 2 ELSE 0

(* cg.st(cg.la(barrier), cg.lc(cnt - 1))                                   *)
CounterStart == N - 1

(* The head block of a round with bounds l and r: short loops run in place,*)
(* the others store the counter and start the chain with thread 1.         *)
Head ==
  /\ main = "head"
  /\ round < Rounds
  /\ round' = round + 1
  /\ \E b \in Bounds :
       /\ lo' = b[1] /\ hi' = b[2]
       /\ idx' = [idx EXCEPT ![<<round + 1, 1>>] = b[1]]
       /\ \/ /\ Length' < MinPar
             /\ main' = "seq"
             /\ UNCHANGED <<pc, barrier>>
          \/ /\ Length' >= MinPar
             /\ main' = "region"
             /\ barrier' = CounterStart
             /\ pc' = [pc EXCEPT ![<<round + 1, 1>>] = Entry(1)]
  /\ ran' = [i \in Word |-> 0]
  /\ UNCHANGED <<header, reg, mutex, monitor>>

(* The sequential copy p0.                                                 *)
SeqIterate ==
  LET t == <<round, 1>> IN
  /\ main = "seq"
  /\ OriginalTest(idx[t])
  /\ ran' = [ran EXCEPT ![idx[t]] = @ + 1]
  /\ idx' = [idx EXCEPT ![t] = Wrap(@ + 1)]
  /\ UNCHANGED <<region, pc, reg, shared>>

SeqLeave ==
  /\ main = "seq"
  /\ ~OriginalTest(idx[<<round, 1>>])
  /\ main' = "head"
  /\ UNCHANGED <<header, round, lo, hi, pc, idx, reg, shared, ran>>

-------------------------------------------------------------------------------
(* __create_threads returned in both: the parent (non-zero) starts slice i,*)
(* the child (0) goes on in the next block of the chain.                   *)
Fork(t) ==
  LET child == <<t[1], t[2] + 1>> IN
  /\ pc[t] = "fork"
  /\ pc' = [pc EXCEPT ![t] = "loop", ![child] = Entry(child[2])]
  /\ idx' = [idx EXCEPT ![t] = SliceStart(t[2]), ![child] = SliceStart(child[2])]
  /\ UNCHANGED <<region, reg, shared, ran>>

(* clone returned an error: non-zero as well, so the parent runs its slice,*)
(* but nobody continues the chain.                                         *)
ForkFail(t) ==
  /\ ForkMayFail
  /\ pc[t] = "fork"
  /\ pc' = [pc EXCEPT ![t] = "loop", ![<<t[1], t[2] + 1>>] = "lost"]
  /\ idx' = [idx EXCEPT ![t] = SliceStart(t[2])]
  /\ UNCHANGED <<region, reg, shared, ran>>

Iterate(t) ==
  /\ pc[t] = "loop"
  /\ InSlice(t)
  /\ ran' = [ran EXCEPT ![idx[t]] = @ + 1]
  /\ idx' = [idx EXCEPT ![t] = Wrap(@ + 1)]
  /\ UNCHANGED <<region, pc, reg, shared>>

\* Fault: thread i > 1 leaves without reporting to the counter.
Report_Skip(i) == IF i = 1 THEN "poll" ELSE "exit"

\* What follows the wait for the child: thread 1 polls, the others report.
Report(i) ==
  IF ~UseLock THEN IF i = 1 THEN "tail" ELSE "exit"
  ELSE IF i = 1 THEN "poll" ELSE "ldrex"

(* The slice is done.  All but the last thread first call __join_threads(0)*)
LeaveLoop(t) ==
  /\ pc[t] = "loop"
  /\ ~InSlice(t)
  /\ pc' = [pc EXCEPT ![t] = IF t[2] < N THEN "wait" ELSE Report(t[2])]
  /\ UNCHANGED <<region, idx, reg, shared, ran>>

(* waitid is called with idtype -1, which names no kind of child: it       *)
(* returns EINVAL without waiting, and the result is not looked at.        *)
Wait(t) ==
  /\ pc[t] = "wait"
  /\ pc' = [pc EXCEPT ![t] = Report(t[2])]
  /\ UNCHANGED <<region, idx, reg, shared, ran>>

\* Fault: the lock word is not looked at before it is claimed.
LockLoad_NoTest(t) ==
  /\ pc[t] = "ldrex"
  /\ monitor' = [monitor EXCEPT ![t] = TRUE]
  /\ pc' = [pc EXCEPT ![t] = "strex"]
  /\ UNCHANGED <<region, idx, reg, barrier, mutex, ran>>

(* __lock: ldrex; a word that is 1 sends the thread back to the ldrex.     *)
LockLoad(t) ==
  /\ pc[t] = "ldrex"
  /\ mutex # 1
  /\ monitor' = [monitor EXCEPT ![t] = TRUE]
  /\ pc' = [pc EXCEPT ![t] = "strex"]
  /\ UNCHANGED <<region, idx, reg, barrier, mutex, ran>>

LockStoreOk(t) ==
  /\ pc[t] = "strex"
  /\ monitor[t]
  /\ mutex' = 1
  /\ monitor' = [u \in Thread |-> FALSE]
  /\ pc' = [pc EXCEPT ![t] = "load"]
  /\ UNCHANGED <<region, idx, reg, barrier, ran>>

LockStoreFail(t) ==
  /\ pc[t] = "strex"
  /\ monitor' = [monitor EXCEPT ![t] = FALSE]
  /\ pc' = [pc EXCEPT ![t] = "ldrex"]
  /\ UNCHANGED <<region, idx, reg, barrier, mutex, ran>>

(* st_volatile(t, ld_volatile(t) - 1): a load, a subtraction and a store.  *)
LoadCounter(t) ==
  /\ pc[t] = "load"
  /\ reg' = [reg EXCEPT ![t] = barrier - 1]
  /\ pc' = [pc EXCEPT ![t] = "store"]
  /\ UNCHANGED <<region, idx, shared, ran>>

StoreCounter(t) ==
  /\ pc[t] = "store"
  /\ barrier' = reg[t]
  /\ pc' = [pc EXCEPT ![t] = "unlock"]
  /\ UNCHANGED <<region, idx, reg, mutex, monitor, ran>>

\* Fault: __unlock is left out.
Unlock_Skip(t) ==
  /\ pc[t] = "unlock"
  /\ pc' = [pc EXCEPT ![t] = "exit"]
  /\ UNCHANGED <<region, idx, reg, shared, ran>>

(* __unlock is a plain store; it also clears the monitors on the word.     *)
Unlock(t) ==
  /\ pc[t] = "unlock"
  /\ mutex' = 0
  /\ monitor' = [u \in Thread |-> FALSE]
  /\ pc' = [pc EXCEPT ![t] = "exit"]
  /\ UNCHANGED <<region, idx, reg, barrier, ran>>

(* __join_threads(1): sys_exit.                                            *)
Exit(t) ==
  /\ pc[t] = "exit"
  /\ pc' = [pc EXCEPT ![t] = "dead"]
  /\ UNCHANGED <<region, idx, reg, shared, ran>>

(* Thread 1: branch(v == 0, tail, bb), where bb starts with the wait again.*)
Poll(t) ==
  /\ pc[t] = "poll"
  /\ pc' = [pc EXCEPT ![t] = IF barrier = 0 THEN "tail"
                             ELSE IF t[2] < N THEN "wait" ELSE "poll"]
  /\ UNCHANGED <<region, idx, reg, shared, ran>>

(* The tail block: control is back in the surrounding code.                *)
Tail(t) ==
  /\ pc[t] = "tail"
  /\ pc' = [pc EXCEPT ![t] = "dead"]
  /\ main' = "head"
  /\ UNCHANGED <<header, round, lo, hi, idx, reg, shared, ran>>

Step(t) ==
  \/ Fork(t) \/ ForkFail(t)
  \/ Iterate(t) \/ LeaveLoop(t)
  \/ Wait(t)
  \/ LockLoad(t) \/ LockStoreOk(t) \/ LockStoreFail(t)
  \/ LoadCounter(t) \/ StoreCounter(t)
  \/ Unlock(t) \/ Exit(t)
  \/ Poll(t) \/ Tail(t)

MainStep == Head \/ SeqIterate \/ SeqLeave

Next == MainStep \/ \E t \in Thread : Step(t)

Spec == Init /\ [][Next]_vars

(***************************************************************************)
(* The kernel keeps running every runnable thread; a store-exclusive that  *)
(* is retried forever succeeds; main is running whenever it is not in the  *)
(* region.  Thread creation succeeding is not assumed.                     *)
(***************************************************************************)
Fairness ==
  /\ WF_vars(MainStep)
  /\ \A t \in Thread : WF_vars(Step(t)) /\ SF_vars(LockStoreOk(t))

FairSpec == Spec /\ Fairness

-------------------------------------------------------------------------------
\* Where a thread is once it has reported, and while it does.
Reported == {"unlock", "exit", "dead"}
Reporting == {"ldrex", "strex", "load", "store"}

(* Threads of the current round that still have to report.                 *)
Unreported ==
  {i \in 2 .. N : pc[<<round, i>>] \notin Reported}

(* The counter is the number of threads that have not reported, whatever   *)
(* threads of the previous round are still doing; a lost update or a       *)
(* straggler's store breaks it.                                            *)
CounterInv ==
  main = "region" /\ UseLock => barrier = Cardinality(Unreported)

\* Between the store that takes the lock and the one that releases it.
Holding(t) == pc[t] \in {"load", "store", "unlock"}

(* At most one thread of any round is between __lock and __unlock, and the *)
(* word says so.                                                           *)
LockExclusion ==
  /\ \A t, u \in Thread : Holding(t) /\ Holding(u) => t = u
  /\ (mutex = 1) <=> \E t \in Thread : Holding(t)

(***************************************************************************)
(* The strengthening that makes CounterInv, LockExclusion and              *)
(* OnlyEpilogueLeft inductive.                                             *)
(***************************************************************************)

\* A claim on the lock word that can still succeed means the lock is free.
ClaimInv ==
  \A t \in Thread : pc[t] = "strex" /\ monitor[t] => mutex = 0

\* The value a thread is about to store in the counter is current.
PendingInv ==
  \A t \in Thread : pc[t] = "store" => reg[t] = barrier - 1

\* Only the last thread creates none; only thread 1 polls, and never reports.
RoleInv ==
  \A t \in Thread :
    /\ pc[t] = "fork" => t[2] < N
    /\ pc[t] \in {"poll", "tail"} => t[2] = 1
    /\ t[2] = 1 => pc[t] \notin Reporting \cup {"unlock", "exit"}

\* Later rounds have no threads yet; those of earlier rounds have reported.
RoundInv ==
  \A t \in Thread :
    /\ t[1] > round => pc[t] = "none"
    /\ t[1] < round \/ main # "region" => pc[t] \in Reported \cup {"none", "lost"}

\* Threads are created in order: nobody exists beyond the end of the chain.
ChainInv ==
  \A t \in Thread :
    t[2] < N /\ pc[t] \in {"none", "fork", "lost"} => pc[<<t[1], t[2] + 1>>] = "none"

\* Thread 1 lives as long as the region, and ends it when all have reported.
RegionInv ==
  /\ main # "head" => round >= 1
  /\ main = "region" =>
       /\ pc[<<round, 1>>] # "dead"
       /\ pc[<<round, 1>>] = "tail" => Unreported = {}

(* When control is back in the surrounding code every iteration of the     *)
(* source loop has been executed exactly once and no other has.  (The text *)
(* says that the k iterations of the loop are divided into blocks that run *)
(* in parallel.)                                                           *)
RegionComplete ==
  main = "head" /\ round > 0 =>
    \A i \in Word : ran[i] = IF i \in SourceRange(lo, hi) THEN 1 ELSE 0

(* The threads of a finished round touch neither the counter nor the data: *)
(* all that can be left of them is releasing the lock and exiting.         *)
OnlyEpilogueLeft ==
  \A t \in Thread :
    t[1] < round \/ (t[1] = round /\ main = "head") =>
      pc[t] \in {"none", "lost", "unlock", "exit", "dead"}

\* The first iteration of slice i and the one after its last, on integers.
First(i) == lo + (i - 1) * StepLen
Limit == IF header.le THEN hi + 1 ELSE hi
Stop(i) == IF i = N THEN Limit ELSE First(i + 1)

\* How far slice i has come.
Progress(i) ==
  LET t == <<round, i>> IN
  IF pc[t] \in {"none", "lost", "fork"} THEN First(i)
  ELSE IF pc[t] = "loop" THEN idx[t]
  ELSE Stop(i)

\* r lies so far below l that r - l, the compiler's own subtraction, wraps to a
\* length worth a region: slices run though the source loop has no iteration.
WrapsIntoRegion == hi < lo /\ Length >= MinPar

\* The rounds the region is right for: the rebuilt branch keeps the header's
\* meaning, the length does not wrap into a region, and the loop variable stays
\* in the word (i <= r with the largest r is undefined in the source).
Regular == ~header.exit /\ ~WrapsIntoRegion /\ (header.le => hi < MaxWord)

(* What has been executed in the current round: in the sequential copy a   *)
(* prefix of the range, in the region a prefix of every slice, each        *)
(* iteration once; afterwards the whole range.                             *)
SliceInv ==
  Regular =>
    /\ main = "seq" =>
         LET i == idx[<<round, 1>>] IN
         /\ i = lo \/ i \in lo .. Limit
         /\ \A j \in Word : ran[j] = IF lo <= j /\ j < i THEN 1 ELSE 0
    /\ main = "region" =>
         /\ Length = hi - lo /\ Length > 0
         /\ \A i \in 1 .. N : Progress(i) \in First(i) .. Stop(i)
         /\ \A j \in Word :
              ran[j] = IF \E i \in 1 .. N : First(i) <= j /\ j < Progress(i) THEN 1 ELSE 0
    /\ main = "head" => RegionComplete

\* The inductive invariant, for regions that report (UseLock).
Inv ==
  /\ TypeOK
  /\ CounterInv
  /\ LockExclusion
  /\ OnlyEpilogueLeft
  /\ ClaimInv /\ PendingInv
  /\ RoleInv /\ RoundInv /\ ChainInv /\ RegionInv
  /\ SliceInv

\* A creation failed.
ForkLost == \E t \in Thread : pc[t] = "lost"

(* Every region ends, unless a thread could not be created (then thread 1  *)
(* polls for ever: the runtime does not look at the error).                *)
AllRoundsFinish == <>(main = "head" /\ round = Rounds) \/ <>ForkLost

(***************************************************************************)
(* ParallelLoop implements LoopRegion in every round that is regular: a    *)
(* slice only runs iterations the source loop has and nobody has run, and  *)
(* control leaves when none is left, whatever went on in the rounds before *)
(* and whichever of their threads are still there.  Of the other rounds,   *)
(* for which the code is wrong, nothing is said: to the abstract loop they *)
(* do not happen.                                                          *)
(***************************************************************************)
Inside == main # "head" /\ Regular
Abs == INSTANCE LoopRegion WITH
  inside <- Inside,
  range <- IF Inside THEN SourceRange(lo, hi) ELSE {},
  ran <- IF Inside THEN ran ELSE [i \in Word |-> 0],
  Iteration <- Word
ImplementsLoopRegion == Abs!Spec
===============================================================================
