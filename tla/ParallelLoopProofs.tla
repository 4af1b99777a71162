-------------------------- MODULE ParallelLoopProofs --------------------------
(***************************************************************************)
(* Proofs, for every number of threads, of rounds and every choice of      *)
(* bounds, that the lock and the counter at the end of a parallel region   *)
(* do their work: mutual exclusion across rounds, a counter that equals    *)
(* the number of threads that have not reported, and nothing but the       *)
(* epilogue left of a round's threads once thread 1 goes on.               *)
(***************************************************************************)
EXTENDS ParallelLoop, FiniteSetTheorems, TLAPS

LEMMA ThreadPair ==
  ASSUME NEW t \in Thread
  PROVE  /\ t[1] \in 1 .. Rounds
         /\ t[2] \in 1 .. N
         /\ t = <<t[1], t[2]>>
BY DEF Thread

LEMMA PairThread ==
  ASSUME NEW k \in 1 .. Rounds, NEW i \in 1 .. N
  PROVE  /\ <<k, i>> \in Thread
         /\ <<k, i>>[1] = k
         /\ <<k, i>>[2] = i
BY DEF Thread

(* Wrapping gives a word.                                                  *)
LEMMA WrapType ==
  ASSUME NEW x \in Int
  PROVE  Wrap(x) \in Word
<1>1. Modulus \in Nat \ {0} /\ MaxWord \in Nat
  BY WordAssumption DEF Modulus
<1>2. (x + MaxWord + 1) % Modulus \in 0 .. Modulus - 1
  BY <1>1
<1> QED
  BY <1>1, <1>2 DEF Wrap, Word, Modulus

LEMMA WrapIndex ==
  ASSUME TypeOK, NEW t \in Thread
  PROVE  Wrap(idx[t] + 1) \in Word
<1>1. idx[t] \in Word
  BY DEF TypeOK
<1>2. idx[t] + 1 \in Int
  BY <1>1, WordAssumption DEF Word
<1> QED
  BY <1>2, WrapType

(* Counting one more occurrence of anything leaves a count.                *)
LEMMA CountType ==
  ASSUME NEW S, NEW f \in [S -> Nat], NEW x
  PROVE  [f EXCEPT ![x] = @ + 1] \in [S -> Nat]
<1>1. CASE x \in S
  BY <1>1
<1>2. CASE x \notin S
  BY <1>2
<1> QED
  BY <1>1, <1>2

LEMMA SliceType ==
  ASSUME TypeOK, NEW i \in 1 .. N
  PROVE  SliceStart(i) \in Word
<1>1. lo \in Int /\ hi \in Int
  BY WordAssumption DEF TypeOK, Word
<1>2. Length \in Int
  BY <1>1, WrapType, WordAssumption DEF Length, Word
<1>3. StepLen \in Int
  BY <1>2, NAssumption DEF StepLen
<1>4. lo + (i - 1) * StepLen \in Int
  BY <1>1, <1>3, NAssumption
<1> QED
  BY <1>4, WrapType DEF SliceStart

(* The threads that have not reported.                                     *)
LEMMA UnreportedFinite ==
  /\ IsFiniteSet(Unreported)
  /\ Cardinality(Unreported) \in 0 .. N - 1
  /\ Cardinality(Unreported) = 0 <=> Unreported = {}
<1>1. IsFiniteSet(2 .. N) /\ Cardinality(2 .. N) = N - 1
  BY FS_Interval, NAssumption
<1>2. Unreported \in SUBSET (2 .. N)
  BY DEF Unreported
<1>3. IsFiniteSet(Unreported) /\ Cardinality(Unreported) <= N - 1
  BY <1>1, <1>2, FS_Subset
<1> QED
  BY <1>3, FS_CardinalityType, FS_EmptySet, NAssumption

(* A thread between the lock and the store of the counter belongs to the   *)
(* current round and has not reported, so the counter is not 0 yet.        *)
LEMMA HolderCounts ==
  ASSUME Inv, UseLock, NEW t \in Thread, pc[t] \in {"load", "store"}
  PROVE  /\ main = "region"
         /\ t[1] = round
         /\ t[2] \in Unreported
         /\ barrier = Cardinality(Unreported)
         /\ barrier \in 1 .. N - 1
<1>1. main = "region" /\ t[1] = round
  <2>1. t[1] \in Int /\ round \in Int
    BY ThreadPair, RoundsAssumption DEF Inv, TypeOK
  <2>2. ~(t[1] > round)
    BY DEF Inv, RoundInv
  <2>3. ~(t[1] < round \/ main # "region")
    BY DEF Inv, RoundInv, Reported
  <2> QED
    BY <2>1, <2>2, <2>3
<1>2. t[2] \in 2 .. N
  BY ThreadPair, NAssumption DEF Inv, RoleInv, Reporting
<1>3. t[2] \in Unreported
  BY <1>1, <1>2, ThreadPair DEF Unreported, Reported
<1>4. barrier = Cardinality(Unreported)
  BY <1>1 DEF Inv, CounterInv
<1> QED
  BY <1>1, <1>3, <1>4, UnreportedFinite

LEMMA TypeStep ==
  ASSUME Inv, UseLock, [Next]_vars
  PROVE  TypeOK'
<1> USE DEF Inv, TypeOK, Location, region, shared
<1>1. CASE Head
  <2>1. CounterStart \in 0 .. N - 1
    BY NAssumption DEF CounterStart
  <2>2. PICK b \in Bounds : lo' = b[1] /\ hi' = b[2]
                           /\ idx' = [idx EXCEPT ![<<round + 1, 1>>] = b[1]]
    BY <1>1 DEF Head
  <2>3. b[1] \in Word /\ b[2] \in Word
    BY WordAssumption DEF Word
  <2>4. round' \in 0 .. Rounds
    BY <1>1, RoundsAssumption DEF Head
  <2>5. ran' \in [Word -> Nat]
    BY <1>1 DEF Head
  <2>6. idx' \in [Thread -> Word]
    BY <2>2, <2>3
  <2>7. main' \in {"head", "seq", "region"} /\ barrier' \in 0 .. N - 1
    BY <1>1, <2>1 DEF Head
  <2>8. pc' \in [Thread -> Location]
    BY <1>1 DEF Head, Entry
  <2> QED
    BY <1>1, <2>2, <2>3, <2>4, <2>5, <2>6, <2>7, <2>8 DEF Head
<1>2. CASE SeqIterate
  <2>1. PICK t \in {<<round, 1>>} : idx' = [idx EXCEPT ![t] = Wrap(@ + 1)]
    BY <1>2 DEF SeqIterate
  <2>2. ASSUME t \in Thread PROVE Wrap(idx[t] + 1) \in Word
    BY <2>2, WrapIndex
  <2>3. idx' \in [Thread -> Word]
    BY <2>1, <2>2
  <2>4. ran' = [ran EXCEPT ![idx[<<round, 1>>]] = @ + 1]
    BY <1>2 DEF SeqIterate
  <2>5. ran' \in [Word -> Nat]
    BY <2>4, CountType
  <2> QED
    BY <1>2, <2>3, <2>5 DEF SeqIterate
<1>3. CASE SeqLeave
  BY <1>3 DEF SeqLeave
<1>4. ASSUME NEW t \in Thread, Fork(t) PROVE TypeOK'
  <2>1. t[2] \in 1 .. N /\ t[2] + 1 \in 1 .. N
    BY <1>4, ThreadPair, NAssumption DEF Fork, RoleInv
  <2>2. SliceStart(t[2]) \in Word /\ SliceStart(t[2] + 1) \in Word
    BY <2>1, SliceType
  <2>3. <<t[1], t[2] + 1>>[2] = t[2] + 1
    OBVIOUS
  <2>4. idx' \in [Thread -> Word]
    BY <1>4, <2>2, <2>3 DEF Fork
  <2>5. pc' \in [Thread -> Location]
    BY <1>4 DEF Fork, Entry
  <2> QED
    BY <1>4, <2>4, <2>5 DEF Fork
<1>5. ASSUME NEW t \in Thread, ForkFail(t) PROVE TypeOK'
  <2>1. SliceStart(t[2]) \in Word
    BY ThreadPair, SliceType
  <2> QED
    BY <1>5, <2>1 DEF ForkFail
<1>6. ASSUME NEW t \in Thread, Iterate(t) PROVE TypeOK'
  <2>1. Wrap(idx[t] + 1) \in Word
    BY WrapIndex
  <2> QED
    BY <1>6, <2>1 DEF Iterate
<1>7. ASSUME NEW t \in Thread, LockStoreOk(t) \/ Unlock(t) PROVE TypeOK'
  BY <1>7 DEF LockStoreOk, Unlock
<1>8. ASSUME NEW t \in Thread, LoadCounter(t) \/ StoreCounter(t) PROVE TypeOK'
  <2>1. barrier - 1 \in 0 .. N - 1
    BY <1>8, HolderCounts, NAssumption DEF LoadCounter, StoreCounter
  <2>2. pc[t] = "store" => reg[t] = barrier - 1
    BY DEF PendingInv
  <2> QED
    BY <1>8, <2>1, <2>2 DEF LoadCounter, StoreCounter
<1>9. ASSUME NEW t \in Thread,
             LeaveLoop(t) \/ Wait(t) \/ LockLoad(t) \/ LockStoreFail(t)
               \/ Exit(t) \/ Poll(t) \/ Tail(t)
      PROVE  TypeOK'
  BY <1>9 DEF LeaveLoop, Wait, Report, LockLoad, LockStoreFail, Exit, Poll, Tail
<1>10. CASE UNCHANGED vars
  BY <1>10 DEF vars
<1> QED
  BY <1>1, <1>2, <1>3, <1>4, <1>5, <1>6, <1>7, <1>8, <1>9, <1>10
     DEF Next, MainStep, Step
-------------------------------------------------------------------------------
(* A thread that runs and has not reported belongs to the current region.  *)
LEMMA Active ==
  ASSUME Inv, NEW t \in Thread, pc[t] \notin Reported \cup {"none", "lost"}
  PROVE  /\ main = "region"
         /\ round \in 1 .. Rounds
         /\ t[1] = round
         /\ t = <<round, t[2]>>
<1>1. t[1] \in 1 .. Rounds /\ round \in Int /\ t = <<t[1], t[2]>>
  BY ThreadPair, RoundsAssumption DEF Inv, TypeOK
<1>2. ~(t[1] > round) /\ ~(t[1] < round \/ main # "region")
  BY DEF Inv, RoundInv
<1> QED
  BY <1>1, <1>2, RoundsAssumption

(* The thread a creation starts does not exist before.                     *)
LEMMA ChildFree ==
  ASSUME Inv, NEW t \in Thread, pc[t] = "fork"
  PROVE  /\ t[2] + 1 \in 2 .. N
         /\ <<t[1], t[2] + 1>> \in Thread
         /\ pc[<<t[1], t[2] + 1>>] = "none"
         /\ <<t[1], t[2] + 1>> # t
<1>1. t[1] \in 1 .. Rounds /\ t[2] \in 1 .. N /\ t[2] < N
  BY ThreadPair DEF Inv, RoleInv
<1>2. t[2] + 1 \in 2 .. N
  BY <1>1, NAssumption
<1>3. <<t[1], t[2] + 1>> \in Thread
  BY <1>1, <1>2, PairThread, NAssumption
<1>4. pc[<<t[1], t[2] + 1>>] = "none"
  BY <1>1 DEF Inv, ChainInv
<1> QED
  BY <1>2, <1>3, <1>4

(* The thread a round starts with does not exist before.                   *)
LEMMA FirstFree ==
  ASSUME Inv, Head
  PROVE  /\ <<round + 1, 1>> \in Thread
         /\ pc[<<round + 1, 1>>] = "none"
<1>1. round + 1 \in 1 .. Rounds /\ 1 \in 1 .. N
  BY NAssumption, RoundsAssumption DEF Inv, TypeOK, Head
<1>2. <<round + 1, 1>> \in Thread /\ <<round + 1, 1>>[1] = round + 1
  BY <1>1, PairThread
<1>3. round + 1 > round
  BY RoundsAssumption DEF Inv, TypeOK
<1> QED
  BY <1>2, <1>3 DEF Inv, RoundInv

-------------------------------------------------------------------------------
(* The lock.                                                               *)
LEMMA LockStep ==
  ASSUME Inv, UseLock, [Next]_vars
  PROVE  LockExclusion' /\ ClaimInv'
<1> USE DEF Inv, region, shared
<1>0. pc \in [Thread -> Location] /\ mutex \in {0, 1} /\ monitor \in [Thread -> BOOLEAN]
  BY DEF TypeOK
<1>1. CASE Head
  <2>1. <<round + 1, 1>> \in Thread /\ pc[<<round + 1, 1>>] = "none"
    BY <1>1, FirstFree
  <2>2. \/ pc' = pc
        \/ pc' = [pc EXCEPT ![<<round + 1, 1>>] = Entry(1)]
    BY <1>1 DEF Head
  <2>3. Entry(1) \in {"fork", "loop"}
    BY DEF Entry
  <2>4. \A u \in Thread : /\ Holding(u)' <=> Holding(u)
                          /\ pc'[u] = "strex" <=> pc[u] = "strex"
    BY <1>0, <2>1, <2>2, <2>3 DEF Holding
  <2> QED
    BY <1>1, <2>4 DEF Head, LockExclusion, ClaimInv
<1>2. CASE SeqIterate \/ SeqLeave
  BY <1>2 DEF SeqIterate, SeqLeave, LockExclusion, ClaimInv, Holding
<1>3. ASSUME NEW t \in Thread, Fork(t) PROVE LockExclusion' /\ ClaimInv'
  <2> DEFINE child == <<t[1], t[2] + 1>>
  <2>1. pc[t] = "fork" /\ child \in Thread /\ pc[child] = "none"
    BY <1>3, ChildFree DEF Fork
  <2>2. pc' = [pc EXCEPT ![t] = "loop", ![child] = Entry(child[2])]
    BY <1>3 DEF Fork
  <2>3. Entry(child[2]) \in {"fork", "loop"}
    BY DEF Entry
  <2> HIDE DEF child
  <2>4. \A u \in Thread : /\ Holding(u)' <=> Holding(u)
                          /\ pc'[u] = "strex" <=> pc[u] = "strex"
    BY <1>0, <2>1, <2>2, <2>3 DEF Holding
  <2> QED
    BY <1>3, <2>4 DEF Fork, LockExclusion, ClaimInv
<1>4. ASSUME NEW t \in Thread, ForkFail(t) PROVE LockExclusion' /\ ClaimInv'
  <2> DEFINE child == <<t[1], t[2] + 1>>
  <2>1. pc[t] = "fork" /\ child \in Thread /\ pc[child] = "none"
    BY <1>4, ChildFree DEF ForkFail
  <2>2. pc' = [pc EXCEPT ![t] = "loop", ![child] = "lost"]
    BY <1>4 DEF ForkFail
  <2> HIDE DEF child
  <2>3. \A u \in Thread : /\ Holding(u)' <=> Holding(u)
                          /\ pc'[u] = "strex" <=> pc[u] = "strex"
    BY <1>0, <2>1, <2>2 DEF Holding
  <2> QED
    BY <1>4, <2>3 DEF ForkFail, LockExclusion, ClaimInv
<1>5. ASSUME NEW t \in Thread, LockStoreOk(t) PROVE LockExclusion' /\ ClaimInv'
  <2>1. \A u \in Thread : ~Holding(u)
    BY <1>5, <1>0 DEF LockStoreOk, ClaimInv, LockExclusion
  <2>2. \A u \in Thread : Holding(u)' <=> u = t
    BY <1>5, <1>0, <2>1 DEF LockStoreOk, Holding
  <2> QED
    BY <1>5, <2>2 DEF LockStoreOk, LockExclusion, ClaimInv
<1>6. ASSUME NEW t \in Thread, Unlock(t) PROVE LockExclusion' /\ ClaimInv'
  <2>1. \A u \in Thread : Holding(u) => u = t
    BY <1>6 DEF Unlock, LockExclusion, Holding
  <2>2. \A u \in Thread : ~Holding(u)'
    BY <1>6, <1>0, <2>1 DEF Unlock, Holding
  <2> QED
    BY <1>6, <2>2 DEF Unlock, LockExclusion, ClaimInv
<1>7. ASSUME NEW t \in Thread, LockLoad(t) \/ LockStoreFail(t)
      PROVE  LockExclusion' /\ ClaimInv'
  <2>1. \A u \in Thread : Holding(u)' <=> Holding(u)
    BY <1>7, <1>0 DEF LockLoad, LockStoreFail, Holding
  <2>2. LockExclusion'
    BY <1>7, <2>1 DEF LockLoad, LockStoreFail, LockExclusion
  <2>3. ClaimInv'
    BY <1>7, <1>0 DEF LockLoad, LockStoreFail, ClaimInv
  <2> QED
    BY <2>2, <2>3
<1>8. ASSUME NEW t \in Thread,
             Iterate(t) \/ LeaveLoop(t) \/ Wait(t) \/ LoadCounter(t) \/ StoreCounter(t)
               \/ Exit(t) \/ Poll(t) \/ Tail(t)
      PROVE  LockExclusion' /\ ClaimInv'
  <2>1. \A u \in Thread : /\ Holding(u)' <=> Holding(u)
                          /\ pc'[u] = "strex" => pc[u] = "strex"
    BY <1>8, <1>0
       DEF Iterate, LeaveLoop, Wait, LoadCounter, StoreCounter, Exit, Poll, Tail,
           Report, Holding
  <2>2. mutex' = mutex /\ monitor' = monitor
    BY <1>8
       DEF Iterate, LeaveLoop, Wait, LoadCounter, StoreCounter, Exit, Poll, Tail
  <2> QED
    BY <2>1, <2>2 DEF LockExclusion, ClaimInv
<1>9. CASE UNCHANGED vars
  BY <1>9 DEF vars, LockExclusion, ClaimInv, Holding
<1> QED
  BY <1>1, <1>2, <1>3, <1>4, <1>5, <1>6, <1>7, <1>8, <1>9 DEF Next, MainStep, Step

-------------------------------------------------------------------------------
(* The places a step moves threads to: t alone, or t and its new child.    *)
LEMMA Moves ==
  ASSUME Inv, UseLock, NEW t \in Thread, Step(t)
  PROVE  \E c \in Thread :
           /\ pc[t] \notin {"none", "lost", "dead"}
           /\ \A u \in Thread \ {t, c} : pc'[u] = pc[u]
           /\ c # t =>
                /\ c = <<t[1], t[2] + 1>> /\ t[2] + 1 \in 2 .. N
                /\ pc[c] = "none" /\ pc[t] = "fork" /\ pc'[t] = "loop"
                /\ pc'[c] \in {"lost", Entry(t[2] + 1)}
<1> USE DEF Inv
<1>0. pc \in [Thread -> Location]
  BY DEF TypeOK
<1>1. CASE Fork(t) \/ ForkFail(t)
  <2> DEFINE child == <<t[1], t[2] + 1>>
  <2>1. /\ pc[t] = "fork" /\ child \in Thread /\ pc[child] = "none"
        /\ child # t /\ t[2] + 1 \in 2 .. N
    BY <1>1, ChildFree DEF Fork, ForkFail
  <2>2. child[2] = t[2] + 1
    OBVIOUS
  <2>3. \E e \in {"lost", Entry(t[2] + 1)} : pc' = [pc EXCEPT ![t] = "loop", ![child] = e]
    BY <1>1, <2>2 DEF Fork, ForkFail
  <2>4. child = <<t[1], t[2] + 1>>
    OBVIOUS
  <2> HIDE DEF child
  <2> QED
    BY <1>0, <2>1, <2>3, <2>4
<1>2. CASE ~(Fork(t) \/ ForkFail(t))
  <2>1. /\ pc[t] \notin {"none", "lost", "dead"}
        /\ \A u \in Thread \ {t} : pc'[u] = pc[u]
    BY <1>0, <1>2
       DEF Step, Iterate, LeaveLoop, Wait, LockLoad, LockStoreOk, LockStoreFail,
           LoadCounter, StoreCounter, Unlock, Exit, Poll, Tail, region
  <2> QED
    BY <2>1
<1> QED
  BY <1>1, <1>2

(* The value on its way to the counter.                                    *)
LEMMA PendingStep ==
  ASSUME Inv, UseLock, [Next]_vars
  PROVE  PendingInv'
<1> USE DEF Inv, region, shared
<1>0. pc \in [Thread -> Location] /\ reg \in [Thread -> 0 .. N - 1]
  BY DEF TypeOK
<1>1. CASE Head
  <2>1. <<round + 1, 1>> \in Thread /\ pc[<<round + 1, 1>>] = "none"
    BY <1>1, FirstFree
  <2>2. \A u \in Thread : pc'[u] = "store" => pc[u] = "store"
    BY <1>0, <1>1, <2>1 DEF Head, Entry
  <2>3. \A u \in Thread : pc[u] # "store"
    BY <1>1 DEF Head, RoundInv, Reported
  <2> QED
    BY <2>2, <2>3 DEF PendingInv
<1>2. CASE SeqIterate \/ SeqLeave
  BY <1>2 DEF SeqIterate, SeqLeave, PendingInv
<1>3. ASSUME NEW t \in Thread, LoadCounter(t) PROVE PendingInv'
  BY <1>0, <1>3 DEF LoadCounter, PendingInv
<1>4. ASSUME NEW t \in Thread, StoreCounter(t) PROVE PendingInv'
  <2>1. \A u \in Thread : pc[u] = "store" => u = t
    BY <1>4 DEF StoreCounter, LockExclusion, Holding
  <2>2. \A u \in Thread : pc'[u] # "store"
    BY <1>0, <1>4, <2>1 DEF StoreCounter
  <2> QED
    BY <2>2 DEF PendingInv
<1>5. ASSUME NEW t \in Thread, Step(t), ~LoadCounter(t), ~StoreCounter(t)
      PROVE  PendingInv'
  <2>1. barrier' = barrier /\ reg' = reg
    BY <1>5
       DEF Step, Fork, ForkFail, Iterate, LeaveLoop, Wait, LockLoad, LockStoreOk,
           LockStoreFail, Unlock, Exit, Poll, Tail
  <2>2. \A u \in Thread : pc'[u] = "store" => pc[u] = "store"
    BY <1>0, <1>5
       DEF Step, Fork, ForkFail, Entry, Iterate, LeaveLoop, Wait, Report, LockLoad,
           LockStoreOk, LockStoreFail, Unlock, Exit, Poll, Tail
  <2> QED
    BY <2>1, <2>2 DEF PendingInv
<1>6. CASE UNCHANGED vars
  BY <1>6 DEF vars, PendingInv
<1> QED
  BY <1>1, <1>2, <1>3, <1>4, <1>5, <1>6 DEF Next, MainStep

(* A report is never taken back, and only the store of the counter and the *)
(* tail make one.                                                          *)
LEMMA Reports ==
  ASSUME Inv, UseLock, NEW t \in Thread, Step(t)
  PROVE  /\ round' = round
         /\ \A u \in Thread : pc[u] \in Reported => pc'[u] \in Reported
         /\ StoreCounter(t) \/ Tail(t) \/
            \A u \in Thread : pc'[u] \in Reported => pc[u] \in Reported
<1> USE DEF Inv, region, Reported
<1>0. pc \in [Thread -> Location]
  BY DEF TypeOK
<1>1. CASE Fork(t) \/ ForkFail(t)
  <2>1. PICK c \in Thread :
           /\ pc[t] = "fork"
           /\ \A u \in Thread \ {t, c} : pc'[u] = pc[u]
           /\ c # t => pc'[t] = "loop" /\ pc[c] = "none" /\ pc'[c] \in {"lost", Entry(t[2] + 1)}
    BY <1>1, Moves DEF Fork, ForkFail
  <2>2. pc'[t] \notin Reported
    BY <1>0, <1>1, ChildFree DEF Fork, ForkFail
  <2> QED
    BY <1>1, <2>1, <2>2 DEF Fork, ForkFail, Entry
<1>2. CASE ~(Fork(t) \/ ForkFail(t))
  BY <1>0, <1>2
     DEF Step, Iterate, LeaveLoop, Wait, Report, LockLoad, LockStoreOk, LockStoreFail,
         LoadCounter, StoreCounter, Unlock, Exit, Poll, Tail
<1> QED
  BY <1>1, <1>2

(* The counter.                                                            *)
LEMMA CounterStep ==
  ASSUME Inv, UseLock, [Next]_vars
  PROVE  CounterInv'
<1> USE DEF Inv, region, shared
<1>0. pc \in [Thread -> Location]
  BY DEF TypeOK
<1>1. CASE Head
  <2> SUFFICES ASSUME main' = "region" PROVE barrier' = Cardinality(Unreported')
    BY DEF CounterInv
  <2>1. round + 1 \in 1 .. Rounds /\ round' = round + 1 /\ barrier' = N - 1
        /\ pc' = [pc EXCEPT ![<<round + 1, 1>>] = Entry(1)]
    BY <1>1, RoundsAssumption DEF Head, CounterStart, TypeOK
  <2>2. ASSUME NEW i \in 2 .. N PROVE pc'[<<round', i>>] \notin Reported
    <3>1. i \in 1 .. N /\ i # 1
      BY NAssumption
    <3>2. <<round + 1, i>> \in Thread /\ <<round + 1, i>>[1] > round
      BY <2>1, <3>1, PairThread, RoundsAssumption DEF TypeOK
    <3>3. pc[<<round + 1, i>>] = "none" /\ <<round + 1, i>> # <<round + 1, 1>>
      BY <3>1, <3>2 DEF RoundInv
    <3> QED
      BY <1>0, <2>1, <3>2, <3>3 DEF Reported
  <2>3. Unreported' = 2 .. N
    BY <2>2 DEF Unreported
  <2>4. Cardinality(2 .. N) = N - 1
    BY FS_Interval, NAssumption
  <2> QED
    BY <2>1, <2>3, <2>4
<1>2. CASE SeqIterate \/ SeqLeave
  BY <1>2 DEF SeqIterate, SeqLeave, CounterInv
<1>3. ASSUME NEW t \in Thread, StoreCounter(t) PROVE CounterInv'
  <2>1. /\ main = "region" /\ t = <<round, t[2]>> /\ t[2] \in Unreported
        /\ barrier = Cardinality(Unreported)
    BY <1>3, HolderCounts, Active DEF StoreCounter, Reported
  <2>2. barrier' = barrier - 1
    BY <1>3 DEF StoreCounter, PendingInv
  <2>3. \A u \in Thread : pc'[u] \in Reported <=> pc[u] \in Reported \/ u = t
    BY <1>0, <1>3 DEF StoreCounter, Reported
  <2>4. round' = round /\ round \in 1 .. Rounds
    BY <1>3, Active DEF StoreCounter, Reported
  <2>5. ASSUME NEW i \in 2 .. N
        PROVE  pc'[<<round', i>>] \in Reported
                 <=> pc[<<round, i>>] \in Reported \/ i = t[2]
    <3>1. <<round, i>> \in Thread
      BY <2>4, PairThread, NAssumption
    <3>2. <<round, i>> = t <=> i = t[2]
      BY <2>1
    <3> QED
      BY <2>3, <2>4, <3>1, <3>2
  <2>6. Unreported' = Unreported \ {t[2]}
    BY <2>5 DEF Unreported
  <2>7. Cardinality(Unreported') = Cardinality(Unreported) - 1
    BY <2>1, <2>6, UnreportedFinite, FS_RemoveElement
  <2> QED
    BY <2>1, <2>2, <2>7 DEF CounterInv
<1>4. ASSUME NEW t \in Thread, Tail(t) PROVE CounterInv'
  BY <1>4 DEF Tail, CounterInv
<1>5. ASSUME NEW t \in Thread, Step(t), ~StoreCounter(t), ~Tail(t) PROVE CounterInv'
  <2>1. main' = main /\ barrier' = barrier
    BY <1>5
       DEF Step, Fork, ForkFail, Iterate, LeaveLoop, Wait, LockLoad, LockStoreOk,
           LockStoreFail, LoadCounter, Unlock, Exit, Poll
  <2>2. round' = round /\ \A u \in Thread : pc'[u] \in Reported <=> pc[u] \in Reported
    BY <1>5, Reports
  <2> SUFFICES ASSUME main = "region" PROVE Unreported' = Unreported
    BY <2>1 DEF CounterInv
  <2>3. round \in 1 .. Rounds
    BY RoundsAssumption DEF RegionInv, TypeOK
  <2>4. \A i \in 2 .. N : <<round, i>> \in Thread
    BY <2>3, PairThread, NAssumption
  <2> QED
    BY <2>2, <2>4 DEF Unreported
<1>6. CASE UNCHANGED vars
  BY <1>6 DEF vars, CounterInv, Unreported
<1> QED
  BY <1>1, <1>2, <1>3, <1>4, <1>5, <1>6 DEF Next, MainStep

-------------------------------------------------------------------------------
(* Who is where.                                                           *)
LEMMA RoleStep ==
  ASSUME Inv, UseLock, [Next]_vars
  PROVE  RoleInv'
<1> USE DEF Inv, region, shared
<1>0. pc \in [Thread -> Location]
  BY DEF TypeOK
<1>1. CASE Head
  <2>1. <<round + 1, 1>> \in Thread /\ pc[<<round + 1, 1>>] = "none"
    BY <1>1, FirstFree
  <2>2. Entry(1) \in {"fork", "loop"} /\ (Entry(1) = "fork" => 1 < N)
    BY DEF Entry
  <2>3. ASSUME NEW u \in Thread
        PROVE  \/ pc'[u] = pc[u]
               \/ u = <<round + 1, 1>> /\ pc'[u] = Entry(1)
    BY <1>0, <1>1, <2>1 DEF Head
  <2>4. <<round + 1, 1>>[2] = 1
    OBVIOUS
  <2> QED
    BY <2>2, <2>3, <2>4 DEF RoleInv, Reporting
<1>2. CASE SeqIterate \/ SeqLeave
  BY <1>2 DEF SeqIterate, SeqLeave, RoleInv
<1>3. ASSUME NEW t \in Thread, Step(t) PROVE RoleInv'
  <2>1. PICK c \in Thread :
           /\ \A u \in Thread \ {t, c} : pc'[u] = pc[u]
           /\ c # t =>
                /\ c = <<t[1], t[2] + 1>> /\ t[2] + 1 \in 2 .. N
                /\ pc'[t] = "loop"
                /\ pc'[c] \in {"lost", Entry(t[2] + 1)}
    BY <1>3, Moves
  <2>2. ASSUME c # t
        PROVE  /\ c[2] # 1
               /\ pc'[c] \in {"lost", "fork", "loop"}
               /\ pc'[c] = "fork" => c[2] < N
    <3>1. c[2] = t[2] + 1 /\ t[2] + 1 # 1
      BY <2>1, <2>2, NAssumption
    <3> QED
      BY <2>1, <2>2, <3>1 DEF Entry
  <2>3. ASSUME c = t
        PROVE  /\ pc'[t] # "fork"
               /\ pc'[t] \in {"poll", "tail"} => t[2] = 1
               /\ t[2] = 1 => pc'[t] \notin Reporting \cup {"unlock", "exit"}
    <3>1. ~Fork(t) /\ ~ForkFail(t)
      BY <1>0, <2>1, <2>3, ChildFree DEF Fork, ForkFail, Entry
    <3> QED
      BY <1>0, <1>3, <3>1
         DEF Step, Iterate, LeaveLoop, Wait, Report, LockLoad, LockStoreOk,
             LockStoreFail, LoadCounter, StoreCounter, Unlock, Exit, Poll, Tail,
             RoleInv, Reporting
  <2> QED
    BY <2>1, <2>2, <2>3 DEF RoleInv, Reporting
<1>4. CASE UNCHANGED vars
  BY <1>4 DEF vars, RoleInv
<1> QED
  BY <1>1, <1>2, <1>3, <1>4 DEF Next, MainStep

LEMMA RoundStep ==
  ASSUME Inv, UseLock, [Next]_vars
  PROVE  RoundInv'
<1> USE DEF Inv, region, shared
<1>0. pc \in [Thread -> Location] /\ round \in Nat /\ round' \in Nat
  BY TypeStep, RoundsAssumption DEF TypeOK
<1>1. CASE Head
  <2>1. ASSUME NEW u \in Thread
        PROVE  \/ pc'[u] = pc[u]
               \/ u[1] = round + 1 /\ main' = "region"
    BY <1>0, <1>1 DEF Head
  <2>2. ASSUME NEW u \in Thread PROVE u[1] \in Int
    BY ThreadPair, RoundsAssumption
  <2>3. round' = round + 1 /\ main # "region"
    BY <1>1 DEF Head
  <2> QED
    BY <1>0, <2>1, <2>2, <2>3 DEF RoundInv
<1>2. CASE SeqIterate \/ SeqLeave
  BY <1>2 DEF SeqIterate, SeqLeave, RoundInv
<1>3. ASSUME NEW t \in Thread, Step(t), ~Tail(t) PROVE RoundInv'
  <2>1. main' = main /\ round' = round
    BY <1>3
       DEF Step, Fork, ForkFail, Iterate, LeaveLoop, Wait, LockLoad, LockStoreOk,
           LockStoreFail, LoadCounter, StoreCounter, Unlock, Exit, Poll
  <2>2. PICK c \in Thread :
           /\ pc[t] \notin {"none", "lost"}
           /\ \A u \in Thread \ {t, c} : pc'[u] = pc[u]
           /\ c # t => c[1] = t[1] /\ pc[t] = "fork"
    BY <1>3, Moves
  <2>3. CASE pc[t] \in Reported
    <3>1. c = t
      BY <2>2, <2>3 DEF Reported
    <3>2. pc'[t] \in Reported
      BY <1>3, <2>3, Reports
    <3>3. ~(t[1] > round)
      BY <2>3 DEF RoundInv, Reported
    <3> QED
      BY <2>1, <2>2, <3>1, <3>2, <3>3 DEF RoundInv
  <2>4. CASE pc[t] \notin Reported
    <3>1. main = "region" /\ t[1] = round
      BY <2>2, <2>4, Active
    <3>2. ASSUME NEW u \in Thread, u \in {t, c} PROVE u[1] = round
      BY <2>2, <3>1, <3>2
    <3> QED
      BY <1>0, <2>1, <2>2, <3>1, <3>2 DEF RoundInv
  <2> QED
    BY <2>3, <2>4
<1>4. ASSUME NEW t \in Thread, Tail(t) PROVE RoundInv'
  <2>1. pc[t] = "tail" /\ t[2] = 1 /\ main = "region" /\ t = <<round, 1>>
        /\ round \in 1 .. Rounds
    BY <1>4, Active DEF Tail, RoleInv, Reported
  <2>2. Unreported = {}
    BY <2>1 DEF RegionInv
  <2>3. ASSUME NEW u \in Thread, u # t, u[1] = round PROVE pc[u] \in Reported
    <3>1. u[2] \in 1 .. N /\ u = <<round, u[2]>>
      BY <2>3, ThreadPair
    <3>2. u[2] \in 2 .. N
      BY <2>1, <2>3, <3>1, NAssumption
    <3> QED
      BY <2>2, <3>1, <3>2 DEF Unreported
  <2>4. ASSUME NEW u \in Thread PROVE u[1] \in Int
    BY ThreadPair, RoundsAssumption
  <2>5. ASSUME NEW u \in Thread, u # t PROVE pc[u] \in Reported \cup {"none", "lost"}
    BY <1>0, <2>3, <2>4, <2>5 DEF RoundInv
  <2>6. /\ pc'[t] = "dead" /\ round' = round
        /\ \A u \in Thread : u # t => pc'[u] = pc[u]
    BY <1>0, <1>4 DEF Tail
  <2>7. t[1] = round
    BY <2>1
  <2> QED
    BY <1>0, <2>4, <2>5, <2>6, <2>7 DEF RoundInv, Reported
<1>5. CASE UNCHANGED vars
  BY <1>5 DEF vars, RoundInv
<1> QED
  BY <1>1, <1>2, <1>3, <1>4, <1>5 DEF Next, MainStep

LEMMA ChainStep ==
  ASSUME Inv, UseLock, [Next]_vars
  PROVE  ChainInv'
<1> USE DEF Inv, region, shared
<1>0. pc \in [Thread -> Location] /\ round \in Nat
  BY RoundsAssumption DEF TypeOK
<1>1. CASE Head
  <2>1. ASSUME NEW u \in Thread
        PROVE  pc'[u] = pc[u] \/ u = <<round + 1, 1>>
    BY <1>0, <1>1 DEF Head
  <2> SUFFICES ASSUME NEW u \in Thread, u[2] < N, pc'[u] \in {"none", "fork", "lost"}
               PROVE  pc'[<<u[1], u[2] + 1>>] = "none"
    BY DEF ChainInv
  <2> DEFINE v == <<u[1], u[2] + 1>>
  <2>2. v \in Thread /\ v # <<round + 1, 1>> /\ v[1] = u[1] /\ u[1] \in Int
    BY ThreadPair, PairThread, NAssumption, RoundsAssumption
  <2>3. pc'[v] = pc[v]
    BY <2>1, <2>2
  <2>4. pc[v] = "none"
    <3>1. CASE u = <<round + 1, 1>>
      BY <1>0, <2>2, <3>1 DEF RoundInv
    <3>2. CASE u # <<round + 1, 1>>
      BY <2>1, <3>2 DEF ChainInv
    <3> QED
      BY <3>1, <3>2
  <2> QED
    BY <2>3, <2>4
<1>2. CASE SeqIterate \/ SeqLeave
  BY <1>2 DEF SeqIterate, SeqLeave, ChainInv
<1>3. ASSUME NEW t \in Thread, Step(t) PROVE ChainInv'
  <2>1. PICK c \in Thread :
           /\ pc[t] \notin {"none", "lost", "dead"}
           /\ \A u \in Thread \ {t, c} : pc'[u] = pc[u]
           /\ c # t =>
                /\ c = <<t[1], t[2] + 1>>
                /\ pc[c] = "none" /\ pc'[t] = "loop"
    BY <1>3, Moves
  <2>2. pc'[t] \notin {"none", "fork", "lost"}
    <3>1. CASE Fork(t) \/ ForkFail(t)
      BY <1>0, <3>1, ChildFree DEF Fork, ForkFail
    <3>2. CASE ~(Fork(t) \/ ForkFail(t))
      BY <1>0, <1>3, <3>2
         DEF Step, Iterate, LeaveLoop, Wait, Report, LockLoad, LockStoreOk,
             LockStoreFail, LoadCounter, StoreCounter, Unlock, Exit, Poll, Tail
    <3> QED
      BY <3>1, <3>2
  <2> SUFFICES ASSUME NEW u \in Thread, u[2] < N, pc'[u] \in {"none", "fork", "lost"}
               PROVE  pc'[<<u[1], u[2] + 1>>] = "none"
    BY DEF ChainInv
  <2> DEFINE v == <<u[1], u[2] + 1>>
  <2>3. u # t
    BY <2>2
  <2>4. pc[v] = "none"
    BY <2>1, <2>3 DEF ChainInv
  <2>5. v # t
    BY <2>1, <2>4
  <2>6. c # t => v # c
    <3> SUFFICES ASSUME c # t, v = c PROVE FALSE
      OBVIOUS
    <3>1. <<u[1], u[2] + 1>> = <<t[1], t[2] + 1>>
      BY <2>1
    <3>2. u[1] = t[1] /\ u[2] + 1 = t[2] + 1
      BY <3>1
    <3>3. u[2] = t[2]
      BY <3>2, ThreadPair, NAssumption
    <3> QED
      BY <2>3, <3>2, <3>3, ThreadPair
  <2>7. v \in Thread
    BY ThreadPair, PairThread, NAssumption
  <2> QED
    BY <2>1, <2>4, <2>5, <2>6, <2>7
<1>4. CASE UNCHANGED vars
  BY <1>4 DEF vars, ChainInv
<1> QED
  BY <1>1, <1>2, <1>3, <1>4 DEF Next, MainStep

LEMMA RegionStep ==
  ASSUME Inv, UseLock, [Next]_vars
  PROVE  RegionInv'
<1> USE DEF Inv, region, shared
<1>0. pc \in [Thread -> Location] /\ round \in Nat
  BY RoundsAssumption DEF TypeOK
<1>1. CASE Head
  <2>1. round' >= 1
    BY <1>0, <1>1 DEF Head
  <2>2. <<round + 1, 1>> \in Thread
    BY <1>1, FirstFree
  <2>3. main' = "region" => pc'[<<round', 1>>] \in {"fork", "loop"}
    BY <1>0, <1>1, <2>2 DEF Head, Entry
  <2> QED
    BY <2>1, <2>3 DEF RegionInv
<1>2. CASE SeqIterate \/ SeqLeave
  BY <1>2 DEF SeqIterate, SeqLeave, RegionInv
<1>3. ASSUME NEW t \in Thread, Tail(t) PROVE RegionInv'
  BY <1>3 DEF Tail, RegionInv
<1>4. ASSUME NEW t \in Thread, Step(t), ~Tail(t) PROVE RegionInv'
  <2>1. main' = main /\ barrier \in 0 .. N - 1
    BY <1>4
       DEF Step, Fork, ForkFail, Iterate, LeaveLoop, Wait, LockLoad, LockStoreOk,
           LockStoreFail, LoadCounter, StoreCounter, Unlock, Exit, Poll, TypeOK
  <2>2. round' = round /\ \A u \in Thread : pc[u] \in Reported => pc'[u] \in Reported
    BY <1>4, Reports
  <2> SUFFICES ASSUME main = "region"
               PROVE  /\ pc'[<<round, 1>>] # "dead"
                      /\ pc'[<<round, 1>>] = "tail" => Unreported' = {}
    BY <2>1, <2>2 DEF RegionInv
  <2> DEFINE first == <<round, 1>>
  <2>3. round \in 1 .. Rounds /\ 1 \in 1 .. N
    BY <1>0, NAssumption DEF RegionInv, TypeOK
  <2>4. first \in Thread /\ first[2] = 1
    BY <2>3, PairThread
  <2>5. pc[first] # "dead" /\ (pc[first] = "tail" => Unreported = {})
    BY DEF RegionInv
  <2>6. Unreported' \subseteq Unreported
    <3>1. \A i \in 2 .. N : <<round, i>> \in Thread
      BY <2>3, PairThread, NAssumption
    <3> QED
      BY <2>2, <3>1 DEF Unreported
  <2> HIDE DEF first
  <2>7. CASE t = first
    <3>1. ~Exit(t)
      BY <2>4, <2>7 DEF Exit, RoleInv
    <3>2. pc[t] # "tail"
      BY <1>4 DEF Step, Fork, ForkFail, Iterate, LeaveLoop, Wait, LockLoad, LockStoreOk,
             LockStoreFail, LoadCounter, StoreCounter, Unlock, Exit, Poll
    <3>3. CASE Fork(t) \/ ForkFail(t)
      BY <1>0, <2>7, <3>3, ChildFree DEF Fork, ForkFail, first
    <3>4. CASE Poll(t)
      <4>1. pc'[t] = "tail" => barrier = 0
        BY <1>0, <3>4 DEF Poll
      <4>2. barrier = Cardinality(Unreported)
        BY DEF CounterInv
      <4>3. pc'[t] # "dead"
        BY <1>0, <3>4 DEF Poll
      <4> QED
        BY <2>6, <2>7, <4>1, <4>2, <4>3, UnreportedFinite DEF first
    <3>5. CASE ~(Fork(t) \/ ForkFail(t) \/ Poll(t))
      <4>1. pc'[t] \notin {"dead", "tail"}
        BY <1>0, <1>4, <3>1, <3>2, <3>5
           DEF Step, Iterate, LeaveLoop, Wait, Report, LockLoad, LockStoreOk,
               LockStoreFail, LoadCounter, StoreCounter, Unlock
      <4> QED
        BY <2>7, <4>1 DEF first
    <3> QED
      BY <3>3, <3>4, <3>5
  <2>8. CASE t # first
    <3>1. PICK c \in Thread :
             /\ \A u \in Thread \ {t, c} : pc'[u] = pc[u]
             /\ c # t => c = <<t[1], t[2] + 1>> /\ t[2] + 1 \in 2 .. N
      BY <1>4, Moves
    <3>2. c # first
      <4>1. c # t => c[2] \in 2 .. N
        BY <3>1
      <4> QED
        BY <2>4, <2>8, <4>1, NAssumption
    <3>3. pc'[first] = pc[first]
      BY <2>4, <2>8, <3>1, <3>2
    <3> QED
      BY <2>5, <2>6, <3>3 DEF first
  <2> QED
    BY <2>7, <2>8
<1>5. CASE UNCHANGED vars
  BY <1>5 DEF vars, RegionInv, Unreported
<1> QED
  BY <1>1, <1>2, <1>3, <1>4, <1>5 DEF Next, MainStep

-------------------------------------------------------------------------------
(* The slices, when nothing overflows: they start at lo, follow each other *)
(* in order and end at the end of the range.                               *)
Fits == TypeOK /\ Regular /\ Length = hi - lo /\ Length > 0

Cut ==
  /\ StepLen \in Nat /\ Limit \in Word /\ hi <= Limit /\ First(1) = lo
  /\ \A i \in 1 .. N : /\ First(i) \in Word /\ Stop(i) \in Word
                       /\ lo <= First(i) /\ First(i) <= Stop(i) /\ Stop(i) <= Limit
  /\ \A i, k \in 1 .. N : i < k => Stop(i) <= First(k)

LEMMA WrapWord ==
  ASSUME NEW x \in Word
  PROVE  Wrap(x) = x
<1>1. MaxWord \in Nat /\ x \in Int /\ x + MaxWord + 1 \in 0 .. Modulus - 1 /\ Modulus > 0
  BY WordAssumption DEF Word, Modulus
<1>2. Modulus \in Nat
  BY <1>1 DEF Modulus
<1>3. (x + MaxWord + 1) % Modulus = x + MaxWord + 1
  BY <1>1, <1>2
<1> QED
  BY <1>1, <1>3 DEF Wrap

LEMMA Quotient ==
  ASSUME NEW n \in Nat, NEW d \in Nat, d > 0
  PROVE  /\ n \div d \in Nat
         /\ d * (n \div d) <= n
         /\ n < d * (n \div d) + d
<1>1. n \div d \in Nat
  OBVIOUS
<1>2. n = d * (n \div d) + (n % d)
  OBVIOUS
<1>3. n % d \in 0 .. d - 1
  OBVIOUS
<1> QED
  BY <1>1, <1>2, <1>3

LEMMA Multiples ==
  ASSUME NEW a \in Nat, NEW b \in Nat, NEW z \in Nat, a <= b
  PROVE  a * z \in Nat /\ a * z <= b * z
OBVIOUS

(* A length beyond the word wraps below 0: the loop runs in place.         *)
LEMMA WrapLong ==
  ASSUME NEW x \in Nat, MaxWord < x, x < Modulus
  PROVE  Wrap(x) < 0
<1> PICK y : y = x + MaxWord + 1
  OBVIOUS
<1> PICK q : q = y \div Modulus
  OBVIOUS
<1>1. /\ MaxWord \in Nat /\ Modulus \in Nat /\ Modulus > 0 /\ y \in Nat
      /\ Modulus = 2 * MaxWord + 2 /\ Modulus <= y /\ y < 2 * Modulus
  BY WordAssumption DEF Modulus
<1>2. q \in Nat /\ Modulus * q <= y /\ y < Modulus * q + Modulus
  BY <1>1, Quotient
<1>3. q # 0
  BY <1>1, <1>2
<1>4. ~(2 <= q)
  <2>1. 2 <= q => 2 * Modulus <= q * Modulus
    BY <1>1, <1>2, Multiples
  <2>2. q * Modulus = Modulus * q
    BY <1>1, <1>2
  <2> QED
    BY <1>1, <1>2, <2>1, <2>2
<1>5. q = 1
  BY <1>2, <1>3, <1>4
<1>6. y = Modulus * q + (y % Modulus)
  BY <1>1
<1>7. y % Modulus = y - Modulus
  BY <1>1, <1>5, <1>6
<1> QED
  BY <1>1, <1>7 DEF Wrap

(* The length of a range that is not empty, once it is worth a region.     *)
LEMMA WrapLength ==
  ASSUME NEW l \in Word, NEW h \in Word, ~(h < l), 0 < Wrap(h - l)
  PROVE  Wrap(h - l) = h - l
<1>1. /\ l \in Int /\ h \in Int /\ MaxWord \in Nat
      /\ -MaxWord - 1 <= l /\ h <= MaxWord /\ l <= h
  BY WordAssumption DEF Word
<1>2. h - l \in Nat /\ h - l < Modulus
  BY <1>1 DEF Modulus
<1>3. Wrap(h - l) \in Int
  BY <1>1, <1>2, WrapType DEF Word
<1>4. ~(MaxWord < h - l)
  BY <1>2, <1>3, WrapLong
<1>5. h - l \in Word
  BY <1>1, <1>2, <1>4 DEF Word
<1> QED
  BY <1>5, WrapWord

(* Being regular is a matter of the header and the bounds alone.           *)
LEMMA RegularKept ==
  ASSUME UNCHANGED <<header, lo, hi>>
  PROVE  Regular' <=> Regular
BY DEF Regular, WrapsIntoRegion, Length, Wrap

LEMMA CutRight == Fits => Cut
<1> SUFFICES ASSUME Fits PROVE Cut
  OBVIOUS
<1> PICK s : s = StepLen
  OBVIOUS
<1>1. /\ lo \in Int /\ hi \in Int /\ lo \in Word /\ hi \in Word /\ lo < hi
      /\ MaxWord \in Nat /\ N \in Nat /\ N >= 1
  BY WordAssumption, NAssumption DEF Fits, TypeOK, Word
<1>2. s \in Nat /\ N * s <= hi - lo
  <2>1. Length \in Nat /\ Length = hi - lo
    BY <1>1 DEF Fits
  <2> QED
    BY <1>1, <2>1, Quotient DEF StepLen
<1>3. Limit \in Word /\ hi <= Limit /\ Limit \in Int
  BY <1>1, WordAssumption DEF Limit, Fits, Regular, TypeOK, Word
<1>4. \A i \in 1 .. N : First(i) = lo + (i - 1) * s /\ First(i + 1) = lo + i * s
  BY <1>1 DEF First
<1>5. ASSUME NEW i \in 1 .. N
      PROVE  /\ (i - 1) * s \in Nat /\ i * s \in Nat
             /\ (i - 1) * s <= i * s /\ i * s <= hi - lo
  <2>1. i - 1 \in Nat /\ i \in Nat
    OBVIOUS
  <2>2. (i - 1) * s \in Nat /\ (i - 1) * s <= i * s
    BY <1>2, <2>1, Multiples
  <2>3. i * s \in Nat /\ i * s <= N * s
    BY <1>1, <1>2, <2>1, Multiples
  <2>4. N * s \in Nat
    BY <1>1, <1>2
  <2> QED
    BY <1>1, <1>2, <2>2, <2>3, <2>4
<1>6. ASSUME NEW i \in 1 .. N
      PROVE  /\ First(i) \in Int /\ lo <= First(i) /\ First(i) <= hi
             /\ Stop(i) \in Int /\ First(i) <= Stop(i) /\ Stop(i) <= Limit
  <2>1. /\ First(i) \in Int /\ First(i + 1) \in Int
        /\ lo <= First(i) /\ First(i) <= First(i + 1) /\ First(i + 1) <= hi
    BY <1>1, <1>4, <1>5
  <2> QED
    BY <1>1, <1>3, <2>1 DEF Stop
<1>7. ASSUME NEW i \in 1 .. N, NEW k \in 1 .. N, i < k PROVE Stop(i) <= First(k)
  <2>1. i # N /\ i \in Nat /\ k - 1 \in Nat /\ i <= k - 1
    BY <1>1, <1>7
  <2>2. i * s <= (k - 1) * s
    BY <1>2, <2>1, Multiples
  <2> QED
    BY <1>1, <1>4, <1>5, <2>1, <2>2 DEF Stop
<1>8. First(1) = lo
  BY <1>1, <1>2, <1>4
<1>9. \A i \in 1 .. N : First(i) \in Word /\ Stop(i) \in Word
  BY <1>1, <1>3, <1>6 DEF Word
<1> QED
  BY <1>2, <1>3, <1>6, <1>7, <1>8, <1>9 DEF Cut

(* Every iteration of the range is in a slice.                             *)
LEMMA Covered ==
  ASSUME Fits, NEW j \in Word, lo <= j, j < Limit
  PROVE  \E i \in 1 .. N : First(i) <= j /\ j < Stop(i)
<1> PICK s : s = StepLen
  OBVIOUS
<1>1. /\ lo \in Int /\ j \in Int /\ N \in Nat /\ N >= 1 /\ s \in Nat
      /\ \A i \in 1 .. N : First(i) \in Int /\ Stop(i) \in Int
  BY WordAssumption, NAssumption, CutRight DEF Fits, TypeOK, Word, Cut
<1>2. \A i \in 1 .. N : First(i) = lo + (i - 1) * s /\ First(i + 1) = lo + i * s
  BY <1>1 DEF First
<1>3. CASE First(N) <= j
  BY <1>1, <1>3 DEF Stop
<1>4. CASE j < First(N)
  <2>1. s > 0
    BY <1>1, <1>2, <1>4
  <2> PICK q : q = (j - lo) \div s
    OBVIOUS
  <2>2. q \in Nat /\ s * q <= j - lo /\ j - lo < s * q + s
    <3>1. j - lo \in Nat
      BY <1>1
    <3> QED
      BY <1>1, <2>1, <3>1, Quotient
  <2>3. q + 1 < N
    <3> SUFFICES ASSUME N - 1 <= q PROVE FALSE
      BY <1>1, <2>2
    <3>1. (N - 1) * s <= q * s
      BY <1>1, <2>2, Multiples
    <3>2. First(N) = lo + (N - 1) * s /\ q * s = s * q
      BY <1>1, <1>2, <2>2
    <3>3. (N - 1) * s \in Int /\ s * q \in Int
      BY <1>1, <2>2
    <3> QED
      BY <1>1, <1>4, <2>2, <3>1, <3>2, <3>3
  <2>4. q + 1 \in 1 .. N /\ q + 1 # N
    BY <1>1, <2>2, <2>3
  <2>5. First(q + 1) = lo + q * s /\ Stop(q + 1) = lo + (q + 1) * s
    BY <1>2, <2>2, <2>4 DEF Stop
  <2>6. q * s = s * q /\ (q + 1) * s = s * q + s /\ s * q \in Int
    BY <1>1, <2>2
  <2>7. First(q + 1) <= j /\ j < Stop(q + 1)
    BY <1>1, <2>2, <2>5, <2>6
  <2> QED
    BY <2>4, <2>7
<1> QED
  BY <1>1, <1>3, <1>4

(* Wrapped or not, the slices begin and end where they should.             *)
LEMMA SliceEnds ==
  ASSUME Fits
  PROVE  /\ \A i \in 1 .. N : SliceStart(i) = First(i)
         /\ \A i \in 1 .. N : i # N => SliceEnd(i) = Stop(i)
<1>1. \A i \in 1 .. N : First(i) \in Word
  BY CutRight DEF Cut
<1>2. ASSUME NEW i \in 1 .. N PROVE SliceStart(i) = First(i)
  BY <1>1, WrapWord DEF SliceStart, First
<1>3. ASSUME NEW i \in 1 .. N, i # N PROVE SliceEnd(i) = Stop(i)
  <2>1. i + 1 \in 1 .. N /\ StepLen \in Nat /\ lo \in Int
    BY <1>3, NAssumption, CutRight, WordAssumption DEF Cut, Fits, TypeOK, Word
  <2>2. First(i + 1) = First(i) + StepLen
    BY <2>1 DEF First
  <2>3. Wrap(First(i) + StepLen) = First(i + 1)
    BY <1>1, <2>1, <2>2, WrapWord
  <2> QED
    BY <1>2, <1>3, <2>3 DEF SliceEnd, Stop
<1> QED
  BY <1>2, <1>3

-------------------------------------------------------------------------------
\* What the slices have come to determines what has been executed.
Executed ==
  \A j \in Word :
    ran[j] = IF \E i \in 1 .. N : First(i) <= j /\ j < Progress(i) THEN 1 ELSE 0

LEMMA InRegion ==
  ASSUME Inv, Regular, main = "region"
  PROVE  /\ Fits /\ Cut /\ Executed
         /\ \A i \in 1 .. N : /\ Progress(i) \in First(i) .. Stop(i)
                              /\ <<round, i>> \in Thread
                              /\ First(i) \in Int /\ Stop(i) \in Int
<1>1. Fits /\ Executed /\ \A i \in 1 .. N : Progress(i) \in First(i) .. Stop(i)
  BY DEF Inv, SliceInv, Fits, Executed
<1>2. Cut
  BY <1>1, CutRight
<1>3. round \in 1 .. Rounds
  BY RoundsAssumption DEF Inv, TypeOK, RegionInv
<1>4. \A i \in 1 .. N : First(i) \in Int /\ Stop(i) \in Int
  BY <1>2, WordAssumption DEF Cut, Word
<1> QED
  BY <1>1, <1>2, <1>3, <1>4, PairThread

(* A thread runs its slice: where it is, nothing has been executed.        *)
LEMMA Running ==
  ASSUME Inv, Regular, NEW t \in Thread, pc[t] = "loop"
  PROVE  /\ main = "region" /\ t[2] \in 1 .. N /\ t = <<round, t[2]>>
         /\ Progress(t[2]) = idx[t] /\ idx[t] \in Word
         /\ InSlice(t) <=> idx[t] < Stop(t[2])
         /\ InSlice(t) => /\ ran[idx[t]] = 0
                          /\ idx[t] \in SourceRange(lo, hi)
                          /\ Wrap(idx[t] + 1) = idx[t] + 1
<1> PICK i, x : i = t[2] /\ x = idx[t]
  OBVIOUS
<1>1. main = "region" /\ i \in 1 .. N /\ t = <<round, i>>
  BY Active, ThreadPair DEF Reported
<1>2. x \in Word /\ x \in Int /\ hi \in Int /\ lo \in Int /\ hi \in Word
  BY WordAssumption DEF Inv, TypeOK, Word
<1>3. Progress(i) = x
  BY <1>1 DEF Progress
<1>4. /\ Fits /\ Cut /\ Executed
      /\ x \in First(i) .. Stop(i) /\ First(i) \in Int /\ Stop(i) \in Int
  BY <1>1, <1>3, InRegion
<1>5. InSlice(t) <=> x < Stop(i)
  <2>1. CASE i = N
    BY <1>2, <2>1 DEF InSlice, OriginalTest, Stop, Limit
  <2>2. CASE i # N
    <3>1. SliceEnd(i) = Stop(i)
      BY <1>1, <1>4, <2>2, SliceEnds
    <3>2. header.exit = FALSE
      BY DEF Inv, TypeOK, Regular
    <3>3. InSlice(t) = ((x < Stop(i)) # FALSE)
      BY <2>2, <3>1, <3>2, Zenon DEF InSlice
    <3>4. ((x < Stop(i)) # FALSE) <=> x < Stop(i)
      <4>1. CASE x < Stop(i)
        BY <4>1
      <4>2. CASE ~(x < Stop(i))
        <5>1. (x < Stop(i)) = FALSE
          BY <4>2, <1>2, <1>4
        <5> QED
          BY <4>2, <5>1
      <4> QED
        BY <4>1, <4>2
    <3> QED
      BY <3>3, <3>4, Zenon
  <2> QED
    BY <2>1, <2>2
<1>6. ASSUME x < Stop(i)
      PROVE  ran[x] = 0 /\ x \in SourceRange(lo, hi) /\ Wrap(x + 1) = x + 1
  <2>1. ASSUME NEW k \in 1 .. N, First(k) <= x, x < Progress(k) PROVE FALSE
    <3>1. /\ First(k) \in Int /\ Stop(k) \in Int /\ Progress(k) \in First(k) .. Stop(k)
      BY <1>1, InRegion
    <3>2. x < Stop(k)
      BY <1>2, <2>1, <3>1
    <3>3. i < k => Stop(i) <= First(k)
      BY <1>1, <1>4 DEF Cut
    <3>4. k < i => Stop(k) <= First(i)
      BY <1>1, <1>4 DEF Cut
    <3>5. k = i
      BY <1>1, <1>2, <1>4, <1>6, <2>1, <3>1, <3>2, <3>3, <3>4, NAssumption
    <3> QED
      BY <1>2, <1>3, <2>1, <3>5
  <2>2. ran[x] = 0
    BY <1>2, <1>4, <2>1 DEF Executed
  <2>3. lo <= First(i) /\ Stop(i) <= Limit /\ Limit \in Int /\ Limit \in Word
    BY <1>1, <1>4, WordAssumption DEF Cut, Word
  <2>4. lo <= x /\ x < Limit
    BY <1>2, <1>4, <1>6, <2>3
  <2>5. x \in SourceRange(lo, hi)
    BY <1>2, <2>4 DEF SourceRange, Limit
  <2>6. x + 1 \in Word
    BY <1>2, <2>3, <2>4, WordAssumption DEF Word
  <2> QED
    BY <2>2, <2>5, <2>6, WrapWord
<1> QED
  BY <1>1, <1>2, <1>3, <1>5, <1>6

(* When every slice is done, so is the range.                              *)
LEMMA AllDone ==
  ASSUME Inv, Regular, main = "region", \A i \in 1 .. N : Progress(i) = Stop(i)
  PROVE  \A j \in Word : ran[j] = IF j \in SourceRange(lo, hi) THEN 1 ELSE 0
<1>1. Fits /\ Cut /\ Executed
  BY InRegion
<1>2. lo \in Int /\ hi \in Int /\ Limit \in Int
  BY <1>1, WordAssumption DEF Inv, TypeOK, Word, Cut
<1> SUFFICES ASSUME NEW j \in Word
             PROVE  (\E i \in 1 .. N : First(i) <= j /\ j < Stop(i)) <=> j \in SourceRange(lo, hi)
  BY <1>1 DEF Executed
<1>3. j \in Int
  BY WordAssumption DEF Word
<1>4. j \in SourceRange(lo, hi) <=> lo <= j /\ j < Limit
  BY <1>2, <1>3 DEF SourceRange, Limit
<1>5. ASSUME NEW i \in 1 .. N, First(i) <= j, j < Stop(i) PROVE lo <= j /\ j < Limit
  <2>1. /\ First(i) \in Int /\ Stop(i) \in Int /\ lo <= First(i) /\ Stop(i) <= Limit
    BY <1>1, InRegion DEF Cut
  <2> QED
    BY <1>2, <1>3, <1>5, <2>1
<1> QED
  BY <1>1, <1>4, <1>5, Covered

(* Thread 1 leaves when all slices are done.                               *)
LEMMA TailDone ==
  ASSUME Inv, NEW t \in Thread, Tail(t)
  PROVE  /\ main = "region" /\ t = <<round, 1>>
         /\ \A i \in 1 .. N : Progress(i) = Stop(i)
<1>1. pc[t] = "tail" /\ t[2] = 1 /\ main = "region" /\ t = <<round, 1>>
  BY Active DEF Tail, Inv, RoleInv, Reported
<1>2. Unreported = {}
  BY <1>1 DEF Inv, RegionInv
<1>3. ASSUME NEW i \in 1 .. N PROVE Progress(i) = Stop(i)
  <2>1. CASE i = 1
    BY <1>1, <2>1 DEF Progress
  <2>2. CASE i # 1
    <3>1. i \in 2 .. N
      BY <2>2, NAssumption
    <3>2. pc[<<round, i>>] \in Reported
      BY <1>2, <3>1 DEF Unreported
    <3> QED
      BY <3>2 DEF Progress, Reported
  <2> QED
    BY <2>1, <2>2
<1> QED
  BY <1>1, <1>3

(* The sequential copy.                                                    *)
LEMMA Sequential ==
  ASSUME Inv, Regular, main = "seq"
  PROVE  LET t == <<round, 1>> IN
         /\ t \in Thread /\ idx[t] \in Word
         /\ OriginalTest(idx[t]) <=> idx[t] < Limit
         /\ lo <= idx[t]
         /\ \A j \in Word : ran[j] = IF lo <= j /\ j < idx[t] THEN 1 ELSE 0
         /\ OriginalTest(idx[t]) =>
              /\ ran[idx[t]] = 0 /\ idx[t] \in SourceRange(lo, hi)
              /\ Wrap(idx[t] + 1) = idx[t] + 1
         /\ ~OriginalTest(idx[t]) =>
              \A j \in Word : ran[j] = IF j \in SourceRange(lo, hi) THEN 1 ELSE 0
<1> DEFINE t == <<round, 1>>
<1> PICK x : x = idx[t]
  OBVIOUS
<1>1. /\ round >= 1 /\ (x = lo \/ x \in lo .. Limit)
      /\ \A j \in Word : ran[j] = IF lo <= j /\ j < x THEN 1 ELSE 0
  BY DEF Inv, SliceInv, RegionInv
<1>2. t \in Thread
  BY <1>1, PairThread, NAssumption, RoundsAssumption DEF Inv, TypeOK
<1>3. /\ x \in Word /\ x \in Int /\ lo \in Int /\ hi \in Int /\ lo \in Word /\ hi \in Word
      /\ \A j \in Word : j \in Int
  BY <1>2, WordAssumption DEF Inv, TypeOK, Word
<1>4. Limit \in Int /\ Limit \in Word
  BY <1>3, WordAssumption DEF Limit, Regular, Word, Inv, TypeOK
<1>5. /\ OriginalTest(x) <=> x < Limit
      /\ \A j \in Word : j \in SourceRange(lo, hi) <=> lo <= j /\ j < Limit
  BY <1>3 DEF OriginalTest, Limit, SourceRange
<1>6. lo <= x
  BY <1>1, <1>3, <1>4
<1>7. ran[x] = 0
  BY <1>1, <1>3
<1>8. ASSUME OriginalTest(x) PROVE x \in SourceRange(lo, hi) /\ Wrap(x + 1) = x + 1
  <2>1. x + 1 \in Word
    BY <1>3, <1>4, <1>5, <1>8, WordAssumption DEF Word
  <2> QED
    BY <1>3, <1>5, <1>6, <1>8, <2>1, WrapWord
<1>9. ASSUME ~OriginalTest(x), NEW j \in Word
      PROVE  ran[j] = IF j \in SourceRange(lo, hi) THEN 1 ELSE 0
  <2>1. x = lo \/ x = Limit
    BY <1>1, <1>3, <1>4, <1>5, <1>9
  <2>2. lo <= j /\ j < x <=> lo <= j /\ j < Limit
    BY <1>3, <1>4, <1>5, <1>9, <2>1
  <2> QED
    BY <1>1, <1>5, <2>2
<1> QED
  BY <1>1, <1>2, <1>3, <1>5, <1>6, <1>7, <1>8, <1>9

-------------------------------------------------------------------------------
(* A step that moves no slice forward and executes nothing.                *)
LEMMA SliceKept ==
  ASSUME Inv, Regular, main = "region", UNCHANGED region, ran' = ran,
         \A i \in 1 .. N : Progress(i)' = Progress(i)
  PROVE  SliceInv'
<1>1. /\ Length' = Length /\ Regular'
      /\ \A i \in 1 .. N : First(i)' = First(i) /\ Stop(i)' = Stop(i)
  BY RegularKept DEF region, Length, First, Stop, StepLen, Limit, Wrap
<1> QED
  BY <1>1 DEF Inv, SliceInv, region

LEMMA SliceHead ==
  ASSUME Inv, UseLock, Head, TypeOK', Regular'
  PROVE  SliceInv'
<1>1. PICK b \in Bounds : /\ lo' = b[1] /\ hi' = b[2]
                          /\ idx' = [idx EXCEPT ![<<round + 1, 1>>] = b[1]]
                          /\ \/ Length' < MinPar /\ main' = "seq"
                             \/ /\ Length' >= MinPar /\ main' = "region"
                                /\ pc' = [pc EXCEPT ![<<round + 1, 1>>] = Entry(1)]
  BY DEF Head
<1>2. round' = round + 1 /\ round \in Nat /\ round' >= 1 /\ ran' = [j \in Word |-> 0] /\ header' = header
  BY RoundsAssumption DEF Head, Inv, TypeOK
<1>3. <<round + 1, 1>> \in Thread
  BY FirstFree
<1>4. idx'[<<round', 1>>] = lo' /\ lo' \in Word /\ lo' \in Int
  BY <1>1, <1>2, <1>3, WordAssumption DEF Inv, TypeOK, Word
<1>5. CASE main' = "seq"
  <2>1. \A j \in Word : j \in Int
    BY WordAssumption DEF Word
  <2>2. \A j \in Word : ran'[j] = IF lo' <= j /\ j < lo' THEN 1 ELSE 0
    BY <1>2, <1>4, <2>1
  <2> QED
    BY <1>2, <1>4, <1>5, <2>2 DEF SliceInv
<1>6. CASE main' = "region"
  <2>1. Length' = hi' - lo' /\ Length' > 0
    <3>1. Length' >= MinPar /\ MinPar > 0 /\ MinPar \in Int
      BY <1>1, <1>6, WordAssumption
    <3>2. lo' \in Word /\ hi' \in Word /\ ~(hi' < lo')
      BY <3>1 DEF TypeOK, Regular, WrapsIntoRegion
    <3>3. Length' = Wrap(hi' - lo')
      BY DEF Length, Wrap
    <3>4. Wrap(hi' - lo') \in Int
      BY <3>2, WrapType, WordAssumption DEF Word
    <3>5. Wrap(hi' - lo') = hi' - lo'
      BY <3>1, <3>2, <3>3, <3>4, WrapLength
    <3> QED
      BY <3>1, <3>3, <3>4, <3>5
  <2>2. Fits'
    BY <2>1 DEF Fits
  <2>3. Cut'
    BY <2>2, CutRight, PTL
  <2>4. ASSUME NEW i \in 1 .. N PROVE Progress(i)' = First(i)'
    <3>1. CASE i = 1
      <4>1. pc'[<<round', 1>>] = Entry(1) /\ idx'[<<round', 1>>] = First(1)'
        BY <1>1, <1>2, <1>3, <1>4, <1>6, <2>3 DEF Inv, TypeOK, Cut
      <4> QED
        BY <3>1, <4>1 DEF Progress, Entry
    <3>2. CASE i # 1
      <4>1. /\ <<round + 1, i>> \in Thread /\ <<round + 1, i>>[1] > round
            /\ <<round + 1, i>> # <<round + 1, 1>>
        BY <1>2, <1>3, <3>2, PairThread, ThreadPair
      <4>2. pc[<<round + 1, i>>] = "none"
        BY <4>1 DEF Inv, RoundInv
      <4>3. pc'[<<round', i>>] = "none"
        BY <1>1, <1>2, <1>6, <4>1, <4>2 DEF Inv, TypeOK
      <4> QED
        BY <4>3 DEF Progress
    <3> QED
      BY <3>1, <3>2
  <2>5. ASSUME NEW i \in 1 .. N
        PROVE  First(i)' \in Int /\ Stop(i)' \in Int /\ First(i)' <= Stop(i)'
    BY <2>3, WordAssumption DEF Cut, Word
  <2>6. \A i \in 1 .. N : Progress(i)' \in First(i)' .. Stop(i)'
    BY <2>4, <2>5
  <2>7. ASSUME NEW j \in Word PROVE ~ \E i \in 1 .. N : First(i)' <= j /\ j < Progress(i)'
    <3>1. j \in Int
      BY WordAssumption DEF Word
    <3> QED
      BY <2>4, <2>5, <3>1
  <2> QED
    BY <1>2, <1>6, <2>1, <2>6, <2>7 DEF SliceInv
<1> QED
  BY <1>1, <1>5, <1>6

(* One iteration of a slice.                                               *)
LEMMA SliceIterate ==
  ASSUME Inv, Regular, NEW t \in Thread, Iterate(t)
  PROVE  SliceInv'
<1> PICK k, x : k = t[2] /\ x = idx[t]
  OBVIOUS
<1>1. /\ pc[t] = "loop" /\ InSlice(t) /\ pc' = pc /\ UNCHANGED region
      /\ ran' = [ran EXCEPT ![x] = @ + 1]
      /\ idx' = [idx EXCEPT ![t] = Wrap(x + 1)]
  BY DEF Iterate
<1>2. /\ main = "region" /\ k \in 1 .. N /\ t = <<round, k>>
      /\ Progress(k) = x /\ x \in Word /\ x < Stop(k)
      /\ ran[x] = 0 /\ Wrap(x + 1) = x + 1
  BY <1>1, Running
<1>3. /\ Fits /\ Cut /\ Executed
      /\ \A i \in 1 .. N : /\ Progress(i) \in First(i) .. Stop(i)
                           /\ First(i) \in Int /\ Stop(i) \in Int
  BY <1>2, InRegion
<1>4. /\ Length' = Length /\ Regular' /\ main' = main /\ lo' = lo /\ hi' = hi
      /\ \A i \in 1 .. N : First(i)' = First(i) /\ Stop(i)' = Stop(i)
  BY <1>1, RegularKept DEF region, Length, First, Stop, StepLen, Limit, Wrap
<1>5. Progress(k)' = x + 1
  BY <1>1, <1>2 DEF Progress, region, Inv, TypeOK
<1>6. ASSUME NEW i \in 1 .. N, i # k PROVE Progress(i)' = Progress(i)
  <2>1. <<round, i>> # t
    BY <1>2, <1>6
  <2>2. idx'[<<round, i>>] = idx[<<round, i>>]
    BY <1>1, <1>2, <2>1, InRegion DEF Inv, TypeOK
  <2>3. round' = round
    BY <1>1 DEF region
  <2> QED
    BY <1>1, <1>4, <2>2, <2>3 DEF Progress
<1>7. x \in Int /\ \A j \in Word : j \in Int
  BY <1>2, WordAssumption DEF Word
<1>8. ASSUME NEW i \in 1 .. N PROVE Progress(i)' \in First(i) .. Stop(i)
  <2>1. First(i) \in Int /\ Stop(i) \in Int /\ Progress(i) \in First(i) .. Stop(i)
    BY <1>3
  <2>2. CASE i = k
    <3>1. x \in First(i) .. Stop(i) /\ x < Stop(i)
      BY <1>2, <2>1, <2>2
    <3>2. x + 1 \in First(i) .. Stop(i)
      BY <1>7, <2>1, <3>1
    <3> QED
      BY <1>5, <2>2, <3>2
  <2>3. CASE i # k
    BY <1>6, <2>1, <2>3
  <2> QED
    BY <2>2, <2>3
<1>9. ASSUME NEW j \in Word
      PROVE  ran'[j] = IF \E i \in 1 .. N : First(i) <= j /\ j < Progress(i)' THEN 1 ELSE 0
  <2>1. ran \in [Word -> Nat]
    BY DEF Inv, TypeOK
  <2>2. CASE j = x
    <3>1. ran'[j] = 1
      <4>1. ran'[x] = ran[x] + 1
        BY <1>1, <2>1, <2>2
      <4>2. ran[x] = 0
        BY <1>2
      <4> QED
        BY <2>2, <4>1, <4>2
    <3>2. First(k) <= j /\ j < Progress(k)'
      <4>1. x \in First(k) .. Stop(k) /\ First(k) \in Int /\ Stop(k) \in Int
        BY <1>2, <1>3
      <4>2. First(k) <= x /\ x < x + 1
        BY <1>7, <4>1
      <4> QED
        BY <1>5, <2>2, <4>2
    <3> QED
      BY <1>2, <3>1, <3>2
  <2>3. CASE j # x
    <3>1. ran'[j] = ran[j]
      BY <1>1, <2>1, <2>3
    <3>2. ASSUME NEW i \in 1 .. N PROVE j < Progress(i)' <=> j < Progress(i)
      <4>1. CASE i = k
        <5>1. Progress(i)' = x + 1 /\ Progress(i) = x
          BY <1>2, <1>5, <4>1
        <5>2. j < x + 1 <=> j < x
          BY <1>7, <2>3
        <5> QED
          BY <5>1, <5>2
      <4>2. CASE i # k
        BY <1>6, <4>2
      <4> QED
        BY <4>1, <4>2
    <3> QED
      BY <1>3, <3>1, <3>2 DEF Executed
  <2> QED
    BY <2>2, <2>3
<1> QED
  BY <1>2, <1>3, <1>4, <1>8, <1>9 DEF SliceInv, Fits

LEMMA SliceStep ==
  ASSUME Inv, UseLock, [Next]_vars
  PROVE  SliceInv'
<1> SUFFICES ASSUME Regular' PROVE SliceInv'
  BY DEF SliceInv
<1>0. TypeOK' /\ pc \in [Thread -> Location] /\ idx \in [Thread -> Word] /\ ran \in [Word -> Nat]
  BY TypeStep DEF Inv, TypeOK
<1>1. CASE Head
  BY <1>0, <1>1, SliceHead
<1>2. CASE SeqIterate
  <2> DEFINE t == <<round, 1>>
  <2> PICK x : x = idx[t]
    OBVIOUS
  <2>1. /\ main = "seq" /\ OriginalTest(x) /\ UNCHANGED region /\ Regular
        /\ ran' = [ran EXCEPT ![x] = @ + 1]
        /\ idx' = [idx EXCEPT ![t] = Wrap(x + 1)]
    BY <1>2, RegularKept DEF SeqIterate, region
  <2>2. /\ t \in Thread /\ x \in Word /\ x < Limit /\ lo <= x /\ ran[x] = 0 /\ Wrap(x + 1) = x + 1
        /\ \A j \in Word : ran[j] = IF lo <= j /\ j < x THEN 1 ELSE 0
    BY <2>1, Sequential
  <2>3. x \in Int /\ lo \in Int /\ Limit \in Int /\ \A j \in Word : j \in Int
    BY <2>2, WordAssumption DEF Inv, TypeOK, Word, Limit
  <2>4. idx'[t] = x + 1 /\ x + 1 \in lo .. Limit
    BY <1>0, <2>1, <2>2, <2>3
  <2>5. \A j \in Word : ran'[j] = IF lo <= j /\ j < x + 1 THEN 1 ELSE 0
    BY <1>0, <2>1, <2>2, <2>3
  <2>6. Limit' = Limit /\ main' = "seq" /\ round' = round /\ lo' = lo
    BY <2>1 DEF Limit, region
  <2> QED
    BY <2>4, <2>5, <2>6 DEF SliceInv
<1>3. CASE SeqLeave
  <2>1. /\ main = "seq" /\ ~OriginalTest(idx[<<round, 1>>]) /\ main' = "head"
        /\ header' = header /\ lo' = lo /\ hi' = hi /\ ran' = ran /\ round' = round
    BY <1>3 DEF SeqLeave
  <2>2. Regular
    BY <2>1, RegularKept
  <2>3. \A j \in Word : ran[j] = IF j \in SourceRange(lo, hi) THEN 1 ELSE 0
    BY <2>1, <2>2, Sequential
  <2> QED
    BY <2>1, <2>3 DEF SliceInv, RegionComplete, SourceRange
<1>4. ASSUME NEW t \in Thread, Tail(t) PROVE SliceInv'
  <2>1. /\ main' = "head" /\ header' = header /\ lo' = lo /\ hi' = hi /\ ran' = ran /\ round' = round
    BY <1>4 DEF Tail
  <2>2. Regular
    BY <2>1, RegularKept
  <2>3. \A j \in Word : ran[j] = IF j \in SourceRange(lo, hi) THEN 1 ELSE 0
    BY <1>4, <2>2, AllDone, TailDone
  <2> QED
    BY <2>1, <2>3 DEF SliceInv, RegionComplete, SourceRange
<1>5. ASSUME NEW t \in Thread, Iterate(t) PROVE SliceInv'
  <2>1. Regular
    BY <1>5, RegularKept DEF Iterate, region
  <2> QED
    BY <1>5, <2>1, SliceIterate
<1>6. ASSUME NEW t \in Thread, Fork(t) \/ ForkFail(t) PROVE SliceInv'
  <2> PICK i, c : i = t[2] /\ c = <<t[1], t[2] + 1>>
    OBVIOUS
  <2>1. /\ pc[t] = "fork" /\ UNCHANGED region /\ ran' = ran /\ Regular
    BY <1>6, RegularKept DEF Fork, ForkFail, region
  <2>2. main = "region" /\ t = <<round, i>> /\ c = <<round, i + 1>>
    BY <2>1, Active DEF Reported
  <2>3. i + 1 \in 2 .. N /\ i \in 1 .. N /\ c \in Thread /\ pc[c] = "none" /\ c # t
    BY <2>1, ChildFree, ThreadPair
  <2>4. Fits /\ SliceStart(i) = First(i) /\ SliceStart(i + 1) = First(i + 1)
    <3>1. Fits
      BY <2>1, <2>2, InRegion
    <3>2. i + 1 \in 1 .. N
      BY <2>3
    <3> QED
      BY <2>3, <3>1, <3>2, SliceEnds
  <2>5. /\ pc'[t] = "loop" /\ idx'[t] = First(i)
        /\ pc'[c] \in {"fork", "lost"} \/ (pc'[c] = "loop" /\ idx'[c] = First(i + 1))
        /\ \A u \in Thread \ {t, c} : pc'[u] = pc[u] /\ idx'[u] = idx[u]
    <3>1. c[2] = i + 1
      BY <2>2
    <3>2. CASE Fork(t)
      <4>1. /\ pc' = [pc EXCEPT ![t] = "loop", ![c] = Entry(i + 1)]
            /\ idx' = [idx EXCEPT ![t] = SliceStart(i), ![c] = SliceStart(i + 1)]
        BY <3>1, <3>2 DEF Fork
      <4>2. Entry(i + 1) \in {"fork", "loop"}
        BY DEF Entry
      <4> QED
        BY <1>0, <2>3, <2>4, <4>1, <4>2
    <3>3. CASE ForkFail(t)
      <4>1. /\ pc' = [pc EXCEPT ![t] = "loop", ![c] = "lost"]
            /\ idx' = [idx EXCEPT ![t] = SliceStart(i)]
        BY <3>3 DEF ForkFail
      <4> QED
        BY <1>0, <2>3, <2>4, <4>1
    <3> QED
      BY <1>6, <3>2, <3>3
  <2>6. ASSUME NEW k \in 1 .. N PROVE First(k)' = First(k) /\ Stop(k)' = Stop(k)
    BY <2>1 DEF region, Length, First, Stop, StepLen, Limit, Wrap
  <2>7. ASSUME NEW k \in 1 .. N PROVE Progress(k)' = Progress(k)
    <3>1. round' = round /\ <<round, k>> \in Thread
      BY <2>1, <2>2, InRegion DEF region
    <3>2. CASE k = i
      <4>1. Progress(k) = First(k)
        BY <2>1, <2>2, <3>2 DEF Progress
      <4>2. Progress(k)' = First(k)
        BY <2>2, <2>5, <3>1, <3>2 DEF Progress
      <4> QED
        BY <4>1, <4>2
    <3>3. CASE k = i + 1
      <4>1. Progress(k) = First(k)
        BY <2>2, <2>3, <3>3 DEF Progress
      <4>2. Progress(k)' = First(k)
        <5>1. CASE pc'[c] \in {"fork", "lost"}
          BY <2>2, <2>6, <3>1, <3>3, <5>1 DEF Progress
        <5>2. CASE pc'[c] = "loop" /\ idx'[c] = First(i + 1)
          BY <2>2, <3>1, <3>3, <5>2 DEF Progress
        <5> QED
          BY <2>5, <5>1, <5>2
      <4> QED
        BY <4>1, <4>2
    <3>4. CASE k # i /\ k # i + 1
      <4>1. <<round, k>> \notin {t, c}
        BY <2>2, <3>4
      <4>2. pc'[<<round, k>>] = pc[<<round, k>>] /\ idx'[<<round, k>>] = idx[<<round, k>>]
        BY <2>5, <3>1, <4>1
      <4> QED
        BY <2>6, <3>1, <4>2 DEF Progress
    <3> QED
      BY <3>2, <3>3, <3>4
  <2> QED
    BY <2>1, <2>2, <2>7, SliceKept
<1>7. ASSUME NEW t \in Thread, LeaveLoop(t) PROVE SliceInv'
  <2> PICK i : i = t[2]
    OBVIOUS
  <2>1. /\ pc[t] = "loop" /\ ~InSlice(t) /\ UNCHANGED region /\ ran' = ran /\ Regular /\ idx' = idx
        /\ pc'[t] \notin {"none", "lost", "fork", "loop"}
        /\ \A u \in Thread \ {t} : pc'[u] = pc[u]
    BY <1>0, <1>7, RegularKept DEF LeaveLoop, region, Report
  <2>2. /\ main = "region" /\ i \in 1 .. N /\ t = <<round, i>> /\ ~(idx[t] < Stop(i))
        /\ Progress(i) = idx[t]
    BY <2>1, Running
  <2>3. Progress(i) = Stop(i)
    BY <2>1, <2>2, InRegion
  <2>4. ASSUME NEW k \in 1 .. N PROVE First(k)' = First(k) /\ Stop(k)' = Stop(k)
    BY <2>1 DEF region, Length, First, Stop, StepLen, Limit, Wrap
  <2>5. ASSUME NEW k \in 1 .. N PROVE Progress(k)' = Progress(k)
    <3>1. round' = round /\ <<round, k>> \in Thread
      BY <2>1, <2>2, InRegion DEF region
    <3>2. CASE k = i
      BY <2>1, <2>2, <2>3, <2>4, <3>1, <3>2 DEF Progress
    <3>3. CASE k # i
      <4>1. <<round, k>> # t
        BY <2>2, <3>3
      <4>2. pc'[<<round, k>>] = pc[<<round, k>>]
        BY <2>1, <3>1, <4>1
      <4> QED
        BY <2>1, <2>4, <3>1, <4>2 DEF Progress
    <3> QED
      BY <3>2, <3>3
  <2> QED
    BY <2>1, <2>2, <2>5, SliceKept
<1>8. ASSUME NEW t \in Thread,
             Wait(t) \/ LockLoad(t) \/ LockStoreOk(t) \/ LockStoreFail(t) \/ LoadCounter(t)
               \/ StoreCounter(t) \/ Unlock(t) \/ Exit(t) \/ Poll(t)
      PROVE  SliceInv'
  <2>1. /\ UNCHANGED region /\ ran' = ran /\ idx' = idx /\ Regular
        /\ pc[t] \notin {"none", "lost", "fork", "loop"}
        /\ pc'[t] \notin {"none", "lost", "fork", "loop"}
        /\ \A u \in Thread \ {t} : pc'[u] = pc[u]
    BY <1>0, <1>8, RegularKept
       DEF Wait, Report, LockLoad, LockStoreOk, LockStoreFail, LoadCounter, StoreCounter, Unlock,
           Exit, Poll, shared, region
  <2>2. CASE main = "region"
    <3>1. ASSUME NEW k \in 1 .. N PROVE Progress(k)' = Progress(k)
      <4>1. round' = round /\ <<round, k>> \in Thread
        BY <2>1, <2>2, InRegion DEF region
      <4>2. First(k)' = First(k) /\ Stop(k)' = Stop(k)
        BY <2>1 DEF region, Length, First, Stop, StepLen, Limit, Wrap
      <4>3. \/ pc'[<<round, k>>] = pc[<<round, k>>]
            \/ /\ pc[<<round, k>>] \notin {"none", "lost", "fork", "loop"}
               /\ pc'[<<round, k>>] \notin {"none", "lost", "fork", "loop"}
        BY <2>1, <4>1
      <4> QED
        BY <2>1, <4>1, <4>2, <4>3 DEF Progress
    <3> QED
      BY <2>1, <2>2, <3>1, SliceKept
  <2>3. CASE main # "region"
    <3>1. Limit' = Limit
      BY <2>1 DEF region, Limit
    <3> QED
      BY <2>1, <2>3, <3>1 DEF Inv, SliceInv, region, RegionComplete, SourceRange
  <2> QED
    BY <2>2, <2>3
<1>9. CASE UNCHANGED vars
  <2>1. UNCHANGED region /\ ran' = ran /\ idx' = idx /\ pc' = pc /\ Regular
    BY <1>9, RegularKept DEF vars, region
  <2>2. CASE main = "region"
    <3>1. ASSUME NEW k \in 1 .. N PROVE Progress(k)' = Progress(k)
      BY <2>1 DEF Progress, region, Length, First, Stop, StepLen, Limit, Wrap
    <3> QED
      BY <2>1, <2>2, <3>1, SliceKept
  <2>3. CASE main # "region"
    <3>1. Limit' = Limit
      BY <2>1 DEF region, Limit
    <3> QED
      BY <2>1, <2>3, <3>1 DEF Inv, SliceInv, region, RegionComplete, SourceRange
  <2> QED
    BY <2>2, <2>3
<1> QED
  BY <1>1, <1>2, <1>3, <1>4, <1>5, <1>6, <1>7, <1>8, <1>9 DEF Next, MainStep, Step

LEMMA InvInit ==
  ASSUME Init
  PROVE  Inv
<1>1. 0 \in Word /\ 0 \in 0 .. N - 1
  BY NAssumption, WordAssumption DEF Word
<1>2. \A t \in Thread : t[1] \in Int /\ t[2] \in Int
  BY ThreadPair, RoundsAssumption, NAssumption
<1>3. TypeOK
  BY <1>1, RoundsAssumption, SwitchAssumption DEF Init, TypeOK, Location
<1>4. CounterInv /\ RegionInv
  BY DEF Init, CounterInv, RegionInv
<1>5. \A t \in Thread : pc[t] = "none"
  BY DEF Init
<1>6. LockExclusion /\ ClaimInv /\ PendingInv
  BY <1>5 DEF Init, LockExclusion, Holding, ClaimInv, PendingInv
<1>7. OnlyEpilogueLeft /\ RoleInv /\ RoundInv
  BY <1>5 DEF OnlyEpilogueLeft, RoleInv, RoundInv, Reporting
<1>8. ChainInv
  BY <1>5, ThreadPair, PairThread, NAssumption DEF ChainInv
<1>9. SliceInv
  BY DEF Init, SliceInv, RegionComplete
<1> QED
  BY <1>3, <1>4, <1>6, <1>7, <1>8, <1>9 DEF Inv

LEMMA InvStep ==
  ASSUME Inv, UseLock, [Next]_vars
  PROVE  Inv'
<1>1. OnlyEpilogueLeft'
  BY RoundStep DEF RoundInv, OnlyEpilogueLeft, Reported
<1> QED
  BY <1>1, TypeStep, LockStep, PendingStep, CounterStep, RoleStep, RoundStep,
     ChainStep, RegionStep, SliceStep
     DEF Inv

(* Under the lock the inductive invariant holds: in particular the counter *)
(* of the region equals the number of threads still to report, whatever is *)
(* left of the threads of earlier rounds and however many creations failed.*)
THEOREM InvCorrect == UseLock => (Spec => []Inv)
<1> SUFFICES ASSUME UseLock PROVE Spec => []Inv
  OBVIOUS
<1>1. Init => Inv
  BY InvInit
<1>2. Inv /\ [Next]_vars => Inv'
  BY InvStep
<1> QED
  BY <1>1, <1>2, PTL DEF Spec

(* __lock and __unlock exclude each other, between the threads of a region *)
(* and with the stragglers of earlier ones.                                *)
THEOREM LockExclusionCorrect == UseLock => (Spec => []LockExclusion)
<1>1. Inv => LockExclusion
  BY DEF Inv
<1> QED
  BY <1>1, InvCorrect, PTL

(* Once thread 1 is past the region, its other threads have stored their   *)
(* report: they release the lock, exit, and touch nothing else.            *)
THEOREM OnlyEpilogueLeftCorrect == UseLock => (Spec => []OnlyEpilogueLeft)
<1>1. Inv => OnlyEpilogueLeft
  BY DEF Inv
<1> QED
  BY <1>1, InvCorrect, PTL

(* Every variable stays within its type; in particular the counter never   *)
(* goes below 0 and no index leaves the machine word.                      *)
THEOREM TypeCorrect == UseLock => (Spec => []TypeOK)
<1>1. Inv => TypeOK
  BY DEF Inv
<1> QED
  BY <1>1, InvCorrect, PTL


-------------------------------------------------------------------------------
(* When control is back in the surrounding code, every iteration of the    *)
(* source loop has been executed exactly once, and no other: for headers   *)
(* that stay on their first target, variables that do not leave the word,  *)
(* and every pair of bounds, a length beyond the word included, except one *)
(* whose length wraps into a region (WrapsIntoRegion).  There the code is  *)
(* wrong, as it is for the other headers.                                  *)
THEOREM RegionCompleteCorrect == UseLock => (Spec => [](Regular => RegionComplete))
<1>1. Inv => (Regular => RegionComplete)
  BY DEF Inv, SliceInv, RegionComplete
<1> QED
  BY <1>1, InvCorrect, PTL

(***************************************************************************)
(* The refinement, of the rounds that are regular.                         *)
(***************************************************************************)
LEMMA AbsIdle ==
  ASSUME ~Inside, ~Inside'
  PROVE  UNCHANGED Abs!vars
BY DEF Abs!vars, Inside

LEMMA AbsStutter ==
  ASSUME UNCHANGED <<main, header, lo, hi, ran>>
  PROVE  UNCHANGED Abs!vars
<1>1. Inside' <=> Inside
  BY RegularKept DEF Inside
<1> QED
  BY <1>1 DEF Abs!vars, SourceRange, Word

LEMMA AbsEnter ==
  ASSUME main = "head", Inside', ran' = [j \in Word |-> 0]
  PROVE  Abs!Next
<1>1. ~Inside
  BY DEF Inside
<1>2. SourceRange(lo, hi)' \in SUBSET Word
  BY DEF SourceRange, Word
<1>3. Abs!Enter
  BY <1>1, <1>2 DEF Abs!Enter, Abs!NoneRan
<1> QED
  BY <1>3 DEF Abs!Next

LEMMA AbsIterate ==
  ASSUME main # "head", Regular, UNCHANGED region, NEW x \in SourceRange(lo, hi),
         ran \in [Word -> Nat], ran[x] = 0, ran' = [ran EXCEPT ![x] = @ + 1]
  PROVE  Abs!Next
<1>1. x \in Word
  BY DEF SourceRange
<1>2. ran' = [ran EXCEPT ![x] = 1]
  <2>1. ran[x] + 1 = 1
    OBVIOUS
  <2> QED
    BY <2>1
<1>3. SourceRange(lo, hi)' = SourceRange(lo, hi)
  BY DEF SourceRange, region
<1>4. Inside /\ Inside'
  BY RegularKept DEF Inside, region
<1>5. Abs!Iterate(x)
  BY <1>2, <1>3, <1>4 DEF Abs!Iterate
<1> QED
  BY <1>4, <1>5 DEF Abs!Next

LEMMA AbsLeave ==
  ASSUME main # "head", Regular, main' = "head",
         \A j \in Word : ran[j] = IF j \in SourceRange(lo, hi) THEN 1 ELSE 0
  PROVE  Abs!Next
<1>1. \A j \in SourceRange(lo, hi) : ran[j] = 1
  BY DEF SourceRange
<1>2. Inside /\ ~Inside'
  BY DEF Inside
<1>3. Abs!Leave
  BY <1>1, <1>2 DEF Abs!Leave, Abs!NoneRan
<1> QED
  BY <1>3 DEF Abs!Next

(* The parallel region implements the loop it replaces, in every round     *)
(* that is regular and after any rounds, regular or not: however the       *)
(* threads interleave and whichever creations fail, each iteration happens *)
(* once, and control leaves the loop when all have.                        *)
THEOREM Refinement == UseLock => (Spec => ImplementsLoopRegion)
<1> SUFFICES ASSUME UseLock PROVE Spec => ImplementsLoopRegion
  OBVIOUS
<1>1. Init => Abs!Init
  BY DEF Init, Abs!Init, Abs!NoneRan, Inside
<1>2. ASSUME Inv, [Next]_vars PROVE [Abs!Next]_(Abs!vars)
  <2>0. ran \in [Word -> Nat] /\ pc \in [Thread -> Location]
    BY <1>2 DEF Inv, TypeOK
  <2>1. CASE Head
    <3>1. main = "head" /\ ~Inside /\ ran' = [j \in Word |-> 0]
      BY <2>1 DEF Head, Inside
    <3> QED
      BY <3>1, AbsEnter, AbsIdle
  <2>2. ASSUME ~Head, ~Regular PROVE UNCHANGED Abs!vars
    <3>1. header' = header /\ lo' = lo /\ hi' = hi
      BY <1>2, <2>2
         DEF Next, MainStep, SeqIterate, SeqLeave, Step, Fork, ForkFail, Iterate, LeaveLoop, Wait,
             LockLoad, LockStoreOk, LockStoreFail, LoadCounter, StoreCounter, Unlock, Exit, Poll,
             Tail, region, vars
    <3>2. ~Inside /\ ~Inside'
      BY <2>2, <3>1, RegularKept DEF Inside
    <3> QED
      BY <3>2, AbsIdle
  <2>3. ASSUME SeqIterate, Regular PROVE Abs!Next
    <3>1. main = "seq" /\ UNCHANGED region /\ OriginalTest(idx[<<round, 1>>])
          /\ ran' = [ran EXCEPT ![idx[<<round, 1>>]] = @ + 1]
      BY <2>3 DEF SeqIterate
    <3>2. ran[idx[<<round, 1>>]] = 0 /\ idx[<<round, 1>>] \in SourceRange(lo, hi)
      BY <1>2, <2>3, <3>1, Sequential
    <3> QED
      BY <2>0, <2>3, <3>1, <3>2, AbsIterate
  <2>4. ASSUME SeqLeave, Regular PROVE Abs!Next
    <3>1. main = "seq" /\ main' = "head" /\ ~OriginalTest(idx[<<round, 1>>])
      BY <2>4 DEF SeqLeave
    <3>2. \A j \in Word : ran[j] = IF j \in SourceRange(lo, hi) THEN 1 ELSE 0
      BY <1>2, <2>4, <3>1, Sequential
    <3> QED
      BY <2>4, <3>1, <3>2, AbsLeave
  <2>5. ASSUME NEW t \in Thread, Iterate(t), Regular PROVE Abs!Next
    <3>1. pc[t] = "loop" /\ InSlice(t) /\ UNCHANGED region
          /\ ran' = [ran EXCEPT ![idx[t]] = @ + 1]
      BY <2>5 DEF Iterate
    <3>2. main = "region"
      BY <1>2, <3>1, Active DEF Reported
    <3>3. ran[idx[t]] = 0 /\ idx[t] \in SourceRange(lo, hi)
      BY <1>2, <2>5, <3>1, Running
    <3> QED
      BY <2>0, <2>5, <3>1, <3>2, <3>3, AbsIterate
  <2>6. ASSUME NEW t \in Thread, Tail(t), Regular PROVE Abs!Next
    <3>1. main = "region" /\ \A i \in 1 .. N : Progress(i) = Stop(i)
      BY <1>2, <2>6, TailDone
    <3>2. main' = "head"
      BY <2>6 DEF Tail
    <3>3. \A j \in Word : ran[j] = IF j \in SourceRange(lo, hi) THEN 1 ELSE 0
      BY <1>2, <2>6, <3>1, AllDone
    <3> QED
      BY <2>6, <3>1, <3>2, <3>3, AbsLeave
  <2>7. ASSUME NEW t \in Thread, Step(t), ~Iterate(t), ~Tail(t) PROVE UNCHANGED Abs!vars
    <3>1. UNCHANGED <<main, header, lo, hi, ran>>
      BY <2>7
         DEF Step, Fork, ForkFail, LeaveLoop, Wait, LockLoad, LockStoreOk, LockStoreFail,
             LoadCounter, StoreCounter, Unlock, Exit, Poll, region
    <3> QED
      BY <3>1, AbsStutter
  <2>8. CASE UNCHANGED vars
    <3>1. UNCHANGED <<main, header, lo, hi, ran>>
      BY <2>8 DEF vars, region
    <3> QED
      BY <3>1, AbsStutter
  <2> QED
    BY <1>2, <2>1, <2>2, <2>3, <2>4, <2>5, <2>6, <2>7, <2>8 DEF Next, MainStep
<1> QED
  BY <1>1, <1>2, InvCorrect, PTL DEF Spec, ImplementsLoopRegion, Abs!Spec
===============================================================================
