---------------------------- MODULE BarrierProofs -----------------------------
(***************************************************************************)
(* Proofs, for every number of threads and of child loops, that the two    *)
(* calls of __barrier keep the child loops apart.  The inductive invariant *)
(* is Barrier!Inv; everything else is read off it.                         *)
(***************************************************************************)
EXTENDS Barrier, FiniteSetTheorems, TLAPS

(* Sets of threads are finite and have at most N members.                  *)
LEMMA ThreadSubset ==
  ASSUME NEW S \in SUBSET Thread
  PROVE  /\ IsFiniteSet(S)
         /\ Cardinality(S) \in 0 .. N
         /\ Cardinality(S) = N => S = Thread
         /\ Cardinality(S) = 0 <=> S = {}
<1>1. IsFiniteSet(Thread) /\ Cardinality(Thread) = N
  BY FS_Interval, NAssumption DEF Thread
<1>2. IsFiniteSet(S) /\ Cardinality(S) <= N /\ (Cardinality(S) = N => S = Thread)
  BY <1>1, FS_Subset
<1>3. Cardinality(S) \in Nat
  BY <1>2, FS_CardinalityType
<1>4. Cardinality(S) = 0 <=> S = {}
  BY <1>2, FS_EmptySet
<1> QED
  BY <1>2, <1>3, <1>4, NAssumption

LEMMA OneMore ==
  ASSUME NEW S \in SUBSET Thread, NEW t \in Thread, t \notin S
  PROVE  Cardinality(S \cup {t}) = Cardinality(S) + 1
BY ThreadSubset, FS_AddElement

(* The next count stays in the range of the word.                          *)
LEMMA NextCountType ==
  ASSUME NEW v \in 0 .. N - 1
  PROVE  NextCount(v) \in 0 .. N - 1
BY NAssumption DEF NextCount

LEMMA RankType ==
  ASSUME TypeOK, NEW t \in Thread
  PROVE  Rank(t) \in Nat
BY DEF TypeOK, Rank, Cell, Location

-------------------------------------------------------------------------------
(* Type correctness, one step per action.                                  *)
LEMMA TypeStep ==
  ASSUME TypeOK, [Next]_vars
  PROVE  TypeOK'
<1> USE DEF TypeOK, Cell, Location
<1>1. ASSUME NEW t \in Thread, Arrive(t) PROVE TypeOK'
  BY <1>1 DEF Arrive
<1>2. ASSUME NEW t \in Thread, Ldrex(t) PROVE TypeOK'
  <2>1. NextCount(cell[at[t]]) \in 0 .. N - 1
    BY NextCountType
  <2> QED
    BY <1>2, <2>1 DEF Ldrex
<1>3. ASSUME NEW t \in Thread, StrexOk(t) PROVE TypeOK'
  <2>1. monitor' \in [Thread -> BOOLEAN]
    BY <1>3, Zenon DEF StrexOk
  <2> QED
    BY <1>3, <2>1 DEF StrexOk
<1>4. ASSUME NEW t \in Thread, StrexFail(t) PROVE TypeOK'
  BY <1>4 DEF StrexFail
<1>5. ASSUME NEW t \in Thread, LeaveFirst(t) PROVE TypeOK'
  BY <1>5 DEF LeaveFirst
<1>6. ASSUME NEW t \in Thread, LeaveSecond(t) PROVE TypeOK'
  BY <1>6 DEF LeaveSecond
<1>7. ASSUME NEW t \in Thread, Finish(t) PROVE TypeOK'
  BY <1>7 DEF Finish
<1>8. CASE UNCHANGED vars
  BY <1>8 DEF vars
<1> QED
  BY <1>1, <1>2, <1>3, <1>4, <1>5, <1>6, <1>7, <1>8 DEF Next, Step, Terminated

LEMMA InitType == Init => TypeOK
BY NAssumption DEF Init, TypeOK, Cell, Location

(* The types of the barrier's state hold throughout.                       *)
THEOREM TypeCorrect == Spec => []TypeOK
<1>1. Init => TypeOK
  BY InitType
<1>2. TypeOK /\ [Next]_vars => TypeOK'
  BY TypeStep
<1> QED
  BY <1>1, <1>2, PTL DEF Spec

-------------------------------------------------------------------------------
(* The initial state.                                                      *)
LEMMA InitInv == Init => Inv
<1> SUFFICES ASSUME Init PROVE Inv
  OBVIOUS
<1>1. TypeOK
  BY InitType
<1>2. PhaseBound
  BY PhasesAssumption DEF Init, PhaseBound
<1>3. \A t \in Thread : Rank(t) = 0
  BY DEF Init, Rank
<1>4. Ahead = {}
  BY <1>3 DEF Ahead
<1>5. CountdownInv
  BY <1>3, <1>4 DEF CountdownInv, Init, Cell
<1>6. ExclusiveInv
  BY DEF Init, ExclusiveInv
<1> QED
  BY <1>1, <1>2, <1>5, <1>6 DEF Inv

(* A step that completes no store and moves no thread that is ahead leaves *)
(* the relation between counters and threads as it was.                    *)
LEMMA QuietStep ==
  ASSUME CountdownInv,
         cell' = cell,
         \A u \in Thread : Rank(u)' = Rank(u),
         \A u \in Ahead : pc'[u] = pc[u] /\ at'[u] = at[u]
  PROVE  CountdownInv'
<1>1. Ahead' = Ahead
  BY DEF Ahead
<1>2. \A t \in Ahead : t \in Thread
  BY DEF Ahead
<1> QED
  BY <1>1, <1>2 DEF CountdownInv

(* A thread that finds the word it spins on at 0 is not ahead: the others  *)
(* have all counted down too.                                              *)
LEMMA ReleasedNotAhead ==
  ASSUME Inv, NEW t \in Thread, pc[t] = "spin", cell[at[t]] = 0
  PROVE  t \notin Ahead
<1>1. Ahead \in SUBSET Thread
  BY DEF Ahead
<1> SUFFICES ASSUME t \in Ahead PROVE FALSE
  OBVIOUS
<1>2. Cardinality(Ahead) = N
  <2>1. cell[at[t]] = N - Cardinality(Ahead)
    BY DEF Inv, CountdownInv
  <2> QED
    BY <2>1, <1>1, ThreadSubset, NAssumption
<1>3. Ahead = Thread
  BY <1>1, <1>2, ThreadSubset
<1>4. PICK u \in Thread : Rank(u) < Rank(t)
  BY DEF Ahead
<1>5. PICK w \in Thread : Rank(w) < Rank(u)
  BY <1>3, <1>4 DEF Ahead
<1>6. Rank(t) <= Rank(w) + 1
  BY DEF Inv, CountdownInv
<1>7. Rank(t) \in Nat /\ Rank(u) \in Nat /\ Rank(w) \in Nat
  BY RankType DEF Inv
<1> QED
  BY <1>4, <1>5, <1>6, <1>7

(* The store that succeeds: the one step that changes a word.              *)
LEMMA StoreStep ==
  ASSUME Inv, NEW t \in Thread, StrexOk(t)
  PROVE  CountdownInv'
<1> DEFINE b == at[t]
<1>1. /\ TypeOK
      /\ CountdownInv
      /\ r3[t] = NextCount(cell[b])
  BY DEF Inv, ExclusiveInv, StrexOk
<1>2. /\ pc[t] = "strex"
      /\ cell' = [cell EXCEPT ![b] = r3[t]]
      /\ pc' = [pc EXCEPT ![t] = "spin"]
      /\ phase' = phase /\ at' = at
  BY DEF StrexOk
<1>3. Rank(t)' = Rank(t) + 1
  BY <1>1, <1>2 DEF Rank, TypeOK, Cell, Location
<1>4. \A u \in Thread \ {t} : Rank(u)' = Rank(u)
  BY <1>1, <1>2 DEF Rank, TypeOK, Cell, Location
<1>5. \A u \in Thread : Rank(u) \in Nat
  BY <1>1, RankType
<1>6. t \notin Ahead
  BY <1>1, <1>2 DEF CountdownInv
<1>7. \A u \in Thread : Rank(t) <= Rank(u) /\ Rank(u) <= Rank(t) + 1
  BY <1>1, <1>5, <1>6 DEF Ahead, CountdownInv
<1>8. \A u \in Thread : u \in Ahead <=> Rank(u) = Rank(t) + 1
  BY <1>5, <1>7 DEF Ahead
<1>9. \A u \in Ahead : at[u] = b /\ pc[u] = "spin" /\ u \in Thread /\ u # t
  <2> SUFFICES ASSUME NEW u \in Ahead
               PROVE  at[u] = b /\ pc[u] = "spin" /\ u \in Thread /\ u # t
    OBVIOUS
  <2>1. u \in Thread /\ pc[u] = "spin"
    BY <1>1 DEF Ahead, CountdownInv
  <2>2. 2 * phase[u] + at[u] = 2 * phase[t] + (at[t] - 1) + 1
    BY <1>2, <1>8, <2>1 DEF Rank
  <2>3. at[u] = at[t]
    BY <1>1, <2>1, <2>2 DEF TypeOK, Cell
  <2> QED
    BY <1>6, <2>1, <2>3
<1>10. b \in Cell /\ 3 - b \in Cell /\ 3 - b # b
  BY <1>1 DEF TypeOK, Cell
<1>11. cell[3 - b] = 0
  <2>1. CASE Ahead = {}
    BY <1>1, <1>10, <2>1 DEF CountdownInv
  <2>2. CASE Ahead # {}
    BY <1>1, <1>9, <2>2 DEF CountdownInv
  <2> QED
    BY <2>1, <2>2
<1>12. cell'[3 - b] = 0
  BY <1>1, <1>2, <1>10, <1>11 DEF TypeOK
<1>13. Ahead \in SUBSET Thread
  BY DEF Ahead
<1>14. Cardinality(Ahead \cup {t}) = Cardinality(Ahead) + 1
  BY <1>6, <1>13, OneMore
<1>15. cell'[b] = N - Cardinality(Ahead \cup {t})
  <2>1. cell'[b] = NextCount(cell[b])
    BY <1>1, <1>2, <1>10 DEF TypeOK
  <2>2. CASE Ahead = {}
    <3>1. cell[b] = 0 /\ Cardinality(Ahead) = 0
      BY <1>1, <1>10, <1>13, <2>2, ThreadSubset DEF CountdownInv
    <3> QED
      BY <1>14, <2>1, <3>1, NAssumption DEF NextCount
  <2>3. CASE Ahead # {}
    <3>1. cell[b] = N - Cardinality(Ahead)
      BY <1>1, <1>9, <2>3 DEF CountdownInv
    <3>2. Cardinality(Ahead) \in 0 .. N /\ Cardinality(Ahead) # N
      BY <1>6, <1>13, ThreadSubset
    <3> QED
      BY <1>14, <2>1, <3>1, <3>2, NAssumption DEF NextCount
  <2> QED
    BY <2>2, <2>3
<1>16. CASE Ahead \cup {t} = Thread
  (* The last thread counts down to 0: nobody is ahead any more.           *)
  <2>1. \A u \in Thread : Rank(u)' = Rank(t) + 1
    BY <1>3, <1>4, <1>8, <1>16
  <2>2. Ahead' = {}
    BY <1>5, <2>1 DEF Ahead
  <2>3. cell'[b] = 0
    <3>1. Thread \in SUBSET Thread /\ Cardinality(Thread) = N
      BY FS_Interval, NAssumption DEF Thread
    <3> QED
      BY <1>15, <1>16, <3>1, NAssumption
  <2>4. \A c \in Cell : cell'[c] = 0
    BY <1>10, <1>12, <2>3 DEF Cell
  <2> QED
    BY <1>5, <2>1, <2>2, <2>4 DEF CountdownInv
<1>17. CASE Ahead \cup {t} # Thread
  <2>1. PICK w \in Thread : w \notin Ahead /\ w # t
    BY <1>13, <1>17
  <2>2. Rank(w)' = Rank(t)
    BY <1>4, <1>5, <1>7, <1>8, <2>1
  <2>3. \A u \in Thread : Rank(u)' = IF u \in Ahead \cup {t} THEN Rank(t) + 1 ELSE Rank(t)
    BY <1>3, <1>4, <1>5, <1>7, <1>8
  <2>4. Ahead' = Ahead \cup {t}
    <3>1. \A u \in Thread : u \in Ahead' <=> u \in Ahead \cup {t}
      <4>1. \A u \in Thread : u \in Ahead' <=> \E v \in Thread : Rank(v)' < Rank(u)'
        BY DEF Ahead
      <4> QED
        BY <1>5, <2>1, <2>2, <2>3, <4>1
    <3>2. Ahead' \in SUBSET Thread
      BY DEF Ahead
    <3> QED
      BY <1>13, <3>1, <3>2
  <2>5. \A u \in Ahead \cup {t} : pc'[u] = "spin" /\ at'[u] = b
    BY <1>1, <1>2, <1>9 DEF TypeOK
  <2>6. \A u, v \in Thread : Rank(u)' <= Rank(v)' + 1
    BY <1>5, <2>3
  <2>7. Ahead' # {}
    BY <2>4
  <2> QED
    BY <1>12, <1>15, <2>4, <2>5, <2>6, <2>7 DEF CountdownInv
<1> QED
  BY <1>16, <1>17

-------------------------------------------------------------------------------
(* The inductive invariant is preserved: one step per action.              *)
LEMMA CountdownStep ==
  ASSUME Inv, [Next]_vars
  PROVE  CountdownInv'
<1> USE DEF Inv
<1>0. TypeOK /\ CountdownInv
  OBVIOUS
<1>1. ASSUME NEW t \in Thread, Arrive(t) PROVE CountdownInv'
  <2>1. t \notin Ahead
    BY <1>1 DEF Arrive, CountdownInv
  <2>2. \A u \in Thread : Rank(u)' = Rank(u)
    BY <1>1 DEF Arrive, Rank, TypeOK
  <2>3. cell' = cell /\ \A u \in Ahead : pc'[u] = pc[u] /\ at'[u] = at[u]
    BY <1>1, <2>1 DEF Arrive, TypeOK, Ahead
  <2> QED
    BY <2>2, <2>3, QuietStep
<1>2. ASSUME NEW t \in Thread, Ldrex(t) PROVE CountdownInv'
  <2>1. t \notin Ahead
    BY <1>2 DEF Ldrex, CountdownInv
  <2>2. \A u \in Thread : Rank(u)' = Rank(u)
    BY <1>2 DEF Ldrex, Rank, TypeOK
  <2>3. cell' = cell /\ \A u \in Ahead : pc'[u] = pc[u] /\ at'[u] = at[u]
    BY <1>2, <2>1 DEF Ldrex, TypeOK, Ahead
  <2> QED
    BY <2>2, <2>3, QuietStep
<1>3. ASSUME NEW t \in Thread, StrexOk(t) PROVE CountdownInv'
  BY <1>3, StoreStep
<1>4. ASSUME NEW t \in Thread, StrexFail(t) PROVE CountdownInv'
  <2>1. t \notin Ahead
    BY <1>4 DEF StrexFail, CountdownInv
  <2>2. \A u \in Thread : Rank(u)' = Rank(u)
    BY <1>4 DEF StrexFail, Rank, TypeOK
  <2>3. cell' = cell /\ \A u \in Ahead : pc'[u] = pc[u] /\ at'[u] = at[u]
    BY <1>4, <2>1 DEF StrexFail, TypeOK, Ahead
  <2> QED
    BY <2>2, <2>3, QuietStep
<1>5. ASSUME NEW t \in Thread, LeaveFirst(t) PROVE CountdownInv'
  <2>1. t \notin Ahead
    BY <1>5, ReleasedNotAhead DEF LeaveFirst
  <2>2. \A u \in Thread : Rank(u)' = Rank(u)
    BY <1>5 DEF LeaveFirst, Rank, TypeOK, Cell
  <2>3. cell' = cell /\ \A u \in Ahead : pc'[u] = pc[u] /\ at'[u] = at[u]
    BY <1>5, <2>1 DEF LeaveFirst, TypeOK, Ahead
  <2> QED
    BY <2>2, <2>3, QuietStep
<1>6. ASSUME NEW t \in Thread, LeaveSecond(t) PROVE CountdownInv'
  <2>1. t \notin Ahead
    BY <1>6, ReleasedNotAhead DEF LeaveSecond
  <2>2. \A u \in Thread : Rank(u)' = Rank(u)
    BY <1>6 DEF LeaveSecond, Rank, TypeOK, Cell
  <2>3. cell' = cell /\ \A u \in Ahead : pc'[u] = pc[u] /\ at'[u] = at[u]
    BY <1>6, <2>1 DEF LeaveSecond, TypeOK, Ahead
  <2> QED
    BY <2>2, <2>3, QuietStep
<1>7. ASSUME NEW t \in Thread, Finish(t) PROVE CountdownInv'
  <2>1. t \notin Ahead
    BY <1>7 DEF Finish, CountdownInv
  <2>2. \A u \in Thread : Rank(u)' = Rank(u)
    BY <1>7 DEF Finish, Rank, TypeOK
  <2>3. cell' = cell /\ \A u \in Ahead : pc'[u] = pc[u] /\ at'[u] = at[u]
    BY <1>7, <2>1 DEF Finish, TypeOK, Ahead
  <2> QED
    BY <2>2, <2>3, QuietStep
<1>8. CASE UNCHANGED vars
  <2>1. \A u \in Thread : Rank(u)' = Rank(u)
    BY <1>8 DEF vars, Rank
  <2> QED
    BY <1>8, <2>1, QuietStep DEF vars
<1> QED
  BY <1>1, <1>2, <1>3, <1>4, <1>5, <1>6, <1>7, <1>8 DEF Next, Step, Terminated

(* A load takes the current value, and a store to the word ends every      *)
(* other thread's claim to have seen it.                                   *)
LEMMA ExclusiveStep ==
  ASSUME TypeOK, ExclusiveInv, [Next]_vars
  PROVE  ExclusiveInv'
<1> USE DEF TypeOK, ExclusiveInv
<1>1. ASSUME NEW t \in Thread, Arrive(t) PROVE ExclusiveInv'
  BY <1>1 DEF Arrive
<1>2. ASSUME NEW t \in Thread, Ldrex(t) PROVE ExclusiveInv'
  BY <1>2 DEF Ldrex, NextCount
<1>3. ASSUME NEW t \in Thread, StrexOk(t) PROVE ExclusiveInv'
  <2> SUFFICES ASSUME NEW u \in Thread, pc'[u] = "strex", monitor'[u]
               PROVE  r3'[u] = NextCount(cell'[at'[u]])
    BY DEF NextCount
  <2>1. u # t /\ pc[u] = "strex"
    BY <1>3 DEF StrexOk
  <2>2. monitor[u] /\ at[u] # at[t]
    BY <1>3, Zenon DEF StrexOk
  <2>3. cell'[at'[u]] = cell[at[u]] /\ r3' = r3
    BY <1>3, <2>2 DEF StrexOk
  <2> QED
    BY <2>1, <2>2, <2>3
<1>4. ASSUME NEW t \in Thread, StrexFail(t) PROVE ExclusiveInv'
  BY <1>4 DEF StrexFail, NextCount
<1>5. ASSUME NEW t \in Thread, LeaveFirst(t) PROVE ExclusiveInv'
  BY <1>5 DEF LeaveFirst
<1>6. ASSUME NEW t \in Thread, LeaveSecond(t) PROVE ExclusiveInv'
  BY <1>6 DEF LeaveSecond
<1>7. ASSUME NEW t \in Thread, Finish(t) PROVE ExclusiveInv'
  BY <1>7 DEF Finish
<1>8. CASE UNCHANGED vars
  BY <1>8 DEF vars
<1> QED
  BY <1>1, <1>2, <1>3, <1>4, <1>5, <1>6, <1>7, <1>8 DEF Next, Step, Terminated

LEMMA PhaseBoundStep ==
  ASSUME TypeOK, PhaseBound, [Next]_vars
  PROVE  PhaseBound'
BY PhasesAssumption
   DEF TypeOK, PhaseBound, Next, Step, Terminated, vars, Arrive, Ldrex, StrexOk,
       StrexFail, LeaveFirst, LeaveSecond, Finish

(* The inductive invariant: the words count the threads still missing in   *)
(* the generation in progress.                                             *)
THEOREM InvCorrect == Spec => []Inv
<1>1. Init => Inv
  BY InitInv
<1>2. Inv /\ [Next]_vars => Inv'
  BY TypeStep, PhaseBoundStep, CountdownStep, ExclusiveStep DEF Inv
<1> QED
  BY <1>1, <1>2, PTL DEF Spec

-------------------------------------------------------------------------------
(* No thread is in a child loop while another has not finished the previous*)
(* one.                                                                    *)
THEOREM PhaseSeparationCorrect == Spec => []PhaseSeparation
<1>1. Inv => PhaseSeparation
  <2> SUFFICES ASSUME Inv, NEW t \in Thread, NEW u \in Thread,
                      pc[t] \in {"body", "done"}, phase[u] < phase[t]
               PROVE  phase[u] = phase[t] - 1 /\ pc[u] # "body"
    BY DEF PhaseSeparation
  <2>1. Rank(t) = 2 * phase[t]
    BY DEF Rank, Inv, TypeOK
  <2>2. Rank(t) <= Rank(u) + 1
    BY DEF Inv, CountdownInv
  <2>3. Rank(u) <= 2 * phase[u] + 2 /\ (pc[u] = "body" => Rank(u) = 2 * phase[u])
    BY DEF Rank, Inv, TypeOK, Cell
  <2>4. Rank(u) \in Nat /\ phase[t] \in Nat /\ phase[u] \in Nat
    BY RankType DEF Inv, TypeOK
  <2> QED
    BY <2>1, <2>2, <2>3, <2>4
<1> QED
  BY <1>1, InvCorrect, PTL

(* A word leaves 0 only when nobody spins on it.                           *)
THEOREM NoRearmCorrect == Spec => NoRearmUnderSpinner
<1>1. ASSUME Inv, [Next]_vars, NEW b \in Cell, cell[b] = 0, cell'[b] # 0,
             NEW u \in Thread, pc[u] = "spin", at[u] = b
      PROVE  FALSE
  <2>1. PICK t \in Thread : StrexOk(t)
    BY <1>1 DEF Next, Step, Terminated, vars, Arrive, Ldrex, StrexFail,
                LeaveFirst, LeaveSecond, Finish
  <2>2. pc[t] = "strex" /\ at[t] = b
    BY <1>1, <2>1 DEF StrexOk, Inv, TypeOK
  <2>3. Rank(u) = 2 * phase[u] + b /\ Rank(t) = 2 * phase[t] + (b - 1)
    BY <1>1, <2>2 DEF Rank
  <2>4. t \notin Ahead /\ u \notin Ahead
    BY <1>1, <2>2, ReleasedNotAhead DEF Inv, CountdownInv
  <2>5. Rank(u) = Rank(t)
    <3>1. Rank(u) \in Nat /\ Rank(t) \in Nat
      BY <1>1, RankType DEF Inv
    <3> QED
      BY <2>4, <3>1 DEF Ahead
  <2> QED
    BY <1>1, <2>3, <2>5 DEF Inv, TypeOK, Cell
<1>2. Inv /\ [Next]_vars => [\A b \in Cell : cell[b] = 0 /\ cell'[b] # 0 =>
                              \A t \in Thread : ~(pc[t] = "spin" /\ at[t] = b)]_vars
  BY <1>1
<1> QED
  BY <1>2, InvCorrect, PTL DEF Spec, NoRearmUnderSpinner

-------------------------------------------------------------------------------
(* Leaving the second barrier is starting the next child loop, which the   *)
(* abstract specification allows only once everybody finished this one.    *)
LEMMA LeaveSecondStarts ==
  ASSUME Inv, NEW t \in Thread, LeaveSecond(t)
  PROVE  Abs!Start(t)
<1>1. /\ pc[t] = "spin" /\ at[t] = 2
      /\ pc' = [pc EXCEPT ![t] = "body"]
      /\ phase' = [phase EXCEPT ![t] = @ + 1]
  BY DEF LeaveSecond
<1>2. TypeOK
  BY DEF Inv
<1>3. phase[t] < Phases
  BY <1>1 DEF Inv, PhaseBound
<1>4. ~Busy[t]
  BY <1>1 DEF Busy
<1>5. \A u \in Thread : Abs!Finished(u, phase[t])
  <2> SUFFICES ASSUME NEW u \in Thread PROVE Abs!Finished(u, phase[t])
    OBVIOUS
  <2>1. Rank(t) <= Rank(u)
    <3>1. t \notin Ahead
      BY <1>1, ReleasedNotAhead DEF LeaveSecond
    <3>2. Rank(t) \in Nat /\ Rank(u) \in Nat
      BY <1>2, RankType
    <3> QED
      BY <3>1, <3>2 DEF Ahead
  <2>2. Rank(t) = 2 * phase[t] + 2
    BY <1>1 DEF Rank
  <2>3. phase[u] > phase[t] \/ (phase[u] = phase[t] /\ pc[u] # "body")
    BY <1>2, <2>1, <2>2 DEF Rank, TypeOK, Cell
  <2> QED
    BY <2>3 DEF Abs!Finished, Busy
<1>6. Busy' = [Busy EXCEPT ![t] = TRUE]
  BY <1>1, <1>2 DEF Busy, TypeOK
<1> QED
  BY <1>1, <1>3, <1>4, <1>5, <1>6 DEF Abs!Start

(* Reaching the first barrier, or the end of the region, is finishing.     *)
LEMMA ArriveFinishes ==
  ASSUME TypeOK, NEW t \in Thread, Arrive(t) \/ Finish(t)
  PROVE  Abs!Finish(t)
<1>1. pc[t] = "body" /\ phase' = phase /\ pc'[t] # "body" /\ Busy[t]
  BY DEF Arrive, Finish, TypeOK, Busy
<1>2. Busy' = [Busy EXCEPT ![t] = FALSE]
  BY DEF Arrive, Finish, TypeOK, Busy
<1> QED
  BY <1>1, <1>2 DEF Abs!Finish

LEMMA OtherStutters ==
  ASSUME TypeOK, NEW t \in Thread,
         Ldrex(t) \/ StrexOk(t) \/ StrexFail(t) \/ LeaveFirst(t)
  PROVE  UNCHANGED <<phase, Busy>>
<1>1. phase' = phase
  BY DEF Ldrex, StrexOk, StrexFail, LeaveFirst
<1>2. \A u \in Thread : pc'[u] = "body" <=> pc[u] = "body"
  BY DEF Ldrex, StrexOk, StrexFail, LeaveFirst, TypeOK
<1>3. Busy' = Busy
  BY <1>2 DEF Busy
<1> QED
  BY <1>1, <1>3

(* The double barrier implements the abstract phase synchronisation.       *)
THEOREM Refinement == Spec => ImplementsPhaseSync
<1>1. Init => Abs!Init
  <2> SUFFICES ASSUME Init PROVE Abs!Init
    OBVIOUS
  <2>1. Busy = [t \in Thread |-> TRUE]
    BY DEF Init, Busy
  <2> QED
    BY <2>1 DEF Init, Abs!Init
<1>2. ASSUME Inv, [Next]_vars PROVE [Abs!Next]_(Abs!vars)
  <2> USE DEF Inv
  <2>1. ASSUME NEW t \in Thread, Step(t) PROVE [Abs!Next]_(Abs!vars)
    <3>1. CASE LeaveSecond(t)
      BY <1>2, <3>1, LeaveSecondStarts DEF Abs!Next
    <3>2. CASE Arrive(t) \/ Finish(t)
      BY <1>2, <3>2, ArriveFinishes DEF Abs!Next
    <3>3. CASE Ldrex(t) \/ StrexOk(t) \/ StrexFail(t) \/ LeaveFirst(t)
      BY <1>2, <3>3, OtherStutters DEF Abs!vars
    <3> QED
      BY <2>1, <3>1, <3>2, <3>3 DEF Step
  <2>2. CASE UNCHANGED vars
    BY <2>2 DEF vars, Abs!vars, Busy
  <2> QED
    BY <1>2, <2>1, <2>2 DEF Next, Terminated
<1> QED
  BY <1>1, <1>2, InvCorrect, PTL DEF Spec, ImplementsPhaseSync, Abs!Spec
===============================================================================
