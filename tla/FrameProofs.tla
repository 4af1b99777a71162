----------------------------- MODULE FrameProofs -----------------------------
(***************************************************************************)
(* Proofs about the stack of a function: calls find sp at an even word and *)
(* the function gives back what it took, and the words of the frame have   *)
(* one use each.                                                           *)
(***************************************************************************)
EXTENDS RegAllocProofs

-------------------------------------------------------------------------------
\* How the instructions of s change sp.
Changes(s) == [k \in 1 .. Len(s) |-> SpChange(s[k])]

LEMMA ChangeType ==
  ASSUME NEW n \in Nat, NEW i \in Insn(n)
  PROVE  SpChange(i) \in Int
<1>1. i.tag \in Int
  BY InsnParts
<1> QED
  BY <1>1 DEF SpChange

(* sp after a sequence is the sum of the changes.                          *)
LEMMA SpSums ==
  ASSUME NEW n \in Nat, NEW s \in Seq(Insn(n))
  PROVE  \E r : /\ Sums(r, Changes(s), Len(s))
                /\ FoldLeft(LAMBDA m, i : m + SpChange(i), 0, s) = r[Len(s)]
<1> PICK N : N = Len(s)
  OBVIOUS
<1> PICK e : e = Changes(s)
  OBVIOUS
<1>1. N \in Nat /\ DOMAIN s = 1 .. N /\ \A k \in 1 .. N : s[k] \in Insn(n)
  BY LenProperties
<1>2. \A k \in 1 .. N : e[k] = SpChange(s[k]) /\ e[k] \in Int
  BY <1>1, ChangeType DEF Changes
<1> DEFINE F == CHOOSE g : g = [t \in SUBSET (1 .. N) |->
                  IF t = {} THEN 0 ELSE g[t \ {Max(t)}] + SpChange(s[Max(t)])]
<1>3. FoldLeft(LAMBDA m, i : m + SpChange(i), 0, s) = F[1 .. N]
  BY <1>1 DEF FoldLeft, MapThenFoldSet
<1>4. PICK g : AddUp(e, N, g)
  BY <1>1, <1>2, AddUpExists
<1>5. \A t \in SUBSET (1 .. N) : t # {} => e[Max(t)] = SpChange(s[Max(t)])
  BY <1>1, <1>2, MaxOf
<1>6. g = [t \in SUBSET (1 .. N) |-> IF t = {} THEN 0 ELSE g[t \ {Max(t)}] + SpChange(s[Max(t)])]
  BY <1>4, <1>5 DEF AddUp
<1>7. F = [t \in SUBSET (1 .. N) |-> IF t = {} THEN 0 ELSE F[t \ {Max(t)}] + SpChange(s[Max(t)])]
  BY <1>6
<1> HIDE DEF F
<1>8. AddUp(e, N, F)
  BY <1>5, <1>7 DEF AddUp
<1>9. \E r : Sums(r, e, N) /\ F[1 .. N] = r[N]
  BY <1>1, <1>2, <1>8, AddedUp
<1> QED
  BY <1>3, <1>9

LEMMA SpAfterSums ==
  ASSUME NEW n \in Nat, NEW s \in Seq(Insn(n)), NEW r, Sums(r, Changes(s), Len(s)),
         NEW k \in 0 .. Len(s)
  PROVE  SpAfter(s, k) = r[k]
<1> PICK N : N = Len(s)
  OBVIOUS
<1> PICK t : t = SubSeq(s, 1, k)
  OBVIOUS
<1>1. N \in Nat /\ DOMAIN s = 1 .. N /\ \A j \in 1 .. N : s[j] \in Insn(n)
  BY LenProperties
<1>2. k \in Nat /\ k \in 0 .. N
  BY <1>1
<1>3. t \in Seq(Insn(n)) /\ Len(t) = k /\ \A j \in 1 .. k : t[j] = s[j]
  <2>1. 1 \in Int /\ k \in Int /\ \A j \in 1 .. k : s[j] \in Insn(n)
    BY <1>1, <1>2
  <2>2. /\ t \in Seq(Insn(n)) /\ Len(t) = IF 1 <= k THEN k - 1 + 1 ELSE 0
        /\ \A j \in 1 .. k - 1 + 1 : t[j] = s[1 + j - 1]
    BY <2>1, SubSeqProperties
  <2>3. k - 1 + 1 = k /\ \A j \in 1 .. k : 1 + j - 1 = j
    BY <1>2
  <2> QED
    BY <1>2, <2>2, <2>3
<1>4. PICK q : /\ Sums(q, Changes(t), Len(t))
               /\ FoldLeft(LAMBDA m, i : m + SpChange(i), 0, t) = q[Len(t)]
  BY <1>3, SpSums
<1>5. SpAfter(s, k) = q[k]
  BY <1>3, <1>4 DEF SpAfter
<1> PICK e : e = Changes(s)
  OBVIOUS
<1> PICK f : f = Changes(t)
  OBVIOUS
<1>6. /\ \A j \in 1 .. N : e[j] \in Int
      /\ \A j \in 1 .. k : f[j] = e[0 + j]
  BY <1>1, <1>2, <1>3, ChangeType DEF Changes
<1>7. Sums(r, e, N) /\ Sums(q, f, k)
  BY <1>3, <1>4
<1>8. k \in 0 .. k /\ PartOf(f, k, e, N, 0)
  BY <1>1, <1>2, <1>6 DEF PartOf
<1>9. \A j \in 0 .. k : q[j] = r[0 + j] - r[0]
  BY <1>1, <1>7, <1>8, SumsOfPart
<1>10. r[k] \in Int /\ r[0] = 0
  BY <1>2, <1>7 DEF Sums
<1>11. q[k] = r[0 + k] - r[0]
  BY <1>8, <1>9
<1> QED
  BY <1>2, <1>5, <1>10, <1>11


-------------------------------------------------------------------------------
\* The same as a walk, over instructions with registers below n.
Delta(n) == [i \in Insn(n) |-> SpChange(i)]
CallsOf(n) == {i \in Insn(n) : i.kind = "call"}

\* What moves sp leaves its results in machine registers.
Tame(n) == {i \in Insn(n) : i.kind \in {"push", "sp", "call"} => i.def \subseteq Machine}

LEMMA BalancedForm ==
  ASSUME NEW n \in Nat, NEW s \in Seq(Insn(n))
  PROVE  Balanced(s) <=> s \in Seq(Tame(n)) /\ Walk(s, Delta(n), CallsOf(n), 0, 0)
<1> PICK N : N = Len(s)
  OBVIOUS
<1> DEFINE d == Delta(n)
           c == CallsOf(n)
<1>1. N \in Nat /\ DOMAIN s = 1 .. N /\ \A k \in 1 .. N : s[k] \in Insn(n)
  BY LenProperties
<1>2. \A k \in 1 .. N : /\ d[s[k]] = SpChange(s[k]) /\ Changes(s)[k] = SpChange(s[k])
                        /\ s[k] \in c <=> s[k].kind = "call"
  BY <1>1 DEF Delta, CallsOf, Changes
<1>3. s \in Seq(Tame(n)) <=> \A k \in 1 .. N : s[k] \in Tame(n)
  <2>1. ASSUME \A k \in 1 .. N : s[k] \in Tame(n) PROVE s \in Seq(Tame(n))
    <3>1. s \in [1 .. N -> Tame(n)]
      BY <1>1, <2>1
    <3> QED
      BY <1>1, <3>1, CodeOf
  <2>2. ASSUME s \in Seq(Tame(n)) PROVE \A k \in 1 .. N : s[k] \in Tame(n)
    BY <2>2, LenProperties
  <2> QED
    BY <2>1, <2>2
<1>4. \A k \in 1 .. N : s[k] \in Tame(n) <=>
        (s[k].kind \in {"push", "sp", "call"} => s[k].def \subseteq Machine)
  BY <1>1 DEF Tame
<1> HIDE DEF d, c
<1>5. N \in 0 .. N /\ 0 \in 0 .. N /\ \A k \in 1 .. N : k \in 0 .. N
  BY <1>1
<1>6. ASSUME Balanced(s) PROVE Walk(s, d, c, 0, 0) /\ \A k \in 1 .. N : s[k] \in Tame(n)
  <2>1. PICK r : Sums(r, Changes(s), N)
    BY SpSums
  <2>2. \A k \in 0 .. N : SpAfter(s, k) = r[k]
    BY <2>1, SpAfterSums
  <2>3. /\ SpAfter(s, N) = 0
        /\ \A k \in 1 .. N : /\ s[k].kind = "call" => SpAfter(s, k) % 2 = 0
                             /\ s[k].kind \in {"push", "sp", "call"} => s[k].def \subseteq Machine
    BY <1>1, <1>6 DEF Balanced
  <2>4. r \in [0 .. N -> Int] /\ r[0] = 0 /\ r[N] = 0
    BY <1>5, <2>1, <2>2, <2>3 DEF Sums
  <2>5. \A k \in 1 .. N : r[k] = r[k - 1] + d[s[k]] /\ (s[k] \in c => r[k] % 2 = 0)
    BY <1>2, <1>5, <2>1, <2>2, <2>3 DEF Sums
  <2> QED
    BY <1>4, <2>3, <2>4, <2>5 DEF Walk
<1>7. ASSUME Walk(s, d, c, 0, 0), \A k \in 1 .. N : s[k] \in Tame(n) PROVE Balanced(s)
  <2>1. PICK r \in [0 .. N -> Int] :
          /\ r[0] = 0 /\ r[N] = 0
          /\ \A k \in 1 .. N : r[k] = r[k - 1] + d[s[k]] /\ (s[k] \in c => r[k] % 2 = 0)
    BY <1>7 DEF Walk
  <2>2. Sums(r, Changes(s), N)
    BY <1>2, <2>1 DEF Sums
  <2>3. \A k \in 0 .. N : SpAfter(s, k) = r[k]
    BY <2>2, SpAfterSums
  <2>4. SpAfter(s, N) = 0
    BY <1>5, <2>1, <2>3
  <2>5. \A k \in 1 .. N : s[k].kind = "call" => SpAfter(s, k) % 2 = 0
    BY <1>2, <1>5, <2>1, <2>3
  <2> QED
    BY <1>1, <1>4, <1>7, <2>4, <2>5 DEF Balanced
<1> QED
  BY <1>3, <1>6, <1>7 DEF d, c

LEMMA InsnMonotonic ==
  ASSUME NEW n \in Nat, n <= MaxNode
  PROVE  Insn(n) \subseteq Insn(MaxNode)
<1>1. MaxNode \in Nat
  BY RegisterAssumption
<1>2. ASSUME NEW i \in Insn(n) PROVE i \in Insn(MaxNode)
  <2>1. i.def \in SUBSET (0 .. n - 1) /\ Uses(i) \in SUBSET (0 .. n - 1)
    BY InsnParts
  <2>2. 0 .. n - 1 \subseteq 0 .. MaxNode - 1
    BY <1>1
  <2>3. i.def \subseteq 0 .. MaxNode - 1 /\ Uses(i) \subseteq 0 .. MaxNode - 1
    BY <2>1, <2>2
  <2> QED
    BY <1>1, <2>3, InsnBelow
<1> QED
  BY <1>2

(* Instructions that leave sp alone lead nowhere.                          *)
LEMMA StillWalk ==
  ASSUME NEW s, s \in Seq({i \in Insn(MaxNode) : i.kind \notin {"push", "sp", "call"}}), NEW x \in Int
  PROVE  s \in Seq(Tame(MaxNode)) /\ Walk(s, Delta(MaxNode), CallsOf(MaxNode), x, x)
<1> DEFINE T == {i \in Insn(MaxNode) : i.kind \notin {"push", "sp", "call"}}
           d == Delta(MaxNode)
           c == CallsOf(MaxNode)
<1>1. T \subseteq Tame(MaxNode)
  BY DEF Tame
<1>2. \A i \in T : d[i] = 0 /\ i \notin c
  BY DEF Delta, CallsOf, SpChange
<1>3. s \in Seq(T)
  OBVIOUS
<1> HIDE DEF T, d, c
<1>4. s \in Seq(Tame(MaxNode))
  BY <1>1, <1>3, SeqMonotonic
<1>5. Walk(s, d, c, x, x)
  BY <1>2, <1>3, WalkStill
<1> QED
  BY <1>4, <1>5 DEF d, c


-------------------------------------------------------------------------------
\* t can stand for instruction i: it moves sp as far.
Stands(t, i) ==
  \A x, y \in Int :
    i \in Tame(MaxNode) /\ y = x + SpChange(i) /\ (i.kind = "call" => y % 2 = 0)
      => t \in Seq(Tame(MaxNode)) /\ Walk(t, Delta(MaxNode), CallsOf(MaxNode), x, y)

(* A block stays balanced when other code stands for its instructions.     *)
LEMMA StandingIn ==
  ASSUME NEW s \in Seq(Insn(MaxNode)), Balanced(s),
         NEW ss, ss = [k \in DOMAIN s |-> ss[k]], \A k \in DOMAIN s : Stands(ss[k], s[k])
  PROVE  Balanced(FlattenSeq(ss))
<1> PICK N : N = Len(s)
  OBVIOUS
<1> DEFINE d == Delta(MaxNode)
           c == CallsOf(MaxNode)
           T == Tame(MaxNode)
<1>1. N \in Nat /\ DOMAIN s = 1 .. N /\ \A k \in 1 .. N : s[k] \in Insn(MaxNode)
  BY LenProperties
<1>2. MaxNode \in Nat
  BY RegisterAssumption
<1>3. s \in Seq(T) /\ Walk(s, d, c, 0, 0)
  BY <1>2, BalancedForm
<1>4. \A k \in 1 .. N : s[k] \in T
  BY <1>1, <1>3, LenProperties
<1>5. \A k \in 1 .. N : d[s[k]] = SpChange(s[k]) /\ (s[k] \in c <=> s[k].kind = "call")
  BY <1>1 DEF Delta, CallsOf
<1>6. T \subseteq Insn(MaxNode)
  BY DEF Tame
<1> USE DEF Stands
<1> HIDE DEF d, c, T
<1>7. PICK r \in [0 .. N -> Int] :
        /\ r[0] = 0 /\ r[N] = 0
        /\ \A k \in 1 .. N : r[k] = r[k - 1] + d[s[k]] /\ (s[k] \in c => r[k] % 2 = 0)
  BY <1>3 DEF Walk
<1>8. ASSUME NEW k \in 1 .. N PROVE ss[k] \in Seq(T) /\ Walk(ss[k], d, c, r[k - 1], r[k])
  <2>1. k \in 0 .. N /\ k - 1 \in 0 .. N
    BY <1>1
  <2> PICK x \in Int : x = r[k - 1]
    BY <2>1
  <2> PICK y \in Int : y = r[k]
    BY <2>1
  <2>2. y = x + SpChange(s[k]) /\ (s[k].kind = "call" => y % 2 = 0)
    BY <1>5, <1>7
  <2>3. Stands(ss[k], s[k])
    BY <1>1
  <2>4. ss[k] \in Seq(T) /\ Walk(ss[k], d, c, x, y)
    BY <1>4, <2>2, <2>3 DEF d, c, T
  <2> QED
    BY <2>4
<1> HIDE DEF Stands
<1>9. ss \in Seq(Seq(T)) /\ Len(ss) = N
  <2>1. ss \in [1 .. N -> Seq(T)]
    BY <1>1, <1>8
  <2> QED
    BY <1>1, <2>1, CodeOf
<1> PICK w : w = FlattenSeq(ss)
  OBVIOUS
<1>10. w \in Seq(T)
  BY <1>9, Flattened
<1>11. w \in Seq(Insn(MaxNode))
  BY <1>6, <1>10, SeqMonotonic
<1>12. Walk(w, d, c, 0, 0)
  <2>1. r[0] \in Int /\ \A k \in 1 .. Len(ss) : Walk(ss[k], d, c, r[k - 1], r[k])
    <3>1. r[0] \in Int
      BY <1>7
    <3>2. \A k \in 1 .. N : Walk(ss[k], d, c, r[k - 1], r[k])
      BY <1>8
    <3> QED
      BY <1>9, <3>1, <3>2
  <2>2. Walk(w, d, c, r[0], r[Len(ss)])
    BY <1>9, <2>1, WalkThrough
  <2> QED
    BY <1>7, <1>9, <2>2
<1>13. Balanced(w)
  BY <1>2, <1>10, <1>11, <1>12, BalancedForm DEF d, c, T
<1> QED
  BY <1>13

(* The instructions of the code.                                           *)
LEMMA CodeAt ==
  ASSUME CodeOK
  PROVE  /\ reg_n \in Nat /\ reg_n <= MaxNode /\ MaxNode \in Nat
         /\ \A b \in DOMAIN blocks : blocks[b].insts \in Seq(Insn(MaxNode))
         /\ \A p \in Instructions(blocks) :
              /\ At(blocks, p) \in Insn(reg_n) /\ At(blocks, p) \in Insn(MaxNode)
              /\ At(blocks, p).def \subseteq Regs(blocks)
<1>1. /\ K \in Nat /\ MaxNode \in Nat /\ reg_n \in K .. MaxNode
      /\ blocks \in Seq(Block(reg_n))
  BY RegisterAssumption DEF CodeOK
<1>2. reg_n \in Nat /\ reg_n <= MaxNode
  BY <1>1
<1>3. \A b \in DOMAIN blocks : /\ blocks[b].insts \in Seq(Insn(reg_n))
                               /\ Within(blocks[b].insts, Regs(blocks))
                               /\ \A k \in DOMAIN blocks[b].insts : blocks[b].insts[k] \in Insn(reg_n)
  BY <1>1, <1>2, CodeParts
<1>4. Insn(reg_n) \subseteq Insn(MaxNode)
  BY <1>2, InsnMonotonic
<1>5. \A b \in DOMAIN blocks : blocks[b].insts \in Seq(Insn(MaxNode))
  BY <1>3, <1>4, SeqMonotonic
<1>6. ASSUME NEW p \in Instructions(blocks)
      PROVE  At(blocks, p) \in Insn(reg_n) /\ At(blocks, p).def \subseteq Regs(blocks)
  <2>1. p[1] \in DOMAIN blocks /\ p[2] \in DOMAIN blocks[p[1]].insts
    BY DEF Instructions
  <2> QED
    BY <1>3, <2>1 DEF At, Within
<1> QED
  BY <1>1, <1>2, <1>4, <1>5, <1>6

(* The code around spilled registers moves sp no further.                  *)
LEMMA RewrittenStands ==
  ASSUME CodeOK, spilled \in Seq(0 .. reg_n - 1), Range(spilled) \cap Machine = {},
         NEW n \in Nat, n = reg_n + Cardinality(Sites), n <= MaxNode,
         NEW p \in Instructions(blocks)
  PROVE  Stands(Rewritten(p), At(blocks, p))
<1> PICK i : i = At(blocks, p)
  OBVIOUS
<1> DEFINE d == Delta(MaxNode)
           c == CallsOf(MaxNode)
           T == Tame(MaxNode)
<1>1. i \in Insn(MaxNode) /\ i \in Insn(reg_n)
  BY CodeAt
<1>2. SUFFICES ASSUME NEW x \in Int, NEW y \in Int, i \in T, y = x + SpChange(i),
                      i.kind = "call" => y % 2 = 0
               PROVE  Rewritten(p) \in Seq(T) /\ Walk(Rewritten(p), d, c, x, y)
  BY DEF Stands
<1>3. i.kind \in {"push", "sp", "call"} => i.def \subseteq Machine
  BY <1>2 DEF Tame
<1>4. CASE Erased(i)
  <2>1. i.kind \notin {"push", "sp", "call"}
    BY <1>3, <1>4 DEF Erased
  <2>2. y = x
    BY <1>2, <2>1 DEF SpChange
  <2>3. Rewritten(p) = <<>>
    BY <1>4, RewrittenForm
  <2>4. <<>> \in Seq(T)
    BY EmptySeq
  <2> HIDE DEF d, c, T
  <2> QED
    BY <2>2, <2>3, <2>4, WalkNone
<1>5. CASE ~Erased(i)
  <2> PICK a : a = FlattenSeq(Reloads(p))
    OBVIOUS
  <2> PICK e : e = FlattenSeq(WriteBacks(p))
    OBVIOUS
  <2> PICK j : j = Named(p)
    OBVIOUS
  <2>1. a \in Seq(SpillCode(n)) /\ e \in Seq(SpillCode(n))
    BY ReloadsClean
  <2>2. Insn(n) \subseteq Insn(MaxNode)
    BY InsnMonotonic
  <2> DEFINE Q == {k \in Insn(MaxNode) : k.kind \notin {"push", "sp", "call"}}
  <2>3. SpillCode(n) \subseteq Q
    BY <2>2 DEF SpillCode, Clean
  <2>4. a \in Seq(Q) /\ e \in Seq(Q)
    BY <2>1, <2>3, SeqMonotonic
  <2>5. a \in Seq(T) /\ e \in Seq(T) /\ Walk(a, d, c, x, x) /\ Walk(e, d, c, y, y)
    BY <2>4, StillWalk
  <2>6. j \in Insn(MaxNode) /\ j.kind = i.kind /\ j.tag = i.tag /\ j.def = {NameAt(p, r) : r \in i.def}
    <3>1. j \in Insn(n)
      BY <1>5, NamedClean DEF Clean
    <3>2. i \in [kind : Kind, tag : Int, def : SUBSET (0 .. reg_n - 1), use : Seq(0 .. reg_n - 1)]
      BY <1>1 DEF Insn
    <3>3. j = [i EXCEPT !.def = {NameAt(p, r) : r \in i.def},
                        !.use = [k \in DOMAIN i.use |-> NameAt(p, i.use[k])]]
      BY DEF Named
    <3> QED
      BY <2>2, <3>1, <3>2, <3>3
  <2>7. SpChange(j) = SpChange(i)
    BY <2>6 DEF SpChange
  <2>8. \A r \in Machine : NameAt(p, r) = r
    <3>1. DOMAIN spilled = 1 .. Len(spilled)
      BY LenProperties
    <3>2. \A r \in Machine : ~\E k \in 1 .. Len(spilled) : spilled[k] = r /\ <<p, k>> \in Sites
      BY <3>1 DEF Range
    <3> QED
      BY <3>2 DEF NameAt
  <2>9. j \in T
    <3>1. j.kind \in {"push", "sp", "call"} => j.def \subseteq Machine
      BY <1>3, <2>6, <2>8
    <3> QED
      BY <2>6, <3>1 DEF Tame
  <2>10. d[j] = SpChange(j) /\ (j \in c <=> j.kind = "call")
    BY <2>6 DEF Delta, CallsOf
  <2> HIDE DEF d, c, T
  <2>11. Walk(<<j>>, d, c, x, y) /\ <<j>> \in Seq(T)
    <3>1. y = x + d[j] /\ (j \in c => y % 2 = 0)
      BY <1>2, <2>6, <2>7, <2>10
    <3>2. Walk(<<j>>, d, c, x, y)
      BY <3>1, WalkOne
    <3> QED
      BY <2>9, <3>2
  <2>12. Rewritten(p) = a \o <<j>> \o e
    BY <1>5, RewrittenForm
  <2> PICK u : u = a \o <<j>>
    OBVIOUS
  <2>13. u \in Seq(T) /\ Walk(u, d, c, x, y)
    BY <2>5, <2>11, WalkOn, ConcatProperties
  <2> PICK w : w = u \o e
    OBVIOUS
  <2>14. w \in Seq(T) /\ Walk(w, d, c, x, y)
    BY <2>5, <2>13, WalkOn, ConcatProperties
  <2> QED
    BY <2>12, <2>14
<1> QED
  BY <1>4, <1>5

(* So does the store through a register.                                   *)
LEMMA CheckedStands ==
  ASSUME CodeOK, NEW far \in SUBSET Instructions(blocks),
         \A p \in far : At(blocks, p).kind = "store",
         NEW n \in Nat, n = reg_n + Cardinality(far), n <= MaxNode, NEW p \in Instructions(blocks)
  PROVE  Stands(Checked(far, p), At(blocks, p))
<1> PICK i : i = At(blocks, p)
  OBVIOUS
<1> PICK t : t = Checked(far, p)
  OBVIOUS
<1> DEFINE d == Delta(MaxNode)
           c == CallsOf(MaxNode)
           T == Tame(MaxNode)
<1>1. i \in Insn(MaxNode)
  BY CodeAt
<1>2. SUFFICES ASSUME NEW x \in Int, NEW y \in Int, i \in T, y = x + SpChange(i),
                      i.kind = "call" => y % 2 = 0
               PROVE  t \in Seq(T) /\ Walk(t, d, c, x, y)
  BY DEF Stands
<1>3. CASE p \in far
  <2>1. i.kind = "store" /\ y = x
    BY <1>2, <1>3 DEF SpChange
  <2> PICK r : r = OffsetReg(far, p)
    OBVIOUS
  <2> PICK a : a = Instr("offset", i.tag, {r}, <<>>)
    OBVIOUS
  <2> PICK b : b = Instr("far", i.tag, {}, <<i.use[1], r>>)
    OBVIOUS
  <2>2. t = <<a, b>> /\ a.kind = "offset" /\ b.kind = "far"
    BY <1>3 DEF Checked, Instr
  <2>3. t \in Seq(Insn(MaxNode))
    <3>1. t \in Seq(Grown(n))
      BY CheckedCode
    <3>2. Grown(n) \subseteq Insn(MaxNode)
      BY InsnMonotonic DEF Grown
    <3> QED
      BY <3>1, <3>2, SeqMonotonic
  <2>4. a \in Insn(MaxNode) /\ b \in Insn(MaxNode)
    <3>1. \A k \in 1 .. Len(t) : t[k] \in Insn(MaxNode)
      BY <2>3, LenProperties
    <3>2. Len(t) = 2 /\ t[1] = a /\ t[2] = b
      BY <2>2
    <3>3. 1 \in 1 .. Len(t) /\ 2 \in 1 .. Len(t)
      BY <3>2
    <3> QED
      BY <3>1, <3>2, <3>3
  <2> DEFINE Q == {k \in Insn(MaxNode) : k.kind \notin {"push", "sp", "call"}}
  <2>5. a \in Q /\ b \in Q
    BY <2>2, <2>4
  <2> HIDE DEF Q
  <2>6. t \in Seq(Q)
    BY <2>2, <2>5
  <2> QED
    BY <2>1, <2>6, StillWalk DEF Q
<1>4. CASE p \notin far
  <2>1. t = <<i>>
    BY <1>4 DEF Checked
  <2>2. d[i] = SpChange(i) /\ (i \in c <=> i.kind = "call")
    BY <1>1 DEF Delta, CallsOf
  <2> HIDE DEF d, c, T
  <2>3. Walk(<<i>>, d, c, x, y)
    BY <1>2, <2>2, WalkOne
  <2> QED
    BY <1>2, <2>1, <2>3
<1> QED
  BY <1>3, <1>4


-------------------------------------------------------------------------------
\* Objects with numbers of their own.
Ids(s) == {x.id : x \in Range(s)}
Distinct(s) == \A j, k \in DOMAIN s : s[j].id = s[k].id => j = k
Objects == [id : Nat, size : Nat]

LEMMA JoinedDistinct ==
  ASSUME NEW s \in Seq(Objects), NEW t \in Seq(Objects), Distinct(s), Distinct(t),
         Ids(s) \cap Ids(t) = {}
  PROVE  s \o t \in Seq(Objects) /\ Distinct(s \o t) /\ Ids(s \o t) \subseteq Ids(s) \cup Ids(t)
<1> PICK w : w = s \o t
  OBVIOUS
<1> PICK M : M = Len(s)
  OBVIOUS
<1> PICK N : N = Len(t)
  OBVIOUS
<1>1. M \in Nat /\ N \in Nat /\ DOMAIN s = 1 .. M /\ DOMAIN t = 1 .. N
  BY LenProperties
<1>2. /\ w \in Seq(Objects) /\ Len(w) = M + N
      /\ \A k \in 1 .. M + N : w[k] = IF k <= M THEN s[k] ELSE t[k - M]
  BY ConcatProperties
<1>3. DOMAIN w = 1 .. M + N
  BY <1>2, LenProperties
<1>4. \A k \in 1 .. M + N : \/ k \in 1 .. M /\ w[k] = s[k]
                            \/ k - M \in 1 .. N /\ w[k] = t[k - M]
  <2>1. ASSUME NEW k \in 1 .. M + N, k <= M PROVE k \in 1 .. M /\ w[k] = s[k]
    BY <1>1, <1>2, <2>1
  <2>2. ASSUME NEW k \in 1 .. M + N, ~(k <= M) PROVE k - M \in 1 .. N /\ w[k] = t[k - M]
    BY <1>1, <1>2, <2>2
  <2> QED
    BY <2>1, <2>2
<1>5. /\ \A k \in 1 .. M : s[k].id \in Ids(s)
      /\ \A k \in 1 .. N : t[k].id \in Ids(t)
  BY <1>1 DEF Ids, Range
<1>6. ASSUME NEW j \in 1 .. M + N, NEW k \in 1 .. M + N, w[j].id = w[k].id PROVE j = k
  <2>1. CASE j \in 1 .. M /\ w[j] = s[j] /\ k \in 1 .. M /\ w[k] = s[k]
    BY <1>1, <1>6, <2>1 DEF Distinct
  <2>2. CASE j \in 1 .. M /\ w[j] = s[j] /\ k - M \in 1 .. N /\ w[k] = t[k - M]
    BY <1>5, <1>6, <2>2
  <2>3. CASE j - M \in 1 .. N /\ w[j] = t[j - M] /\ k \in 1 .. M /\ w[k] = s[k]
    BY <1>5, <1>6, <2>3
  <2>4. CASE j - M \in 1 .. N /\ w[j] = t[j - M] /\ k - M \in 1 .. N /\ w[k] = t[k - M]
    <3>1. j - M = k - M
      BY <1>1, <1>6, <2>4 DEF Distinct
    <3> QED
      BY <1>1, <3>1
  <2> QED
    BY <1>4, <2>1, <2>2, <2>3, <2>4
<1>7. ASSUME NEW k \in 1 .. M + N PROVE w[k].id \in Ids(s) \cup Ids(t)
  BY <1>4, <1>5
<1>8. Distinct(w)
  BY <1>3, <1>6 DEF Distinct
<1>9. Ids(w) \subseteq Ids(s) \cup Ids(t)
  BY <1>3, <1>7 DEF Ids, Range
<1> QED
  BY <1>2, <1>8, <1>9

(* Every register that was spilled has at most one slot.                   *)
LEMMA NewSlots ==
  ASSUME spilled \in Seq(Nat), IsInjective(spilled),
         NEW w, w = FlattenSeq([k \in DOMAIN spilled |-> SlotFor(spilled[k])])
  PROVE  w \in Seq(Objects) /\ Distinct(w) /\ Ids(w) \subseteq Range(spilled)
<1> PICK ss : ss = [k \in DOMAIN spilled |-> SlotFor(spilled[k])]
  OBVIOUS
<1> PICK N : N = Len(spilled)
  OBVIOUS
<1>1. N \in Nat /\ DOMAIN spilled = 1 .. N /\ \A k \in 1 .. N : spilled[k] \in Nat
  BY LenProperties
<1>2. ASSUME NEW k \in 1 .. N
      PROVE  ss[k] \in Seq(Objects) /\ Distinct(ss[k]) /\ Ids(ss[k]) \subseteq {spilled[k]}
  <2> PICK n \in Nat : n = spilled[k]
    BY <1>1
  <2>1. ss[k] = SlotFor(n)
    BY <1>1
  <2>2. CASE n \in DOMAIN remat
    <3>1. ss[k] = <<>>
      BY <2>1, <2>2 DEF SlotFor
    <3>2. ss[k] \in Seq(Objects)
      BY <3>1, EmptySeq
    <3> QED
      BY <3>1, <3>2 DEF Distinct, Ids, Range
  <2>3. CASE n \notin DOMAIN remat
    <3> PICK o \in Objects : o = [id |-> n, size |-> 1]
      BY DEF Objects
    <3>1. ss[k] = <<o>>
      BY <2>1, <2>3 DEF SlotFor, Slot
    <3>2. o.id = n /\ spilled[k] = n
      OBVIOUS
    <3> PICK t : t = <<o>>
      OBVIOUS
    <3>3. t \in Seq(Objects) /\ DOMAIN t = {1} /\ t[1] = o
      OBVIOUS
    <3>4. Distinct(t)
      BY <3>3 DEF Distinct
    <3>5. Ids(t) \subseteq {n}
      BY <3>2, <3>3 DEF Ids, Range
    <3> QED
      BY <3>1, <3>2, <3>3, <3>4, <3>5
  <2> QED
    BY <2>2, <2>3
<1>3. ss \in Seq(Seq(Objects)) /\ Len(ss) = N
  <2>1. ss \in [1 .. N -> Seq(Objects)]
    BY <1>1, <1>2
  <2> QED
    BY <1>1, <2>1, CodeOf
<1>4. PICK g : JoinedUp(ss, Objects, g)
  BY <1>3, FlattenSteps
<1>5. /\ g[0] = <<>> /\ \A k \in 0 .. N : g[k] \in Seq(Objects)
      /\ \A k \in 1 .. N : g[k] = g[k - 1] \o ss[k]
      /\ w = g[N]
  BY <1>3, <1>4 DEF JoinedUp
<1> DEFINE P == {k \in 0 .. N : Distinct(g[k]) /\ Ids(g[k]) \subseteq {spilled[j] : j \in 1 .. k}}
<1>6. 0 \in P
  <2>1. Distinct(g[0]) /\ Ids(g[0]) = {}
    BY <1>5 DEF Distinct, Ids, Range
  <2> QED
    BY <1>1, <2>1
<1>7. ASSUME NEW k \in 1 .. N, k - 1 \in P PROVE k \in P
  <2>1. k \in 0 .. N /\ k - 1 \in 0 .. N /\ \A j \in 1 .. k - 1 : j \in 1 .. N /\ j # k
    BY <1>1
  <2>2. Distinct(g[k - 1]) /\ Ids(g[k - 1]) \subseteq {spilled[j] : j \in 1 .. k - 1}
    BY <1>7
  <2>3. spilled[k] \notin {spilled[j] : j \in 1 .. k - 1}
    BY <1>1, <2>1 DEF IsInjective
  <2>4. Ids(g[k - 1]) \cap Ids(ss[k]) = {}
    BY <1>2, <2>2, <2>3
  <2> PICK a : a = g[k - 1]
    OBVIOUS
  <2> PICK b : b = ss[k]
    OBVIOUS
  <2>5. Distinct(a \o b) /\ Ids(a \o b) \subseteq Ids(a) \cup Ids(b)
    <3>1. a \in Seq(Objects) /\ b \in Seq(Objects) /\ Distinct(a) /\ Distinct(b) /\ Ids(a) \cap Ids(b) = {}
      BY <1>2, <1>5, <2>1, <2>2, <2>4
    <3> QED
      BY <3>1, JoinedDistinct
  <2>6. {spilled[j] : j \in 1 .. k - 1} \cup {spilled[k]} \subseteq {spilled[j] : j \in 1 .. k}
    <3>1. k \in 1 .. k /\ \A j \in 1 .. k - 1 : j \in 1 .. k
      BY <1>1
    <3> QED
      BY <3>1
  <2>7. Distinct(g[k]) /\ Ids(g[k]) \subseteq {spilled[j] : j \in 1 .. k}
    BY <1>2, <1>5, <2>2, <2>5, <2>6
  <2> QED
    BY <2>1, <2>7
<1>8. N \in P
  <2> HIDE DEF P
  <2>1. 0 .. N \subseteq P
    BY <1>1, <1>6, <1>7, UpToInduction
  <2> QED
    BY <1>1, <2>1
<1>9. Distinct(w) /\ Ids(w) \subseteq {spilled[j] : j \in 1 .. N}
  BY <1>5, <1>8
<1>10. w \in Seq(Objects)
  BY <1>1, <1>5
<1> QED
  BY <1>1, <1>9, <1>10 DEF Range


-------------------------------------------------------------------------------
LEMMA StackInitInv ==
  ASSUME FrameInit
  PROVE  StackInv
<1>1. /\ source \in Programs /\ blocks = source.blocks /\ objects = source.arrays
      /\ reg_n = 1 + Max(Regs(source.blocks) \cup Machine)
      /\ spilled = <<>> /\ pc = "build"
  BY DEF FrameInit, RegInit
<1>2. /\ \A b \in DOMAIN blocks : Balanced(blocks[b].insts)
      /\ objects \in Seq([id : Nat \ Node, size : Nat])
      /\ \A j, k \in DOMAIN objects : objects[j].id = objects[k].id => j = k
      /\ blocks \in Seq(Block(MaxNode))
  BY <1>1, StackAssumption, ProgramsAssumption
<1>3. objects \in Seq([id : Nat, size : Nat]) /\ \A x \in Range(objects) : x.id \notin Node
  <2> DEFINE O == [id : Nat \ Node, size : Nat]
             R == [id : Nat, size : Nat]
  <2>1. O \subseteq R /\ \A o \in O : o.id \notin Node
    OBVIOUS
  <2>2. objects \in Seq(O)
    BY <1>2
  <2> HIDE DEF O, R
  <2>3. objects \in Seq(R)
    BY <2>1, <2>2, SeqMonotonic
  <2>4. \A k \in DOMAIN objects : objects[k] \in O
    BY <2>2, LenProperties
  <2>5. \A x \in Range(objects) : x.id \notin Node
    BY <2>1, <2>4 DEF Range
  <2> QED
    BY <2>3, <2>5 DEF R
<1>4. MaxNode \in Nat /\ K \in Nat
  BY RegisterAssumption
<1>5. Regs(blocks) \subseteq Node
  BY <1>2, <1>4, CodeParts DEF Node
<1>6. reg_n .. MaxNode - 1 \subseteq Node
  <2>1. CodeOK
    BY FrameInitInv DEF FrameInv
  <2>2. reg_n \in K .. MaxNode
    BY <2>1 DEF CodeOK
  <2>3. \A k \in reg_n .. MaxNode - 1 : k \in 0 .. MaxNode - 1
    BY <1>4, <2>2
  <2> QED
    BY <2>3 DEF Node
<1>7. IsInjective(spilled)
  BY <1>1 DEF IsInjective
<1> QED
  BY <1>1, <1>2, <1>3, <1>5, <1>6, <1>7 DEF StackInv

\* What one state has to give the next.
LEMMA StackKept ==
  ASSUME StackInv, source' = source, blocks' = blocks, reg_n' = reg_n, objects' = objects,
         IsInjective(spilled'), pc' # "framed" \/ UNCHANGED <<pc, frame, color>>
  PROVE  StackInv'
<1>1. UNCHANGED <<pc, frame, color>> => (frame = Layout => frame' = Layout')
  BY DEF Layout, Place, Padded, Saved
<1>2. pc' = "framed" => frame' = Layout'
  BY <1>1 DEF StackInv
<1> QED
  BY <1>2 DEF StackInv

(* select_spill chooses a register that is in the graph, so no register is *)
(* on the list twice.                                                      *)
LEMMA SpilledOnce ==
  ASSUME FrameInv, StackInv, Step
  PROVE  IsInjective(spilled') /\ pc' # "framed" /\ pc # "framed"
<1>1. pc # "framed" /\ pc # "build"
  BY DEF Step, Prepare, Simplify, StartCoalesce, Coalesce, EndCoalesce, Freeze, Spill, Leave, Color,
         EndColor
<1>2. Inv
  BY <1>1 DEF FrameInv
<1>3. pc' # "framed"
  BY <1>1 DEF Step, Prepare, Simplify, StartCoalesce, Coalesce, EndCoalesce, Freeze, Spill, Leave,
         Color, EndColor
<1>4. IsInjective(spilled)
  BY DEF StackInv
<1>5. CASE Spill
  <2> PICK n : n = SpillChoice
    OBVIOUS
  <2>1. spilled' = Append(spilled, n) /\ pc = "freeze"
    BY <1>5 DEF Spill
  <2>2. n \in remain
    BY <1>2, <1>5, SpillStep DEF Spill
  <2>3. n \notin Range(spilled) /\ spilled \in Seq(Node \ Machine) /\ n \in Node \ Machine
    BY <1>2, <2>1, <2>2 DEF Inv, Places, Dismantling, TypeOK
  <2> PICK s : s = spilled'
    OBVIOUS
  <2> PICK N : N = Len(spilled)
    OBVIOUS
  <2>4. /\ N \in Nat /\ DOMAIN spilled = 1 .. N /\ DOMAIN s = 1 .. N + 1
        /\ s[N + 1] = n /\ \A k \in 1 .. N : s[k] = spilled[k] /\ spilled[k] # n
    <3>1. N \in Nat /\ DOMAIN spilled = 1 .. N
      BY <2>3, LenProperties
    <3>2. \A k \in 1 .. N : spilled[k] # n
      BY <2>3, <3>1 DEF Range
    <3> QED
      BY <2>1, <2>3, <3>1, <3>2, AppendProperties
  <2>5. \A k \in 1 .. N + 1 : k = N + 1 \/ k \in 1 .. N
    BY <2>4
  <2> QED
    BY <1>1, <1>3, <1>4, <2>4, <2>5 DEF IsInjective
<1>6. CASE ~Spill
  <2>1. spilled' = spilled
    BY <1>6 DEF Step, Prepare, Simplify, StartCoalesce, Coalesce, EndCoalesce, Freeze, Leave, Color,
           EndColor, Combine
  <2> QED
    BY <1>1, <1>3, <1>4, <2>1
<1> QED
  BY <1>5, <1>6


-------------------------------------------------------------------------------
\* f of the instructions of block b.
InPlace(f, b) == [k \in DOMAIN blocks[b].insts |-> f[<<b, k>>]]

(* Code put in the places of instructions, when it moves sp as they do.    *)
LEMMA PatchBalanced ==
  ASSUME CodeOK, \A b \in DOMAIN blocks : Balanced(blocks[b].insts),
         NEW f, \A p \in Instructions(blocks) : Stands(f[p], At(blocks, p)),
         NEW b \in DOMAIN blocks, NEW c, c = [blocks[b] EXCEPT !.insts = FlattenSeq(InPlace(f, b))]
  PROVE  Balanced(c.insts)
<1> PICK s : s = blocks[b].insts
  OBVIOUS
<1> PICK ss : ss = [k \in DOMAIN s |-> f[<<b, k>>]]
  OBVIOUS
<1>1. s \in Seq(Insn(MaxNode)) /\ Balanced(s)
  BY CodeAt
<1>2. \A k \in DOMAIN s : <<b, k>> \in Instructions(blocks) /\ At(blocks, <<b, k>>) = s[k]
  BY DEF Instructions, At
<1>3. \A k \in DOMAIN s : Stands(ss[k], s[k])
  BY <1>2
<1>4. ss = [k \in DOMAIN s |-> ss[k]]
  OBVIOUS
<1>5. Balanced(FlattenSeq(ss))
  BY <1>1, <1>3, <1>4, StandingIn
<1>6. ss = InPlace(f, b)
  BY DEF InPlace
<1>7. blocks[b] \in [insts : Seq(Insn(reg_n)), succ : SUBSET Nat, depth : Nat]
  <2>1. blocks \in Seq(Block(reg_n))
    BY DEF CodeOK
  <2> QED
    BY <2>1, LenProperties DEF Block
<1>8. c.insts = FlattenSeq(ss)
  <2> PICK t : t = FlattenSeq(ss)
    OBVIOUS
  <2>1. c = [blocks[b] EXCEPT !.insts = t]
    BY <1>6
  <2> QED
    BY <1>7, <2>1
<1> QED
  BY <1>5, <1>8

(* What was spilled are pseudo registers of the code.                      *)
LEMMA SpilledPseudo ==
  ASSUME FrameInv, pc = "rewrite"
  PROVE  Range(spilled) \subseteq Regs(blocks) /\ Range(spilled) \cap Machine = {}
<1>1. Range(spilled) \subseteq graph.occur /\ spilled \in Seq(Node \ Machine)
  BY DEF FrameInv, Inv, TypeOK, ListsTyped
<1>2. graph.occur = Regs(blocks)
  BY DEF FrameInv, GraphOf
<1>3. Range(spilled) \subseteq Node \ Machine
  BY <1>1, LenProperties DEF Range
<1> QED
  BY <1>1, <1>2, <1>3

LEMMA SpillingInv ==
  ASSUME FrameInv, StackInv, Spilling
  PROVE  StackInv'
<1>1. /\ pc = "rewrite" /\ pc' = "build" /\ source' = source /\ spilled' = spilled
      /\ reg_n' = reg_n + Cardinality(Sites) /\ reg_n' <= MaxNode
      /\ blocks' = [b \in DOMAIN blocks |->
                      [blocks[b] EXCEPT !.insts =
                         FlattenSeq([k \in DOMAIN @ |-> Rewritten(<<b, k>>)])]]
  BY DEF Spilling, Rewrite
<1>2. CodeOK /\ reg_n \in Nat /\ MaxNode \in Nat
  BY CodeAt DEF FrameInv
<1>3. spilled \in Seq(0 .. reg_n - 1)
  BY <1>1, SpilledRegisters
<1>4. Range(spilled) \subseteq Regs(blocks) /\ Range(spilled) \cap Machine = {}
  BY <1>1, SpilledPseudo
<1>5. Cardinality(Sites) \in Nat
  BY <1>2, <1>3, TempRange
<1> PICK n \in Nat : n = reg_n'
  BY <1>1, <1>2, <1>5
<1>6. \A p \in Instructions(blocks) : Stands(Rewritten(p), At(blocks, p))
  BY <1>1, <1>2, <1>3, <1>4, RewrittenStands
<1>7. \A b \in DOMAIN blocks : Balanced(blocks'[b].insts)
  <2> PICK f : f = [p \in Instructions(blocks) |-> Rewritten(p)]
    OBVIOUS
  <2>1. \A p \in Instructions(blocks) : f[p] = Rewritten(p)
    OBVIOUS
  <2> TAKE b \in DOMAIN blocks
  <2> DEFINE ss == [k \in DOMAIN blocks[b].insts |-> Rewritten(<<b, k>>)]
  <2>2. \A k \in DOMAIN blocks[b].insts : f[<<b, k>>] = Rewritten(<<b, k>>)
    BY <2>1 DEF Instructions
  <2>3. ss = InPlace(f, b)
    BY <2>2 DEF InPlace
  <2> PICK c : c = blocks'[b]
    OBVIOUS
  <2>4. c = [blocks[b] EXCEPT !.insts = FlattenSeq(ss)]
    BY <1>1
  <2> HIDE DEF ss
  <2>5. c = [blocks[b] EXCEPT !.insts = FlattenSeq(InPlace(f, b))]
    BY <2>3, <2>4
  <2>6. \A d \in DOMAIN blocks : Balanced(blocks[d].insts)
    BY DEF StackInv
  <2>7. \A p \in Instructions(blocks) : Stands(f[p], At(blocks, p))
    BY <1>6, <2>1
  <2>8. Balanced(c.insts)
    BY <1>2, <2>5, <2>6, <2>7, PatchBalanced
  <2> QED
    BY <2>8
<1>8. DOMAIN blocks' = DOMAIN blocks
  BY <1>1
<1>9. Regs(blocks') \subseteq (Regs(blocks) \ Range(spilled)) \cup (reg_n .. reg_n' - 1)
  BY RewriteStep DEF Spilling, Kept
<1> PICK w : w = FlattenSeq([k \in DOMAIN spilled |-> SlotFor(spilled[k])])
  OBVIOUS
<1>10. w \in Seq(Objects) /\ Distinct(w) /\ Ids(w) \subseteq Range(spilled)
  <2>1. spilled \in Seq(Nat) /\ IsInjective(spilled)
    <3>1. 0 .. reg_n - 1 \subseteq Nat
      BY <1>2
    <3> QED
      BY <1>3, <3>1, SeqMonotonic DEF StackInv
  <2> QED
    BY <2>1, NewSlots
<1>11. objects' = objects \o w
  BY DEF Spilling
<1>12. objects \in Seq(Objects) /\ Distinct(objects)
  BY DEF StackInv, Objects, Distinct
<1>13. \A i \in Ids(objects) : i \notin Regs(blocks) \cup (reg_n .. MaxNode - 1)
  BY DEF StackInv, Ids
<1>14. objects' \in Seq(Objects) /\ Distinct(objects') /\ Ids(objects') \subseteq Ids(objects) \cup Ids(w)
  <2>1. Ids(objects) \cap Ids(w) = {}
    BY <1>4, <1>10, <1>13
  <2> QED
    BY <1>10, <1>11, <1>12, <2>1, JoinedDistinct
<1>15. \A i \in Ids(objects') : i \notin Regs(blocks') \cup (reg_n' .. MaxNode - 1)
  <2>1. \A i \in reg_n .. reg_n' - 1 : i \in reg_n .. MaxNode - 1
    BY <1>1, <1>2, <1>5
  <2>2. \A i \in reg_n' .. MaxNode - 1 : i \in reg_n .. MaxNode - 1 /\ i \notin 0 .. reg_n - 1
    BY <1>1, <1>2, <1>5
  <2>3. Range(spilled) \subseteq 0 .. reg_n - 1
    <3> PICK m : m = reg_n - 1
      OBVIOUS
    <3> QED
      BY <1>3, LenProperties DEF Range
  <2>4. \A i \in reg_n .. reg_n' - 1 : i \notin 0 .. reg_n - 1
    BY <1>1, <1>2, <1>5
  <2>5. ASSUME NEW i \in Ids(objects) PROVE i \notin Regs(blocks') \cup (reg_n' .. MaxNode - 1)
    BY <1>9, <1>13, <2>1, <2>2, <2>5
  <2>6. ASSUME NEW i \in Ids(w) PROVE i \notin Regs(blocks') \cup (reg_n' .. MaxNode - 1)
    BY <1>9, <1>10, <2>2, <2>3, <2>4, <2>6
  <2> QED
    BY <1>14, <2>5, <2>6
<1>16. \A x \in Range(objects') : x.id \notin Regs(blocks') \cup (reg_n' .. MaxNode - 1)
  BY <1>15 DEF Ids
<1>17. \A j, k \in DOMAIN objects' : objects'[j].id = objects'[k].id => j = k
  BY <1>14 DEF Distinct
<1>18. objects' \in Seq([id : Nat, size : Nat])
  BY <1>14 DEF Objects
<1> QED
  BY <1>1, <1>7, <1>8, <1>16, <1>17, <1>18 DEF StackInv

LEMMA ReplacedInv ==
  ASSUME FrameInv, StackInv, Replace
  PROVE  StackInv'
<1> PICK far : far = FarStores(Layout)
  OBVIOUS
<1>1. /\ pc' = "build" /\ source' = source /\ spilled' = spilled /\ objects' = objects
      /\ reg_n' = reg_n + Cardinality(far) /\ reg_n' <= MaxNode
      /\ blocks' = [b \in DOMAIN blocks |->
                      [blocks[b] EXCEPT !.insts =
                         FlattenSeq([k \in DOMAIN @ |-> Checked(far, <<b, k>>)])]]
  BY DEF Replace
<1>2. CodeOK /\ reg_n \in Nat /\ MaxNode \in Nat
  BY CodeAt DEF FrameInv
<1>3. far \in SUBSET Instructions(blocks) /\ \A p \in far : At(blocks, p).kind = "store"
  BY DEF FarStores
<1>4. Cardinality(far) \in Nat
  BY <1>2, <1>3, OffsetRange
<1> PICK n \in Nat : n = reg_n'
  BY <1>1, <1>2, <1>4
<1>5. \A p \in Instructions(blocks) : Stands(Checked(far, p), At(blocks, p))
  BY <1>1, <1>2, <1>3, CheckedStands
<1>6. \A b \in DOMAIN blocks : Balanced(blocks'[b].insts)
  <2> PICK f : f = [p \in Instructions(blocks) |-> Checked(far, p)]
    OBVIOUS
  <2>1. \A p \in Instructions(blocks) : f[p] = Checked(far, p)
    OBVIOUS
  <2> TAKE b \in DOMAIN blocks
  <2> DEFINE ss == [k \in DOMAIN blocks[b].insts |-> Checked(far, <<b, k>>)]
  <2>2. \A k \in DOMAIN blocks[b].insts : f[<<b, k>>] = Checked(far, <<b, k>>)
    BY <2>1 DEF Instructions
  <2>3. ss = InPlace(f, b)
    BY <2>2 DEF InPlace
  <2> PICK c : c = blocks'[b]
    OBVIOUS
  <2>4. c = [blocks[b] EXCEPT !.insts = FlattenSeq(ss)]
    BY <1>1
  <2> HIDE DEF ss
  <2>5. c = [blocks[b] EXCEPT !.insts = FlattenSeq(InPlace(f, b))]
    BY <2>3, <2>4
  <2>6. \A d \in DOMAIN blocks : Balanced(blocks[d].insts)
    BY DEF StackInv
  <2>7. \A p \in Instructions(blocks) : Stands(f[p], At(blocks, p))
    BY <1>5, <2>1
  <2>8. Balanced(c.insts)
    BY <1>2, <2>5, <2>6, <2>7, PatchBalanced
  <2> QED
    BY <2>8
<1>7. DOMAIN blocks' = DOMAIN blocks
  BY <1>1
<1>8. \A i \in Regs(blocks') \cup (reg_n' .. MaxNode - 1) : i \in Regs(blocks) \cup (reg_n .. MaxNode - 1)
  <2>1. Regs(blocks') \subseteq Regs(blocks) \cup (reg_n .. reg_n' - 1)
    BY ReplaceStep
  <2>2. \A i \in reg_n .. reg_n' - 1 : i \in reg_n .. MaxNode - 1
    BY <1>1, <1>2, <1>4
  <2>3. \A i \in reg_n' .. MaxNode - 1 : i \in reg_n .. MaxNode - 1
    BY <1>1, <1>2, <1>4
  <2> QED
    BY <2>1, <2>2, <2>3
<1>9. \A x \in Range(objects) : x.id \notin Regs(blocks) \cup (reg_n .. MaxNode - 1)
  BY DEF StackInv
<1>10. \A x \in Range(objects') : x.id \notin Regs(blocks') \cup (reg_n' .. MaxNode - 1)
  BY <1>1, <1>8, <1>9
<1> QED
  BY <1>1, <1>6, <1>7, <1>10 DEF StackInv


LEMMA StackNextInv ==
  ASSUME FrameInv, StackInv, [FrameStep \/ Framed]_state
  PROVE  StackInv'
<1>1. CASE Allocate
  <2>1. CASE Build
    <3>1. pc' = "loop" /\ spilled' = <<>> /\ UNCHANGED <<source, blocks, reg_n, objects>>
      BY <1>1, <2>1 DEF Allocate, Build, Restart, code
    <3>2. IsInjective(spilled')
      BY <3>1 DEF IsInjective
    <3> QED
      BY <3>1, <3>2, StackKept
  <2>2. CASE Step /\ UNCHANGED code
    <3>1. IsInjective(spilled') /\ pc' # "framed"
      BY <2>2, SpilledOnce
    <3> QED
      BY <1>1, <2>2, <3>1, StackKept DEF Allocate, code
  <2> QED
    BY <1>1, <2>1, <2>2 DEF Allocate, RegStep
<1>2. CASE Spilling
  BY <1>2, SpillingInv
<1>3. CASE Replace
  BY <1>3, ReplacedInv
<1>4. CASE Finish
  <2>1. frame' = Layout /\ Layout' = Layout
    BY <1>4 DEF Finish, code, Layout, Place, Padded, Saved
  <2> QED
    BY <1>4, <2>1 DEF Finish, StackInv, code
<1>5. CASE UNCHANGED state
  BY <1>5, StackKept DEF state, vars, code, StackInv
<1> QED
  BY <1>1, <1>2, <1>3, <1>4, <1>5 DEF FrameStep, Framed

(* Whatever the rounds put into the code leaves sp where it was, and slots *)
(* belong to registers that are gone from the code for good                *)
(* (rewrite_function, check_store_stack).                                  *)
THEOREM StackInvCorrect == FrameSpec => []StackInv
BY StackInitInv, StackNextInv, FrameInvCorrect, PTL DEF FrameSpec


-------------------------------------------------------------------------------
\* The sizes of objects.
Sizes(s) == [k \in 1 .. Len(s) |-> s[k].size]

(* The size of the objects is the sum of their sizes.                      *)
LEMMA SizeSums ==
  ASSUME NEW s \in Seq(Objects)
  PROVE  \E r : Sums(r, Sizes(s), Len(s)) /\ Size(s) = r[Len(s)]
<1> PICK N : N = Len(s)
  OBVIOUS
<1> PICK e : e = Sizes(s)
  OBVIOUS
<1>1. N \in Nat /\ DOMAIN s = 1 .. N /\ \A k \in 1 .. N : s[k] \in Objects
  BY LenProperties
<1>2. \A k \in 1 .. N : e[k] = s[k].size /\ e[k] \in Int
  BY <1>1 DEF Sizes, Objects
<1> DEFINE F == CHOOSE g : g = [t \in SUBSET (1 .. N) |->
                  IF t = {} THEN 0 ELSE g[t \ {Max(t)}] + s[Max(t)].size]
<1>3. Size(s) = F[1 .. N]
  BY <1>1 DEF Size, FoldLeft, MapThenFoldSet
<1>4. PICK g : AddUp(e, N, g)
  BY <1>1, <1>2, AddUpExists
<1>5. \A t \in SUBSET (1 .. N) : t # {} => e[Max(t)] = s[Max(t)].size
  BY <1>1, <1>2, MaxOf
<1>6. g = [t \in SUBSET (1 .. N) |-> IF t = {} THEN 0 ELSE g[t \ {Max(t)}] + s[Max(t)].size]
  BY <1>4, <1>5 DEF AddUp
<1>7. F = [t \in SUBSET (1 .. N) |-> IF t = {} THEN 0 ELSE F[t \ {Max(t)}] + s[Max(t)].size]
  BY <1>6
<1> HIDE DEF F
<1>8. AddUp(e, N, F)
  BY <1>5, <1>7 DEF AddUp
<1>9. \E r : Sums(r, e, N) /\ F[1 .. N] = r[N]
  BY <1>1, <1>2, <1>8, AddedUp
<1> QED
  BY <1>3, <1>9

(* The objects after the k-th.                                             *)
LEMMA SizeOfRest ==
  ASSUME NEW s \in Seq(Objects), NEW r, Sums(r, Sizes(s), Len(s)), NEW k \in Nat, k \in DOMAIN s
  PROVE  Size(SubSeq(s, 1 + k, Len(s))) = r[Len(s)] - r[k]
<1> PICK N : N = Len(s)
  OBVIOUS
<1> PICK t : t = SubSeq(s, 1 + k, N)
  OBVIOUS
<1>1. N \in Nat /\ DOMAIN s = 1 .. N /\ \A j \in 1 .. N : s[j] \in Objects
  BY LenProperties
<1>2. k \in Nat /\ k \in 0 .. N /\ k <= N
  BY <1>1
<1> PICK M \in Nat : M = N - k
  BY <1>1, <1>2
<1>3. t \in Seq(Objects) /\ Len(t) = M /\ \A j \in 1 .. M : t[j] = s[k + j]
  <2> PICK m \in Int : m = 1 + k
    BY <1>2
  <2>1. m \in Int /\ N \in Int /\ \A j \in m .. N : s[j] \in Objects
    BY <1>1, <1>2
  <2>2. /\ t \in Seq(Objects) /\ Len(t) = IF m <= N THEN N - m + 1 ELSE 0
        /\ \A j \in 1 .. N - m + 1 : t[j] = s[m + j - 1]
    BY <2>1, SubSeqProperties
  <2>3. N \in Nat /\ k \in Nat /\ k <= N /\ m \in Int
    BY <1>1, <1>2, <2>1
  <2>4. N - m + 1 = M /\ (~(m <= N) => M = 0) /\ \A j \in 1 .. M : m + j - 1 = k + j
    BY <2>3
  <2> QED
    BY <2>2, <2>4
<1>4. PICK q : Sums(q, Sizes(t), M) /\ Size(t) = q[M]
  BY <1>3, SizeSums
<1> PICK e : e = Sizes(s)
  OBVIOUS
<1> PICK f : f = Sizes(t)
  OBVIOUS
<1>5. /\ \A j \in 1 .. N : e[j] \in Int
      /\ \A j \in 1 .. M : f[j] = e[k + j]
  <2>1. \A j \in 1 .. M : k + j \in 1 .. N
    BY <1>1, <1>2
  <2>2. \A j \in 1 .. N : e[j] = s[j].size /\ s[j].size \in Int
    BY <1>1 DEF Sizes, Objects
  <2>3. \A j \in 1 .. M : f[j] = t[j].size
    BY <1>3 DEF Sizes
  <2> QED
    BY <1>3, <2>1, <2>2, <2>3
<1>6. Sums(r, e, N) /\ Sums(q, f, M)
  BY <1>4
<1>7. RestOf(f, e, N, k)
  BY <1>1, <1>2, <1>5 DEF RestOf
<1>8. q[N - k] = r[N] - r[k]
  BY <1>1, <1>6, <1>7, SumOfRest
<1> QED
  BY <1>4, <1>8


\* Where the objects lie, the last one lowest.
Placed(s) ==
  [x \in Ids(s) |-> Size(SubSeq(s, 1 + CHOOSE k \in DOMAIN s : s[k].id = x, Len(s)))]

Apart(a, m, b, n) == a + m <= b \/ b + n <= a

LEMMA ObjectsApart ==
  ASSUME NEW s \in Seq(Objects), Distinct(s), NEW at, at = Placed(s)
  PROVE  /\ Size(s) \in Nat
         /\ \A x, y \in Range(s) :
              /\ at[x.id] \in Nat /\ at[x.id] + x.size <= Size(s)
              /\ x # y => Apart(at[x.id], x.size, at[y.id], y.size)
<1> PICK N : N = Len(s)
  OBVIOUS
<1>1. N \in Nat /\ DOMAIN s = 1 .. N /\ \A k \in 1 .. N : s[k] \in Objects
  BY LenProperties
<1> PICK e : e = Sizes(s)
  OBVIOUS
<1>2. \A k \in 1 .. N : e[k] = s[k].size /\ e[k] \in Nat
  BY <1>1 DEF Sizes, Objects
<1>3. PICK r : Sums(r, e, N) /\ Size(s) = r[N]
  BY SizeSums
<1>4. \A j \in 0 .. N : \A i \in 0 .. j : r[i] <= r[j]
  BY <1>1, <1>2, <1>3, SumsGrow
<1>5. /\ \A k \in 0 .. N : r[k] \in Int
      /\ r[0] = 0
      /\ \A k \in 1 .. N : r[k] = r[k - 1] + s[k].size
  BY <1>2, <1>3 DEF Sums
<1>6. ASSUME NEW k \in 1 .. N PROVE at[s[k].id] = r[N] - r[k]
  <2>1. s[k].id \in Ids(s)
    BY <1>1 DEF Ids, Range
  <2>2. \A j \in DOMAIN s : s[j].id = s[k].id <=> j = k
    BY <1>1 DEF Distinct
  <2>3. (CHOOSE j \in DOMAIN s : s[j].id = s[k].id) = k
    BY <1>1, <2>2
  <2>4. at[s[k].id] = Size(SubSeq(s, 1 + k, Len(s)))
    BY <2>1, <2>3 DEF Placed
  <2>5. k \in Nat /\ k \in DOMAIN s
    BY <1>1
  <2> QED
    BY <1>3, <2>4, <2>5, SizeOfRest
<1>7. ASSUME NEW k \in 1 .. N
      PROVE  /\ at[s[k].id] \in Nat /\ s[k].size \in Nat /\ at[s[k].id] = r[N] - r[k]
             /\ at[s[k].id] + s[k].size = r[N] - r[k - 1]
             /\ r[N] \in Int /\ r[k] \in Int /\ r[k - 1] \in Int
  <2>1. k \in 0 .. N /\ k - 1 \in 0 .. N /\ N \in 0 .. N /\ k \in 0 .. N
    BY <1>1
  <2>2. r[k] <= r[N] /\ r[N] \in Int /\ r[k] \in Int /\ r[k - 1] \in Int
    BY <1>4, <1>5, <2>1
  <2>3. r[k] = r[k - 1] + s[k].size /\ s[k].size \in Nat
    BY <1>1, <1>5 DEF Objects
  <2>4. at[s[k].id] = r[N] - r[k]
    BY <1>6
  <2>5. at[s[k].id] \in Nat
    BY <2>2, <2>4
  <2> PICK a \in Int : a = r[k - 1]
    BY <2>2
  <2> PICK z \in Nat : z = s[k].size
    BY <2>3
  <2> PICK c \in Int : c = r[N]
    BY <2>2
  <2> PICK b \in Int : b = r[k]
    BY <2>2
  <2>6. at[s[k].id] + s[k].size = r[N] - r[k - 1]
    <3>1. at[s[k].id] = c - b /\ b = a + z
      BY <2>3, <2>4
    <3>2. \A u, v, w \in Int : u - (v + w) + w = u - v
      OBVIOUS
    <3>3. c - (a + z) + z = c - a
      BY <3>2
    <3> QED
      BY <3>1, <3>3
  <2> QED
    BY <2>2, <2>3, <2>4, <2>5, <2>6
<1>8. Size(s) \in Nat
  <2>1. r[0] <= r[N] /\ r[N] \in Int
    BY <1>1, <1>4, <1>5
  <2> QED
    BY <1>3, <1>5, <2>1
<1>9. ASSUME NEW k \in 1 .. N PROVE at[s[k].id] + s[k].size <= Size(s)
  <2>1. r[0] <= r[k - 1]
    BY <1>1, <1>4
  <2> QED
    BY <1>3, <1>5, <1>7, <2>1
<1>10. ASSUME NEW j \in 1 .. N, NEW k \in 1 .. N, j < k
       PROVE  at[s[k].id] + s[k].size <= at[s[j].id]
  <2>1. r[j] <= r[k - 1]
    BY <1>1, <1>4, <1>10
  <2>2. at[s[j].id] = r[N] - r[j] /\ r[j] \in Int
    BY <1>7
  <2>3. at[s[k].id] + s[k].size = r[N] - r[k - 1] /\ r[N] \in Int /\ r[k - 1] \in Int
    BY <1>7
  <2> QED
    BY <2>1, <2>2, <2>3
<1>11. ASSUME NEW j \in 1 .. N, NEW k \in 1 .. N, s[j] # s[k]
       PROVE  Apart(at[s[j].id], s[j].size, at[s[k].id], s[k].size)
  <2>1. CASE j < k
    BY <1>10, <2>1 DEF Apart
  <2>2. CASE k < j
    BY <1>10, <2>2 DEF Apart
  <2> QED
    BY <1>11, <2>1, <2>2
<1>12. \A x \in Range(s) : \E k \in 1 .. N : x = s[k]
  BY <1>1 DEF Range
<1> QED
  BY <1>7, <1>8, <1>9, <1>11, <1>12

LEMMA LayoutParts ==
  ASSUME StackInv, pc = "framed"
  PROVE  /\ frame.at = Placed(objects) /\ frame.saved = Saved
         /\ frame.size = Padded /\ frame.params = Padded + Len(Saved)
         /\ Size(objects) \in Nat /\ Padded \in Nat /\ Size(objects) <= Padded
         /\ Saved \in Seq(CalleeSave) /\ Len(Saved) \in Nat
         /\ (Padded + Len(Saved)) % 2 = 0
<1>1. frame = Layout
  BY DEF StackInv
<1>2. /\ frame.at = Placed(objects) /\ frame.saved = Saved
      /\ frame.size = Padded /\ frame.params = Padded + Len(Saved)
  BY <1>1 DEF Layout, Placed, Ids, Place
<1>3. Size(objects) \in Nat
  <2>1. objects \in Seq(Objects) /\ Distinct(objects)
    BY DEF StackInv, Objects, Distinct
  <2> PICK at : at = Placed(objects)
    OBVIOUS
  <2> QED
    BY <2>1, ObjectsApart
<1>4. Saved \in Seq(CalleeSave) /\ Len(Saved) \in Nat
  <2> DEFINE S == {r \in CalleeSave : \E n \in Node : color[n] = r}
  <2>1. S \subseteq CalleeSave /\ S \in SUBSET Node
    BY Registers
  <2>2. Saved = Ascending(S)
    BY DEF Saved
  <2> HIDE DEF S
  <2>3. Saved \in Seq(S)
    BY <2>1, <2>2, AscendingLists
  <2>4. Saved \in Seq(CalleeSave)
    BY <2>1, <2>3, SeqMonotonic
  <2> QED
    BY <2>4, LenProperties
<1> PICK n \in Nat : n = Size(objects)
  BY <1>3
<1> PICK m \in Nat : m = Len(Saved)
  BY <1>4
<1>5. Padded = n + ((n + m) % 2)
  BY DEF Padded
<1>6. (n + m) % 2 \in 0 .. 1 /\ (n + ((n + m) % 2) + m) % 2 = 0
  OBVIOUS
<1> PICK p \in Nat : p = (n + m) % 2
  BY <1>6
<1>7. Padded = n + p /\ (n + p + m) % 2 = 0
  BY <1>5, <1>6
<1> PICK h \in Nat : h = n + p
  OBVIOUS
<1>8. Padded = h /\ n <= h /\ (h + m) % 2 = 0
  BY <1>7
<1> QED
  BY <1>2, <1>3, <1>4, <1>8

(* No word of the frame has two uses.                                      *)
LEMMA FrameApart ==
  StackInv => WordsApart
<1> SUFFICES ASSUME StackInv, pc = "framed"
             PROVE  /\ frame.params = frame.size + Len(frame.saved)
                    /\ \A x, y \in Range(objects) :
                         /\ frame.at[x.id] >= 0 /\ frame.at[x.id] + x.size <= frame.size
                         /\ x # y => \/ frame.at[x.id] + x.size <= frame.at[y.id]
                                     \/ frame.at[y.id] + y.size <= frame.at[x.id]
  BY DEF WordsApart
<1>1. /\ frame.params = frame.size + Len(frame.saved)
      /\ frame.at = Placed(objects) /\ frame.size = Padded
      /\ Size(objects) \in Nat /\ Padded \in Nat /\ Size(objects) <= Padded
  BY LayoutParts
<1> PICK at : at = Placed(objects)
  OBVIOUS
<1>2. \A x, y \in Range(objects) :
        /\ at[x.id] \in Nat /\ at[x.id] + x.size <= Size(objects)
        /\ x # y => Apart(at[x.id], x.size, at[y.id], y.size)
  <2>1. objects \in Seq(Objects) /\ Distinct(objects)
    BY DEF StackInv, Objects, Distinct
  <2> QED
    BY <2>1, ObjectsApart
<1>3. \A x \in Range(objects) : x.size \in Nat
  <2>1. objects \in Seq([id : Nat, size : Nat])
    BY DEF StackInv
  <2>2. objects \in Seq(Objects)
    BY <2>1 DEF Objects
  <2>3. \A k \in DOMAIN objects : objects[k] \in Objects
    BY <2>2, LenProperties
  <2> QED
    BY <2>3 DEF Range, Objects
<1>4. ASSUME NEW x \in Range(objects) PROVE at[x.id] >= 0 /\ at[x.id] + x.size <= frame.size
  <2>1. at[x.id] \in Nat /\ at[x.id] + x.size <= Size(objects) /\ x.size \in Nat
    BY <1>2, <1>3
  <2> QED
    BY <1>1, <2>1
<1>5. ASSUME NEW x \in Range(objects), NEW y \in Range(objects), x # y
      PROVE  \/ at[x.id] + x.size <= at[y.id]
             \/ at[y.id] + y.size <= at[x.id]
  BY <1>2, <1>5 DEF Apart
<1> QED
  BY <1>1, <1>4, <1>5

(* The objects of a function, its saved registers and its parameters have  *)
(* places of their own in the frame (allocate_register).                   *)
THEOREM WordsApartCorrect == FrameSpec => []WordsApart
BY StackInvCorrect, FrameApart, PTL


-------------------------------------------------------------------------------
(***************************************************************************)
(* Executing instructions one after the other, from machine m on.          *)
(***************************************************************************)
Executes(m, ps, D, g) ==
  g = [s \in D |-> IF s = {} THEN m ELSE Execute(g[s \ {Max(s)}], ps[Max(s)])]

LEMMA ExecutionExists ==
  ASSUME NEW m, NEW ps, NEW N \in Nat
  PROVE  \E g : Executes(m, ps, SUBSET (1 .. N), g)
<1> PICK S : S = 1 .. N
  OBVIOUS
<1>1. IsFiniteSet(S) /\ \A s \in SUBSET S : s # {} => Max(s) \in s
  BY MaxOf
<1>2. \A s \in SUBSET S : IsFiniteSet(s) /\ Cardinality(s) \in Nat /\ (Cardinality(s) = 0 <=> s = {})
  BY <1>1, FS_Subset, FS_CardinalityType, FS_EmptySet
<1>3. \A s \in SUBSET S : s # {} => /\ s \ {Max(s)} \in SUBSET S
                                    /\ Cardinality(s \ {Max(s)}) = Cardinality(s) - 1
  <2> TAKE s \in SUBSET S
  <2> PICK x : x = Max(s)
    OBVIOUS
  <2> HAVE s # {}
  <2>1. x \in s /\ IsFiniteSet(s)
    BY <1>1, <1>2
  <2>2. Cardinality(s \ {x}) = Cardinality(s) - 1
    BY <2>1, FS_RemoveElement
  <2> QED
    BY <2>2
<1>4. Cardinality(S) = N /\ \A s \in SUBSET S : Cardinality(s) <= N
  <2>1. Cardinality(S) = N
    <3> PICK a \in Int : a = 1
      OBVIOUS
    <3> PICK b \in Int : b = N
      OBVIOUS
    <3>1. Cardinality(a .. b) = IF a > b THEN 0 ELSE b - a + 1
      BY FS_Interval
    <3> QED
      BY <3>1
  <2>2. \A s \in SUBSET S : Cardinality(s) <= Cardinality(S)
    BY <1>1, FS_Subset
  <2> PICK c : c = Cardinality(S)
    OBVIOUS
  <2> QED
    BY <2>1, <2>2
<1> DEFINE P == {n \in 0 .. N : \E g : Executes(m, ps, UpTo(S, n), g)}
<1>5. 0 \in P
  <2> DEFINE g == [s \in UpTo(S, 0) |-> m]
  <2>1. \A s \in UpTo(S, 0) : s = {}
    BY <1>2 DEF UpTo
  <2>2. g = [s \in UpTo(S, 0) |-> IF s = {} THEN m ELSE Execute(g[s \ {Max(s)}], ps[Max(s)])]
    BY <2>1
  <2>3. Executes(m, ps, UpTo(S, 0), g)
    BY <2>2 DEF Executes
  <2> QED
    BY <2>3
<1>6. ASSUME NEW n \in 1 .. N, n - 1 \in P PROVE n \in P
  <2>1. PICK g : Executes(m, ps, UpTo(S, n - 1), g)
    BY <1>6
  <2>2. UpTo(S, n - 1) \subseteq UpTo(S, n)
    BY <1>2 DEF UpTo
  <2>3. ASSUME NEW s \in UpTo(S, n), s # {} PROVE s \ {Max(s)} \in UpTo(S, n - 1)
    <3>1. s \in SUBSET S /\ Cardinality(s) \in Nat /\ Cardinality(s) <= n
      BY <1>2 DEF UpTo
    <3> PICK t : t = s \ {Max(s)}
      OBVIOUS
    <3>2. t \in SUBSET S /\ Cardinality(t) = Cardinality(s) - 1
      BY <1>3, <2>3, <3>1
    <3>3. Cardinality(t) <= n - 1
      BY <3>1, <3>2
    <3> QED
      BY <3>2, <3>3 DEF UpTo
  <2> DEFINE h == [s \in UpTo(S, n) |->
                     IF s = {} THEN m ELSE Execute(g[s \ {Max(s)}], ps[Max(s)])]
  <2>4. \A s \in UpTo(S, n - 1) :
          g[s] = IF s = {} THEN m ELSE Execute(g[s \ {Max(s)}], ps[Max(s)])
    BY <2>1 DEF Executes
  <2>5. \A s \in UpTo(S, n - 1) : h[s] = g[s]
    BY <2>2, <2>4
  <2>6. \A s \in UpTo(S, n) : s # {} => h[s \ {Max(s)}] = g[s \ {Max(s)}]
    BY <2>3, <2>5
  <2>7. h = [s \in UpTo(S, n) |-> IF s = {} THEN m ELSE Execute(h[s \ {Max(s)}], ps[Max(s)])]
    BY <2>6
  <2> HIDE DEF h
  <2>8. Executes(m, ps, UpTo(S, n), h)
    BY <2>7 DEF Executes
  <2> QED
    BY <2>8
<1> HIDE DEF P
<1>7. 0 .. N \subseteq P
  BY <1>5, <1>6, UpToInduction
<1>8. PICK g : Executes(m, ps, UpTo(S, N), g)
  BY <1>7 DEF P
<1>9. UpTo(S, N) = SUBSET S
  BY <1>4 DEF UpTo
<1> QED
  BY <1>8, <1>9

Run(m, ps, N, E) ==
  /\ E[0] = m
  /\ \A k \in 1 .. N : E[k] = Execute(E[k - 1], ps[k])

(* The machine after the instructions comes of the machines after the      *)
(* first ones.                                                             *)
LEMMA Executed ==
  ASSUME NEW T, NEW ps \in Seq(T), NEW m
  PROVE  \E E : Run(m, ps, Len(ps), E) /\ FoldLeft(Execute, m, ps) = E[Len(ps)]
<1> PICK N : N = Len(ps)
  OBVIOUS
<1>1. N \in Nat /\ DOMAIN ps = 1 .. N
  BY LenProperties
<1> DEFINE F == CHOOSE g : g = [s \in SUBSET (1 .. N) |->
                  IF s = {} THEN m ELSE Execute(g[s \ {Max(s)}], ps[Max(s)])]
<1>2. FoldLeft(Execute, m, ps) = F[1 .. N]
  BY <1>1 DEF FoldLeft, MapThenFoldSet
<1>3. PICK g : Executes(m, ps, SUBSET (1 .. N), g)
  BY <1>1, ExecutionExists
<1>4. g = [s \in SUBSET (1 .. N) |-> IF s = {} THEN m ELSE Execute(g[s \ {Max(s)}], ps[Max(s)])]
  BY <1>3 DEF Executes
<1>5. F = [s \in SUBSET (1 .. N) |-> IF s = {} THEN m ELSE Execute(F[s \ {Max(s)}], ps[Max(s)])]
  BY <1>4
<1> HIDE DEF F
<1> DEFINE E == [k \in 0 .. N |-> F[1 .. k]]
<1>6. ASSUME NEW k \in 1 .. N PROVE F[1 .. k] = Execute(F[1 .. k - 1], ps[k])
  <2>1. (1 .. k) \in SUBSET (1 .. N) /\ 1 .. k # {} /\ (1 .. k) \ {k} = 1 .. k - 1
    BY <1>1
  <2>2. Max(1 .. k) = k
    BY <1>1, MaxOf
  <2>3. F[1 .. k] = Execute(F[(1 .. k) \ {Max(1 .. k)}], ps[Max(1 .. k)])
    BY <1>5, <2>1
  <2> QED
    BY <2>1, <2>2, <2>3
<1>7. F[1 .. 0] = m
  <2>1. 1 .. 0 = {} /\ {} \in SUBSET (1 .. N)
    BY <1>1
  <2> QED
    BY <1>5, <2>1
<1>8. \A k \in 0 .. N : E[k] = F[1 .. k]
  OBVIOUS
<1>9. \A k \in 1 .. N : k \in 0 .. N /\ k - 1 \in 0 .. N
  BY <1>1
<1>10. 0 \in 0 .. N /\ N \in 0 .. N
  BY <1>1
<1> HIDE DEF E
<1>11. Run(m, ps, N, E)
  BY <1>6, <1>7, <1>8, <1>9, <1>10 DEF Run
<1> QED
  BY <1>2, <1>8, <1>10, <1>11


-------------------------------------------------------------------------------
\* A machine with sp at s that found every call aligned.
Good(m, s) ==
  /\ DOMAIN m = {"val", "mem", "sp", "pushed", "aligned", "seen"}
  /\ m.sp = s /\ m.aligned = TRUE
  /\ s \in Int

Pushed(m) == [m EXCEPT !.sp = @ - 1, !.pushed = @ + 1]

LEMMA PushStep ==
  ASSUME NEW m, NEW s, Good(m, s)
  PROVE  Good(Pushed(m), s - 1)
BY DEF Good, Pushed

(* An instruction moves sp as maintain_sp says.                            *)
LEMMA ExecuteStep ==
  ASSUME NEW p, At(blocks, p) \in Insn(MaxNode), NEW m, NEW s, Good(m, s),
         At(blocks, p).kind = "call" => s % 2 = 0
  PROVE  Good(Execute(m, p), s + SpChange(At(blocks, p)))
<1> PICK i : i = At(blocks, p)
  OBVIOUS
<1>1. /\ DOMAIN m = {"val", "mem", "sp", "pushed", "aligned", "seen"}
      /\ m.sp = s /\ m.aligned = TRUE
  BY DEF Good
<1>2. s \in Int
  BY DEF Good
<1>3. i.kind \in Kind /\ i.tag \in Int
  <2>1. MaxNode \in Nat
    BY RegisterAssumption
  <2> QED
    BY <2>1, InsnParts
<1> DEFINE in == [k \in DOMAIN i.use |-> m.val[color[i.use[k]]]]
           Set(v) == [m EXCEPT !.val = Over([x \in {color[d] : d \in i.def} |-> v], @)]
<1>4. ASSUME NEW v
      PROVE  DOMAIN Set(v) = DOMAIN m /\ Set(v).sp = s /\ Set(v).aligned = TRUE
  BY <1>1
<1>5. CASE i.kind = "op"
  <2> PICK w : w = Set(i.tag)
    OBVIOUS
  <2> PICK z : z = Append(w.seen, <<i.tag, in, <<>>>>)
    OBVIOUS
  <2>1. Execute(m, p) = [w EXCEPT !.seen = z]
    BY <1>5 DEF Execute
  <2>2. DOMAIN w = DOMAIN m /\ w.sp = s /\ w.aligned = TRUE
    BY <1>4
  <2>3. SpChange(i) = 0 /\ s + 0 = s
    BY <1>2, <1>5 DEF SpChange
  <2> QED
    BY <1>1, <1>2, <2>1, <2>2, <2>3 DEF Good
<1>6. CASE i.kind \in {"move", "const", "load", "offset", "addr", "get", "param"}
  <2>1. DOMAIN Execute(m, p) = DOMAIN m /\ Execute(m, p).sp = s /\ Execute(m, p).aligned = TRUE
    <3>1. CASE i.kind = "move"
      BY <1>1, <3>1 DEF Execute
    <3>2. CASE i.kind = "const"
      BY <1>1, <3>2 DEF Execute
    <3>3. CASE i.kind = "load"
      BY <1>1, <3>3 DEF Execute
    <3>4. CASE i.kind = "offset"
      BY <1>1, <3>4 DEF Execute
    <3>5. CASE i.kind = "addr"
      BY <1>1, <3>5 DEF Execute
    <3>6. CASE i.kind = "get"
      BY <1>1, <3>6 DEF Execute
    <3>7. CASE i.kind = "param"
      BY <1>1, <3>7 DEF Execute
    <3> QED
      BY <1>6, <3>1, <3>2, <3>3, <3>4, <3>5, <3>6, <3>7
  <2>2. SpChange(i) = 0 /\ s + 0 = s
    BY <1>2, <1>6 DEF SpChange
  <2> QED
    BY <1>1, <1>2, <2>1, <2>2 DEF Good
<1>7. CASE i.kind \in {"store", "far", "put"}
  <2>1. DOMAIN Execute(m, p) = DOMAIN m /\ Execute(m, p).sp = s /\ Execute(m, p).aligned = TRUE
    <3>1. CASE i.kind = "store"
      BY <1>1, <3>1 DEF Execute, Put
    <3>2. CASE i.kind = "far"
      BY <1>1, <3>2 DEF Execute, Put
    <3>3. CASE i.kind = "put"
      BY <1>1, <3>3 DEF Execute, Put
    <3> QED
      BY <1>7, <3>1, <3>2, <3>3
  <2>2. SpChange(i) = 0 /\ s + 0 = s
    BY <1>2, <1>7 DEF SpChange
  <2> QED
    BY <1>1, <1>2, <2>1, <2>2 DEF Good
<1>8. CASE i.kind = "push"
  <2> PICK w : w = Put(m, m.sp - 1, in[1])
    OBVIOUS
  <2>1. Execute(m, p) = Pushed(w)
    BY <1>8 DEF Execute, Pushed
  <2>2. DOMAIN w = DOMAIN m /\ w.sp = s /\ w.aligned = TRUE
    BY <1>1 DEF Put
  <2>3. SpChange(i) = -1 /\ s + -1 = s - 1 /\ s - 1 \in Int
    BY <1>2, <1>8 DEF SpChange
  <2> PICK x : x = Execute(m, p)
    OBVIOUS
  <2> HIDE DEF in, Set
  <2>4. Good(w, s)
    BY <1>1, <1>2, <2>2 DEF Good
  <2>5. Good(x, s - 1)
    BY <2>1, <2>4, PushStep
  <2>6. Good(x, s + SpChange(i))
    BY <2>3, <2>5
  <2> QED
    BY <2>6
<1>9. CASE i.kind = "call"
  <2> PICK u : u = Set(i.tag)
    OBVIOUS
  <2>a. DOMAIN u = DOMAIN m /\ u.sp = s /\ u.aligned = TRUE
    BY <1>4
  <2> PICK w : w = Drop(u)
    OBVIOUS
  <2> PICK z : z = Append(w.seen, <<i.tag, in, [k \in 1 .. m.pushed |-> Word(m, m.sp + k - 1)]>>)
    OBVIOUS
  <2>1. Execute(m, p) = [w EXCEPT !.seen = z, !.pushed = 0, !.aligned = @ /\ m.sp % 2 = 0]
    BY <1>9 DEF Execute
  <2>2. DOMAIN w = DOMAIN m /\ w.sp = s /\ w.aligned = TRUE
    BY <1>1, <2>a DEF Drop
  <2>3. SpChange(i) = 0 /\ s + 0 = s /\ s % 2 = 0
    BY <1>2, <1>9 DEF SpChange
  <2> QED
    BY <1>1, <1>2, <2>1, <2>2, <2>3 DEF Good
<1>10. CASE i.kind = "sp"
  <2>1. Execute(m, p) = [m EXCEPT !.sp = @ + i.tag]
    BY <1>10 DEF Execute
  <2>2. SpChange(i) = i.tag /\ s + i.tag \in Int
    BY <1>2, <1>3, <1>10 DEF SpChange
  <2> QED
    BY <1>1, <2>1, <2>2 DEF Good
<1> QED
  BY <1>3, <1>5, <1>6, <1>7, <1>8, <1>9, <1>10 DEF Kind


-------------------------------------------------------------------------------
\* The points a path goes through.
Along(path) ==
  FlattenSeq([k \in DOMAIN path |->
                [i \in DOMAIN blocks[path[k]].insts |-> <<path[k], i>>]])

\* How far the instructions move sp, and which are calls.
Moves == [p \in Instructions(blocks) |-> SpChange(At(blocks, p))]
CallSites == {p \in Instructions(blocks) : At(blocks, p).kind = "call"}

(* Each block of a path brings sp back.                                    *)
LEMMA BlockWalk ==
  ASSUME CodeOK, NEW b \in DOMAIN blocks, Balanced(blocks[b].insts),
         NEW ps, ps = [i \in DOMAIN blocks[b].insts |-> <<b, i>>]
  PROVE  ps \in Seq(Instructions(blocks)) /\ Walk(ps, Moves, CallSites, 0, 0)
<1> PICK s : s = blocks[b].insts
  OBVIOUS
<1> PICK N : N = Len(s)
  OBVIOUS
<1>1. s \in Seq(Insn(MaxNode)) /\ Balanced(s) /\ MaxNode \in Nat
  BY CodeAt
<1>2. N \in Nat /\ DOMAIN s = 1 .. N /\ \A i \in 1 .. N : s[i] \in Insn(MaxNode)
  BY <1>1, LenProperties
<1>3. \A i \in 1 .. N : /\ ps[i] = <<b, i>> /\ ps[i] \in Instructions(blocks)
                        /\ At(blocks, ps[i]) = s[i]
  BY <1>2 DEF Instructions, At
<1>4. ps \in Seq(Instructions(blocks)) /\ Len(ps) = N
  <2>1. ps \in [1 .. N -> Instructions(blocks)]
    BY <1>2, <1>3
  <2> QED
    BY <1>2, <2>1, CodeOf
<1>5. \A i \in 1 .. N : /\ Moves[ps[i]] = Delta(MaxNode)[s[i]]
                        /\ ps[i] \in CallSites <=> s[i] \in CallsOf(MaxNode)
  BY <1>2, <1>3 DEF Moves, CallSites, Delta, CallsOf
<1>6. Walk(s, Delta(MaxNode), CallsOf(MaxNode), 0, 0)
  BY <1>1, BalancedForm
<1>7. Alike(s, Delta(MaxNode), CallsOf(MaxNode), ps, Moves, CallSites)
  BY <1>4, <1>5 DEF Alike
<1>8. Walk(ps, Moves, CallSites, 0, 0)
  BY <1>6, <1>7, WalkAlike
<1> QED
  BY <1>4, <1>8

LEMMA PathWalk ==
  ASSUME CodeOK, \A b \in DOMAIN blocks : Balanced(blocks[b].insts), NEW path \in Seq(DOMAIN blocks)
  PROVE  Along(path) \in Seq(Instructions(blocks)) /\ Walk(Along(path), Moves, CallSites, 0, 0)
<1> PICK ss : ss = [k \in DOMAIN path |->
                      [i \in DOMAIN blocks[path[k]].insts |-> <<path[k], i>>]]
  OBVIOUS
<1> PICK N : N = Len(path)
  OBVIOUS
<1>1. N \in Nat /\ DOMAIN path = 1 .. N /\ \A k \in 1 .. N : path[k] \in DOMAIN blocks
  BY LenProperties
<1>2. \A k \in 1 .. N : ss[k] \in Seq(Instructions(blocks)) /\ Walk(ss[k], Moves, CallSites, 0, 0)
  <2> TAKE k \in 1 .. N
  <2> PICK b \in DOMAIN blocks : b = path[k]
    BY <1>1
  <2> PICK ps : ps = [i \in DOMAIN blocks[b].insts |-> <<b, i>>]
    OBVIOUS
  <2>1. ss[k] = ps
    BY <1>1
  <2> QED
    BY <2>1, BlockWalk
<1>3. ss \in Seq(Seq(Instructions(blocks))) /\ Len(ss) = N
  <2>1. ss \in [1 .. N -> Seq(Instructions(blocks))]
    BY <1>1, <1>2
  <2> QED
    BY <1>1, <2>1, CodeOf
<1>4. Along(path) = FlattenSeq(ss)
  BY DEF Along
<1> PICK t : t = [k \in 0 .. N |-> 0]
  OBVIOUS
<1>5. t[0] = 0 /\ t[N] = 0 /\ \A k \in 1 .. N : t[k - 1] = 0 /\ t[k] = 0
  BY <1>1
<1>6. Walk(FlattenSeq(ss), Moves, CallSites, t[0], t[Len(ss)])
  <2>1. t[0] \in Int
    BY <1>5
  <2>2. \A k \in 1 .. N : Walk(ss[k], Moves, CallSites, t[k - 1], t[k])
    BY <1>2, <1>5
  <2> QED
    BY <1>3, <2>1, <2>2, WalkThrough
<1>7. FlattenSeq(ss) \in Seq(Instructions(blocks))
  BY <1>3, Flattened
<1> QED
  BY <1>3, <1>4, <1>5, <1>6, <1>7

(* Code executed along a path from an even sp brings sp back and finds it  *)
(* even at every call.                                                     *)
LEMMA WalkGood ==
  ASSUME CodeOK, NEW ps \in Seq(Instructions(blocks)), Walk(ps, Moves, CallSites, 0, 0),
         NEW m, NEW s, Good(m, s), s % 2 = 0
  PROVE  Good(FoldLeft(Execute, m, ps), s)
<1> PICK N : N = Len(ps)
  OBVIOUS
<1>1. N \in Nat /\ \A k \in 1 .. N : ps[k] \in Instructions(blocks)
  BY LenProperties
<1>2. \A k \in 1 .. N : /\ At(blocks, ps[k]) \in Insn(MaxNode)
                        /\ Moves[ps[k]] = SpChange(At(blocks, ps[k]))
                        /\ ps[k] \in CallSites <=> At(blocks, ps[k]).kind = "call"
  BY <1>1, CodeAt DEF Moves, CallSites
<1>3. PICK E : Run(m, ps, N, E) /\ FoldLeft(Execute, m, ps) = E[N]
  BY Executed
<1>4. PICK r \in [0 .. N -> Int] :
        /\ r[0] = 0 /\ r[N] = 0
        /\ \A k \in 1 .. N : r[k] = r[k - 1] + Moves[ps[k]] /\ (ps[k] \in CallSites => r[k] % 2 = 0)
  BY DEF Walk
<1>5. s \in Int
  BY DEF Good
<1> DEFINE P == {k \in 0 .. N : Good(E[k], s + r[k])}
<1>6. 0 \in P
  BY <1>1, <1>3, <1>4, <1>5 DEF Run
<1>7. ASSUME NEW k \in 1 .. N, k - 1 \in P PROVE k \in P
  <2> PICK i : i = At(blocks, ps[k])
    OBVIOUS
  <2> PICK a : a = s + r[k - 1]
    OBVIOUS
  <2>1. k \in 0 .. N /\ k - 1 \in 0 .. N /\ r[k] \in Int /\ r[k - 1] \in Int
    BY <1>1, <1>4
  <2>2. Good(E[k - 1], a)
    BY <1>7
  <2>3. i \in Insn(MaxNode) /\ r[k] = r[k - 1] + SpChange(i) /\ SpChange(i) \in Int
    <3>1. MaxNode \in Nat
      BY RegisterAssumption
    <3> QED
      BY <1>2, <1>4, <3>1, ChangeType
  <2>4. i.kind = "call" => a % 2 = 0
    <3>1. ASSUME i.kind = "call" PROVE a % 2 = 0
      <4>1. r[k] % 2 = 0 /\ SpChange(i) = 0
        BY <1>2, <1>4, <3>1 DEF SpChange
      <4> PICK x \in Int : x = r[k - 1]
        BY <2>1
      <4>2. x % 2 = 0 /\ a = s + x
        BY <2>3, <4>1
      <4>3. s \in Int /\ x \in Int /\ s % 2 = 0
        BY <1>5
      <4>4. (s + x) % 2 = 0
        BY <4>2, <4>3, EvenSum
      <4> QED
        BY <4>2, <4>4
    <3> QED
      BY <3>1
  <2>5. Good(Execute(E[k - 1], ps[k]), a + SpChange(i))
    BY <2>2, <2>3, <2>4, ExecuteStep
  <2>6. a + SpChange(i) = s + r[k]
    <3> PICK x \in Int : x = r[k - 1]
      BY <2>1
    <3> PICK y \in Int : y = SpChange(i)
      BY <2>3
    <3>1. r[k] = x + y /\ a = s + x
      BY <2>3
    <3>2. \A u \in Int : (u + x) + y = u + (x + y)
      OBVIOUS
    <3>3. (s + x) + y = s + (x + y)
      BY <1>5, <3>2
    <3> QED
      BY <3>1, <3>3
  <2>7. E[k] = Execute(E[k - 1], ps[k])
    BY <1>3 DEF Run
  <2>8. Good(E[k], s + r[k])
    BY <2>5, <2>6, <2>7
  <2> QED
    BY <2>1, <2>8
<1>8. N \in P
  <2> HIDE DEF P
  <2>1. 0 .. N \subseteq P
    BY <1>1, <1>6, <1>7, UpToInduction
  <2> QED
    BY <1>1, <2>1
<1> QED
  BY <1>3, <1>4, <1>5, <1>8

(* A function that has its frame leaves the stack pointer as it found it.  *)
LEMMA ReturnGood ==
  ASSUME FrameInv, StackInv, pc = "framed", NEW path \in source.paths
  PROVE  AtReturn(path).sp = 0 /\ AtReturn(path).aligned = TRUE
<1>1. CodeOK /\ \A b \in DOMAIN blocks : Balanced(blocks[b].insts)
  BY DEF FrameInv, StackInv
<1>2. path \in Seq(DOMAIN blocks)
  BY StackAssumption DEF StackInv
<1>3. Along(path) \in Seq(Instructions(blocks)) /\ Walk(Along(path), Moves, CallSites, 0, 0)
  BY <1>1, <1>2, PathWalk
<1>4. /\ Len(frame.saved) \in Nat /\ frame.size \in Nat
      /\ (frame.size + Len(frame.saved)) % 2 = 0
  BY LayoutParts
<1> PICK l \in Nat : l = Len(frame.saved)
  BY <1>4
<1> PICK z \in Nat : z = frame.size
  BY <1>4
<1> PICK m : m = Prologue(AtEntry)
  OBVIOUS
<1> PICK s \in Int : s = 0 - l - z
  OBVIOUS
<1>5. s % 2 = 0 /\ s + z + l = 0
  <2> PICK u \in Int : u = z + l
    OBVIOUS
  <2>1. u % 2 = 0
    BY <1>4
  <2>2. (0 - u) % 2 = 0
    BY <2>1, EvenNegative
  <2>3. \A x, y \in Nat : 0 - x - y = 0 - (y + x) /\ (0 - x - y) + y + x = 0
    OBVIOUS
  <2>4. 0 - l - z = 0 - (z + l) /\ (0 - l - z) + z + l = 0
    BY <2>3
  <2> QED
    BY <2>2, <2>4
<1>6. Good(m, s)
  <2>1. /\ DOMAIN AtEntry = {"val", "mem", "sp", "pushed", "aligned", "seen"}
        /\ AtEntry.sp = 0 /\ AtEntry.aligned = TRUE
    BY DEF AtEntry
  <2>2. DOMAIN m = DOMAIN AtEntry /\ m.sp = s /\ m.aligned = TRUE
    BY <2>1 DEF Prologue
  <2> QED
    BY <2>1, <2>2 DEF Good
<1> PICK n : n = FoldLeft(Execute, m, Along(path))
  OBVIOUS
<1>7. Good(n, s)
  BY <1>1, <1>3, <1>5, <1>6, WalkGood
<1>8. AtReturn(path) = Epilogue(n)
  BY DEF AtReturn, Along
<1> PICK e : e = Epilogue(n)
  OBVIOUS
<1>9. e.sp = n.sp + z + l /\ e.aligned = n.aligned
  BY <1>7 DEF Epilogue, Good
<1> QED
  BY <1>5, <1>7, <1>8, <1>9 DEF Good

(* sp is a multiple of eight bytes at every call, for every function,      *)
(* number of registers and reach of a store (Func::allocate_register).     *)
THEOREM CallsAlignedCorrect == FrameSpec => []CallsAligned
<1>1. FrameInv /\ StackInv => CallsAligned
  BY ReturnGood DEF CallsAligned
<1> QED
  BY <1>1, FrameInvCorrect, StackInvCorrect, PTL

\* The caller's stack pointer is given back, the first part of CallerUnharmed.
StackRestored == pc = "framed" => \A p \in source.paths : AtReturn(p).sp = 0

(* The function gives back the stack it took: maintain_sp, the layout and  *)
(* the epilogue agree.                                                     *)
THEOREM StackRestoredCorrect == FrameSpec => []StackRestored
<1>1. FrameInv /\ StackInv => StackRestored
  BY ReturnGood DEF StackRestored
<1> QED
  BY <1>1, FrameInvCorrect, StackInvCorrect, PTL
===============================================================================
