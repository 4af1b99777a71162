--------------------------- MODULE RegAllocProofs -----------------------------
(***************************************************************************)
(* Proofs, for every function and number of registers, about the rounds of *)
(* reg_allocate and allocate_register: build_graph makes a graph the       *)
(* allocator's invariant can start from, rewriting keeps the code code,    *)
(* and the colours that are left fit the code that is emitted.             *)
(***************************************************************************)
EXTENDS Frame, ColoringProofs

-------------------------------------------------------------------------------
(* What an instruction is made of.                                         *)
LEMMA InsnParts ==
  ASSUME NEW n \in Nat, NEW i \in Insn(n)
  PROVE  /\ i.kind \in Kind /\ i.tag \in Int
         /\ i.def \in SUBSET (0 .. n - 1)
         /\ i.use \in Seq(0 .. n - 1)
         /\ Uses(i) \in SUBSET (0 .. n - 1)
         /\ Len(i.use) \in Nat /\ DOMAIN i.use = 1 .. Len(i.use)
         /\ \A k \in DOMAIN i.use : i.use[k] \in Uses(i)
         /\ Len(i.use) >= Arity(i.kind)
         /\ i.kind \in {"move", "store", "get", "push", "put", "far"} => 1 \in DOMAIN i.use
         /\ i.kind \in {"put", "far"} => 2 \in DOMAIN i.use
<1>1. i \in [kind : Kind, tag : Int, def : SUBSET (0 .. n - 1), use : Seq(0 .. n - 1)]
  BY DEF Insn
<1>2. /\ i.kind \in Kind /\ i.tag \in Int /\ i.def \in SUBSET (0 .. n - 1)
      /\ i.use \in Seq(0 .. n - 1)
  BY <1>1
<1>3. /\ Len(i.use) \in Nat /\ DOMAIN i.use = 1 .. Len(i.use)
      /\ \A k \in 1 .. Len(i.use) : i.use[k] \in 0 .. n - 1
  BY <1>2, LenProperties
<1>4. Uses(i) \in SUBSET (0 .. n - 1) /\ \A k \in DOMAIN i.use : i.use[k] \in Uses(i)
  BY <1>3 DEF Uses, Range
<1>5. Len(i.use) >= Arity(i.kind)
  BY DEF Insn
<1>6. /\ i.kind \in {"move", "store", "get", "push"} => Len(i.use) >= 1
      /\ i.kind \in {"put", "far"} => Len(i.use) >= 2
  BY <1>5 DEF Arity
<1>7. /\ i.kind \in {"move", "store", "get", "push", "put", "far"} => 1 \in DOMAIN i.use
      /\ i.kind \in {"put", "far"} => 2 \in DOMAIN i.use
  BY <1>3, <1>6
<1> QED
  BY <1>2, <1>3, <1>4, <1>5, <1>7

\* The instructions name registers of R only.
Within(insts, R) == \A k \in DOMAIN insts : insts[k].def \subseteq R /\ Uses(insts[k]) \subseteq R

LEMMA CodeParts ==
  ASSUME NEW n \in Nat, NEW bs \in Seq(Block(n))
  PROVE  /\ Len(bs) \in Nat /\ DOMAIN bs = 1 .. Len(bs)
         /\ \A b \in DOMAIN bs :
              /\ bs[b].insts \in Seq(Insn(n)) /\ bs[b].depth \in Nat /\ bs[b].succ \in SUBSET Nat
              /\ Len(bs[b].insts) \in Nat /\ DOMAIN bs[b].insts = 1 .. Len(bs[b].insts)
              /\ \A k \in DOMAIN bs[b].insts : bs[b].insts[k] \in Insn(n)
              /\ Within(bs[b].insts, Regs(bs))
         /\ Regs(bs) \in SUBSET (0 .. n - 1)
<1>1. Len(bs) \in Nat /\ DOMAIN bs = 1 .. Len(bs) /\ \A b \in 1 .. Len(bs) : bs[b] \in Block(n)
  BY LenProperties
<1>2. ASSUME NEW b \in DOMAIN bs
      PROVE  /\ bs[b].insts \in Seq(Insn(n)) /\ bs[b].depth \in Nat /\ bs[b].succ \in SUBSET Nat
             /\ Len(bs[b].insts) \in Nat /\ DOMAIN bs[b].insts = 1 .. Len(bs[b].insts)
             /\ \A k \in DOMAIN bs[b].insts : bs[b].insts[k] \in Insn(n)
  <2>1. bs[b] \in Block(n)
    BY <1>1
  <2>2. bs[b].insts \in Seq(Insn(n)) /\ bs[b].depth \in Nat /\ bs[b].succ \in SUBSET Nat
    BY <2>1 DEF Block
  <2>3. /\ Len(bs[b].insts) \in Nat /\ DOMAIN bs[b].insts = 1 .. Len(bs[b].insts)
        /\ \A k \in 1 .. Len(bs[b].insts) : bs[b].insts[k] \in Insn(n)
    BY <2>2, LenProperties
  <2> QED
    BY <2>2, <2>3
<1>3. ASSUME NEW b \in DOMAIN bs PROVE Within(bs[b].insts, Regs(bs))
  BY <1>3 DEF Within, Regs, Range
<1>4. Regs(bs) \in SUBSET (0 .. n - 1)
  <2> SUFFICES ASSUME NEW r \in Regs(bs) PROVE r \in 0 .. n - 1
    OBVIOUS
  <2>0. PICK b \in DOMAIN bs : \E k \in DOMAIN bs[b].insts :
          r \in Uses(bs[b].insts[k]) \cup bs[b].insts[k].def
    BY DEF Regs, Range
  <2>1. PICK k \in DOMAIN bs[b].insts : r \in Uses(bs[b].insts[k]) \cup bs[b].insts[k].def
    BY <2>0
  <2>2. bs[b].insts[k] \in Insn(n)
    BY <1>2
  <2> QED
    BY <2>1, <2>2, InsnParts
<1> QED
  BY <1>1, <1>2, <1>3, <1>4

-------------------------------------------------------------------------------
\* L has the registers live after each instruction of s, given those live at its end.
LiveChain(s, out, L) ==
  /\ L[Len(s)] = out
  /\ \A k \in 1 .. Len(s) : L[k - 1] = (L[k] \ s[k].def) \cup Uses(s[k])

(* calc_live goes through a block from its end.                            *)
LEMMA LiveThroughSteps ==
  ASSUME NEW T, NEW insts \in Seq(T), NEW out
  PROVE  \E L : LiveChain(insts, out, L) /\ LiveThrough(insts, out) = L[0]
<1> DEFINE S == DOMAIN insts
           R == out \cup UNION {Uses(insts[k]) : k \in S}
           V == SUBSET R
           c == [s \in SUBSET S |-> Min(s)]
           h == [p \in S \X V |-> (p[2] \ insts[p[1]].def) \cup Uses(insts[p[1]])]
           F == CHOOSE g : g = [s \in SUBSET S |->
                  IF s = {} THEN out
                  ELSE (g[s \ {Min(s)}] \ insts[Min(s)].def) \cup Uses(insts[Min(s)])]
<1> PICK N : N = Len(insts)
  OBVIOUS
<1>1. LiveThrough(insts, out) = F[S]
  BY DEF LiveThrough, FoldRight, MapThenFoldSet
<1>2. IsFiniteSet(S) /\ S \in SUBSET Nat /\ N \in Nat /\ S = 1 .. N
  <2>1. Len(insts) \in Nat /\ S = 1 .. Len(insts)
    BY LenProperties
  <2> HIDE DEF S
  <2>2. IsFiniteSet(1 .. Len(insts))
    BY <2>1, FS_Interval
  <2> QED
    BY <2>1, <2>2
<1>3. ASSUME NEW x \in S, NEW v \in V
      PROVE  h[<<x, v>>] = (v \ insts[x].def) \cup Uses(insts[x]) /\ h[<<x, v>>] \in V
  OBVIOUS
<1>4. ASSUME NEW s \in SUBSET S, s # {} PROVE c[s] = Min(s) /\ c[s] \in s /\ c[s] \in S
  <2>1. s \in SUBSET Nat
    BY <1>2
  <2> QED
    BY <1>4, <2>1, MinNatural
<1>0. out \in V
  OBVIOUS
<1> HIDE DEF S, R, V, c, h, F
<1>5. FoldSteps(S, c, V, out, h)
  BY <1>0, <1>3, <1>4 DEF FoldSteps
<1>6. PICK g : FoldBy(S, c, V, out, h, g)
  BY <1>2, <1>5, FoldExists
<1>7. ASSUME NEW s \in SUBSET S
      PROVE  g[s] = IF s = {} THEN out
                    ELSE (g[s \ {Min(s)}] \ insts[Min(s)].def) \cup Uses(insts[Min(s)])
  <2>1. g[s] = IF s = {} THEN out ELSE h[<<c[s], g[s \ {c[s]}]>>]
    BY <1>6 DEF FoldBy
  <2>2. CASE s # {}
    <3>1. g[s \ {c[s]}] \in V /\ c[s] \in S /\ c[s] = Min(s)
      BY <1>4, <1>6, <2>2 DEF FoldBy
    <3>2. g[s] = (g[s \ {c[s]}] \ insts[c[s]].def) \cup Uses(insts[c[s]])
      BY <1>3, <2>1, <2>2, <3>1
    <3> QED
      BY <2>2, <3>1, <3>2
  <2> QED
    BY <2>1, <2>2
<1>8. g = [s \in SUBSET S |->
             IF s = {} THEN out
             ELSE (g[s \ {Min(s)}] \ insts[Min(s)].def) \cup Uses(insts[Min(s)])]
  <2>1. g = [s \in SUBSET S |-> g[s]]
    BY <1>6 DEF FoldBy
  <2> QED
    BY <1>7, <2>1
<1>9. F = [s \in SUBSET S |->
             IF s = {} THEN out
             ELSE (F[s \ {Min(s)}] \ insts[Min(s)].def) \cup Uses(insts[Min(s)])]
  BY <1>8 DEF F
<1> DEFINE L == [k \in 0 .. N |-> F[k + 1 .. N]]
<1>10. ASSUME NEW k \in 1 .. N
       PROVE  F[k .. N] = (F[k + 1 .. N] \ insts[k].def) \cup Uses(insts[k])
  <2>1. k \in Nat /\ k >= 1 /\ k <= N
    BY <1>2
  <2> PICK s : s = k .. N
    OBVIOUS
  <2>2. s \in SUBSET S /\ s # {} /\ s \in SUBSET Nat
    <3>1. \A x \in k .. N : x \in 1 .. N /\ x \in Nat
      BY <1>2, <2>1
    <3>2. k \in k .. N
      BY <1>2, <2>1
    <3> QED
      BY <1>2, <3>1, <3>2
  <2>3. Min(s) = k
    <3>1. Min(s) \in s /\ \A x \in s : Min(s) <= x
      BY <2>2, MinNatural
    <3>2. k \in s /\ \A x \in s : x \in Nat /\ k <= x
      BY <1>2, <2>1
    <3>3. Min(s) <= k /\ k <= Min(s) /\ Min(s) \in Nat
      BY <3>1, <3>2
    <3> QED
      BY <2>1, <3>3
  <2>4. s \ {k} = k + 1 .. N
    BY <1>2, <2>1
  <2>5. F[s] = (F[s \ {Min(s)}] \ insts[Min(s)].def) \cup Uses(insts[Min(s)])
    BY <1>9, <2>2
  <2> QED
    BY <2>3, <2>4, <2>5
<1>11. F[N + 1 .. N] = out
  <2>1. N + 1 .. N = {} /\ {} \in SUBSET S
    BY <1>2
  <2> QED
    BY <1>9, <2>1
<1>12. \A k \in 0 .. N : L[k] = F[k + 1 .. N]
  OBVIOUS
<1>13. \A k \in 1 .. N : k \in 0 .. N /\ k - 1 \in 0 .. N /\ (k - 1) + 1 = k
  BY <1>2
<1>14. 0 \in 0 .. N /\ N \in 0 .. N /\ 0 + 1 = 1
  BY <1>2
<1> HIDE DEF L
<1>15. LiveChain(insts, out, L)
  BY <1>10, <1>11, <1>12, <1>13, <1>14 DEF LiveChain
<1>16. L[0] = F[S]
  BY <1>2, <1>12, <1>14
<1> QED
  BY <1>1, <1>15, <1>16

(* calc_live finds registers of the code only.                             *)
LEMMA LiveThroughTyped ==
  ASSUME NEW T, NEW insts \in Seq(T), NEW R, Within(insts, R), NEW out \in SUBSET R
  PROVE  LiveThrough(insts, out) \in SUBSET R
<1> PICK N : N = Len(insts)
  OBVIOUS
<1>1. N \in Nat /\ DOMAIN insts = 1 .. N
  BY LenProperties
<1>2. PICK L : LiveChain(insts, out, L) /\ LiveThrough(insts, out) = L[0]
  BY LiveThroughSteps
<1> DEFINE P == {k \in 0 .. N : L[N - k] \in SUBSET R}
<1>3. 0 \in P
  BY <1>1, <1>2 DEF LiveChain
<1>4. ASSUME NEW k \in 1 .. N, k - 1 \in P PROVE k \in P
  <2> PICK j : j = N - (k - 1)
    OBVIOUS
  <2>1. j \in 1 .. N /\ j - 1 = N - k
    BY <1>1
  <2>2. L[j] \in SUBSET R /\ L[j - 1] = (L[j] \ insts[j].def) \cup Uses(insts[j])
    BY <1>2, <1>4, <2>1 DEF LiveChain
  <2>3. Uses(insts[j]) \subseteq R
    BY <1>1, <2>1 DEF Within
  <2> QED
    BY <2>1, <2>2, <2>3
<1> HIDE DEF P
<1>5. 0 .. N \subseteq P
  BY <1>1, <1>3, <1>4, UpToInduction
<1>6. L[N - N] \in SUBSET R /\ N - N = 0
  BY <1>1, <1>5 DEF P
<1> QED
  BY <1>2, <1>6

LEMMA LiveAtTyped ==
  ASSUME NEW D, NEW R, NEW v \in SUBSET (D \X R), NEW b
  PROVE  LiveAt(v, b) \in SUBSET R
BY DEF LiveAt

\* One turn of the worklist for every block.
LiveTurn(bs, edges, v) ==
  UNION {{e[1]} \X LiveThrough(bs[e[2]].insts, LiveAt(v, e[2])) : e \in edges}

LEMMA LiveTurnTyped ==
  ASSUME NEW n \in Nat, NEW bs \in Seq(Block(n)), NEW edges \in SUBSET ((DOMAIN bs) \X (DOMAIN bs)),
         NEW v \in SUBSET ((DOMAIN bs) \X Regs(bs))
  PROVE  LiveTurn(bs, edges, v) \in SUBSET ((DOMAIN bs) \X Regs(bs))
<1>1. ASSUME NEW b \in DOMAIN bs PROVE LiveThrough(bs[b].insts, LiveAt(v, b)) \in SUBSET Regs(bs)
  <2>1. bs[b].insts \in Seq(Insn(n)) /\ Within(bs[b].insts, Regs(bs))
    BY CodeParts
  <2>2. LiveAt(v, b) \in SUBSET Regs(bs)
    BY LiveAtTyped
  <2> QED
    BY <2>1, <2>2, LiveThroughTyped
<1>2. ASSUME NEW e \in edges
      PROVE  {e[1]} \X LiveThrough(bs[e[2]].insts, LiveAt(v, e[2]))
               \in SUBSET ((DOMAIN bs) \X Regs(bs))
  <2>1. e[1] \in DOMAIN bs /\ e[2] \in DOMAIN bs
    OBVIOUS
  <2> QED
    BY <1>1, <2>1
<1> QED
  BY <1>2 DEF LiveTurn

\* g has what is known to be live out of the blocks after each turn.
LiveGrowth(bs, edges, N, g) ==
  /\ g[0] = {}
  /\ \A k \in 1 .. N : g[k] = LiveTurn(bs, edges, g[k - 1])
  /\ \A k \in 0 .. N : g[k] \in SUBSET ((DOMAIN bs) \X Regs(bs))

LEMMA LiveOutsRecursion ==
  ASSUME NEW n \in Nat, NEW bs \in Seq(Block(n)), NEW edges \in SUBSET ((DOMAIN bs) \X (DOMAIN bs)),
         NEW N \in Nat, NEW F,
         F = CHOOSE Out : Out = [k \in 0 .. N |-> IF k = 0 THEN {} ELSE LiveTurn(bs, edges, Out[k - 1])]
  PROVE  LiveGrowth(bs, edges, N, F)
<1> DEFINE V == SUBSET ((DOMAIN bs) \X Regs(bs))
           h == [p \in (1 .. N) \X V |-> LiveTurn(bs, edges, p[2])]
<1>1. \A v \in V : LiveTurn(bs, edges, v) \in V
  BY LiveTurnTyped
<1>2. PICK a \in V : a = {}
  OBVIOUS
<1> HIDE DEF V
<1>3. \A k \in 1 .. N, v \in V : h[<<k, v>>] = LiveTurn(bs, edges, v)
  OBVIOUS
<1> HIDE DEF h
<1>4. Steps(N, V, a, h)
  BY <1>1, <1>3 DEF Steps
<1>5. PICK g \in [0 .. N -> V] : g = Iterate(N, a, h, g)
  BY <1>4, IterationExists
<1>6. ASSUME NEW k \in 0 .. N PROVE g[k] = IF k = 0 THEN {} ELSE LiveTurn(bs, edges, g[k - 1])
  <2>1. g[k] = IF k = 0 THEN a ELSE h[<<k, g[k - 1]>>]
    BY <1>5 DEF Iterate
  <2>2. CASE k # 0
    <3>1. k \in 1 .. N /\ k - 1 \in 0 .. N
      BY <2>2
    <3> QED
      BY <1>3, <1>5, <2>1, <2>2, <3>1
  <2> QED
    BY <1>2, <2>1, <2>2
<1>7. g = [k \in 0 .. N |-> IF k = 0 THEN {} ELSE LiveTurn(bs, edges, g[k - 1])]
  BY <1>5, <1>6
<1>8. F = [k \in 0 .. N |-> IF k = 0 THEN {} ELSE LiveTurn(bs, edges, F[k - 1])]
  BY <1>7
<1> DEFINE P == {k \in 0 .. N : F[k] \in V}
<1>9. 0 \in P
  <2>1. 0 \in 0 .. N
    OBVIOUS
  <2>2. F[0] = a
    BY <1>2, <1>8, <2>1
  <2> QED
    BY <2>1, <2>2
<1>10. ASSUME NEW k \in 1 .. N, k - 1 \in P PROVE k \in P
  <2>1. k \in 0 .. N /\ k # 0
    OBVIOUS
  <2>2. F[k] = LiveTurn(bs, edges, F[k - 1])
    BY <1>8, <2>1
  <2> QED
    BY <1>1, <1>10, <2>1, <2>2
<1> HIDE DEF P
<1>11. 0 .. N \subseteq P
  BY <1>9, <1>10, UpToInduction
<1>12. F[0] = {}
  <2>1. 0 \in 0 .. N
    OBVIOUS
  <2> QED
    BY <1>8, <2>1
<1>13. \A k \in 1 .. N : F[k] = LiveTurn(bs, edges, F[k - 1])
  <2> TAKE k \in 1 .. N
  <2>1. k \in 0 .. N /\ k # 0
    OBVIOUS
  <2> QED
    BY <1>8, <2>1
<1>14. \A k \in 0 .. N : F[k] \in V
  BY <1>11 DEF P
<1> HIDE DEF V
<1> QED
  BY <1>12, <1>13, <1>14 DEF LiveGrowth, V

\* The edges of the code.
Edges(bs) == {e \in (DOMAIN bs) \X (DOMAIN bs) : e[2] \in bs[e[1]].succ}

LEMMA LiveOutsGrowth ==
  ASSUME NEW n \in Nat, NEW bs \in Seq(Block(n))
  PROVE  \E g : LiveGrowth(bs, Edges(bs), Len(bs), g) /\ LiveOuts(bs) = g[Len(bs)]
<1> DEFINE edges == Edges(bs)
           F == CHOOSE Out : Out = [k \in 0 .. Len(bs) |->
                  IF k = 0 THEN {} ELSE LiveTurn(bs, edges, Out[k - 1])]
<1>1. LiveOuts(bs) = F[Len(bs)]
  BY DEF LiveOuts, LiveTurn, Edges
<1>2. Len(bs) \in Nat
  BY CodeParts
<1>3. edges \in SUBSET ((DOMAIN bs) \X (DOMAIN bs))
  BY DEF Edges
<1> HIDE DEF edges
<1>4. LiveGrowth(bs, edges, Len(bs), F)
  BY <1>2, <1>3, LiveOutsRecursion
<1> HIDE DEF F
<1> QED
  BY <1>1, <1>4 DEF edges

LEMMA LiveOutsTyped ==
  ASSUME NEW n \in Nat, NEW bs \in Seq(Block(n))
  PROVE  LiveOuts(bs) \in SUBSET ((DOMAIN bs) \X Regs(bs))
<1>1. PICK g : LiveGrowth(bs, Edges(bs), Len(bs), g) /\ LiveOuts(bs) = g[Len(bs)]
  BY LiveOutsGrowth
<1>2. Len(bs) \in 0 .. Len(bs)
  BY CodeParts
<1> QED
  BY <1>1, <1>2 DEF LiveGrowth

(* get_exp gives a natural.                                                *)
LEMMA GetExpType ==
  ASSUME NEW m \in Nat, NEW n \in Nat
  PROVE  GetExp(m, n) \in Nat
<1> DEFINE V == Nat
           h == [p \in (1 .. n) \X V |-> m * p[2]]
           F == CHOOSE e : e = [k \in 0 .. n |-> IF k = 0 THEN 1 ELSE m * e[k - 1]]
<1>1. GetExp(m, n) = F[n]
  BY DEF GetExp
<1>2. \A v \in V : m * v \in V
  OBVIOUS
<1>3. PICK a \in V : a = 1
  OBVIOUS
<1> HIDE DEF V
<1>4. \A k \in 1 .. n, v \in V : h[<<k, v>>] = m * v
  OBVIOUS
<1> HIDE DEF h
<1>5. Steps(n, V, a, h)
  BY <1>2, <1>4 DEF Steps
<1> HIDE DEF F
<1>6. PICK g \in [0 .. n -> V] : g = Iterate(n, a, h, g)
  BY <1>5, IterationExists
<1>7. ASSUME NEW k \in 0 .. n PROVE g[k] = IF k = 0 THEN 1 ELSE m * g[k - 1]
  <2>1. g[k] = IF k = 0 THEN a ELSE h[<<k, g[k - 1]>>]
    BY <1>6 DEF Iterate
  <2>2. CASE k # 0
    <3>1. k \in 1 .. n /\ k - 1 \in 0 .. n
      BY <2>2
    <3> QED
      BY <1>4, <1>6, <2>1, <2>2, <3>1
  <2> QED
    BY <1>3, <2>1, <2>2
<1>8. g = [k \in 0 .. n |-> IF k = 0 THEN 1 ELSE m * g[k - 1]]
  BY <1>6, <1>7
<1>9. F = [k \in 0 .. n |-> IF k = 0 THEN 1 ELSE m * F[k - 1]]
  BY <1>8 DEF F
<1> DEFINE P == {k \in 0 .. n : F[k] \in V}
<1>10. 0 \in P
  BY <1>3, <1>9
<1>11. ASSUME NEW k \in 1 .. n, k - 1 \in P PROVE k \in P
  <2>1. k \in 0 .. n /\ k # 0
    OBVIOUS
  <2>2. F[k] = m * F[k - 1]
    BY <1>9, <2>1
  <2> QED
    BY <1>2, <1>11, <2>1, <2>2
<1> HIDE DEF P
<1>12. 0 .. n \subseteq P
  BY <1>10, <1>11, UpToInduction
<1>13. n \in P
  BY <1>12
<1> QED
  BY <1>1, <1>13 DEF P, V

-------------------------------------------------------------------------------
(* build_graph's cliques and counts.                                       *)
LEMMA CliquesTyped ==
  ASSUME NEW n \in Nat, NEW bs \in Seq(Block(n))
  PROVE  Cliques(bs) \in SUBSET SUBSET Regs(bs)
<1> DEFINE outs == LiveOuts(bs)
<1>1. outs \in SUBSET ((DOMAIN bs) \X Regs(bs))
  BY LiveOutsTyped
<1> HIDE DEF outs
<1>2. ASSUME NEW b \in DOMAIN bs, NEW k \in 0 .. Len(bs[b].insts)
      PROVE  LiveAfter(outs, bs, b, k) \in SUBSET Regs(bs)
  <2> DEFINE insts == bs[b].insts
             N == Len(insts)
             rest == SubSeq(insts, k + 1, N)
  <2>1. N \in Nat /\ DOMAIN insts = 1 .. N /\ Within(insts, Regs(bs))
        /\ \A j \in DOMAIN insts : insts[j] \in Insn(n)
    BY CodeParts
  <2>2. LiveAfter(outs, bs, b, k) = LiveThrough(rest, LiveAt(outs, b))
    BY DEF LiveAfter
  <2> HIDE DEF insts, N
  <2>3. k + 1 \in Int /\ N \in Int /\ \A j \in k + 1 .. N : insts[j] \in Insn(n)
    <3>1. \A j \in k + 1 .. N : j \in 1 .. N
      BY <2>1 DEF N, insts
    <3> QED
      BY <2>1, <3>1
  <2>4. /\ rest \in Seq(Insn(n))
        /\ Len(rest) = IF k + 1 <= N THEN N - (k + 1) + 1 ELSE 0
        /\ \A j \in 1 .. N - (k + 1) + 1 : rest[j] = insts[(k + 1) + j - 1]
    BY <2>3, SubSeqProperties
  <2> HIDE DEF rest
  <2>5. Within(rest, Regs(bs))
    <3>1. k <= N
      BY <2>1 DEF N, insts
    <3>2. ASSUME NEW j \in DOMAIN rest
          PROVE  rest[j] = insts[(k + 1) + j - 1] /\ (k + 1) + j - 1 \in DOMAIN insts
      <4>1. j \in 1 .. Len(rest) /\ Len(rest) = N - k
        BY <2>1, <2>4, <3>1, LenProperties
      <4> QED
        BY <2>1, <2>4, <4>1
    <3>3. \A j \in DOMAIN insts : insts[j].def \subseteq Regs(bs) /\ Uses(insts[j]) \subseteq Regs(bs)
      BY <2>1 DEF Within
    <3> QED
      BY <3>2, <3>3 DEF Within
  <2>6. LiveAt(outs, b) \in SUBSET Regs(bs)
    BY <1>1, LiveAtTyped
  <2> QED
    BY <2>2, <2>4, <2>5, <2>6, LiveThroughTyped
<1>3. ASSUME NEW p \in Points(bs)
      PROVE  /\ p[1] \in DOMAIN bs /\ p[2] \in 0 .. Len(bs[p[1]].insts)
             /\ p[2] # 0 => At(bs, p).def \subseteq Regs(bs)
  <2>1. p[1] \in DOMAIN bs /\ (p[2] = 0 \/ p[2] \in DOMAIN bs[p[1]].insts)
    BY DEF Points, Instructions
  <2>2. /\ Len(bs[p[1]].insts) \in Nat /\ DOMAIN bs[p[1]].insts = 1 .. Len(bs[p[1]].insts)
        /\ Within(bs[p[1]].insts, Regs(bs))
    BY <2>1, CodeParts
  <2> QED
    BY <2>1, <2>2 DEF At, Within
<1>4. Cliques(bs) = {LiveAfter(outs, bs, p[1], p[2])
                       \cup (IF p[2] = 0 THEN {} ELSE At(bs, p).def) : p \in Points(bs)}
  BY DEF Cliques, outs
<1> QED
  BY <1>2, <1>3, <1>4

LEMMA InstructionsFinite ==
  ASSUME NEW n \in Nat, NEW bs \in Seq(Block(n))
  PROVE  IsFiniteSet(Instructions(bs))
<1> DEFINE D == DOMAIN bs
           f == [b \in D |-> {b} \X (DOMAIN bs[b].insts)]
           M == {f[b] : b \in DOMAIN f}
<1>1. D = 1 .. Len(bs) /\ Len(bs) \in Nat
  BY CodeParts
<1>2. IsFiniteSet(D)
  <2>1. IsFiniteSet(1 .. Len(bs))
    BY <1>1, FS_Interval
  <2> QED
    BY <1>1, <2>1
<1>3. ASSUME NEW b \in D PROVE IsFiniteSet({b} \X (DOMAIN bs[b].insts))
  <2>1. Len(bs[b].insts) \in Nat /\ DOMAIN bs[b].insts = 1 .. Len(bs[b].insts)
    BY CodeParts
  <2>2. IsFiniteSet(1 .. Len(bs[b].insts))
    BY <2>1, FS_Interval
  <2>3. IsFiniteSet({b})
    BY FS_Singleton
  <2> QED
    BY <2>1, <2>2, <2>3, FS_Product
<1>4. Instructions(bs) = UNION M
  BY DEF Instructions
<1>5. DOMAIN f = D /\ \A b \in D : IsFiniteSet(f[b])
  BY <1>3
<1> HIDE DEF f, D
<1>6. IsFiniteSet(M)
  BY <1>2, <1>5, ImageSize
<1>7. \A T \in M : IsFiniteSet(T)
  BY <1>5
<1> HIDE DEF M
<1> QED
  BY <1>4, <1>6, <1>7, FS_UNION

(* The depth of a register's deepest instruction.                          *)
LEMMA DepthType ==
  ASSUME NEW n \in Nat, NEW bs \in Seq(Block(n)), NEW A \in SUBSET Instructions(bs), A # {}
  PROVE  Max({bs[p[1]].depth : p \in A}) \in Nat
<1> DEFINE f == [p \in A |-> bs[p[1]].depth]
           S == {f[p] : p \in DOMAIN f}
<1>1. \A p \in A : p[1] \in DOMAIN bs /\ bs[p[1]].depth \in Nat
  <2>1. \A p \in A : p[1] \in DOMAIN bs
    BY DEF Instructions
  <2> QED
    BY <2>1, CodeParts
<1>2. S = {bs[p[1]].depth : p \in A} /\ S \in SUBSET Nat /\ S # {}
  BY <1>1
<1>3. DOMAIN f = A /\ IsFiniteSet(A)
  BY InstructionsFinite, FS_Subset
<1> HIDE DEF f
<1>4. IsFiniteSet(S)
  BY <1>3, ImageSize
<1> HIDE DEF S
<1>5. Max(S) \in S
  BY <1>2, <1>4, MaxNatural
<1> QED
  BY <1>2, <1>5

(* build_graph makes an interference graph of the code.                    *)
LEMMA GraphTyped ==
  ASSUME CodeOK
  PROVE  IsGraph(GraphOf(blocks))
<1> DEFINE bs == blocks
           occ == Regs(bs)
           all == Instructions(bs)
           Ends(p) == At(bs, p).def \cup Uses(At(bs, p))
           moves == {p \in all : At(bs, p).kind = "move" /\ Cardinality(Ends(p)) = 2}
           Defs(n) == Cardinality({p \in all : n \in At(bs, p).def})
           UseCount(n) ==
             Cardinality({q \in all \X (1 .. 3) :
                            q[2] \in DOMAIN At(bs, q[1]).use /\ At(bs, q[1]).use[q[2]] = n})
           Having(n) == {q \in all : n \in Ends(q)}
           Depth(n) == Max({bs[p[1]].depth : p \in Having(n)})
           g == GraphOf(blocks)
<1>0. reg_n \in Nat /\ reg_n <= MaxNode /\ blocks \in Seq(Block(reg_n))
  <2>1. K \in Nat /\ MaxNode \in Nat /\ reg_n \in K .. MaxNode
    BY RegisterAssumption DEF CodeOK
  <2> QED
    BY <2>1 DEF CodeOK
<1>1. occ \in SUBSET (0 .. reg_n - 1) /\ occ \subseteq Node
  <2>1. occ \in SUBSET (0 .. reg_n - 1)
    BY <1>0, CodeParts
  <2>2. 0 .. reg_n - 1 \subseteq Node
    BY <1>0, RegisterAssumption DEF Node
  <2> QED
    BY <2>1, <2>2
<1>2. Cliques(bs) \in SUBSET SUBSET occ
  BY <1>0, CliquesTyped
<1>3. IsFiniteSet(all) /\ IsFiniteSet(all \X (1 .. 3))
  <2>1. IsFiniteSet(all)
    BY <1>0, InstructionsFinite
  <2>2. IsFiniteSet(1 .. 3)
    <3>1. PICK a, b \in Int : a = 1 /\ b = 3
      OBVIOUS
    <3>2. IsFiniteSet(a .. b)
      BY FS_Interval
    <3> QED
      BY <3>1, <3>2
  <2> QED
    BY <2>1, <2>2, FS_Product
<1>4. ASSUME NEW p \in all PROVE p[1] \in DOMAIN bs /\ Ends(p) \subseteq occ
  <2>1. p[1] \in DOMAIN bs /\ p[2] \in DOMAIN bs[p[1]].insts
    BY DEF Instructions
  <2>2. Within(bs[p[1]].insts, occ)
    BY <1>0, <2>1, CodeParts
  <2> QED
    BY <2>1, <2>2 DEF At, Within
<1>5. ASSUME NEW n \in occ
      PROVE  Defs(n) \in Nat /\ UseCount(n) \in Nat /\ Depth(n) \in Nat
  <2>1. Defs(n) \in Nat
    <3>1. {p \in all : n \in At(bs, p).def} \in SUBSET all
      OBVIOUS
    <3> QED
      BY <1>3, <3>1, FS_Subset, FS_CardinalityType
  <2>2. UseCount(n) \in Nat
    <3> DEFINE Q == {q \in all \X (1 .. 3) :
                       q[2] \in DOMAIN At(bs, q[1]).use /\ At(bs, q[1]).use[q[2]] = n}
    <3>1. Q \in SUBSET (all \X (1 .. 3))
      OBVIOUS
    <3> HIDE DEF Q
    <3>2. IsFiniteSet(Q)
      BY <1>3, <3>1, FS_Subset
    <3>3. Cardinality(Q) \in Nat
      BY <3>2, FS_CardinalityType
    <3> QED
      BY <3>3 DEF Q
  <2>3. Depth(n) \in Nat
    <3>1. Having(n) # {}
      <4>1. PICK b \in DOMAIN bs : \E k \in DOMAIN bs[b].insts :
              n \in Uses(bs[b].insts[k]) \cup bs[b].insts[k].def
        BY DEF Regs, Range
      <4>2. PICK k \in DOMAIN bs[b].insts : n \in Uses(bs[b].insts[k]) \cup bs[b].insts[k].def
        BY <4>1
      <4>3. <<b, k>> \in all /\ n \in Ends(<<b, k>>)
        BY <4>2 DEF Instructions, At
      <4> QED
        BY <4>3
    <3>2. Having(n) \in SUBSET Instructions(bs)
      OBVIOUS
    <3> HIDE DEF Having
    <3> QED
      BY <1>0, <3>1, <3>2, DepthType
  <2> QED
    BY <2>1, <2>2, <2>3
<1>6. /\ g.occur = occ
      /\ g.adj = [n \in Node |-> (UNION {c \in Cliques(bs) : n \in c}) \ {n}]
      /\ g.move = [e \in {Ends(p) : p \in moves} |-> Cardinality({p \in moves : Ends(p) = e})]
      /\ g.cost = [n \in occ |-> (Defs(n) + UseCount(n)) * GetExp(4, Depth(n))]
      /\ g.useCost = [n \in occ |-> UseCount(n) * GetExp(4, Depth(n))]
  BY DEF GraphOf
<1> HIDE DEF g
<1>7. /\ g.adj \in [Node -> SUBSET g.occur]
      /\ \A u, v \in Node : u \in g.adj[v] => v \in g.adj[u] /\ u # v
  <2>1. \A n \in Node : g.adj[n] = (UNION {c \in Cliques(bs) : n \in c}) \ {n}
    BY <1>6
  <2>2. \A n \in Node : \A m : m \in g.adj[n] <=> m # n /\ \E c \in Cliques(bs) : n \in c /\ m \in c
    BY <2>1
  <2>3. \A n \in Node : g.adj[n] \in SUBSET occ
    BY <1>2, <2>2
  <2> QED
    BY <1>6, <2>2, <2>3
<1>8. DOMAIN g.move \subseteq Pairs(g.occur)
  <2>1. \A p \in moves : Ends(p) \subseteq occ /\ Cardinality(Ends(p)) = 2
    BY <1>4
  <2> HIDE DEF Ends, moves
  <2> QED
    BY <1>6, <2>1 DEF Pairs
<1>9. \A e \in DOMAIN g.move : g.move[e] \in Nat \ {0}
  <2> SUFFICES ASSUME NEW q \in moves PROVE g.move[Ends(q)] \in Nat \ {0}
    BY <1>6
  <2> DEFINE S == {p \in moves : Ends(p) = Ends(q)}
  <2>1. S \in SUBSET all /\ q \in S
    OBVIOUS
  <2>2. g.move[Ends(q)] = Cardinality(S)
    <3> HIDE DEF moves, Ends
    <3> QED
      BY <1>6
  <2> HIDE DEF S, all
  <2>3. IsFiniteSet(S) /\ Cardinality(S) \in Nat
    BY <1>3, <2>1, FS_Subset, FS_CardinalityType
  <2>4. Cardinality(S) # 0
    BY <2>1, <2>3, FS_EmptySet
  <2> QED
    BY <2>2, <2>3, <2>4
<1>10. \A n \in g.occur \ Machine : g.cost[n] \in Nat /\ g.useCost[n] \in Nat
  <2> HIDE DEF Defs, UseCount, Depth
  <2>1. ASSUME NEW n \in occ PROVE GetExp(4, Depth(n)) \in Nat
    BY <1>5, GetExpType
  <2>2. \A x, y, z \in Nat : (x + y) * z \in Nat /\ y * z \in Nat
    OBVIOUS
  <2> QED
    BY <1>5, <1>6, <2>1, <2>2
<1> QED
  BY <1>1, <1>6, <1>7, <1>8, <1>9, <1>10 DEF IsGraph, g

-------------------------------------------------------------------------------
(* Only the registers that occur decide which code it is.                  *)
LEMMA InsnBelow ==
  ASSUME NEW n \in Nat, NEW i \in Insn(n), NEW m \in Nat,
         i.def \subseteq 0 .. m - 1, Uses(i) \subseteq 0 .. m - 1
  PROVE  i \in Insn(m)
<1>1. i \in [kind : Kind, tag : Int, def : SUBSET (0 .. n - 1), use : Seq(0 .. n - 1)]
      /\ Len(i.use) >= Arity(i.kind)
  BY DEF Insn
<1>2. i.use \in Seq(0 .. m - 1)
  <2>1. /\ Len(i.use) \in Nat /\ DOMAIN i.use = 1 .. Len(i.use)
        /\ \A k \in 1 .. Len(i.use) : i.use[k] \in 0 .. m - 1
    BY InsnParts
  <2>2. i.use = [k \in 1 .. Len(i.use) |-> i.use[k]]
    BY <1>1, LenProperties
  <2>3. i.use \in [1 .. Len(i.use) -> 0 .. m - 1]
    BY <2>1, <2>2
  <2> QED
    BY <2>1, <2>3
<1>3. i \in [kind : Kind, tag : Int, def : SUBSET (0 .. m - 1), use : Seq(0 .. m - 1)]
  BY <1>1, <1>2
<1> QED
  BY <1>1, <1>3 DEF Insn

LEMMA CodeOf ==
  ASSUME NEW T, NEW insts, NEW N \in Nat, insts \in [1 .. N -> T]
  PROVE  insts \in Seq(T) /\ Len(insts) = N
OBVIOUS

LEMMA BlocksBelow ==
  ASSUME NEW n \in Nat, NEW bs \in Seq(Block(n)), NEW m \in Nat, Regs(bs) \subseteq 0 .. m - 1
  PROVE  bs \in Seq(Block(m))
<1>1. ASSUME NEW b \in DOMAIN bs PROVE bs[b] \in Block(m)
  <2>1. bs[b] \in [insts : Seq(Insn(n)), succ : SUBSET Nat, depth : Nat]
    BY LenProperties DEF Block
  <2> DEFINE insts == bs[b].insts
  <2>2. /\ Len(insts) \in Nat /\ DOMAIN insts = 1 .. Len(insts)
        /\ insts \in Seq(Insn(n)) /\ Within(insts, Regs(bs))
        /\ \A k \in DOMAIN insts : insts[k] \in Insn(n)
    BY CodeParts
  <2>3. ASSUME NEW k \in DOMAIN insts PROVE insts[k] \in Insn(m)
    <3>1. insts[k].def \subseteq 0 .. m - 1 /\ Uses(insts[k]) \subseteq 0 .. m - 1
      BY <2>2 DEF Within
    <3> QED
      BY <2>2, <3>1, InsnBelow
  <2> HIDE DEF insts
  <2>4. insts = [k \in 1 .. Len(insts) |-> insts[k]]
    BY <2>2, LenProperties
  <2>5. insts \in [1 .. Len(insts) -> Insn(m)]
    BY <2>2, <2>3, <2>4
  <2>6. insts \in Seq(Insn(m))
    BY <2>2, <2>5, CodeOf
  <2>7. bs[b] \in [insts : Seq(Insn(m)), succ : SUBSET Nat, depth : Nat]
    BY <2>1, <2>6 DEF insts
  <2> QED
    BY <2>7 DEF Block
<1>2. Len(bs) \in Nat /\ DOMAIN bs = 1 .. Len(bs) /\ bs \in [1 .. Len(bs) -> Block(n)]
  BY LenProperties
<1>3. bs \in [1 .. Len(bs) -> Block(m)]
  BY <1>1, <1>2
<1> QED
  BY <1>2, <1>3, CodeOf

LEMMA FrameInitInv ==
  ASSUME FrameInit
  PROVE  FrameInv
<1> DEFINE S == Regs(source.blocks) \cup Machine
           m == Max(S)
<1>1. /\ source \in Programs /\ blocks = source.blocks /\ reg_n = 1 + m /\ remat = source.remat
      /\ pc = "build" /\ used = {}
  BY DEF FrameInit, RegInit
<1>2. /\ MaxNode \in Nat /\ K \in Nat /\ K > 0
      /\ Node = 0 .. MaxNode - 1 /\ Machine = 0 .. K - 1 /\ K <= MaxNode
  BY RegisterAssumption DEF Node, Machine
<1>3. /\ blocks \in Seq(Block(MaxNode))
      /\ DOMAIN remat \subseteq Regs(blocks) /\ \A r \in DOMAIN remat : remat[r] \in Int
  BY <1>1, ProgramsAssumption
<1>4. Regs(blocks) \in SUBSET Node
  BY <1>2, <1>3, CodeParts
<1>5. S \in SUBSET Node /\ S \in SUBSET Nat /\ K - 1 \in S /\ IsFiniteSet(S) /\ S # {}
  <2>1. S \in SUBSET Node /\ K - 1 \in S
    BY <1>1, <1>2, <1>4
  <2> QED
    BY <2>1, NodeSets
<1> HIDE DEF S
<1>6. m \in S /\ \A r \in S : r <= m
  BY <1>5, MaxNatural
<1> HIDE DEF m
<1>7. m \in Node /\ m >= K - 1
  BY <1>2, <1>5, <1>6
<1>8. reg_n \in K .. MaxNode /\ reg_n \in Nat
  BY <1>1, <1>2, <1>7
<1>9. Regs(blocks) \subseteq 0 .. reg_n - 1
  <2>1. ASSUME NEW r \in Regs(blocks) PROVE r \in 0 .. reg_n - 1
    <3>1. r \in S /\ r \in Nat /\ r <= m
      BY <1>1, <1>5, <1>6 DEF S
    <3> QED
      BY <1>1, <1>2, <1>7, <3>1
  <2> QED
    BY <2>1
<1>10. blocks \in Seq(Block(reg_n))
  BY <1>2, <1>3, <1>8, <1>9, BlocksBelow
<1>11. CodeOK
  BY <1>3, <1>8, <1>9, <1>10 DEF CodeOK
<1> QED
  BY <1>1, <1>11 DEF FrameInv, CalleeSavePrefix, AliveApart

-------------------------------------------------------------------------------
(* A run of the allocator starts from the graph build_graph has made.      *)
LEMMA FreshStart ==
  IsGraph(graph) /\ StartOn(graph) => Inv
BY StartInv

LEMMA BuildInv ==
  ASSUME FrameInv, Build
  PROVE  FrameInv'
<1>1. /\ pc = "build" /\ Restart(GraphOf(blocks))
      /\ blocks' = blocks /\ reg_n' = reg_n /\ remat' = remat /\ temps' = temps
  BY DEF Build, code
<1>2. graph' = GraphOf(blocks) /\ pc' = "loop" /\ used' = {}
  BY <1>1 DEF Restart
<1>3. StartOn(graph)'
  BY <1>1, <1>2 DEF StartOn, Restart
<1>4. IsGraph(graph)'
  BY <1>2, GraphTyped DEF FrameInv, IsGraph
<1>5. Inv'
  BY <1>3, <1>4, FreshStart, PTL
<1>6. CodeOK'
  BY <1>1 DEF FrameInv, CodeOK
<1>7. graph' = GraphOf(blocks)'
  BY <1>1, <1>2 DEF GraphOf
<1> QED
  BY <1>2, <1>5, <1>6, <1>7 DEF FrameInv, CalleeSavePrefix, AliveApart

(* Registers in a clique of the code are neighbours in its graph, so a     *)
(* colouring of the graph sets them apart.                                 *)
LEMMA ColorsFit ==
  CodeOK /\ graph = GraphOf(blocks) /\ ValidColoring /\ pc # "framed" => AliveApart
<1> SUFFICES ASSUME CodeOK, graph = GraphOf(blocks), ValidColoring, pc = "done",
                    NEW c \in Cliques(blocks), NEW x \in c, NEW y \in c
             PROVE  color[x] \in Machine /\ (x # y => color[x] # color[y])
  BY DEF AliveApart
<1>1. reg_n \in Nat /\ blocks \in Seq(Block(reg_n)) /\ reg_n <= MaxNode
  <2>1. K \in Nat /\ MaxNode \in Nat /\ reg_n \in K .. MaxNode
    BY RegisterAssumption DEF CodeOK
  <2> QED
    BY <2>1 DEF CodeOK
<1>2. c \subseteq Regs(blocks) /\ Regs(blocks) \subseteq Node
  <2>1. Regs(blocks) \in SUBSET (0 .. reg_n - 1)
    BY <1>1, CodeParts
  <2>2. 0 .. reg_n - 1 \subseteq Node
    BY <1>1, RegisterAssumption DEF Node
  <2> QED
    BY <1>1, <2>1, <2>2, CliquesTyped
<1>3. /\ graph.occur = Regs(blocks)
      /\ graph.adj = [n \in Node |-> (UNION {d \in Cliques(blocks) : n \in d}) \ {n}]
  BY DEF GraphOf
<1>4. x \in graph.occur /\ (x # y => y \in graph.adj[x])
  BY <1>2, <1>3
<1> QED
  BY <1>4 DEF ValidColoring

LEMMA StepInv ==
  ASSUME FrameInv, Step, UNCHANGED code
  PROVE  FrameInv'
<1>1. /\ blocks' = blocks /\ reg_n' = reg_n /\ remat' = remat /\ temps' = temps
  BY DEF code
<1>2. pc \notin {"build", "framed"} /\ graph' = graph
  BY DEF Step, Prepare, Simplify, StartCoalesce, Coalesce, EndCoalesce, Freeze, Spill, Leave,
         Color, EndColor
<1>3. Inv'
  BY <1>2, NextInv DEF FrameInv, Next
<1>4. CodeOK'
  BY <1>1 DEF FrameInv, CodeOK
<1>5. graph' = GraphOf(blocks)'
  BY <1>1, <1>2 DEF FrameInv, GraphOf
<1>6. pc' \in Location /\ CalleeSavePrefix' /\ ValidColoring'
  BY <1>3 DEF Inv, TypeOK
<1>7. pc' # "framed"
  BY <1>6 DEF Location
<1>8. AliveApart'
  <2>1. (graph = GraphOf(blocks))' /\ (pc # "framed")'
    BY <1>5, <1>7
  <2> QED
    BY <1>4, <1>6, <2>1, ColorsFit, PTL
<1> QED
  BY <1>3, <1>4, <1>5, <1>6, <1>8 DEF FrameInv

LEMMA FinishInv ==
  ASSUME FrameInv, Finish
  PROVE  FrameInv'
<1>1. /\ pc = "done" /\ pc' = "framed" /\ color' = color /\ graph' = graph /\ used' = used
      /\ blocks' = blocks /\ reg_n' = reg_n /\ remat' = remat /\ temps' = temps
  BY DEF Finish, code
<1>2. graph' = GraphOf(blocks)'
  BY <1>1 DEF FrameInv, GraphOf
<1> QED
  BY <1>1, <1>2 DEF FrameInv, CodeOK, CalleeSavePrefix, AliveApart

LEMMA FrameUnchangedInv ==
  ASSUME FrameInv, UNCHANGED state
  PROVE  FrameInv'
<1>1. /\ UNCHANGED vars
      /\ blocks' = blocks /\ reg_n' = reg_n /\ remat' = remat /\ temps' = temps
  BY DEF state, code
<1>2. pc' = pc /\ color' = color /\ graph' = graph /\ used' = used
  BY <1>1 DEF vars
<1>3. Inv => Inv'
  BY <1>1, NextInv
<1>4. graph = GraphOf(blocks) => graph' = GraphOf(blocks)'
  BY <1>1, <1>2 DEF GraphOf
<1> QED
  BY <1>1, <1>2, <1>3, <1>4 DEF FrameInv, CodeOK, CalleeSavePrefix, AliveApart

-------------------------------------------------------------------------------
(* Temporaries are numbered from reg_n on.                                 *)
LEMMA TempRange ==
  ASSUME CodeOK, NEW U, spilled \in Seq(U)
  PROVE  /\ IsFiniteSet(Sites) /\ Cardinality(Sites) \in Nat
         /\ \A s \in Sites : Temp(s) \in reg_n .. reg_n + Cardinality(Sites) - 1
<1>1. reg_n \in Nat /\ blocks \in Seq(Block(reg_n))
  <2>1. K \in Nat /\ MaxNode \in Nat /\ reg_n \in K .. MaxNode
    BY RegisterAssumption DEF CodeOK
  <2> QED
    BY <2>1 DEF CodeOK
<1>2. IsFiniteSet(Instructions(blocks) \X DOMAIN spilled)
  <2>1. Len(spilled) \in Nat /\ DOMAIN spilled = 1 .. Len(spilled)
    BY LenProperties
  <2>2. IsFiniteSet(1 .. Len(spilled))
    BY <2>1, FS_Interval
  <2> QED
    BY <1>1, <2>1, <2>2, InstructionsFinite, FS_Product
<1>3. Sites \in SUBSET (Instructions(blocks) \X DOMAIN spilled)
  BY DEF Sites
<1>4. IsFiniteSet(Sites) /\ Cardinality(Sites) \in Nat
  BY <1>2, <1>3, FS_Subset, FS_CardinalityType
<1>5. ASSUME NEW s \in Sites PROVE Temp(s) \in reg_n .. reg_n + Cardinality(Sites) - 1
  <2> DEFINE E == {t \in Sites : Earlier(t, s)}
  <2>1. ~Earlier(s, s)
    <3>1. s[1] \in Instructions(blocks) /\ s[2] \in DOMAIN spilled
      BY <1>3
    <3>2. s[1][1] \in DOMAIN blocks /\ s[1][2] \in DOMAIN blocks[s[1][1]].insts
      BY <3>1 DEF Instructions
    <3>3. s[1][1] \in Nat /\ s[1][2] \in Nat /\ s[2] \in Nat
      <4>1. DOMAIN blocks = 1 .. Len(blocks)
            /\ DOMAIN blocks[s[1][1]].insts = 1 .. Len(blocks[s[1][1]].insts)
        BY <1>1, <3>2, CodeParts
      <4>2. DOMAIN spilled = 1 .. Len(spilled)
        BY LenProperties
      <4> QED
        BY <3>1, <3>2, <4>1, <4>2
    <3>4. \A n \in Nat : ~(n < n)
      OBVIOUS
    <3> QED
      BY <3>3, <3>4 DEF Earlier
  <2>2. E \in SUBSET Sites /\ E # Sites
    BY <1>5, <2>1
  <2>3. Temp(s) = reg_n + Cardinality(E)
    BY DEF Temp
  <2> HIDE DEF E
  <2>4. /\ IsFiniteSet(E) /\ Cardinality(E) <= Cardinality(Sites)
        /\ Cardinality(E) # Cardinality(Sites)
    BY <1>4, <2>2, FS_Subset
  <2>5. Cardinality(E) \in Nat
    BY <2>4, FS_CardinalityType
  <2> QED
    BY <1>1, <1>4, <2>3, <2>4, <2>5
<1> QED
  BY <1>4, <1>5

\* The parts of the code that replaces the instruction at point p.
Reloads(p) ==
  [j \in 1 .. Len(spilled) |->
     IF <<p, j>> \in Sites THEN Reload(At(blocks, p), spilled[j], Temp(<<p, j>>)) ELSE <<>>]

WriteBacks(p) ==
  [j \in 1 .. Len(spilled) |->
     IF <<p, Len(spilled) + 1 - j>> \in Sites
     THEN WriteBack(At(blocks, p), spilled[Len(spilled) + 1 - j], Temp(<<p, Len(spilled) + 1 - j>>))
     ELSE <<>>]

NameAt(p, r) ==
  IF \E j \in 1 .. Len(spilled) : spilled[j] = r /\ <<p, j>> \in Sites
  THEN Temp(<<p, CHOOSE j \in 1 .. Len(spilled) : spilled[j] = r>>) ELSE r

Named(p) ==
  [At(blocks, p) EXCEPT !.def = {NameAt(p, r) : r \in @},
                        !.use = [k \in DOMAIN @ |-> NameAt(p, @[k])]]

LEMMA RewrittenForm ==
  ASSUME NEW p
  PROVE  Rewritten(p) = IF Erased(At(blocks, p)) THEN <<>>
                        ELSE FlattenSeq(Reloads(p)) \o <<Named(p)>> \o FlattenSeq(WriteBacks(p))
BY DEF Rewritten, Reloads, WriteBacks, NameAt, Named

\* The registers of the code that were not spilled, and new ones below n.
Kept(n) == (Regs(blocks) \ Range(spilled)) \cup (reg_n .. n - 1)

\* Instructions with no other registers.
Clean(n) == {i \in Insn(n) : i.def \subseteq Kept(n) /\ Uses(i) \subseteq Kept(n)}

\* Of these, what is put around an instruction.
SpillCode(n) == {i \in Clean(n) : i.kind \in {"load", "store", "const"}}

LEMMA TempClean ==
  ASSUME CodeOK, spilled \in Seq(0 .. reg_n - 1), NEW n \in Nat, n = reg_n + Cardinality(Sites),
         NEW s \in Sites
  PROVE  Temp(s) \in (0 .. n - 1) \cap Kept(n)
<1>1. reg_n \in Nat
  <2>1. K \in Nat /\ MaxNode \in Nat /\ reg_n \in K .. MaxNode
    BY RegisterAssumption DEF CodeOK
  <2> QED
    BY <2>1
<1>2. Temp(s) \in reg_n .. reg_n + Cardinality(Sites) - 1 /\ Cardinality(Sites) \in Nat
  BY TempRange
<1>3. Temp(s) \in reg_n .. n - 1
  BY <1>1, <1>2
<1>4. Temp(s) \in 0 .. n - 1
  BY <1>1, <1>3
<1> QED
  BY <1>3, <1>4 DEF Kept

(* What is put before and after an instruction names temporaries only.     *)
LEMMA SpillCodeClean ==
  ASSUME NEW n \in Nat, NEW t \in (0 .. n - 1) \cap Kept(n), NEW c \in Int
  PROVE  Load(t, c) \in SpillCode(n) /\ Store(t, c) \in SpillCode(n) /\ Const(t, c) \in SpillCode(n)
<1> DEFINE Typed == [kind : Kind, tag : Int, def : SUBSET (0 .. n - 1), use : Seq(0 .. n - 1)]
<1>1. <<t>> \in Seq(0 .. n - 1) /\ <<t>> # <<>> /\ Range(<<t>>) = {t}
  BY DEF Range
<1>2. <<>> \in Seq(0 .. n - 1) /\ Range(<<>>) = {}
  BY EmptySeq DEF Range
<1>3. {"load", "store", "const"} \subseteq Kind
  BY DEF Kind
<1>4. Load(t, c) \in Typed /\ Const(t, c) \in Typed
  BY <1>2, <1>3 DEF Load, Const
<1>5. Store(t, c) \in Typed
  BY <1>1, <1>3 DEF Store
<1>6. /\ Load(t, c).kind = "load" /\ Load(t, c).def = {t} /\ Uses(Load(t, c)) = {}
      /\ Const(t, c).kind = "const" /\ Const(t, c).def = {t} /\ Uses(Const(t, c)) = {}
      /\ Store(t, c).kind = "store" /\ Store(t, c).use # <<>> /\ Store(t, c).def = {} /\ Uses(Store(t, c)) = {t}
  BY <1>1, <1>2 DEF Load, Const, Store, Uses
<1>7. t \in Kept(n)
  OBVIOUS
<1>8. /\ Len(Load(t, c).use) >= Arity("load") /\ Len(Const(t, c).use) >= Arity("const")
      /\ Len(Store(t, c).use) >= Arity("store")
  <2>1. Load(t, c).use = <<>> /\ Const(t, c).use = <<>> /\ Store(t, c).use = <<t>>
    BY DEF Load, Const, Store
  <2>2. Arity("load") = 0 /\ Arity("const") = 0 /\ Arity("store") = 1
    BY DEF Arity
  <2> QED
    BY <2>1, <2>2
<1>9. Load(t, c) \in Insn(n) /\ Const(t, c) \in Insn(n) /\ Store(t, c) \in Insn(n)
  BY <1>4, <1>5, <1>6, <1>8 DEF Insn
<1> QED
  BY <1>6, <1>7, <1>9 DEF SpillCode, Clean

LEMMA ReloadsClean ==
  ASSUME CodeOK, spilled \in Seq(0 .. reg_n - 1), NEW n \in Nat, n = reg_n + Cardinality(Sites),
         NEW p
  PROVE  /\ Reloads(p) \in Seq(Seq(SpillCode(n))) /\ WriteBacks(p) \in Seq(Seq(SpillCode(n)))
         /\ FlattenSeq(Reloads(p)) \in Seq(SpillCode(n)) /\ FlattenSeq(WriteBacks(p)) \in Seq(SpillCode(n))
<1> DEFINE m == Len(spilled)
<1>1. m \in Nat /\ DOMAIN spilled = 1 .. m /\ \A j \in 1 .. m : spilled[j] \in 0 .. reg_n - 1
  BY LenProperties
<1>2. \A j \in 1 .. m : spilled[j] \in Int
  BY <1>1
<1>3. \A r \in DOMAIN remat : remat[r] \in Int
  BY DEF CodeOK
<1>4. <<>> \in Seq(SpillCode(n)) /\ \A i \in SpillCode(n) : <<i>> \in Seq(SpillCode(n))
  OBVIOUS
<1>5. ASSUME NEW j \in 1 .. m, NEW i, <<p, j>> \in Sites
      PROVE  /\ Reload(i, spilled[j], Temp(<<p, j>>)) \in Seq(SpillCode(n))
             /\ WriteBack(i, spilled[j], Temp(<<p, j>>)) \in Seq(SpillCode(n))
  <2> DEFINE t == Temp(<<p, j>>)
             r == spilled[j]
  <2>1. t \in (0 .. n - 1) \cap Kept(n)
    BY <1>5, TempClean
  <2>2. r \in Int
    BY <1>2
  <2> HIDE DEF t, r
  <2>3. Load(t, r) \in SpillCode(n) /\ Store(t, r) \in SpillCode(n)
    BY <2>1, <2>2, SpillCodeClean
  <2>4. r \in DOMAIN remat => Const(t, remat[r]) \in SpillCode(n)
    BY <1>3, <2>1, SpillCodeClean
  <2>5. Reload(i, r, t) \in Seq(SpillCode(n)) /\ WriteBack(i, r, t) \in Seq(SpillCode(n))
    BY <1>4, <2>3, <2>4 DEF Reload, WriteBack
  <2> QED
    BY <2>5 DEF t, r
<1> HIDE DEF m
<1>6. \A j \in 1 .. m : m + 1 - j \in 1 .. m
  BY <1>1
<1>7. Reloads(p) \in [1 .. m -> Seq(SpillCode(n))]
  BY <1>4, <1>5 DEF Reloads, m
<1>8. WriteBacks(p) \in [1 .. m -> Seq(SpillCode(n))]
  BY <1>4, <1>5, <1>6 DEF WriteBacks, m
<1>9. Reloads(p) \in Seq(Seq(SpillCode(n))) /\ WriteBacks(p) \in Seq(Seq(SpillCode(n)))
  BY <1>1, <1>7, <1>8, CodeOf
<1> QED
  BY <1>9, Flattened

(* In the instruction itself every spilled register has a new name.        *)
LEMMA NamedClean ==
  ASSUME CodeOK, spilled \in Seq(0 .. reg_n - 1), NEW n \in Nat, n = reg_n + Cardinality(Sites),
         NEW p \in Instructions(blocks), ~Erased(At(blocks, p))
  PROVE  Named(p) \in Clean(n)
<1> PICK i : i = At(blocks, p)
  OBVIOUS
<1> DEFINE m == Len(spilled)
           R == Uses(i) \cup i.def
<1>1. reg_n \in Nat /\ blocks \in Seq(Block(reg_n))
  <2>1. K \in Nat /\ MaxNode \in Nat /\ reg_n \in K .. MaxNode
    BY RegisterAssumption DEF CodeOK
  <2> QED
    BY <2>1 DEF CodeOK
<1>2. i \in Insn(reg_n) /\ R \subseteq Regs(blocks)
  <2>1. p[1] \in DOMAIN blocks /\ p[2] \in DOMAIN blocks[p[1]].insts
    BY DEF Instructions
  <2>2. Within(blocks[p[1]].insts, Regs(blocks))
    BY <1>1, <2>1, CodeParts
  <2> QED
    BY <1>1, <2>1, <2>2, CodeParts DEF At, Within
<1>3. /\ i.def \in SUBSET (0 .. reg_n - 1) /\ Uses(i) \in SUBSET (0 .. reg_n - 1)
      /\ Len(i.use) \in Nat /\ DOMAIN i.use = 1 .. Len(i.use)
      /\ \A k \in DOMAIN i.use : i.use[k] \in Uses(i)
      /\ (i.kind = "store" => i.use # <<>>)
  BY <1>1, <1>2, InsnParts
<1>4. Cardinality(Sites) \in Nat /\ IsFiniteSet(Sites)
  BY TempRange
<1>5. ASSUME NEW r \in R PROVE NameAt(p, r) \in (0 .. n - 1) \cap Kept(n)
  <2>0. DOMAIN spilled = 1 .. m
    BY LenProperties
  <2>1. CASE \E j \in 1 .. m : spilled[j] = r /\ <<p, j>> \in Sites
    <3> DEFINE q == CHOOSE j \in 1 .. m : spilled[j] = r
    <3>1. q \in 1 .. m /\ spilled[q] = r
      BY <2>1
    <3> HIDE DEF q
    <3>2. PICK j \in 1 .. m : spilled[j] = r /\ <<p, j>> \in Sites
      BY <2>1
    <3>3. <<p, q>> \in Sites
      BY <2>0, <3>1, <3>2 DEF Sites
    <3>4. NameAt(p, r) = Temp(<<p, q>>)
      BY <2>1 DEF NameAt, q
    <3> QED
      BY <3>3, <3>4, TempClean
  <2>2. CASE ~\E j \in 1 .. m : spilled[j] = r /\ <<p, j>> \in Sites
    <3>1. NameAt(p, r) = r
      BY <2>2 DEF NameAt
    <3>2. r \in 0 .. n - 1
      BY <1>1, <1>3, <1>4
    <3>3. r \notin Range(spilled)
      <4> SUFFICES ASSUME r \in Range(spilled) PROVE FALSE
        OBVIOUS
      <4>1. PICK j \in 1 .. m : spilled[j] = r
        BY <2>0 DEF Range
      <4>2. r \in Uses(i) \/ (r \in i.def /\ r \notin DOMAIN remat)
        BY DEF Erased
      <4>3. <<p, j>> \in Sites
        BY <2>0, <4>1, <4>2 DEF Sites
      <4> QED
        BY <2>2, <4>1, <4>3
    <3> QED
      BY <1>2, <3>1, <3>2, <3>3 DEF Kept
  <2> QED
    BY <2>1, <2>2
<1> DEFINE C == (0 .. n - 1) \cap Kept(n)
           D == {NameAt(p, r) : r \in i.def}
           u == [k \in DOMAIN i.use |-> NameAt(p, i.use[k])]
           w == Named(p)
<1>6. w = [i EXCEPT !.def = D, !.use = u]
  BY DEF Named
<1>7. i \in [kind : Kind, tag : Int, def : SUBSET (0 .. reg_n - 1), use : Seq(0 .. reg_n - 1)]
  BY <1>2 DEF Insn
<1>8. D \in SUBSET C
  BY <1>5
<1>9. u \in [1 .. Len(i.use) -> C] /\ \A k \in 1 .. Len(i.use) : u[k] \in C
  BY <1>3, <1>5
<1> HIDE DEF D, C, w
<1>10. u \in Seq(C) /\ Len(u) = Len(i.use) /\ Range(u) \subseteq C
  <2>1. u \in Seq(C) /\ Len(u) = Len(i.use)
    BY <1>3, <1>9, CodeOf
  <2>2. DOMAIN u = 1 .. Len(i.use)
    BY <1>9
  <2> QED
    BY <1>9, <2>1, <2>2 DEF Range
<1> HIDE DEF u
<1>11. /\ w \in [kind : Kind, tag : Int, def : SUBSET C, use : Seq(C)]
       /\ w.kind = i.kind /\ w.def = D /\ w.use = u
  BY <1>6, <1>7, <1>8, <1>10
<1>12. SUBSET C \subseteq SUBSET (0 .. n - 1) /\ Seq(C) \subseteq Seq(0 .. n - 1)
  <2>1. C \subseteq 0 .. n - 1
    BY DEF C
  <2> QED
    BY <2>1, SeqMonotonic
<1>13. w \in [kind : Kind, tag : Int, def : SUBSET (0 .. n - 1), use : Seq(0 .. n - 1)]
  BY <1>11, <1>12
<1>14. Len(u) = Len(i.use) /\ Len(i.use) >= Arity(i.kind)
  <2>1. i.use \in Seq(0 .. reg_n - 1) /\ DOMAIN i.use = 1 .. Len(i.use) /\ Len(i.use) \in Nat
    BY <1>1, <1>2, InsnParts
  <2>2. u \in Seq(C)
    BY <1>10
  <2>3. DOMAIN u = DOMAIN i.use
    BY DEF u
  <2>4. Len(u) = Len(i.use)
    BY <2>1, <2>2, <2>3, LenProperties
  <2> QED
    BY <1>1, <1>2, <2>4, InsnParts
<1>15. w.def \subseteq Kept(n) /\ Uses(w) \subseteq Kept(n)
  BY <1>8, <1>10, <1>11 DEF Uses, C
<1>16. w \in Insn(n)
  BY <1>11, <1>13, <1>14 DEF Insn
<1> QED
  BY <1>15, <1>16 DEF Clean, w

LEMMA RewrittenClean ==
  ASSUME CodeOK, spilled \in Seq(0 .. reg_n - 1), NEW n \in Nat, n = reg_n + Cardinality(Sites),
         NEW p \in Instructions(blocks)
  PROVE  Rewritten(p) \in Seq(Clean(n))
<1>1. CASE Erased(At(blocks, p))
  <2>1. <<>> \in Seq(Clean(n))
    BY EmptySeq
  <2> QED
    BY <1>1, <2>1, RewrittenForm
<1>2. CASE ~Erased(At(blocks, p))
  <2> DEFINE a == FlattenSeq(Reloads(p))
             b == <<Named(p)>>
             c == FlattenSeq(WriteBacks(p))
             V == Seq(Clean(n))
  <2>1. a \in V /\ c \in V
    <3>1. SpillCode(n) \subseteq Clean(n)
      BY DEF SpillCode
    <3> QED
      BY <3>1, ReloadsClean, SeqMonotonic
  <2>2. b \in V
    BY <1>2, NamedClean
  <2>3. Rewritten(p) = a \o b \o c
    BY <1>2, RewrittenForm
  <2> HIDE DEF a, b, c
  <2>4. a \o b \in Seq(Clean(n))
    BY <2>1, <2>2, ConcatProperties
  <2>5. (a \o b) \o c \in Seq(Clean(n))
    BY <2>1, <2>4, ConcatProperties
  <2> QED
    BY <2>3, <2>5
<1> QED
  BY <1>1, <1>2

-------------------------------------------------------------------------------
\* bs is the code with instructions of T put in the places of its instructions.
Patched(bs, T) ==
  /\ bs = [b \in DOMAIN blocks |-> bs[b]]
  /\ \A b \in DOMAIN blocks :
       \E ss \in Seq(Seq(T)) : bs[b] = [blocks[b] EXCEPT !.insts = FlattenSeq(ss)]

LEMMA PatchedCode ==
  ASSUME CodeOK, NEW n \in Nat, NEW T \in SUBSET Insn(n), NEW bs, Patched(bs, T)
  PROVE  /\ bs \in Seq(Block(n))
         /\ \A r \in Regs(bs) : \E i \in T : r \in i.def \/ r \in Uses(i)
<1>1. reg_n \in Nat /\ blocks \in Seq(Block(reg_n))
  <2>1. K \in Nat /\ MaxNode \in Nat /\ reg_n \in K .. MaxNode
    BY RegisterAssumption DEF CodeOK
  <2> QED
    BY <2>1 DEF CodeOK
<1>2. Len(blocks) \in Nat /\ DOMAIN blocks = 1 .. Len(blocks)
      /\ \A b \in 1 .. Len(blocks) : blocks[b] \in Block(reg_n)
  BY <1>1, LenProperties
<1>3. ASSUME NEW b \in DOMAIN blocks
      PROVE  bs[b] \in Block(n) /\ \A k \in DOMAIN bs[b].insts : bs[b].insts[k] \in T
  <2>1. PICK ss \in Seq(Seq(T)) : bs[b] = [blocks[b] EXCEPT !.insts = FlattenSeq(ss)]
    BY DEF Patched
  <2> DEFINE new == FlattenSeq(ss)
  <2>2. new \in Seq(T)
    BY Flattened
  <2> HIDE DEF new
  <2>3. new \in Seq(Insn(n)) /\ \A k \in DOMAIN new : new[k] \in T
    BY <2>2, SeqMonotonic, LenProperties
  <2>4. blocks[b] \in [insts : Seq(Insn(reg_n)), succ : SUBSET Nat, depth : Nat]
    BY <1>2 DEF Block
  <2>5. bs[b] = [blocks[b] EXCEPT !.insts = new]
    BY <2>1 DEF new
  <2>6. bs[b] \in [insts : Seq(Insn(n)), succ : SUBSET Nat, depth : Nat] /\ bs[b].insts = new
    BY <2>3, <2>4, <2>5
  <2> QED
    BY <2>3, <2>6 DEF Block
<1>4. bs \in Seq(Block(n)) /\ DOMAIN bs = DOMAIN blocks
  <2>1. bs = [b \in DOMAIN blocks |-> bs[b]]
    BY DEF Patched
  <2>2. bs \in [1 .. Len(blocks) -> Block(n)]
    BY <1>2, <1>3, <2>1
  <2>3. DOMAIN bs = 1 .. Len(blocks)
    BY <2>2
  <2> QED
    BY <1>2, <2>2, <2>3, CodeOf
<1>5. ASSUME NEW r \in Regs(bs) PROVE \E i \in T : r \in i.def \/ r \in Uses(i)
  <2>1. PICK b \in DOMAIN bs : \E k \in DOMAIN bs[b].insts :
          r \in Uses(bs[b].insts[k]) \cup bs[b].insts[k].def
    BY DEF Regs, Range
  <2>2. PICK k \in DOMAIN bs[b].insts : r \in Uses(bs[b].insts[k]) \cup bs[b].insts[k].def
    BY <2>1
  <2> QED
    BY <1>3, <1>4, <2>2
<1> QED
  BY <1>4, <1>5

(* What was spilled are registers of the code.                             *)
LEMMA SpilledRegisters ==
  ASSUME FrameInv, pc = "rewrite"
  PROVE  spilled \in Seq(0 .. reg_n - 1)
<1>1. reg_n \in Nat /\ blocks \in Seq(Block(reg_n))
  <2>1. K \in Nat /\ MaxNode \in Nat /\ reg_n \in K .. MaxNode
    BY RegisterAssumption DEF FrameInv, CodeOK
  <2> QED
    BY <2>1 DEF FrameInv, CodeOK
<1>2. Range(spilled) \subseteq graph.occur /\ spilled \in Seq(Node \ Machine)
  BY DEF FrameInv, Inv, TypeOK, ListsTyped
<1>3. graph.occur = Regs(blocks)
  BY DEF FrameInv, GraphOf
<1>4. Range(spilled) \subseteq 0 .. reg_n - 1
  BY <1>1, <1>2, <1>3, CodeParts
<1>5. spilled \in Seq(Range(spilled))
  BY <1>2, SeqOfRange
<1> QED
  BY <1>4, <1>5, SeqMonotonic

(* A round's rewriting leaves code, without the registers it spilled.      *)
LEMMA RewriteStep ==
  ASSUME FrameInv, Rewrite
  PROVE  /\ CodeOK' /\ Regs(blocks') \subseteq Kept(reg_n')
         /\ \A r \in Range(spilled) : r \notin Regs(blocks')
<1>1. /\ pc = "rewrite"
      /\ reg_n' = reg_n + Cardinality(Sites)
      /\ reg_n + Cardinality(Sites) <= MaxNode
      /\ blocks' = [b \in DOMAIN blocks |->
                      [blocks[b] EXCEPT !.insts =
                         FlattenSeq([k \in DOMAIN @ |-> Rewritten(<<b, k>>)])]]
  BY DEF Rewrite
<1>2. spilled \in Seq(0 .. reg_n - 1)
  BY <1>1, SpilledRegisters
<1>3. CodeOK
  BY DEF FrameInv
<1>4. /\ K \in Nat /\ MaxNode \in Nat /\ reg_n \in K .. MaxNode /\ reg_n \in Nat
      /\ blocks \in Seq(Block(reg_n))
  <2>1. K \in Nat /\ MaxNode \in Nat /\ reg_n \in K .. MaxNode
    BY <1>3, RegisterAssumption DEF CodeOK
  <2> QED
    BY <1>3, <2>1 DEF CodeOK
<1>5. IsFiniteSet(Sites) /\ Cardinality(Sites) \in Nat
  BY <1>2, <1>3, TempRange
<1>6. PICK n \in Nat : n = reg_n + Cardinality(Sites)
  BY <1>4, <1>5
<1>7. reg_n' = n /\ n \in K .. MaxNode /\ reg_n <= n
  BY <1>1, <1>4, <1>5, <1>6
<1>8. \A p \in Instructions(blocks) : Rewritten(p) \in Seq(Clean(n))
  BY <1>2, <1>3, <1>6, RewrittenClean
<1>9. Patched(blocks', Clean(n))
  <2>1. ASSUME NEW b \in DOMAIN blocks
        PROVE  \E ss \in Seq(Seq(Clean(n))) : blocks'[b] = [blocks[b] EXCEPT !.insts = FlattenSeq(ss)]
    <3> DEFINE N == Len(blocks[b].insts)
               ss == [k \in DOMAIN blocks[b].insts |-> Rewritten(<<b, k>>)]
    <3>1. N \in Nat /\ DOMAIN blocks[b].insts = 1 .. N
      BY <1>4, CodeParts
    <3>2. \A k \in 1 .. N : <<b, k>> \in Instructions(blocks)
      BY <3>1 DEF Instructions
    <3> HIDE DEF N
    <3>3. ss \in [1 .. N -> Seq(Clean(n))]
      BY <1>8, <3>1, <3>2
    <3>4. blocks'[b] = [blocks[b] EXCEPT !.insts = FlattenSeq(ss)]
      <4>1. blocks[b].insts = blocks[b].insts
        OBVIOUS
      <4> QED
        BY <1>1
    <3> HIDE DEF ss
    <3>5. ss \in Seq(Seq(Clean(n)))
      BY <3>1, <3>3, CodeOf
    <3> QED
      BY <3>4, <3>5
  <2>2. blocks' = [b \in DOMAIN blocks |-> blocks'[b]]
    BY <1>1
  <2> QED
    BY <2>1, <2>2 DEF Patched
<1>10. PICK bs : bs = blocks'
  OBVIOUS
<1>11. bs \in Seq(Block(n)) /\ \A r \in Regs(bs) : \E i \in Clean(n) : r \in i.def \/ r \in Uses(i)
  <2>1. Clean(n) \in SUBSET Insn(n)
    BY DEF Clean
  <2>2. Patched(bs, Clean(n))
    BY <1>9, <1>10
  <2> QED
    BY <1>3, <2>1, <2>2, PatchedCode
<1>12. /\ Regs(blocks') \subseteq Kept(n)
       /\ \A r \in Range(spilled) : r \notin Regs(blocks')
  <2>1. Regs(bs) \subseteq Kept(n)
    BY <1>11 DEF Clean
  <2>2. \A k \in DOMAIN spilled : spilled[k] \in 0 .. reg_n - 1
    BY <1>2, LenProperties
  <2>3. \A r \in Range(spilled) : r \notin reg_n .. n - 1
    BY <1>4, <2>2 DEF Range
  <2>4. \A r \in Range(spilled) : r \notin Kept(n)
    BY <2>3 DEF Kept
  <2> QED
    BY <1>10, <2>1, <2>4
<1>13. DOMAIN remat' \subseteq 0 .. n - 1 /\ \A r \in DOMAIN remat' : remat'[r] \in Int
  <2> DEFINE again == {s \in Sites : spilled[s[2]] \in DOMAIN remat}
             from(r) == CHOOSE s \in again : Temp(s) = r
  <2>1. remat' = [r \in DOMAIN remat \cup {Temp(s) : s \in again} |->
                    IF r \in DOMAIN remat THEN remat[r] ELSE remat[spilled[from(r)[2]]]]
    BY DEF Rewrite
  <2>2. DOMAIN remat \subseteq 0 .. reg_n - 1 /\ \A r \in DOMAIN remat : remat[r] \in Int
    BY <1>3 DEF CodeOK
  <2>3. ASSUME NEW r \in {Temp(s) : s \in again}
        PROVE  r \in 0 .. n - 1 /\ remat[spilled[from(r)[2]]] \in Int
    <3>1. from(r) \in again
      OBVIOUS
    <3>2. r \in 0 .. n - 1
      BY <1>2, <1>3, <1>6, TempClean
    <3> HIDE DEF from
    <3> QED
      BY <2>2, <3>1, <3>2
  <2> HIDE DEF again, from
  <2> QED
    BY <1>4, <1>7, <2>1, <2>2, <2>3
<1>14. CodeOK'
  BY <1>7, <1>10, <1>11, <1>13 DEF CodeOK
<1> QED
  BY <1>7, <1>12, <1>14

LEMMA RewriteInv ==
  ASSUME FrameInv, Rewrite
  PROVE  FrameInv'
<1>1. pc' = "build" /\ graph' = graph /\ used' = used
  BY DEF Rewrite
<1>2. CodeOK'
  BY RewriteStep
<1> QED
  BY <1>1, <1>2 DEF FrameInv, CalleeSavePrefix, AliveApart

-------------------------------------------------------------------------------
(* check_store_stack's registers for offsets are numbered from reg_n on.   *)
LEMMA OffsetRange ==
  ASSUME CodeOK, NEW far \in SUBSET Instructions(blocks)
  PROVE  /\ IsFiniteSet(far) /\ Cardinality(far) \in Nat
         /\ \A p \in far : OffsetReg(far, p) \in reg_n .. reg_n + Cardinality(far) - 1
<1>1. reg_n \in Nat /\ blocks \in Seq(Block(reg_n))
  <2>1. K \in Nat /\ MaxNode \in Nat /\ reg_n \in K .. MaxNode
    BY RegisterAssumption DEF CodeOK
  <2> QED
    BY <2>1 DEF CodeOK
<1>2. IsFiniteSet(far) /\ Cardinality(far) \in Nat
  BY <1>1, InstructionsFinite, FS_Subset, FS_CardinalityType
<1>3. ASSUME NEW p \in far PROVE OffsetReg(far, p) \in reg_n .. reg_n + Cardinality(far) - 1
  <2> DEFINE E == {q \in far : Earlier(<<q, 0>>, <<p, 0>>)}
  <2>1. ~Earlier(<<p, 0>>, <<p, 0>>)
    <3>1. p[1] \in DOMAIN blocks /\ p[2] \in DOMAIN blocks[p[1]].insts
      BY DEF Instructions
    <3>2. DOMAIN blocks = 1 .. Len(blocks)
          /\ DOMAIN blocks[p[1]].insts = 1 .. Len(blocks[p[1]].insts)
      BY <1>1, <3>1, CodeParts
    <3>3. p[1] \in Nat /\ p[2] \in Nat
      BY <3>1, <3>2
    <3>4. \A n \in Nat : ~(n < n)
      OBVIOUS
    <3> QED
      BY <3>3, <3>4 DEF Earlier
  <2>2. E \in SUBSET far /\ E # far
    BY <1>3, <2>1
  <2>3. OffsetReg(far, p) = reg_n + Cardinality(E)
    BY DEF OffsetReg
  <2> HIDE DEF E
  <2>4. IsFiniteSet(E) /\ Cardinality(E) <= Cardinality(far) /\ Cardinality(E) # Cardinality(far)
    BY <1>2, <2>2, FS_Subset
  <2>5. Cardinality(E) \in Nat
    BY <2>4, FS_CardinalityType
  <2> QED
    BY <1>1, <1>2, <2>3, <2>4, <2>5
<1> QED
  BY <1>2, <1>3

\* Instructions with registers of the code and new ones below n.
Grown(n) ==
  LET R == Regs(blocks) \cup (reg_n .. n - 1)
  IN  {i \in Insn(n) : i.def \subseteq R /\ Uses(i) \subseteq R}

LEMMA CheckedCode ==
  ASSUME CodeOK, NEW far \in SUBSET Instructions(blocks),
         \A p \in far : At(blocks, p).kind = "store",
         NEW n \in Nat, n = reg_n + Cardinality(far), NEW p \in Instructions(blocks)
  PROVE  Checked(far, p) \in Seq(Grown(n))
<1> PICK i : i = At(blocks, p)
  OBVIOUS
<1>1. reg_n \in Nat /\ blocks \in Seq(Block(reg_n)) /\ Cardinality(far) \in Nat
  <2>1. K \in Nat /\ MaxNode \in Nat /\ reg_n \in K .. MaxNode
    BY RegisterAssumption DEF CodeOK
  <2> QED
    BY <2>1, OffsetRange DEF CodeOK
<1>2. i \in Insn(reg_n) /\ i.def \subseteq Regs(blocks) /\ Uses(i) \subseteq Regs(blocks)
  <2>1. p[1] \in DOMAIN blocks /\ p[2] \in DOMAIN blocks[p[1]].insts
    BY DEF Instructions
  <2>2. Within(blocks[p[1]].insts, Regs(blocks))
    BY <1>1, <2>1, CodeParts
  <2> QED
    BY <1>1, <2>1, <2>2, CodeParts DEF At, Within
<1>3. /\ i.def \in SUBSET (0 .. reg_n - 1) /\ Uses(i) \in SUBSET (0 .. reg_n - 1)
      /\ i.tag \in Int /\ i.use \in Seq(0 .. reg_n - 1)
      /\ Len(i.use) \in Nat /\ DOMAIN i.use = 1 .. Len(i.use)
      /\ \A k \in DOMAIN i.use : i.use[k] \in Uses(i)
      /\ (i.kind = "store" => i.use # <<>>)
  BY <1>1, <1>2, InsnParts
<1>4. 0 .. reg_n - 1 \subseteq 0 .. n - 1
  BY <1>1
<1>5. CASE p \in far
  <2> PICK r : r = OffsetReg(far, p)
    OBVIOUS
  <2>1. r \in 0 .. n - 1 /\ r \in reg_n .. n - 1
    <3>1. r \in reg_n .. reg_n + Cardinality(far) - 1
      BY <1>5, OffsetRange
    <3> QED
      BY <1>1, <3>1
  <2>2. i.use[1] \in 0 .. n - 1 /\ i.use[1] \in Regs(blocks)
    <3>1. i.kind = "store"
      BY <1>5
    <3>2. 1 \in DOMAIN i.use
      BY <1>1, <1>2, <3>1, InsnParts
    <3>3. i.use[1] \in 0 .. reg_n - 1
      BY <1>3, <3>2
    <3> QED
      BY <1>2, <1>3, <1>4, <3>2, <3>3
  <2> DEFINE a == Instr("offset", i.tag, {r}, <<>>)
             b == Instr("far", i.tag, {}, <<i.use[1], r>>)
  <2>3. Checked(far, p) = <<a, b>>
    BY <1>5 DEF Checked
  <2>4. <<>> \in Seq(0 .. n - 1) /\ <<i.use[1], r>> \in Seq(0 .. n - 1)
    BY <2>1, <2>2
  <2>5. "offset" \in Kind /\ "far" \in Kind
    BY DEF Kind
  <2>6. a \in Grown(n)
    <3>1. a.def = {r} /\ Uses(a) = {}
      BY EmptySeq DEF Instr, Uses, Range
    <3>2. a \in Insn(n)
      <4>1. Arity("offset") = 0 /\ Len(<<>>) = 0
        BY DEF Arity
      <4> QED
        BY <1>3, <2>1, <2>4, <2>5, <4>1 DEF Insn, Instr
    <3> QED
      BY <2>1, <3>1, <3>2 DEF Grown
  <2>7. b \in Grown(n)
    <3>1. b.def = {} /\ Uses(b) = {i.use[1], r}
      BY DEF Instr, Uses, Range
    <3>2. b \in Insn(n)
      <4>1. b.kind = "far" /\ b.use = <<i.use[1], r>> /\ Len(b.use) = 2
        BY DEF Instr
      <4>2. Arity(b.kind) = 2
        BY <4>1 DEF Arity
      <4>3. b \in [kind : Kind, tag : Int, def : SUBSET (0 .. n - 1), use : Seq(0 .. n - 1)]
        BY <1>3, <2>4, <2>5 DEF Instr
      <4> HIDE DEF b
      <4>4. Len(b.use) >= Arity(b.kind)
        BY <4>1, <4>2
      <4> QED
        BY <4>3, <4>4 DEF Insn
    <3> QED
      BY <2>1, <2>2, <3>1, <3>2 DEF Grown
  <2> HIDE DEF a, b
  <2> QED
    BY <2>3, <2>6, <2>7
<1>6. CASE p \notin far
  <2>1. Checked(far, p) = <<i>>
    BY <1>6 DEF Checked
  <2>2. i \in Grown(n)
    <3>1. i \in Insn(n)
      BY <1>1, <1>2, <1>3, <1>4, InsnBelow
    <3> QED
      BY <1>2, <3>1 DEF Grown
  <2> QED
    BY <2>1, <2>2
<1> QED
  BY <1>5, <1>6

(* Replacing stores leaves code, with new registers for the offsets only.  *)
LEMMA ReplaceStep ==
  ASSUME FrameInv, Replace
  PROVE  CodeOK' /\ Regs(blocks') \subseteq Regs(blocks) \cup (reg_n .. reg_n' - 1)
<1> PICK far : far = FarStores(Layout)
  OBVIOUS
<1>1. /\ pc' = "build" /\ graph' = graph /\ used' = used /\ remat' = remat
      /\ reg_n + Cardinality(far) <= MaxNode
      /\ reg_n' = reg_n + Cardinality(far)
      /\ blocks' = [b \in DOMAIN blocks |->
                      [blocks[b] EXCEPT !.insts =
                         FlattenSeq([k \in DOMAIN @ |-> Checked(far, <<b, k>>)])]]
  BY DEF Replace
<1>2. CodeOK
  BY DEF FrameInv
<1>3. /\ K \in Nat /\ MaxNode \in Nat /\ reg_n \in K .. MaxNode /\ reg_n \in Nat
      /\ blocks \in Seq(Block(reg_n))
  <2>1. K \in Nat /\ MaxNode \in Nat /\ reg_n \in K .. MaxNode
    BY <1>2, RegisterAssumption DEF CodeOK
  <2> QED
    BY <1>2, <2>1 DEF CodeOK
<1>4. far \in SUBSET Instructions(blocks) /\ \A p \in far : At(blocks, p).kind = "store"
  BY DEF FarStores
<1>5. Cardinality(far) \in Nat
  BY <1>2, <1>4, OffsetRange
<1>6. PICK n \in Nat : n = reg_n + Cardinality(far)
  BY <1>3, <1>5
<1>7. reg_n' = n /\ n \in K .. MaxNode /\ reg_n <= n
  BY <1>1, <1>3, <1>5, <1>6
<1>8. \A p \in Instructions(blocks) : Checked(far, p) \in Seq(Grown(n))
  BY <1>2, <1>4, <1>6, CheckedCode
<1>9. Patched(blocks', Grown(n))
  <2>1. ASSUME NEW b \in DOMAIN blocks
        PROVE  \E ss \in Seq(Seq(Grown(n))) : blocks'[b] = [blocks[b] EXCEPT !.insts = FlattenSeq(ss)]
    <3> DEFINE N == Len(blocks[b].insts)
               ss == [k \in DOMAIN blocks[b].insts |-> Checked(far, <<b, k>>)]
    <3>1. N \in Nat /\ DOMAIN blocks[b].insts = 1 .. N
      BY <1>3, CodeParts
    <3>2. \A k \in 1 .. N : <<b, k>> \in Instructions(blocks)
      BY <3>1 DEF Instructions
    <3> HIDE DEF N
    <3>3. ss \in [1 .. N -> Seq(Grown(n))]
      BY <1>8, <3>1, <3>2
    <3>4. blocks'[b] = [blocks[b] EXCEPT !.insts = FlattenSeq(ss)]
      BY <1>1
    <3> HIDE DEF ss
    <3>5. ss \in Seq(Seq(Grown(n)))
      BY <3>1, <3>3, CodeOf
    <3> QED
      BY <3>4, <3>5
  <2>2. blocks' = [b \in DOMAIN blocks |-> blocks'[b]]
    BY <1>1
  <2> QED
    BY <2>1, <2>2 DEF Patched
<1>10. PICK bs : bs = blocks'
  OBVIOUS
<1>11. bs \in Seq(Block(n)) /\ Regs(bs) \subseteq Regs(blocks) \cup (reg_n .. n - 1)
  <2>1. Grown(n) \in SUBSET Insn(n)
    BY DEF Grown
  <2>2. Patched(bs, Grown(n))
    BY <1>9, <1>10
  <2>3. bs \in Seq(Block(n)) /\ \A r \in Regs(bs) : \E i \in Grown(n) : r \in i.def \/ r \in Uses(i)
    BY <1>2, <2>1, <2>2, PatchedCode
  <2> QED
    BY <2>3 DEF Grown
<1>12. DOMAIN remat \subseteq 0 .. n - 1 /\ \A r \in DOMAIN remat : remat[r] \in Int
  BY <1>2, <1>3, <1>7 DEF CodeOK
<1>13. CodeOK'
  BY <1>1, <1>7, <1>10, <1>11, <1>12 DEF CodeOK
<1> QED
  BY <1>7, <1>10, <1>11, <1>13

LEMMA ReplaceInv ==
  ASSUME FrameInv, Replace
  PROVE  FrameInv'
<1>1. pc' = "build" /\ graph' = graph /\ used' = used
  BY DEF Replace
<1>2. CodeOK'
  BY ReplaceStep
<1> QED
  BY <1>1, <1>2 DEF FrameInv, CalleeSavePrefix, AliveApart

-------------------------------------------------------------------------------
LEMMA FrameNextInv ==
  ASSUME FrameInv, [FrameStep \/ Framed]_state
  PROVE  FrameInv'
<1>1. CASE UNCHANGED state
  BY <1>1, FrameUnchangedInv
<1>2. CASE Allocate
  BY <1>2, BuildInv, StepInv DEF Allocate, RegStep
<1>3. CASE Spilling
  BY <1>3, RewriteInv DEF Spilling
<1>4. CASE Replace
  BY <1>4, ReplaceInv
<1>5. CASE Finish
  BY <1>5, FinishInv
<1> QED
  BY <1>1, <1>2, <1>3, <1>4, <1>5 DEF FrameStep, Framed

(* In every round the graph is that of the code, the allocator's invariant *)
(* holds, and the code is code: its registers are numbered below reg_n     *)
(* (reg_allocate, rewrite_function, allocate_register).                    *)
THEOREM FrameInvCorrect == FrameSpec => []FrameInv
BY FrameInitInv, FrameNextInv, PTL DEF FrameSpec

(* Callee-saved registers are handed out in order in whatever round.       *)
THEOREM CalleeSaveKept == FrameSpec => []CalleeSavePrefix
<1>1. FrameInv => CalleeSavePrefix
  BY DEF FrameInv
<1> QED
  BY <1>1, FrameInvCorrect, PTL

(* In the code that is emitted, registers that are alive together, or one  *)
(* defined while the other is alive, are different machine registers.      *)
THEOREM AliveApartCorrect == FrameSpec => []AliveApart
<1>1. FrameInv => AliveApart
  BY DEF FrameInv
<1> QED
  BY <1>1, FrameInvCorrect, PTL

(* A register that was spilled is gone from the code: rewrite_function     *)
(* reaches every use and every definition of it.                           *)
THEOREM SpilledGone == FrameSpec => SpilledAreGone
<1>1. FrameInv => [Rewrite => \A n \in Range(spilled) : n \notin Regs(blocks')]_<<vars, code>>
  BY RewriteStep
<1> QED
  BY <1>1, FrameInvCorrect, PTL DEF SpilledAreGone
===============================================================================
