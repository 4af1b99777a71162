----------------------------- MODULE MachineProofs -----------------------------
(***************************************************************************)
(* From pseudo registers to the machine: what calc_live finds is live, so  *)
(* code with machine registers in place of pseudo registers means what it  *)
(* meant before, and what is emitted does the same on a real stack.        *)
(***************************************************************************)
EXTENDS MeaningProofs

-------------------------------------------------------------------------------
(***************************************************************************)
(* What is live.                                                           *)
(***************************************************************************)
LEMMA LiveChainsAgree ==
  ASSUME NEW s, NEW out, NEW N \in Nat, N = Len(s), NEW L, NEW M,
         LiveChain(s, out, L), LiveChain(s, out, M)
  PROVE  L[0] = M[0]
<1> DEFINE P == {k \in 0 .. N : L[N - k] = M[N - k]}
<1>1. 0 \in P
  BY DEF LiveChain
<1>2. ASSUME NEW k \in 1 .. N, k - 1 \in P PROVE k \in P
  <2> PICK j : j = N - (k - 1)
    OBVIOUS
  <2>1. j \in 1 .. N /\ j - 1 = N - k
    OBVIOUS
  <2>2. L[j] = M[j]
    BY <1>2
  <2>3. L[j - 1] = (L[j] \ s[j].def) \cup Uses(s[j]) /\ M[j - 1] = (M[j] \ s[j].def) \cup Uses(s[j])
    BY <2>1 DEF LiveChain
  <2>4. L[j - 1] = M[j - 1] /\ k \in 0 .. N
    BY <2>2, <2>3
  <2> QED
    BY <2>1, <2>4
<1> HIDE DEF P
<1>3. 0 .. N \subseteq P
  BY <1>1, <1>2, UpToInduction
<1>4. L[N - N] = M[N - N] /\ N - N = 0
  BY <1>3 DEF P
<1> QED
  BY <1>4

(* A register is live for its own sake.                                    *)
LEMMA LiveThroughPointwise ==
  ASSUME NEW T, NEW s \in Seq(T), NEW A, NEW B, NEW r, r \in A => r \in B, r \in LiveThrough(s, A)
  PROVE  r \in LiveThrough(s, B)
<1> PICK N : N = Len(s)
  OBVIOUS
<1>1. N \in Nat
  BY LenProperties
<1>2. PICK L : LiveChain(s, A, L) /\ LiveThrough(s, A) = L[0]
  BY LiveThroughSteps
<1>3. PICK M : LiveChain(s, B, M) /\ LiveThrough(s, B) = M[0]
  BY LiveThroughSteps
<1> DEFINE P == {k \in 0 .. N : r \in L[N - k] => r \in M[N - k]}
<1>4. 0 \in P
  BY <1>1, <1>2, <1>3 DEF LiveChain
<1>5. ASSUME NEW k \in 1 .. N, k - 1 \in P PROVE k \in P
  <2> PICK j : j = N - (k - 1)
    OBVIOUS
  <2>1. j \in 1 .. N /\ j - 1 = N - k
    BY <1>1
  <2>2. r \in L[j] => r \in M[j]
    BY <1>5
  <2>3. L[j - 1] = (L[j] \ s[j].def) \cup Uses(s[j]) /\ M[j - 1] = (M[j] \ s[j].def) \cup Uses(s[j])
    BY <1>2, <1>3, <2>1 DEF LiveChain
  <2> QED
    BY <2>1, <2>2, <2>3
<1> HIDE DEF P
<1>6. 0 .. N \subseteq P
  BY <1>1, <1>4, <1>5, UpToInduction
<1>7. (r \in L[N - N] => r \in M[N - N]) /\ N - N = 0
  BY <1>1, <1>6 DEF P
<1> QED
  BY <1>2, <1>3, <1>7

\* The blocks register r is known to be live out of.
Where(bs, v, r) == {b \in DOMAIN bs : <<b, r>> \in v}

LEMMA TurnPointwise ==
  ASSUME NEW n \in Nat, NEW bs \in Seq(Block(n)),
         NEW v \in SUBSET ((DOMAIN bs) \X Regs(bs)), NEW w, NEW r,
         Where(bs, v, r) \subseteq Where(bs, w, r)
  PROVE  Where(bs, LiveTurn(bs, Edges(bs), v), r) \subseteq Where(bs, LiveTurn(bs, Edges(bs), w), r)
<1> SUFFICES ASSUME NEW b \in DOMAIN bs, <<b, r>> \in LiveTurn(bs, Edges(bs), v)
             PROVE  <<b, r>> \in LiveTurn(bs, Edges(bs), w)
  BY DEF Where
<1>1. PICK e \in Edges(bs) : <<b, r>> \in {e[1]} \X LiveThrough(bs[e[2]].insts, LiveAt(v, e[2]))
  BY DEF LiveTurn
<1>2. b = e[1] /\ r \in LiveThrough(bs[e[2]].insts, LiveAt(v, e[2])) /\ e[2] \in DOMAIN bs
  BY <1>1 DEF Edges
<1>3. bs[e[2]].insts \in Seq(Insn(n))
  BY <1>2, CodeParts
<1>4. r \in LiveAt(v, e[2]) => r \in LiveAt(w, e[2])
  <2> PICK d \in DOMAIN bs : d = e[2]
    BY <1>2
  <2>1. r \in LiveAt(v, d) => <<d, r>> \in v
    BY DEF LiveAt
  <2>2. <<d, r>> \in w => r \in LiveAt(w, d)
    BY DEF LiveAt
  <2>3. <<d, r>> \in v => <<d, r>> \in w
    BY DEF Where
  <2> QED
    BY <2>1, <2>2, <2>3
<1>5. r \in LiveThrough(bs[e[2]].insts, LiveAt(w, e[2]))
  BY <1>2, <1>3, <1>4, LiveThroughPointwise
<1> QED
  BY <1>2, <1>5 DEF LiveTurn

(* Another turn of the worklist finds nothing more.                        *)
LEMMA LiveOutsClosed ==
  ASSUME NEW n \in Nat, NEW bs \in Seq(Block(n))
  PROVE  LiveTurn(bs, Edges(bs), LiveOuts(bs)) \subseteq LiveOuts(bs)
<1> PICK N : N = Len(bs)
  OBVIOUS
<1>1. N \in Nat /\ DOMAIN bs = 1 .. N
  BY CodeParts
<1>2. PICK g : LiveGrowth(bs, Edges(bs), N, g) /\ LiveOuts(bs) = g[N]
  BY LiveOutsGrowth
<1> DEFINE Turn(v) == LiveTurn(bs, Edges(bs), v)
<1>3. /\ g[0] = {} /\ \A k \in 1 .. N : g[k] = Turn(g[k - 1])
      /\ \A k \in 0 .. N : g[k] \in SUBSET ((DOMAIN bs) \X Regs(bs))
  BY <1>2 DEF LiveGrowth
<1>4. ASSUME NEW r, NEW b \in DOMAIN bs, <<b, r>> \in Turn(g[N]) PROVE <<b, r>> \in g[N]
  <2> DEFINE W(v) == Where(bs, v, r)
  <2>1. \A v \in SUBSET ((DOMAIN bs) \X Regs(bs)) :
          \A w : W(v) \subseteq W(w) => W(Turn(v)) \subseteq W(Turn(w))
    BY TurnPointwise
  <2>2. \A v : W(v) \subseteq DOMAIN bs
    BY DEF Where
  <2>3. IsFiniteSet(DOMAIN bs) /\ Cardinality(DOMAIN bs) = N
    <3>1. IsFiniteSet(1 .. N)
      BY <1>1, FS_Interval
    <3> PICK x \in Int : x = 1
      OBVIOUS
    <3> PICK y \in Int : y = N
      BY <1>1
    <3>2. Cardinality(x .. y) = IF x > y THEN 0 ELSE y - x + 1
      BY FS_Interval
    <3> QED
      BY <1>1, <3>1, <3>2
  <2>4. \A v : IsFiniteSet(W(v)) /\ Cardinality(W(v)) \in Nat
    BY <2>2, <2>3, FS_Subset, FS_CardinalityType
  <2>5. W({}) = {}
    BY DEF Where
  <2> HIDE DEF Turn, W
  <2> DEFINE P == {k \in 0 .. N : /\ W(g[k]) \subseteq W(Turn(g[k]))
                                  /\ Cardinality(W(g[k])) >= k \/ W(Turn(g[k])) \subseteq W(g[k])}
  <2>6. 0 \in P
    <3>1. 0 \in 0 .. N /\ g[0] = {}
      BY <1>1, <1>3
    <3>2. W(g[0]) \subseteq W(Turn(g[0])) /\ Cardinality(W(g[0])) >= 0
      BY <2>4, <2>5, <3>1
    <3> QED
      BY <3>1, <3>2
  <2>7. ASSUME NEW k \in 1 .. N, k - 1 \in P PROVE k \in P
    <3> PICK v : v = g[k - 1]
      OBVIOUS
    <3> PICK w : w = g[k]
      OBVIOUS
    <3>0. v \in SUBSET ((DOMAIN bs) \X Regs(bs)) /\ w \in SUBSET ((DOMAIN bs) \X Regs(bs))
      BY <1>1, <1>3
    <3>1. w = Turn(v) /\ W(v) \subseteq W(w) /\ (Cardinality(W(v)) >= k - 1 \/ W(w) \subseteq W(v))
      BY <1>3, <2>7
    <3>2. W(w) \subseteq W(Turn(w))
      BY <2>1, <3>0, <3>1
    <3>3. CASE W(w) \subseteq W(v)
      <4>1. W(Turn(w)) \subseteq W(w)
        BY <2>1, <3>0, <3>1, <3>3
      <4> QED
        BY <1>1, <3>2, <4>1
    <3>4. CASE ~(W(w) \subseteq W(v))
      <4>1. Cardinality(W(v)) < Cardinality(W(w))
        <5>1. W(v) # W(w)
          BY <3>4
        <5> PICK A : A = W(v)
          OBVIOUS
        <5> PICK B : B = W(w)
          OBVIOUS
        <5>2. IsFiniteSet(B) /\ A \subseteq B /\ A # B /\ Cardinality(A) \in Nat /\ Cardinality(B) \in Nat
          BY <2>4, <3>1, <5>1
        <5>3. Cardinality(A) <= Cardinality(B) /\ Cardinality(A) # Cardinality(B)
          BY <5>2, FS_Subset
        <5> QED
          BY <5>2, <5>3
      <4>2. Cardinality(W(v)) >= k - 1 /\ Cardinality(W(v)) \in Nat /\ Cardinality(W(w)) \in Nat
        BY <2>4, <3>1, <3>4
      <4>3. Cardinality(W(w)) >= k
        BY <1>1, <4>1, <4>2
      <4> QED
        BY <1>1, <3>2, <4>3
    <3> QED
      BY <3>3, <3>4
  <2> HIDE DEF P
  <2>8. 0 .. N \subseteq P
    BY <1>1, <2>6, <2>7, UpToInduction
  <2>9. Cardinality(W(g[N])) >= N \/ W(Turn(g[N])) \subseteq W(g[N])
    BY <1>1, <2>8 DEF P
  <2>10. Cardinality(W(g[N])) >= N => W(g[N]) = DOMAIN bs
    <3> PICK A : A = W(g[N])
      OBVIOUS
    <3> PICK B : B = DOMAIN bs
      OBVIOUS
    <3>1. IsFiniteSet(B) /\ A \subseteq B /\ Cardinality(B) = N /\ Cardinality(A) \in Nat
      BY <2>2, <2>3, <2>4
    <3>2. A # B => Cardinality(A) < Cardinality(B)
      BY <3>1, FS_Subset
    <3> QED
      BY <1>1, <3>1, <3>2
  <2>11. b \in W(Turn(g[N]))
    BY <1>4 DEF W, Where
  <2>12. b \in W(g[N])
    BY <2>9, <2>10, <2>11
  <2> QED
    BY <2>12 DEF W, Where
<1>5. Turn(g[N]) \in SUBSET ((DOMAIN bs) \X Regs(bs))
  <2>1. Edges(bs) \in SUBSET ((DOMAIN bs) \X (DOMAIN bs))
    BY DEF Edges
  <2>2. g[N] \in SUBSET ((DOMAIN bs) \X Regs(bs))
    BY <1>1, <1>3
  <2> QED
    BY <2>1, <2>2, LiveTurnTyped
<1> HIDE DEF Turn
<1>6. Turn(g[N]) \subseteq g[N]
  BY <1>4, <1>5
<1> QED
  BY <1>2, <1>6 DEF Turn

\* Live after instruction k of block b of the code.
Live(b, k) == LiveAfter(LiveOuts(blocks), blocks, b, k)

\* What is live before each instruction of a block, given what is live after it.
LiveUp(outs, bs, b) ==
  \A k \in 1 .. Len(bs[b].insts) :
    LiveAfter(outs, bs, b, k - 1)
      = (LiveAfter(outs, bs, b, k) \ bs[b].insts[k].def) \cup Uses(bs[b].insts[k])

LEMMA LiveBefore ==
  ASSUME NEW T, NEW bs, NEW outs, NEW b, bs[b].insts \in Seq(T)
  PROVE  LiveUp(outs, bs, b)
<1> PICK s \in Seq(T) : s = bs[b].insts
  OBVIOUS
<1> PICK N : N = Len(s)
  OBVIOUS
<1> PICK out : out = LiveAt(outs, b)
  OBVIOUS
<1>1. N \in Nat /\ DOMAIN s = 1 .. N /\ \A j \in 1 .. N : s[j] \in T
  BY LenProperties
<1>2. PICK L : LiveChain(s, out, L) /\ LiveThrough(s, out) = L[0]
  BY LiveThroughSteps
<1>3. ASSUME NEW q \in 0 .. N PROVE LiveAfter(outs, bs, b, q) = L[q]
  <2> PICK t : t = SubSeq(s, q + 1, N)
    OBVIOUS
  <2>1. /\ t \in Seq(T) /\ Len(t) = N - q
        /\ \A j \in 1 .. N - q : t[j] = s[q + j]
    <3>1. q + 1 \in Int /\ N \in Int /\ \A j \in q + 1 .. N : s[j] \in T
      BY <1>1
    <3>2. /\ t \in Seq(T)
          /\ Len(t) = IF q + 1 <= N THEN N - (q + 1) + 1 ELSE 0
          /\ \A j \in 1 .. N - (q + 1) + 1 : t[j] = s[(q + 1) + j - 1]
      BY <3>1, SubSeqProperties
    <3>3. Len(t) = N - q
      BY <1>1, <3>2
    <3>4. ASSUME NEW j \in 1 .. N - q PROVE t[j] = s[q + j]
      <4>1. j \in 1 .. N - (q + 1) + 1 /\ (q + 1) + j - 1 = q + j
        BY <1>1
      <4> QED
        BY <3>2, <4>1
    <3> QED
      BY <3>2, <3>3, <3>4
  <2> DEFINE M == [j \in 0 .. N - q |-> L[q + j]]
  <2>2. M[N - q] = out /\ M[0] = L[q]
    <3>1. N - q \in 0 .. N - q /\ 0 \in 0 .. N - q /\ q + (N - q) = N /\ q + 0 = q
      BY <1>1
    <3> QED
      BY <1>2, <3>1 DEF LiveChain
  <2>3. ASSUME NEW j \in 1 .. N - q PROVE M[j - 1] = (M[j] \ t[j].def) \cup Uses(t[j])
    <3>1. j \in 0 .. N - q /\ j - 1 \in 0 .. N - q /\ q + j \in 1 .. N /\ (q + j) - 1 = q + (j - 1)
      BY <1>1
    <3>2. M[j] = L[q + j] /\ M[j - 1] = L[(q + j) - 1]
      BY <3>1
    <3>3. L[(q + j) - 1] = (L[q + j] \ s[q + j].def) \cup Uses(s[q + j])
      BY <1>2, <3>1 DEF LiveChain
    <3> QED
      BY <2>1, <3>2, <3>3
  <2> HIDE DEF M
  <2>4. LiveChain(t, out, M)
    BY <2>1, <2>2, <2>3 DEF LiveChain
  <2>5. PICK H : LiveChain(t, out, H) /\ LiveThrough(t, out) = H[0]
    <3>1. t \in Seq(T)
      BY <2>1
    <3> QED
      BY <3>1, LiveThroughSteps
  <2>6. N - q \in Nat
    BY <1>1
  <2> PICK l \in Nat : l = Len(t)
    BY <2>1, <2>6
  <2>8. LiveChain(t, out, H)
    BY <2>5
  <2>7. H[0] = M[0]
    BY <2>4, <2>8, LiveChainsAgree
  <2> QED
    BY <2>2, <2>5, <2>7 DEF LiveAfter
<1>4. ASSUME NEW k \in 1 .. N
      PROVE  LiveAfter(outs, bs, b, k - 1) = (LiveAfter(outs, bs, b, k) \ s[k].def) \cup Uses(s[k])
  <2>1. k \in 1 .. N /\ k \in 0 .. N /\ k - 1 \in 0 .. N
    BY <1>1
  <2>2. L[k - 1] = (L[k] \ s[k].def) \cup Uses(s[k])
    BY <1>2, <2>1 DEF LiveChain
  <2> QED
    BY <1>3, <2>1, <2>2
<1> QED
  BY <1>4 DEF LiveUp

LEMMA LiveThroughNone ==
  ASSUME NEW out
  PROVE  LiveThrough(<<>>, out) = out
<1> PICK u : u = <<>>
  OBVIOUS
<1>1. u \in Seq({}) /\ Len(u) = 0
  OBVIOUS
<1>2. PICK L : LiveChain(u, out, L) /\ LiveThrough(u, out) = L[0]
  BY <1>1, LiveThroughSteps
<1> QED
  BY <1>1, <1>2 DEF LiveChain

(* Along an edge nothing comes to life.                                    *)
LEMMA LiveAlong ==
  ASSUME NEW n \in Nat, NEW bs \in Seq(Block(n)), NEW b \in DOMAIN bs, NEW d \in DOMAIN bs,
         d \in bs[b].succ
  PROVE  LiveAfter(LiveOuts(bs), bs, d, 0) \subseteq LiveAfter(LiveOuts(bs), bs, b, Len(bs[b].insts))
<1> PICK outs : outs = LiveOuts(bs)
  OBVIOUS
<1> PICK s \in Seq(Insn(n)) : s = bs[b].insts
  BY CodeParts
<1> PICK t \in Seq(Insn(n)) : t = bs[d].insts
  BY CodeParts
<1> PICK N : N = Len(s)
  OBVIOUS
<1>1. N \in Nat
  BY LenProperties
<1>2. LiveAfter(outs, bs, d, 0) = LiveThrough(t, LiveAt(outs, d))
  <2>1. 0 + 1 = 1 /\ SubSeq(t, 1, Len(t)) = t
    BY SubSeqFull
  <2> QED
    BY <2>1 DEF LiveAfter
<1>3. LiveAfter(outs, bs, b, N) = LiveAt(outs, b)
  <2> PICK u : u = SubSeq(s, N + 1, N)
    OBVIOUS
  <2>1. u = <<>>
    BY <1>1, SubSeqEmpty
  <2> QED
    BY <2>1, LiveThroughNone DEF LiveAfter
<1>4. ASSUME NEW r \in LiveThrough(t, LiveAt(outs, d)) PROVE r \in LiveAt(outs, b)
  <2>1. <<b, d>> \in Edges(bs)
    BY DEF Edges
  <2> PICK e \in Edges(bs) : e = <<b, d>>
    BY <2>1
  <2>2. e[1] = b /\ e[2] = d
    OBVIOUS
  <2>3. <<b, r>> \in {e[1]} \X LiveThrough(bs[e[2]].insts, LiveAt(outs, e[2]))
    BY <2>2
  <2>4. <<b, r>> \in LiveTurn(bs, Edges(bs), outs)
    BY <2>3 DEF LiveTurn
  <2>5. <<b, r>> \in outs
    BY <2>4, LiveOutsClosed
  <2> QED
    BY <2>5 DEF LiveAt
<1> QED
  BY <1>2, <1>3, <1>4

-------------------------------------------------------------------------------
(***************************************************************************)
(* A run with machine registers n goes along with a run m with pseudo      *)
(* registers: registers of L that have a value have it in their place.     *)
(***************************************************************************)
InPlaceOf(L, m, n) ==
  /\ Shared(m, n)
  /\ \A r \in L \cap DOMAIN m.val : color[r] \in DOMAIN n.val /\ n.val[color[r]] = m.val[r]

DoColored(n, i) == Effect(source.arrays, n, i, color)

LEMMA ColoredStep ==
  ASSUME CodeOK, AliveApart, pc \in {"done", "framed"}, NEW b \in DOMAIN blocks,
         NEW k \in DOMAIN blocks[b].insts, NEW i, i = blocks[b].insts[k],
         NEW m, NEW n, InPlaceOf(Live(b, k - 1), m, n), Fine(Do(m, i))
  PROVE  InPlaceOf(Live(b, k), Do(m, i), DoColored(n, i))
<1> PICK e : e = Do(m, i)
  OBVIOUS
<1> PICK y : y = DoColored(n, i)
  OBVIOUS
<1> PICK in : in = Operands(m, i, Identity)
  OBVIOUS
<1>1. /\ reg_n \in Nat /\ MaxNode \in Nat /\ reg_n <= MaxNode /\ i \in Insn(MaxNode)
      /\ blocks \in Seq(Block(reg_n)) /\ blocks[b].insts \in Seq(Insn(reg_n))
  <2>1. reg_n \in Nat /\ MaxNode \in Nat /\ reg_n <= MaxNode /\ blocks \in Seq(Block(reg_n))
    BY CodeAt DEF CodeOK
  <2>2. blocks[b].insts \in Seq(Insn(reg_n)) /\ i \in Insn(reg_n)
    BY <2>1, CodeParts
  <2> QED
    BY <2>1, <2>2, InsnMonotonic
<1>2. Live(b, k - 1) = (Live(b, k) \ i.def) \cup Uses(i)
  <2>1. k \in 1 .. Len(blocks[b].insts)
    BY <1>1, LenProperties
  <2> PICK outs : outs = LiveOuts(blocks)
    OBVIOUS
  <2> PICK T : T = Insn(reg_n)
    OBVIOUS
  <2>0. blocks[b].insts \in Seq(T)
    BY <1>1
  <2>2. LiveUp(outs, blocks, b)
    BY <2>0, LiveBefore
  <2> QED
    BY <2>1, <2>2 DEF Live, LiveUp
<1>3. \A x, z \in Live(b, k) \cup i.def : color[x] = color[z] => x = z
  <2> PICK p : p = <<b, k>>
    OBVIOUS
  <2>1. p \in Points(blocks) /\ p[1] = b /\ p[2] = k /\ At(blocks, p) = i
    BY DEF Points, Instructions, At
  <2>2. k # 0
    BY <1>1, LenProperties
  <2>3. Live(b, k) \cup i.def \in Cliques(blocks)
    BY <2>1, <2>2 DEF Cliques, Live
  <2> QED
    BY <2>3 DEF AliveApart
<1>4. Shared(m, n) /\ \A r \in Live(b, k - 1) \cap DOMAIN m.val : color[r] \in DOMAIN n.val /\ n.val[color[r]] = m.val[r]
  BY DEF InPlaceOf
<1>5. Meaningful(source.arrays, m, i, Identity, in)
  BY Faultless DEF Fine, Do
<1>6. Uses(i) \subseteq Node /\ i.def \subseteq Node /\ \A q \in DOMAIN i.use : i.use[q] \in Uses(i)
  BY <1>1, InsnParts DEF Node
<1>7. \A q \in DOMAIN i.use : /\ Identity[i.use[q]] = i.use[q] /\ i.use[q] \in DOMAIN m.val
                              /\ color[i.use[q]] \in DOMAIN n.val
                              /\ n.val[color[i.use[q]]] = m.val[i.use[q]]
  <2> TAKE q \in DOMAIN i.use
  <2>1. Identity[i.use[q]] = i.use[q]
    BY <1>6 DEF Identity
  <2>2. i.use[q] \in DOMAIN m.val
    BY <1>5, <2>1 DEF Meaningful
  <2>3. i.use[q] \in Live(b, k - 1)
    BY <1>2, <1>6
  <2> QED
    BY <1>4, <2>1, <2>2, <2>3
<1>8. Operands(n, i, color) = in
  BY <1>7 DEF Operands, Held
<1>9. Supplied(n, i, color) /\ Twins(i, i)
  BY <1>7 DEF Supplied, Twins
<1>10. Shared(e, y) /\ Result(n, i, in) = Result(m, i, in)
  <2>1. /\ Shared(Effect(source.arrays, m, i, Identity), Effect(source.arrays, n, i, color))
        /\ Result(n, i, in) = Result(m, i, in)
    BY <1>1, <1>4, <1>5, <1>8, <1>9, SameEffect
  <2> QED
    BY <2>1 DEF Do, DoColored
<1>11. {Identity[d] : d \in i.def} = i.def
  BY <1>6 DEF Identity
<1> PICK v : v = Result(m, i, in)
  OBVIOUS
<1>12. /\ Leaves(i.def, v, Written(i, in), m, e)
       /\ Leaves({color[d] : d \in i.def}, v, Written(i, in), n, y)
  <2>1. Leaves({Identity[d] : d \in i.def}, v, Written(i, in), m, e)
    BY EffectLeaves DEF Do
  <2>2. Leaves({color[d] : d \in i.def}, v, Written(i, in), n, y)
    BY <1>8, <1>10, EffectLeaves DEF DoColored
  <2> QED
    BY <1>11, <2>1, <2>2
<1>13. ASSUME NEW r \in Live(b, k), r \in DOMAIN e.val
       PROVE  color[r] \in DOMAIN y.val /\ y.val[color[r]] = e.val[r]
  <2> DEFINE D == {color[d] : d \in i.def}
  <2>1. CASE r \in i.def
    <3>1. color[r] \in D
      BY <2>1
    <3> HIDE DEF D
    <3>2. e.val[r] = v /\ color[r] \in DOMAIN y.val /\ y.val[color[r]] = v
      BY <1>12, <2>1, <3>1 DEF Leaves, D
    <3> QED
      BY <3>2
  <2>2. CASE r \notin i.def
    <3>1. color[r] \notin D
      BY <1>3, <1>13, <2>2
    <3>2. r \in DOMAIN m.val /\ e.val[r] = m.val[r]
      BY <1>12, <1>13, <2>2 DEF Leaves
    <3>3. color[r] \in DOMAIN n.val /\ n.val[color[r]] = m.val[r]
      BY <1>2, <1>4, <1>13, <2>2, <3>2
    <3> HIDE DEF D
    <3>4. Leaves(D, v, Written(i, in), n, y)
      BY <1>12 DEF D
    <3>5. color[r] \in DOMAIN y.val /\ y.val[color[r]] = n.val[color[r]]
      BY <3>1, <3>3, <3>4 DEF Leaves
    <3> QED
      BY <3>2, <3>3, <3>5
  <2> QED
    BY <2>1, <2>2
<1> QED
  BY <1>10, <1>13 DEF InPlaceOf

LEMMA ColoredBlock ==
  ASSUME CodeOK, AliveApart, pc \in {"done", "framed"}, NEW b \in DOMAIN blocks,
         NEW N \in Nat, N = Len(blocks[b].insts),
         NEW m, NEW n, InPlaceOf(Live(b, 0), m, n), Fine(RunOf(m, blocks[b].insts))
  PROVE  InPlaceOf(Live(b, N), RunOf(m, blocks[b].insts), After(source.arrays, color, n, blocks[b].insts))
<1> PICK s \in Seq(Insn(MaxNode)) : s = blocks[b].insts
  BY CodeAt
<1>1. N = Len(s) /\ DOMAIN s = 1 .. N
  BY LenProperties
<1>2. PICK E : Trace(source.arrays, Identity, m, s, E) /\ After(source.arrays, Identity, m, s) = E[Len(s)]
  BY AfterTrace
<1>3. PICK F : Trace(source.arrays, color, n, s, F) /\ After(source.arrays, color, n, s) = F[Len(s)]
  BY AfterTrace
<1>4. E[0] = m /\ F[0] = n
  BY <1>2, <1>3 DEF Trace
<1>5. \A k \in 1 .. N : E[k] = Do(E[k - 1], s[k]) /\ F[k] = DoColored(F[k - 1], s[k])
  BY <1>1, <1>2, <1>3 DEF Trace, Do, DoColored
<1> DEFINE P == {k \in 0 .. N : Fine(E[k]) => InPlaceOf(Live(b, k), E[k], F[k])}
<1>6. 0 \in P
  BY <1>4
<1>7. ASSUME NEW k \in 1 .. N, k - 1 \in P PROVE k \in P
  <2> PICK e : e = E[k - 1]
    OBVIOUS
  <2> PICK f : f = F[k - 1]
    OBVIOUS
  <2> PICK i : i = s[k]
    OBVIOUS
  <2>1. E[k] = Do(e, i) /\ F[k] = DoColored(f, i)
    BY <1>5
  <2>2. ASSUME Fine(Do(e, i)) PROVE InPlaceOf(Live(b, k), Do(e, i), DoColored(f, i))
    <3>1. Fine(e)
      BY <2>2, Faultless DEF Fine, Do
    <3>2. InPlaceOf(Live(b, k - 1), e, f)
      BY <1>7, <3>1
    <3>3. k \in DOMAIN blocks[b].insts /\ i = blocks[b].insts[k]
      BY <1>1
    <3> QED
      BY <2>2, <3>2, <3>3, ColoredStep
  <2>3. k \in 0 .. N
    OBVIOUS
  <2> QED
    BY <2>1, <2>2, <2>3
<1> HIDE DEF P
<1>8. 0 .. N \subseteq P
  BY <1>6, <1>7, UpToInduction
<1>9. Fine(E[N]) => InPlaceOf(Live(b, N), E[N], F[N])
  BY <1>8 DEF P
<1> QED
  BY <1>1, <1>2, <1>3, <1>9 DEF RunOf

LEMMA PlacesFewer ==
  ASSUME NEW L, NEW M, M \subseteq L, NEW m, NEW n, InPlaceOf(L, m, n)
  PROVE  InPlaceOf(M, m, n)
BY DEF InPlaceOf

(* A path through the function.                                            *)
LEMMA ColoredPath ==
  ASSUME CodeOK, AliveApart, pc \in {"done", "framed"}, NEW path \in Seq(DOMAIN blocks),
         Follows(path, blocks), NEW m, NEW n, InPlaceOf(Regs(blocks), m, n),
         Fine(RunOf(m, CodeAlong(blocks, path)))
  PROVE  Shared(RunOf(m, CodeAlong(blocks, path)), After(source.arrays, color, n, CodeAlong(blocks, path)))
<1> PICK N : N = Len(path)
  OBVIOUS
<1>1. N \in Nat /\ DOMAIN path = 1 .. N /\ \A k \in 1 .. N : path[k] \in DOMAIN blocks
  BY LenProperties
<1> DEFINE T == Insn(MaxNode)
           ss == [k \in DOMAIN path |-> blocks[path[k]].insts]
           Len2(b) == Len(blocks[b].insts)
<1>2. \A b \in DOMAIN blocks : blocks[b].insts \in Seq(T) /\ Len2(b) \in Nat
  BY CodeAt, LenProperties
<1>3. ss \in [1 .. N -> Seq(T)] /\ \A k \in 1 .. N : ss[k] = blocks[path[k]].insts
  BY <1>1, <1>2
<1>4. CodeAlong(blocks, path) = FlattenSeq(ss)
  BY DEF CodeAlong
<1> HIDE DEF ss, Len2, T
<1>5. ss \in Seq(Seq(T)) /\ Len(ss) = N
  BY <1>1, <1>3, CodeOf
<1>6. PICK E : /\ ByParts(source.arrays, Identity, m, ss, E)
               /\ After(source.arrays, Identity, m, FlattenSeq(ss)) = E[Len(ss)]
  BY <1>5, AfterParts
<1>7. PICK F : /\ ByParts(source.arrays, color, n, ss, F)
               /\ After(source.arrays, color, n, FlattenSeq(ss)) = F[Len(ss)]
  BY <1>5, AfterParts
<1>8. /\ E[0] = m /\ F[0] = n
      /\ \A k \in 1 .. N : /\ E[k] = RunOf(E[k - 1], ss[k])
                           /\ F[k] = After(source.arrays, color, F[k - 1], ss[k])
  BY <1>5, <1>6, <1>7 DEF ByParts, RunOf
<1>9. /\ reg_n \in Nat /\ blocks \in Seq(Block(reg_n))
  BY CodeAt DEF CodeOK
<1>10. \A b \in DOMAIN blocks : Live(b, 0) \subseteq Regs(blocks)
  <2> TAKE b \in DOMAIN blocks
  <2> PICK p : p = <<b, 0>>
    OBVIOUS
  <2>1. p \in Points(blocks) /\ p[1] = b /\ p[2] = 0
    BY DEF Points
  <2>2. Live(b, 0) \in Cliques(blocks)
    BY <2>1 DEF Cliques, Live
  <2> QED
    BY <1>9, <2>2, CliquesTyped
<1> DEFINE L(k) == IF k = 0 THEN Regs(blocks) ELSE Live(path[k], Len2(path[k]))
<1>11. ASSUME NEW k \in 1 .. N PROVE Live(path[k], 0) \subseteq L(k - 1)
  <2>1. CASE k = 1
    BY <1>1, <1>10, <2>1
  <2>2. CASE k # 1
    <3> PICK j : j = k - 1
      OBVIOUS
    <3>1. j \in 1 .. N /\ j \in 1 .. N - 1 /\ j + 1 = k /\ j # 0
      BY <1>1, <2>2
    <3>2. path[j + 1] \in blocks[path[j]].succ
      BY <3>1 DEF Follows
    <3>3. path[j] \in DOMAIN blocks /\ path[k] \in DOMAIN blocks /\ path[k] \in blocks[path[j]].succ
      BY <1>1, <3>1, <3>2
    <3>4. Live(path[k], 0) \subseteq Live(path[j], Len2(path[j]))
      BY <1>9, <3>3, LiveAlong DEF Live, Len2
    <3> QED
      BY <3>1, <3>4
  <2> QED
    BY <2>1, <2>2
<1> DEFINE P == {k \in 0 .. N : Fine(E[k]) => InPlaceOf(L(k), E[k], F[k])}
<1>12. 0 \in P
  BY <1>1, <1>8
<1>13. ASSUME NEW k \in 1 .. N, k - 1 \in P PROVE k \in P
  <2> PICK e : e = E[k - 1]
    OBVIOUS
  <2> PICK f : f = F[k - 1]
    OBVIOUS
  <2> PICK b \in DOMAIN blocks : b = path[k]
    BY <1>1
  <2> PICK s \in Seq(T) : s = blocks[b].insts
    BY <1>2
  <2>1. E[k] = RunOf(e, s) /\ F[k] = After(source.arrays, color, f, s)
    BY <1>3, <1>8
  <2>2. ASSUME Fine(RunOf(e, s))
        PROVE  InPlaceOf(Live(b, Len2(b)), RunOf(e, s), After(source.arrays, color, f, s))
    <3>1. Fine(e)
      BY <2>2, FaultlessAfter DEF RunOf
    <3>2. InPlaceOf(L(k - 1), e, f)
      BY <1>13, <3>1
    <3> HIDE DEF L
    <3>3. InPlaceOf(Live(b, 0), e, f)
      BY <1>11, <3>2, PlacesFewer
    <3> PICK l \in Nat : l = Len2(b)
      BY <1>2
    <3>4. InPlaceOf(Live(b, l), RunOf(e, s), After(source.arrays, color, f, s))
      BY <2>2, <3>3, ColoredBlock DEF Len2
    <3> QED
      BY <3>4
  <2>3. k \in 0 .. N /\ k # 0
    BY <1>1
  <2>4. L(k) = Live(b, Len2(b))
    BY <2>3
  <2> HIDE DEF L
  <2> QED
    BY <2>1, <2>2, <2>3, <2>4
<1> HIDE DEF P, L
<1>14. 0 .. N \subseteq P
  BY <1>1, <1>12, <1>13, UpToInduction
<1>15. N \in 0 .. N
  BY <1>1
<1>16. Fine(E[N]) => InPlaceOf(L(N), E[N], F[N])
  BY <1>14, <1>15 DEF P
<1>17. Fine(E[N])
  BY <1>4, <1>5, <1>6 DEF RunOf
<1>18. Shared(E[N], F[N])
  BY <1>16, <1>17 DEF InPlaceOf
<1> QED
  BY <1>4, <1>5, <1>6, <1>7, <1>18 DEF RunOf

\* Once every register has its place, machine registers do what the source does.
ColorsRun ==
  pc \in {"done", "framed"} =>
    \A path \in source.paths :
      LET run == Outcome(source.arrays, blocks, color, path) IN
      run.faults = {} /\ run.seen = Behaviour(source.blocks, Identity, path)

LEMMA DoneRuns ==
  FrameInv /\ StackInv /\ RunInv /\ pc # "framed" => ColorsRun
<1> SUFFICES ASSUME FrameInv, StackInv, RunInv, pc = "done", NEW path \in source.paths
             PROVE  /\ Outcome(source.arrays, blocks, color, path).faults = {}
                    /\ Outcome(source.arrays, blocks, color, path).seen = Behaviour(source.blocks, Identity, path)
  BY DEF ColorsRun
<1>1. source \in Programs /\ DOMAIN blocks = DOMAIN source.blocks
  BY DEF StackInv
<1>2. path \in Seq(DOMAIN blocks)
  <2>1. source.paths \subseteq Seq(DOMAIN source.blocks)
    BY <1>1, StackAssumption
  <2> QED
    BY <1>1, <2>1
<1>3. Follows(path, blocks)
  <2>1. Follows(path, source.blocks)
    BY <1>1, RunAssumption
  <2>2. \A b \in DOMAIN blocks : blocks[b].succ = source.blocks[b].succ
    BY DEF RunInv
  <2>3. ASSUME NEW k \in 1 .. Len(path) - 1 PROVE path[k + 1] \in blocks[path[k]].succ
    <3>1. k \in 1 .. Len(path) /\ path[k] \in DOMAIN blocks
      BY <1>2, LenProperties
    <3> QED
      BY <2>1, <2>2, <3>1 DEF Follows
  <2> QED
    BY <2>3 DEF Follows
<1>4. CodeOK /\ AliveApart /\ ValidColoring /\ graph.occur = Regs(blocks)
  BY DEF FrameInv, Inv, GraphOf
<1>5. InPlaceOf(Regs(blocks), AtStart, AtStart)
  <2>1. DOMAIN AtStart.val = Machine /\ AtStart.faults = {} /\ AtStart.sp = 0
    BY DEF AtStart
  <2>2. Shared(AtStart, AtStart)
    BY <2>1 DEF Shared
  <2>3. \A r \in Regs(blocks) \cap Machine : color[r] = r
    BY <1>4 DEF ValidColoring
  <2> QED
    BY <2>1, <2>2, <2>3 DEF InPlaceOf
<1> PICK m : m = RunOf(AtStart, CodeAlong(blocks, path))
  OBVIOUS
<1> PICK n : n = After(source.arrays, color, AtStart, CodeAlong(blocks, path))
  OBVIOUS
<1>6. m = Outcome(source.arrays, blocks, Identity, path) /\ n = Outcome(source.arrays, blocks, color, path)
  BY DEF Outcome, RunOf
<1>7. m.faults = {} /\ m.seen = Behaviour(source.blocks, Identity, path)
  BY <1>6 DEF RunInv
<1>8. Shared(m, n)
  BY <1>2, <1>3, <1>4, <1>5, <1>7, ColoredPath DEF Fine
<1>9. n.faults = {} /\ n.seen = m.seen
  BY <1>8 DEF Shared
<1> QED
  BY <1>6, <1>7, <1>9

LEMMA ColorsRunNext ==
  ASSUME ColorsRun, (FrameInv /\ StackInv /\ RunInv)', [FrameStep \/ Framed]_state
  PROVE  ColorsRun'
<1>1. CASE pc' # "framed"
  <2>1. (pc # "framed")'
    BY <1>1
  <2> QED
    BY <2>1, DoneRuns, PTL
<1>2. CASE Finish
  BY <1>2 DEF Finish, code, ColorsRun, Behaviour
<1>3. CASE UNCHANGED state
  BY <1>3 DEF state, vars, code, ColorsRun, Behaviour
<1>4. CASE pc' = "framed" /\ FrameStep /\ ~Finish
  <2>1. ~Spilling /\ ~Replace
    BY <1>4 DEF Spilling, Rewrite, Replace
  <2>2. ~Allocate
    BY <1>4 DEF Allocate, RegStep, Build, Restart, Step, Prepare, Simplify, StartCoalesce, Coalesce,
                EndCoalesce, Freeze, Spill, Leave, Color, EndColor
  <2> QED
    BY <1>4, <2>1, <2>2 DEF FrameStep
<1> QED
  BY <1>1, <1>2, <1>3, <1>4 DEF Framed

LEMMA ColorsRunInit ==
  ASSUME FrameInit
  PROVE  ColorsRun
BY DEF FrameInit, RegInit, ColorsRun

(* From the last round on, the code with machine registers has no fault    *)
(* and observes what the source does: no register is overwritten while it  *)
(* is live (calc_live, build_graph, assign_colors).                        *)
THEOREM ColorsRunCorrect == FrameSpec => []ColorsRun
BY ColorsRunInit, ColorsRunNext, FrameInvCorrect, StackInvCorrect, RunInvCorrect, PTL DEF FrameSpec

LEMMA ColorsSame ==
  ASSUME ColorsRun
  PROVE  SameBehaviour
BY DEF ColorsRun, SameBehaviour, Behaviour

(* The whole allocation changes nothing: on every path the code with       *)
(* machine registers gives every operand the value it has in the source    *)
(* (calc_live, build_graph, the allocator, rewrite_function).              *)
THEOREM SameBehaviourCorrect == FrameSpec => []SameBehaviour
BY ColorsRunCorrect, ColorsSame, PTL

-------------------------------------------------------------------------------
(***************************************************************************)
(* From places to the stack.  Base is where sp is after the prologue, Spot *)
(* where a word of an object is, Real what a value is on the machine.      *)
(***************************************************************************)
Base == 0 - (frame.size + Len(frame.saved))
Spot(a) == Base + frame.at[a[1]] + a[2]

Real(v) ==
  CASE v[1] = "address" -> Base + frame.at[v[2]]
    [] v[1] = "distance" -> frame.at[v[2]] - v[3]
    [] OTHER -> v[2]

\* The words of the objects.
Words == {a \in Nat \X Nat : \E x \in Range(objects) : x.id = a[1] /\ a[2] < x.size}

\* Every word has one use, and a callee-saved register in use is saved.
InFrame ==
  /\ frame.size \in Nat /\ Len(frame.saved) \in Nat /\ Base \in Int
  /\ Base + frame.size + Len(frame.saved) = 0
  /\ frame.params = frame.size + Len(frame.saved)
  /\ \A x \in Range(objects) : x.id \in Nat /\ x.size \in Nat /\ frame.at[x.id] \in Nat
  /\ \A a \in Words : Spot(a) \in Base .. Base + frame.size - 1
  /\ \A a, b \in Words : Spot(a) = Spot(b) => a = b
  /\ Range(frame.saved) \subseteq CalleeSave /\ IsInjective(frame.saved)
  /\ DOMAIN frame.saved = 1 .. Len(frame.saved)
  /\ \A d \in Node : color[d] \in CalleeSave => color[d] \in Range(frame.saved)

LEMMA InsideObject ==
  ASSUME NEW b \in Int, NEW u \in Nat, NEW v \in Nat, NEW k \in Nat, NEW z \in Nat,
         k < v, u + v <= z
  PROVE  b + u + k \in b .. b + z - 1
OBVIOUS

LEMMA FrameStands ==
  ASSUME StackInv, WordsApart, pc = "framed"
  PROVE  InFrame
<1>1. /\ frame.saved = Saved /\ Len(frame.saved) \in Nat /\ frame.size \in Nat
      /\ frame.at = Placed(objects) /\ frame.params = frame.size + Len(frame.saved)
  BY LayoutParts
<1> PICK z \in Nat : z = frame.size
  BY <1>1
<1> PICK l \in Nat : l = Len(frame.saved)
  BY <1>1
<1> PICK base \in Int : base = 0 - (z + l)
  OBVIOUS
<1>2. base = Base /\ Base + z + l = 0
  <2>1. Base = 0 - (z + l)
    BY DEF Base
  <2>2. \A u, v \in Nat : 0 - (u + v) + u + v = 0
    OBVIOUS
  <2>3. 0 - (z + l) + z + l = 0
    BY <2>2
  <2> QED
    BY <2>1, <2>3
<1> PICK at : at = frame.at
  OBVIOUS
<1>3. \A x \in Range(objects) : x.id \in Nat /\ x.size \in Nat
  <2>1. objects \in Seq([id : Nat, size : Nat])
    BY DEF StackInv
  <2>2. \A k \in DOMAIN objects : objects[k] \in [id : Nat, size : Nat]
    BY <2>1, LenProperties
  <2> QED
    BY <2>2 DEF Range
<1>4. \A x \in Range(objects) : at[x.id] \in Nat
  <2>1. objects \in Seq(Objects) /\ Distinct(objects)
    BY DEF StackInv, Objects, Distinct
  <2> PICK f : f = Placed(objects)
    OBVIOUS
  <2>2. \A x \in Range(objects) : f[x.id] \in Nat
    BY <2>1, ObjectsApart
  <2> QED
    BY <1>1, <2>2
<1>5. \A x, y \in Range(objects) :
        /\ at[x.id] + x.size <= z
        /\ x # y => at[x.id] + x.size <= at[y.id] \/ at[y.id] + y.size <= at[x.id]
  BY DEF WordsApart
<1>6. ASSUME NEW a \in Words
      PROVE  \E x \in Range(objects), u \in Nat, v \in Nat, k \in Nat :
               /\ a = <<x.id, k>> /\ x.size = v /\ at[x.id] = u
               /\ Spot(a) = base + u + k /\ k < v /\ u + v <= z
  <2>1. PICK x \in Range(objects) : a \in Nat \X Nat /\ x.id = a[1] /\ a[2] < x.size
    BY DEF Words
  <2> PICK u \in Nat : u = at[x.id]
    BY <1>4
  <2> PICK v \in Nat : v = x.size
    BY <1>3
  <2> PICK k \in Nat : k = a[2]
    BY <2>1
  <2>2. a = <<x.id, k>>
    BY <2>1
  <2>3. Spot(a) = base + u + k
    BY <1>2, <2>1 DEF Spot
  <2>4. k < v /\ u + v <= z
    BY <1>5, <2>1
  <2> QED
    BY <2>2, <2>3, <2>4
<1>7. ASSUME NEW a \in Words PROVE Spot(a) \in Base .. Base + z - 1
  <2>1. PICK u \in Nat, v \in Nat, k \in Nat : Spot(a) = base + u + k /\ k < v /\ u + v <= z
    BY <1>6
  <2>2. base + u + k \in base .. base + z - 1
    BY <2>1, InsideObject
  <2> QED
    BY <1>2, <2>1, <2>2
<1>8. ASSUME NEW a \in Words, NEW b \in Words, Spot(a) = Spot(b) PROVE a = b
  <2>1. PICK x \in Range(objects), u \in Nat, v \in Nat, k \in Nat :
          /\ a = <<x.id, k>> /\ x.size = v /\ at[x.id] = u
          /\ Spot(a) = base + u + k /\ k < v /\ u + v <= z
    BY <1>6
  <2>2. PICK y \in Range(objects), t \in Nat, w \in Nat, j \in Nat :
          /\ b = <<y.id, j>> /\ y.size = w /\ at[y.id] = t
          /\ Spot(b) = base + t + j /\ j < w /\ t + w <= z
    BY <1>6
  <2>3. u + k = t + j
    <3>1. base + u + k = base + t + j
      BY <1>8, <2>1, <2>2
    <3> QED
      BY <3>1
  <2>4. x = y
    <3>1. x # y => u + v <= t \/ t + w <= u
      BY <1>5, <2>1, <2>2
    <3>2. k < v /\ j < w
      BY <2>1, <2>2
    <3>3. ~(u + v <= t) /\ ~(t + w <= u)
      BY <2>3, <3>2
    <3> QED
      BY <3>1, <3>3
  <2>5. k = j
    <3>1. u = t
      BY <2>1, <2>2, <2>4
    <3> QED
      BY <2>3, <3>1
  <2> QED
    BY <2>1, <2>2, <2>4, <2>5
<1>9. /\ Range(frame.saved) \subseteq CalleeSave /\ IsInjective(frame.saved)
      /\ DOMAIN frame.saved = 1 .. l
      /\ \A d \in Node : color[d] \in CalleeSave => color[d] \in Range(frame.saved)
  <2> DEFINE S == {r \in CalleeSave : \E n \in Node : color[n] = r}
  <2>1. S \subseteq CalleeSave /\ S \in SUBSET Node
    BY Registers
  <2>2. Saved = Ascending(S)
    BY DEF Saved
  <2>3. \A d \in Node : color[d] \in CalleeSave => color[d] \in S
    OBVIOUS
  <2> HIDE DEF S
  <2>4. /\ Range(Ascending(S)) = S /\ IsInjective(Ascending(S))
        /\ DOMAIN Ascending(S) = 1 .. Cardinality(S) /\ Len(Ascending(S)) = Cardinality(S)
    BY <2>1, AscendingLists
  <2> QED
    BY <1>1, <2>1, <2>2, <2>3, <2>4
<1> QED
  BY <1>1, <1>2, <1>3, <1>4, <1>7, <1>8, <1>9 DEF InFrame

\* Registers and slots hold on the machine what they should, the words above
\* the objects are untouched, and c words have been pushed for the next call.
RegsReal(val, real) == \A x \in DOMAIN val : x \in DOMAIN real /\ real[x] = Real(val[x])

Preserved(real) ==
  \A r \in CalleeSave \ Range(frame.saved) : r \in DOMAIN real /\ real[r] = AtEntry.val[r]

SlotsReal(slot, mem) ==
  \A a \in DOMAIN slot : a \in Words /\ Spot(a) \in DOMAIN mem /\ mem[Spot(a)] = Real(slot[a])

Spared(mem) ==
  \A a \in Base + frame.size .. MaxNode : a \in DOMAIN mem /\ mem[a] = Prologue(AtEntry).mem[a]

Waiting(sp, pushed, mem, c) ==
  /\ c \in Nat /\ sp \in Int /\ sp + c <= 0
  /\ \A k \in 1 .. c : Base + sp + k - 1 \in DOMAIN mem
  /\ pushed = [k \in 1 .. c |-> mem[Base + sp + k - 1]]

StackReal(slot, sp, pushed, mem, c) ==
  SlotsReal(slot, mem) /\ Spared(mem) /\ Waiting(sp, pushed, mem, c)

\* The memory after v was put at address x.
Changed(mem, x, v, mem2) ==
  /\ x \in DOMAIN mem2 /\ mem2[x] = v
  /\ \A y \in DOMAIN mem : y \in DOMAIN mem2 /\ (y # x => mem2[y] = mem[y])

LEMMA PutChanges ==
  ASSUME NEW mem, NEW x, NEW v
  PROVE  Changed(mem, x, v, Over(In(x, v), mem))
<1> PICK w : w = In(x, v)
  OBVIOUS
<1>1. DOMAIN w = {x} /\ w[x] = v
  BY DEF In
<1> PICK h : h = Over(w, mem)
  OBVIOUS
<1>2. /\ DOMAIN h = DOMAIN w \cup DOMAIN mem
      /\ \A y \in DOMAIN w : h[y] = w[y]
      /\ \A y \in DOMAIN mem : y \notin DOMAIN w => h[y] = mem[y]
  BY DEF Over
<1> QED
  BY <1>1, <1>2 DEF Changed

LEMMA BelowBase ==
  ASSUME NEW b \in Int, NEW s \in Int, NEW c \in Nat, NEW k \in 1 .. c, s + c <= 0
  PROVE  b + s + k - 1 < b
<1>1. s + k - 1 < 0
  OBVIOUS
<1>2. \A u \in Int : u < 0 => b + u < b
  OBVIOUS
<1>3. b + s + k - 1 = b + (s + k - 1)
  OBVIOUS
<1> QED
  BY <1>1, <1>2, <1>3

(* A word of an object is written: nothing else is.                        *)
LEMMA PutSlot ==
  ASSUME InFrame, NEW slot, NEW sp, NEW pushed, NEW mem, NEW c, StackReal(slot, sp, pushed, mem, c),
         NEW a \in Words, NEW v, NEW slot2, NEW mem2, Changed(mem, Spot(a), Real(v), mem2),
         DOMAIN slot2 = {a} \cup DOMAIN slot, slot2[a] = v,
         \A x \in DOMAIN slot : x # a => slot2[x] = slot[x]
  PROVE  StackReal(slot2, sp, pushed, mem2, c)
<1> PICK z \in Nat : z = frame.size
  BY DEF InFrame
<1> PICK b \in Int : b = Base
  BY DEF InFrame
<1>1. Spot(a) \in b .. b + z - 1 /\ Spot(a) \in Int
  BY DEF InFrame
<1>2. /\ Spot(a) \in DOMAIN mem2 /\ mem2[Spot(a)] = Real(v)
      /\ \A y \in DOMAIN mem : y \in DOMAIN mem2 /\ (y # Spot(a) => mem2[y] = mem[y])
  BY DEF Changed
<1>3. SlotsReal(slot2, mem2)
  <2> SUFFICES ASSUME NEW x \in DOMAIN slot2
               PROVE  x \in Words /\ Spot(x) \in DOMAIN mem2 /\ mem2[Spot(x)] = Real(slot2[x])
    BY DEF SlotsReal
  <2>1. CASE x = a
    BY <1>2, <2>1
  <2>2. CASE x # a
    <3>1. x \in DOMAIN slot /\ slot2[x] = slot[x]
      BY <2>2
    <3>2. x \in Words /\ Spot(x) \in DOMAIN mem /\ mem[Spot(x)] = Real(slot[x])
      BY <3>1 DEF StackReal, SlotsReal
    <3>3. Spot(x) # Spot(a)
      BY <2>2, <3>2 DEF InFrame
    <3> QED
      BY <1>2, <3>1, <3>2, <3>3
  <2> QED
    BY <2>1, <2>2
<1>4. Spared(mem2)
  <2> SUFFICES ASSUME NEW x \in b + z .. MaxNode
               PROVE  x \in DOMAIN mem2 /\ mem2[x] = Prologue(AtEntry).mem[x]
    BY DEF Spared
  <2>1. x \in DOMAIN mem /\ mem[x] = Prologue(AtEntry).mem[x]
    BY DEF StackReal, Spared
  <2>2. x # Spot(a)
    BY <1>1
  <2> QED
    BY <1>2, <2>1, <2>2
<1>5. Waiting(sp, pushed, mem2, c)
  <2>1. /\ c \in Nat /\ sp \in Int /\ sp + c <= 0
        /\ \A k \in 1 .. c : b + sp + k - 1 \in DOMAIN mem
        /\ pushed = [k \in 1 .. c |-> mem[b + sp + k - 1]]
    BY DEF StackReal, Waiting
  <2>2. ASSUME NEW k \in 1 .. c
        PROVE  b + sp + k - 1 \in DOMAIN mem2 /\ mem2[b + sp + k - 1] = mem[b + sp + k - 1]
    <3>1. b + sp + k - 1 < b
      BY <2>1, BelowBase
    <3> PICK y \in Int : y = b + sp + k - 1
      BY <2>1
    <3> PICK t \in Int : t = Spot(a)
      BY <1>1
    <3>2. b <= t /\ y < b
      BY <1>1, <3>1
    <3>3. b + sp + k - 1 \in DOMAIN mem
      BY <2>1
    <3>4. y # Spot(a) /\ y \in DOMAIN mem
      BY <3>2, <3>3
    <3> QED
      BY <1>2, <3>4
  <2>3. pushed = [k \in 1 .. c |-> mem2[b + sp + k - 1]]
    BY <2>1, <2>2
  <2> QED
    BY <2>1, <2>2, <2>3 DEF Waiting
<1> QED
  BY <1>3, <1>4, <1>5 DEF StackReal

\* g has w and then the c elements of f.
Fronted(c, f, w, g) ==
  /\ f = [k \in 1 .. c |-> f[k]]
  /\ g = [k \in 1 .. c + 1 |-> IF k = 1 THEN w ELSE f[k - 1]]

LEMMA PushedFront ==
  ASSUME NEW c \in Nat, NEW f, NEW w, NEW g, Fronted(c, f, w, g)
  PROVE  <<w>> \o f = g
<1>a. /\ f = [k \in 1 .. c |-> f[k]]
      /\ g = [k \in 1 .. c + 1 |-> IF k = 1 THEN w ELSE f[k - 1]]
  BY DEF Fronted
<1> DEFINE T == {f[k] : k \in 1 .. c} \cup {w}
<1>1. f \in [1 .. c -> T] /\ w \in T
  BY <1>a
<1> HIDE DEF T
<1>2. f \in Seq(T) /\ Len(f) = c
  BY <1>1, CodeOf
<1> PICK u : u = <<w>>
  OBVIOUS
<1>3. u \in Seq(T) /\ Len(u) = 1 /\ u[1] = w
  BY <1>1
<1> PICK h : h = u \o f
  OBVIOUS
<1>0. f \in Seq(T)
  BY <1>2
<1>4. /\ h \in Seq(T) /\ Len(h) = Len(u) + Len(f)
      /\ \A k \in 1 .. Len(u) + Len(f) : h[k] = IF k <= Len(u) THEN u[k] ELSE f[k - Len(u)]
  BY <1>0, <1>3, ConcatProperties
<1>5. Len(h) = c + 1 /\ DOMAIN h = 1 .. c + 1
  <2>1. Len(h) = c + 1
    BY <1>2, <1>3, <1>4
  <2> QED
    BY <1>4, <2>1, LenProperties
<1>6. ASSUME NEW k \in 1 .. c + 1 PROVE h[k] = g[k]
  <2>0. g[k] = IF k = 1 THEN w ELSE f[k - 1]
    BY <1>a
  <2>1. k \in 1 .. Len(u) + Len(f)
    BY <1>2, <1>3
  <2>2. h[k] = IF k <= 1 THEN u[k] ELSE f[k - 1]
    BY <1>3, <1>4, <2>1
  <2>3. CASE k = 1
    BY <1>3, <2>0, <2>2, <2>3
  <2>4. CASE k # 1
    <3>1. ~(k <= 1)
      BY <2>4
    <3> QED
      BY <2>0, <2>2, <2>4, <3>1
  <2> QED
    BY <2>3, <2>4
<1>7. h = [k \in 1 .. c + 1 |-> h[k]]
  <2>1. h \in [1 .. Len(h) -> T]
    BY <1>4, LenProperties
  <2> QED
    BY <1>5, <2>1
<1> QED
  BY <1>a, <1>6, <1>7

(* An argument is pushed below everything there is.                        *)
LEMMA PutPush ==
  ASSUME InFrame, NEW slot, NEW sp, NEW pushed, NEW mem, NEW c, StackReal(slot, sp, pushed, mem, c),
         NEW w, NEW mem2, Changed(mem, Base + sp - 1, w, mem2)
  PROVE  StackReal(slot, sp - 1, <<w>> \o pushed, mem2, c + 1)
<1> PICK z \in Nat : z = frame.size
  BY DEF InFrame
<1> PICK b \in Int : b = Base
  BY DEF InFrame
<1>1. /\ c \in Nat /\ sp \in Int /\ sp + c <= 0
      /\ \A k \in 1 .. c : b + sp + k - 1 \in DOMAIN mem
      /\ pushed = [k \in 1 .. c |-> mem[b + sp + k - 1]]
  BY DEF StackReal, Waiting
<1> PICK t \in Int : t = b + sp - 1
  BY <1>1
<1>2. /\ t \in DOMAIN mem2 /\ mem2[t] = w
      /\ \A y \in DOMAIN mem : y \in DOMAIN mem2 /\ (y # t => mem2[y] = mem[y])
  BY DEF Changed
<1>3. t < b
  BY <1>1
<1>4. SlotsReal(slot, mem2)
  <2> SUFFICES ASSUME NEW x \in DOMAIN slot
               PROVE  x \in Words /\ Spot(x) \in DOMAIN mem2 /\ mem2[Spot(x)] = Real(slot[x])
    BY DEF SlotsReal
  <2>1. x \in Words /\ Spot(x) \in DOMAIN mem /\ mem[Spot(x)] = Real(slot[x])
    BY DEF StackReal, SlotsReal
  <2>2. Spot(x) \in b .. b + z - 1
    BY <2>1 DEF InFrame
  <2> PICK y \in Int : y = Spot(x)
    BY <2>2
  <2>3. y # t
    BY <1>3, <2>2
  <2> QED
    BY <1>2, <2>1, <2>3
<1>5. Spared(mem2)
  <2> SUFFICES ASSUME NEW x \in b + z .. MaxNode
               PROVE  x \in DOMAIN mem2 /\ mem2[x] = Prologue(AtEntry).mem[x]
    BY DEF Spared
  <2>1. x \in DOMAIN mem /\ mem[x] = Prologue(AtEntry).mem[x]
    BY DEF StackReal, Spared
  <2>2. x # t
    BY <1>3
  <2> QED
    BY <1>2, <2>1, <2>2
<1>6. Waiting(sp - 1, <<w>> \o pushed, mem2, c + 1)
  <2>1. c + 1 \in Nat /\ sp - 1 \in Int /\ (sp - 1) + (c + 1) <= 0
    BY <1>1
  <2>2. ASSUME NEW k \in 1 .. c + 1
        PROVE  /\ b + (sp - 1) + k - 1 \in DOMAIN mem2
               /\ mem2[b + (sp - 1) + k - 1] = IF k = 1 THEN w ELSE pushed[k - 1]
    <3>1. CASE k = 1
      <4>1. b + (sp - 1) + k - 1 = t
        BY <1>1, <3>1
      <4> QED
        BY <1>2, <3>1, <4>1
    <3>2. CASE k # 1
      <4> PICK j \in Int : j = k - 1
        BY <1>1
      <4>1. j \in 1 .. c
        BY <1>1, <3>2
      <4> PICK y \in Int : y = b + sp + j - 1
        BY <1>1
      <4>2. b + (sp - 1) + k - 1 = y
        BY <1>1
      <4>3. y \in DOMAIN mem /\ pushed[j] = mem[y]
        BY <1>1, <4>1
      <4>4. y # t
        BY <1>1, <4>1
      <4> QED
        BY <1>2, <3>2, <4>2, <4>3, <4>4
    <3> QED
      BY <3>1, <3>2
  <2> PICK g : g = [k \in 1 .. c + 1 |-> mem2[b + (sp - 1) + k - 1]]
    OBVIOUS
  <2>3. g = [k \in 1 .. c + 1 |-> IF k = 1 THEN w ELSE pushed[k - 1]]
    BY <2>2
  <2>4. pushed = [k \in 1 .. c |-> pushed[k]]
    BY <1>1
  <2>5. Fronted(c, pushed, w, g)
    BY <2>3, <2>4 DEF Fronted
  <2>6. <<w>> \o pushed = g
    BY <1>1, <2>5, PushedFront
  <2> QED
    BY <2>1, <2>2, <2>6 DEF Waiting
<1> QED
  BY <1>4, <1>5, <1>6 DEF StackReal

(* A callee may overwrite what is below sp; what was pushed is used up.    *)
LEMMA DropUsed ==
  ASSUME InFrame, NEW slot, NEW sp, NEW pushed, NEW mem, NEW c, StackReal(slot, sp, pushed, mem, c),
         NEW mem2, mem2 = [a \in {x \in DOMAIN mem : x >= Base + sp} |-> mem[a]]
  PROVE  StackReal(slot, sp, <<>>, mem2, 0)
<1> PICK z \in Nat : z = frame.size
  BY DEF InFrame
<1> PICK b \in Int : b = Base
  BY DEF InFrame
<1>1. c \in Nat /\ sp \in Int /\ sp + c <= 0
  BY DEF StackReal, Waiting
<1>2. \A y \in DOMAIN mem : y >= b + sp => y \in DOMAIN mem2 /\ mem2[y] = mem[y]
  OBVIOUS
<1>3. SlotsReal(slot, mem2)
  <2> SUFFICES ASSUME NEW x \in DOMAIN slot
               PROVE  x \in Words /\ Spot(x) \in DOMAIN mem2 /\ mem2[Spot(x)] = Real(slot[x])
    BY DEF SlotsReal
  <2>1. x \in Words /\ Spot(x) \in DOMAIN mem /\ mem[Spot(x)] = Real(slot[x])
    BY DEF StackReal, SlotsReal
  <2>2. Spot(x) \in b .. b + z - 1
    BY <2>1 DEF InFrame
  <2> PICK y \in Int : y = Spot(x)
    BY <2>2
  <2>3. y >= b + sp
    BY <1>1, <2>2
  <2> QED
    BY <1>2, <2>1, <2>3
<1>4. Spared(mem2)
  <2> SUFFICES ASSUME NEW x \in b + z .. MaxNode
               PROVE  x \in DOMAIN mem2 /\ mem2[x] = Prologue(AtEntry).mem[x]
    BY DEF Spared
  <2>1. x \in DOMAIN mem /\ mem[x] = Prologue(AtEntry).mem[x]
    BY DEF StackReal, Spared
  <2>2. x >= b + sp
    BY <1>1
  <2> QED
    BY <1>2, <2>1, <2>2
<1>5. Waiting(sp, <<>>, mem2, 0)
  <2>1. 0 \in Nat /\ sp + 0 <= 0
    BY <1>1
  <2>2. <<>> = [k \in 1 .. 0 |-> mem2[Base + sp + k - 1]]
    OBVIOUS
  <2> QED
    BY <1>1, <2>1, <2>2 DEF Waiting
<1> QED
  BY <1>3, <1>4, <1>5 DEF StackReal

(* sp moves while nothing is waiting.                                      *)
LEMMA MoveSp ==
  ASSUME NEW slot, NEW sp, NEW mem, NEW c, StackReal(slot, sp, <<>>, mem, c),
         NEW d \in Int, sp + d <= 0
  PROVE  StackReal(slot, sp + d, <<>>, mem, c)
<1>1. /\ c \in Nat /\ sp \in Int
      /\ <<>> = [k \in 1 .. c |-> mem[Base + sp + k - 1]]
  BY DEF StackReal, Waiting
<1>2. c = 0
  <2>1. DOMAIN <<>> = 1 .. c
    BY <1>1
  <2>2. 1 \notin 1 .. c
    BY <2>1
  <2> QED
    BY <1>1, <2>2
<1>3. <<>> = [k \in 1 .. 0 |-> mem[Base + (sp + d) + k - 1]]
  OBVIOUS
<1>4. Waiting(sp + d, <<>>, mem, 0)
  BY <1>1, <1>3 DEF Waiting
<1> QED
  BY <1>2, <1>4 DEF StackReal

\* Registers D after they got v.
Filled(D, v, real, real2) ==
  /\ \A d \in D : d \in DOMAIN real2 /\ real2[d] = v
  /\ \A x \in DOMAIN real : x \in DOMAIN real2 /\ (x \notin D => real2[x] = real[x])

LEMMA SetFills ==
  ASSUME NEW D, NEW v, NEW real
  PROVE  Filled(D, v, real, Over([x \in D |-> v], real))
<1> DEFINE w == [x \in D |-> v]
<1>1. DOMAIN w = D /\ \A d \in D : w[d] = v
  OBVIOUS
<1> HIDE DEF w
<1> PICK h : h = Over(w, real)
  OBVIOUS
<1>2. /\ DOMAIN h = DOMAIN w \cup DOMAIN real
      /\ \A y \in DOMAIN w : h[y] = w[y]
      /\ \A y \in DOMAIN real : y \notin DOMAIN w => h[y] = real[y]
  BY DEF Over
<1>3. Filled(D, v, real, h)
  BY <1>1, <1>2 DEF Filled
<1> QED
  BY <1>3 DEF w

LEMMA SetReal ==
  ASSUME NEW n, NEW real, RegsReal(n.val, real), Preserved(real),
         NEW D, D \cap CalleeSave \subseteq Range(frame.saved), NEW v, NEW w, NEW e, Leaves(D, v, w, n, e),
         NEW real2, Filled(D, Real(v), real, real2)
  PROVE  RegsReal(e.val, real2) /\ Preserved(real2)
<1> PICK val : val = n.val
  OBVIOUS
<1> PICK val2 : val2 = e.val
  OBVIOUS
<1>0. /\ DOMAIN val2 = D \cup DOMAIN val
      /\ \A d \in D : val2[d] = v
      /\ \A x \in DOMAIN val : x \notin D => val2[x] = val[x]
  BY DEF Leaves
<1>1. ASSUME NEW x \in DOMAIN val2 PROVE x \in DOMAIN real2 /\ real2[x] = Real(val2[x])
  <2>1. CASE x \in D
    BY <1>0, <2>1 DEF Filled
  <2>2. CASE x \notin D
    <3>1. x \in DOMAIN val /\ val2[x] = val[x]
      BY <1>0, <2>2
    <3>2. x \in DOMAIN real /\ real[x] = Real(val[x])
      BY <3>1 DEF RegsReal
    <3> QED
      BY <2>2, <3>1, <3>2 DEF Filled
  <2> QED
    BY <2>1, <2>2
<1>2. ASSUME NEW r \in CalleeSave, r \notin Range(frame.saved)
      PROVE  r \in DOMAIN real2 /\ real2[r] = AtEntry.val[r]
  <2>1. r \in DOMAIN real /\ real[r] = AtEntry.val[r] /\ r \notin D
    BY <1>2 DEF Preserved
  <2> QED
    BY <2>1 DEF Filled
<1>3. RegsReal(val2, real2)
  BY <1>1 DEF RegsReal
<1>4. Preserved(real2)
  BY <1>2 DEF Preserved
<1> QED
  BY <1>3, <1>4

(***************************************************************************)
(* The machine m of the stack goes along with the machine n of places.     *)
(***************************************************************************)
Realized(n, m) ==
  /\ DOMAIN m = {"val", "mem", "sp", "pushed", "aligned", "seen"}
  /\ m.sp = Base + n.sp /\ m.seen = n.seen
  /\ RegsReal(n.val, m.val) /\ Preserved(m.val)
  /\ StackReal(n.slot, n.sp, n.pushed, m.mem, m.pushed)

\* The machines before an instruction that means something.
Underway(p, n, m) ==
  /\ InFrame /\ Realized(n, m)
  /\ At(blocks, p) \in Insn(MaxNode) /\ MaxNode \in Nat
  /\ Sound(At(blocks, p), objects, remat)
  /\ Range(source.arrays) \subseteq Range(objects)
  /\ n.sp + SpChange(At(blocks, p)) = SpOffset(p)
  /\ Meaningful(source.arrays, n, At(blocks, p), color, Operands(n, At(blocks, p), color))

\* The operands of an instruction on the stack's machine.
Actual(m, i) == [k \in DOMAIN i.use |-> m.val[color[i.use[k]]]]

LEMMA ActualIn ==
  ASSUME NEW p, NEW n, NEW m, Underway(p, n, m), NEW i, i = At(blocks, p)
  PROVE  \A k \in DOMAIN i.use : Actual(m, i)[k] = Real(Operands(n, i, color)[k])
<1> TAKE k \in DOMAIN i.use
<1> PICK x : x = color[i.use[k]]
  OBVIOUS
<1>1. x \in DOMAIN n.val
  BY DEF Underway, Meaningful
<1>2. x \in DOMAIN m.val /\ m.val[x] = Real(n.val[x])
  BY <1>1 DEF Underway, Realized, RegsReal
<1> QED
  BY <1>1, <1>2 DEF Actual, Operands, Held

(* Where an access of a slot goes: maintain_sp has told it where sp is.    *)
LEMMA SlotSpot ==
  ASSUME NEW p, NEW n, NEW m, Underway(p, n, m), NEW i, i = At(blocks, p),
         i.kind \notin {"push", "sp"}
  PROVE  /\ SpOffset(p) = n.sp /\ n.sp \in Int /\ Base \in Int
         /\ \A x \in Range(objects) : x.id = i.tag =>
              /\ frame.at[i.tag] \in Nat
              /\ m.sp + (frame.at[i.tag] - SpOffset(p)) = Base + frame.at[i.tag]
<1>1. n.sp \in Int /\ Base \in Int /\ m.sp = Base + n.sp
  BY DEF Underway, Realized, StackReal, Waiting, InFrame
<1>2. SpChange(i) = 0
  BY DEF SpChange
<1>3. SpOffset(p) = n.sp
  BY <1>1, <1>2 DEF Underway
<1>4. ASSUME NEW x \in Range(objects), x.id = i.tag
      PROVE  frame.at[i.tag] \in Nat /\ m.sp + (frame.at[i.tag] - SpOffset(p)) = Base + frame.at[i.tag]
  <2>1. frame.at[i.tag] \in Nat
    BY <1>4 DEF Underway, InFrame
  <2>2. \A b, s, y \in Int : b + s + (y - s) = b + y
    OBVIOUS
  <2> PICK y \in Int : y = frame.at[i.tag]
    BY <2>1
  <2>3. Base + n.sp + (y - n.sp) = Base + y
    BY <1>1, <2>2
  <2> QED
    BY <1>1, <1>3, <2>1, <2>3
<1> QED
  BY <1>1, <1>3, <1>4

\* What an instruction puts into the registers it defines.
Fills(m, p, in) ==
  LET i == At(blocks, p)
      Offset == frame.at[i.tag] - SpOffset(p)
  IN  CASE i.kind = "move" -> in[1]
        [] i.kind = "load" -> Word(m, m.sp + Offset)
        [] i.kind = "offset" -> Offset
        [] i.kind = "addr" -> m.sp + Offset
        [] i.kind = "get" -> Word(m, in[1] + i.tag)
        [] i.kind = "param" -> Word(m, m.sp + frame.params + i.tag - 1 - SpOffset(p))
        [] OTHER -> i.tag

LEMMA SlotWord ==
  ASSUME NEW n, NEW m, Realized(n, m), NEW a \in DOMAIN n.slot
  PROVE  a \in Words /\ Word(m, Spot(a)) = Real(n.slot[a])
BY DEF Realized, StackReal, SlotsReal, Word

(* What is read above the frame is what the caller passed.                 *)
LEMMA PassedWord ==
  ASSUME InFrame, NEW n, NEW m, Realized(n, m), MaxNode \in Nat, NEW k \in 1 .. MaxNode
  PROVE  Word(m, k - 1) = Passed(k)
<1> PICK z \in Nat : z = frame.size
  BY DEF InFrame
<1> PICK l \in Nat : l = Len(frame.saved)
  BY DEF InFrame
<1> PICK b \in Int : b = Base
  BY DEF InFrame
<1> PICK a \in Int : a = k - 1
  OBVIOUS
<1>1. b + z + l = 0
  BY DEF InFrame
<1>2. a \in b + z .. MaxNode /\ a \in 0 .. MaxNode /\ a + 1 = k /\ ~(a \in 0 - l .. 0 - 1)
  BY <1>1
<1>3. a \in DOMAIN m.mem /\ m.mem[a] = Prologue(AtEntry).mem[a]
  BY <1>2 DEF Realized, StackReal, Spared
<1>4. Prologue(AtEntry).mem[a] = Passed(k)
  <2> PICK e : e = AtEntry
    OBVIOUS
  <2>1. e.sp = 0 /\ DOMAIN e.mem = 0 .. MaxNode /\ e.mem[a] = Passed(k)
    BY <1>2 DEF AtEntry
  <2>2. DOMAIN e = {"val", "mem", "sp", "pushed", "aligned", "seen"}
    BY DEF AtEntry
  <2> DEFINE w == [x \in 0 - l .. 0 - 1 |-> e.val[frame.saved[x - (0 - l) + 1]]]
  <2>3. Prologue(e).mem = Over(w, e.mem)
    BY <2>1, <2>2 DEF Prologue
  <2>4. a \notin DOMAIN w
    BY <1>2
  <2> HIDE DEF w
  <2>5. Over(w, e.mem)[a] = e.mem[a]
    BY <1>2, <2>1, <2>4 DEF Over
  <2> QED
    BY <2>1, <2>3, <2>5
<1> QED
  BY <1>3, <1>4 DEF Word

\* Where parameter k is read while sp is at sp.
ParamAt(sp, k, a) == a = Base + sp + frame.params + k - 1 - sp

LEMMA ParamPlace ==
  ASSUME InFrame, NEW sp \in Int, NEW k \in Int, NEW a, ParamAt(sp, k, a)
  PROVE  a = k - 1
<1> PICK z \in Nat : z = frame.size
  BY DEF InFrame
<1> PICK l \in Nat : l = Len(frame.saved)
  BY DEF InFrame
<1> PICK b \in Int : b = Base
  BY DEF InFrame
<1>1. b + z + l = 0 /\ frame.params = z + l
  BY DEF InFrame
<1>2. a = b + sp + (z + l) + k - 1 - sp
  BY <1>1 DEF ParamAt
<1>3. b + sp + (z + l) = sp
  BY <1>1, SMTT(30)
<1>4. a = sp + k - 1 - sp
  BY <1>2, <1>3
<1> QED
  BY <1>4

(* A register gets on the machine what it gets in the program.             *)
LEMMA FillsReal ==
  ASSUME NEW p, NEW n, NEW m, Underway(p, n, m), NEW i, i = At(blocks, p),
         i.kind \notin {"store", "far", "put", "push", "sp"}, NEW in, in = Operands(n, i, color)
  PROVE  Fills(m, p, Actual(m, i)) = Real(Result(n, i, in))
<1> PICK out : out = Actual(m, i)
  OBVIOUS
<1>1. \A k \in DOMAIN i.use : out[k] = Real(in[k])
  BY ActualIn
<1>2. i.kind \in Kind /\ i.tag \in Int /\ (i.kind \in {"move", "get"} => 1 \in DOMAIN i.use)
  BY InsnParts DEF Underway
<1>3. InFrame /\ Realized(n, m) /\ m.sp = Base + n.sp /\ MaxNode \in Nat
  BY DEF Underway, Realized
<1>4. /\ SpOffset(p) = n.sp /\ n.sp \in Int /\ Base \in Int
      /\ \A x \in Range(objects) : x.id = i.tag =>
           /\ frame.at[i.tag] \in Nat
           /\ m.sp + (frame.at[i.tag] - SpOffset(p)) = Base + frame.at[i.tag]
  BY SlotSpot
<1>5. /\ i.kind = "load" => <<i.tag, 0>> \in DOMAIN n.slot
      /\ i.kind = "get" => <<in[1][2], i.tag>> \in DOMAIN n.slot
      /\ i.kind \in {"get", "put"} =>
           \E a \in Range(source.arrays) : in[1] = Address(a.id) /\ i.tag \in 0 .. a.size - 1
      /\ i.kind = "param" => i.tag \in 1 .. MaxNode
  BY DEF Underway, Meaningful
<1>6. /\ i.kind \in {"load", "offset"} => \E x \in Range(objects) : x.id = i.tag
      /\ i.kind = "addr" => \E x \in Range(objects) : x.id = i.tag
  BY DEF Underway, Sound, Slot
<1>7. CASE i.kind \in {"op", "const", "call"}
  <2>1. Result(n, i, in) = Num(i.tag) /\ Fills(m, p, out) = i.tag
    BY <1>7 DEF Result, Fills
  <2>2. Real(Num(i.tag)) = i.tag
    BY DEF Real, Num
  <2> QED
    BY <2>1, <2>2
<1>8. CASE i.kind = "move"
  <2>1. Result(n, i, in) = in[1] /\ Fills(m, p, out) = out[1]
    BY <1>8 DEF Result, Fills
  <2> QED
    BY <1>1, <1>2, <1>8, <2>1
<1>9. CASE i.kind = "load"
  <2> PICK a : a = <<i.tag, 0>>
    OBVIOUS
  <2>1. a \in DOMAIN n.slot /\ a[1] = i.tag /\ a[2] = 0
    BY <1>5, <1>9
  <2>2. Result(n, i, in) = n.slot[a]
    BY <1>9, <2>1 DEF Result, Held
  <2>3. Fills(m, p, out) = Word(m, m.sp + (frame.at[i.tag] - SpOffset(p)))
    BY <1>9 DEF Fills
  <2>4. frame.at[i.tag] \in Nat /\ m.sp + (frame.at[i.tag] - SpOffset(p)) = Base + frame.at[i.tag]
    BY <1>4, <1>6, <1>9
  <2>5. Spot(a) = Base + frame.at[i.tag]
    <3>1. Spot(a) = Base + frame.at[i.tag] + 0
      BY <2>1 DEF Spot
    <3> PICK y \in Int : y = frame.at[i.tag]
      BY <2>4
    <3>2. Base + y + 0 = Base + y
      BY <1>4
    <3> QED
      BY <3>1, <3>2
  <2>6. Word(m, Spot(a)) = Real(n.slot[a])
    BY <1>3, <2>1, SlotWord
  <2> QED
    BY <2>2, <2>3, <2>4, <2>5, <2>6
<1>10. CASE i.kind = "offset"
  <2>1. Result(n, i, in) = Distance(i.tag, n.sp) /\ Fills(m, p, out) = frame.at[i.tag] - SpOffset(p)
    BY <1>10 DEF Result, Fills
  <2>2. Real(Distance(i.tag, n.sp)) = frame.at[i.tag] - n.sp
    BY DEF Real, Distance
  <2> QED
    BY <1>4, <2>1, <2>2
<1>11. CASE i.kind = "addr"
  <2>1. /\ Result(n, i, in) = Address(i.tag)
        /\ Fills(m, p, out) = m.sp + (frame.at[i.tag] - SpOffset(p))
    BY <1>11 DEF Result, Fills
  <2>2. Real(Address(i.tag)) = Base + frame.at[i.tag]
    BY DEF Real, Address
  <2> QED
    BY <1>4, <1>6, <1>11, <2>1, <2>2
<1>12. CASE i.kind = "get"
  <2>1. PICK a \in Range(source.arrays) : in[1] = Address(a.id) /\ i.tag \in 0 .. a.size - 1
    BY <1>5, <1>12
  <2> PICK y : y = <<a.id, i.tag>>
    OBVIOUS
  <2>2. y[1] = a.id /\ y[2] = i.tag /\ in[1][2] = a.id
    BY <2>1 DEF Address
  <2>3. y \in DOMAIN n.slot
    BY <1>5, <1>12, <2>2
  <2>4. Result(n, i, in) = n.slot[y] /\ Fills(m, p, out) = Word(m, out[1] + i.tag)
    BY <1>12, <2>2, <2>3 DEF Result, Fills, Held
  <2>5. out[1] = Base + frame.at[a.id]
    <3>1. out[1] = Real(in[1])
      BY <1>1, <1>2, <1>12
    <3>2. Real(Address(a.id)) = Base + frame.at[a.id]
      BY DEF Real, Address
    <3> QED
      BY <2>1, <3>1, <3>2
  <2>6. Spot(y) = out[1] + i.tag
    BY <2>2, <2>5 DEF Spot
  <2>7. Word(m, Spot(y)) = Real(n.slot[y])
    BY <1>3, <2>3, SlotWord
  <2> QED
    BY <2>4, <2>6, <2>7
<1>13. CASE i.kind = "param"
  <2> PICK k \in 1 .. MaxNode : k = i.tag
    BY <1>5, <1>13
  <2>1. /\ Result(n, i, in) = Num(Passed(k))
        /\ Fills(m, p, out) = Word(m, m.sp + frame.params + k - 1 - SpOffset(p))
    BY <1>13 DEF Result, Fills
  <2>2. Real(Num(Passed(k))) = Passed(k)
    BY DEF Real, Num
  <2> PICK a : a = m.sp + frame.params + k - 1 - SpOffset(p)
    OBVIOUS
  <2>3. a = k - 1
    <3>1. ParamAt(n.sp, k, a) /\ k \in Int
      BY <1>3, <1>4 DEF ParamAt
    <3> QED
      BY <1>3, <1>4, <3>1, ParamPlace
  <2>4. Word(m, k - 1) = Passed(k)
    BY <1>3, PassedWord
  <2> QED
    BY <2>1, <2>2, <2>3, <2>4
<1> QED
  BY <1>2, <1>7, <1>8, <1>9, <1>10, <1>11, <1>12, <1>13 DEF Kind

(***************************************************************************)
(* What Execute does, part by part.                                        *)
(***************************************************************************)
\* Registers change for some instructions, memory for others.
Writes == {"store", "far", "put", "push"}
Defines == {"op", "move", "const", "load", "offset", "addr", "get", "param", "call"}

LEMMA ExecuteValues ==
  ASSUME NEW p, NEW m, DOMAIN m = {"val", "mem", "sp", "pushed", "aligned", "seen"},
         NEW i, i = At(blocks, p), NEW x, x = Execute(m, p), NEW D, D = {color[d] : d \in i.def}
  PROVE  /\ i.kind \in Defines => x.val = Over([d \in D |-> Fills(m, p, Actual(m, i))], m.val)
         /\ i.kind \in Writes \cup {"sp"} => x.val = m.val
<1>1. CASE i.kind = "op"
  BY <1>1 DEF Execute, Fills, Actual, Defines, Writes
<1>2. CASE i.kind = "move"
  BY <1>2 DEF Execute, Fills, Actual, Defines, Writes
<1>3. CASE i.kind = "const"
  BY <1>3 DEF Execute, Fills, Actual, Defines, Writes
<1>4. CASE i.kind = "load"
  BY <1>4 DEF Execute, Fills, Actual, Defines, Writes
<1>5. CASE i.kind = "offset"
  BY <1>5 DEF Execute, Fills, Actual, Defines, Writes
<1>6. CASE i.kind = "addr"
  BY <1>6 DEF Execute, Fills, Actual, Defines, Writes
<1>7. CASE i.kind = "get"
  BY <1>7 DEF Execute, Fills, Actual, Defines, Writes
<1>8. CASE i.kind = "param"
  BY <1>8 DEF Execute, Fills, Actual, Defines, Writes
<1>9. CASE i.kind = "call"
  BY <1>9 DEF Execute, Fills, Actual, Defines, Writes, Drop
<1>10. CASE i.kind = "store"
  BY <1>10 DEF Execute, Defines, Writes, Put
<1>11. CASE i.kind = "far"
  BY <1>11 DEF Execute, Defines, Writes, Put
<1>12. CASE i.kind = "put"
  BY <1>12 DEF Execute, Defines, Writes, Put
<1>13. CASE i.kind = "push"
  BY <1>13 DEF Execute, Defines, Writes, Put
<1>14. CASE i.kind = "sp"
  BY <1>14 DEF Execute, Defines, Writes
<1>15. CASE i.kind \notin Defines \cup Writes \cup {"sp"}
  BY <1>15
<1> QED
  BY <1>1, <1>2, <1>3, <1>4, <1>5, <1>6, <1>7, <1>8, <1>9, <1>10, <1>11, <1>12, <1>13, <1>14, <1>15
     DEF Defines, Writes

LEMMA ExecutePush ==
  ASSUME NEW p, At(blocks, p).kind = "push", NEW m
  PROVE  Execute(m, p) = Pushed(Put(m, m.sp - 1, Actual(m, At(blocks, p))[1]))
BY DEF Execute, Actual, Pushed

\* The words that were pushed, and what is left after a call.
Pending(m) == [k \in 1 .. m.pushed |-> Word(m, m.sp + k - 1)]
Called(m, o, a) == [m EXCEPT !.seen = Append(@, o), !.pushed = 0, !.aligned = a]
Assigned(m, i, v) == [m EXCEPT !.val = Over([x \in {color[d] : d \in i.def} |-> v], @)]
Calls(m, i, x) == \E a : x = Called(Drop(Assigned(m, i, i.tag)), <<i.tag, Actual(m, i), Pending(m)>>, a)

LEMMA ExecuteCall ==
  ASSUME NEW p, NEW i, i = At(blocks, p), i.kind = "call", NEW m
  PROVE  Calls(m, i, Execute(m, p))
<1> PICK w : w = Drop(Assigned(m, i, i.tag))
  OBVIOUS
<1> PICK a : a = (w.aligned /\ m.sp % 2 = 0)
  OBVIOUS
<1> PICK l : l = Pending(m)
  OBVIOUS
<1>1. Execute(m, p) = [w EXCEPT !.seen = Append(@, <<i.tag, Actual(m, i), l>>), !.pushed = 0, !.aligned = a]
  BY DEF Execute, Assigned, Actual, Pending
<1>2. Execute(m, p) = Called(w, <<i.tag, Actual(m, i), l>>, a)
  BY <1>1 DEF Called
<1> QED
  BY <1>2 DEF Calls

LEMMA CallParts ==
  ASSUME NEW m, DOMAIN m = {"val", "mem", "sp", "pushed", "aligned", "seen"}, NEW i, NEW x, Calls(m, i, x)
  PROVE  /\ DOMAIN x = DOMAIN m /\ x.sp = m.sp /\ x.pushed = 0
         /\ x.seen = Append(m.seen, <<i.tag, Actual(m, i), Pending(m)>>)
<1> PICK o : o = <<i.tag, Actual(m, i), Pending(m)>>
  OBVIOUS
<1> PICK u : u = Assigned(m, i, i.tag)
  OBVIOUS
<1> PICK w : w = Drop(u)
  OBVIOUS
<1>1. PICK a : x = Called(w, o, a)
  BY DEF Calls
<1>2. DOMAIN u = DOMAIN m /\ u.sp = m.sp /\ u.pushed = m.pushed /\ u.seen = m.seen
  BY DEF Assigned
<1>3. DOMAIN w = DOMAIN m /\ w.sp = m.sp /\ w.pushed = m.pushed /\ w.seen = m.seen
  BY <1>2 DEF Drop
<1>4. DOMAIN x = DOMAIN w /\ x.sp = w.sp /\ x.pushed = 0 /\ x.seen = Append(w.seen, o)
  BY <1>1, <1>3 DEF Called
<1> QED
  BY <1>3, <1>4

\* The address and the word a store writes.
Target(m, p, in) ==
  LET i == At(blocks, p)
      Offset == frame.at[i.tag] - SpOffset(p)
  IN  CASE i.kind = "store" -> m.sp + Offset
        [] i.kind = "far" -> m.sp + in[2]
        [] i.kind = "put" -> in[1] + i.tag
        [] i.kind = "push" -> m.sp - 1

Stores(i, in) == IF i.kind = "put" THEN in[2] ELSE in[1]

LEMMA ExecuteMemory ==
  ASSUME NEW p, NEW m, DOMAIN m = {"val", "mem", "sp", "pushed", "aligned", "seen"},
         NEW i, i = At(blocks, p), NEW x, x = Execute(m, p), NEW in, in = Actual(m, i)
  PROVE  /\ i.kind \in Writes => x.mem = Over(In(Target(m, p, in), Stores(i, in)), m.mem)
         /\ i.kind \in (Defines \ {"call"}) \cup {"sp"} => x.mem = m.mem
         /\ i.kind = "call" => x.mem = [a \in {b \in DOMAIN m.mem : b >= m.sp} |-> m.mem[a]]
<1>1. CASE i.kind = "op"
  BY <1>1 DEF Execute, Defines, Writes
<1>2. CASE i.kind = "move"
  BY <1>2 DEF Execute, Defines, Writes
<1>3. CASE i.kind = "const"
  BY <1>3 DEF Execute, Defines, Writes
<1>4. CASE i.kind = "load"
  BY <1>4 DEF Execute, Defines, Writes
<1>5. CASE i.kind = "offset"
  BY <1>5 DEF Execute, Defines, Writes
<1>6. CASE i.kind = "addr"
  BY <1>6 DEF Execute, Defines, Writes
<1>7. CASE i.kind = "get"
  BY <1>7 DEF Execute, Defines, Writes
<1>8. CASE i.kind = "param"
  BY <1>8 DEF Execute, Defines, Writes
<1>9. CASE i.kind = "call"
  BY <1>9 DEF Execute, Defines, Writes, Drop
<1>10. CASE i.kind = "store"
  BY <1>10 DEF Execute, Defines, Writes, Put, Target, Stores, Actual
<1>11. CASE i.kind = "far"
  <2>1. Target(m, p, in) = m.sp + in[2] /\ Stores(i, in) = in[1]
    BY <1>11 DEF Target, Stores
  <2>2. x = Put(m, m.sp + in[2], in[1])
    BY <1>11 DEF Execute, Actual
  <2>3. x.mem = Over(In(m.sp + in[2], in[1]), m.mem)
    BY <2>2 DEF Put
  <2> QED
    BY <1>11, <2>1, <2>3 DEF Defines
<1>12. CASE i.kind = "put"
  <2>1. Target(m, p, in) = in[1] + i.tag /\ Stores(i, in) = in[2]
    BY <1>12 DEF Target, Stores
  <2>2. x = Put(m, in[1] + i.tag, in[2])
    BY <1>12 DEF Execute, Actual
  <2>3. x.mem = Over(In(in[1] + i.tag, in[2]), m.mem)
    BY <2>2 DEF Put
  <2> QED
    BY <1>12, <2>1, <2>3 DEF Defines
<1>13. CASE i.kind = "push"
  <2>1. Target(m, p, in) = m.sp - 1 /\ Stores(i, in) = in[1]
    BY <1>13 DEF Target, Stores
  <2> PICK w : w = Put(m, m.sp - 1, in[1])
    OBVIOUS
  <2>2. x = Pushed(w)
    BY <1>13, ExecutePush
  <2>3. w.mem = Over(In(m.sp - 1, in[1]), m.mem)
    BY DEF Put
  <2>4. x.mem = w.mem
    BY <2>2 DEF Pushed
  <2> QED
    BY <1>13, <2>1, <2>3, <2>4 DEF Defines
<1>14. CASE i.kind = "sp"
  BY <1>14 DEF Execute, Defines, Writes
<1>15. CASE i.kind \notin Defines \cup Writes \cup {"sp"}
  BY <1>15 DEF Defines
<1> QED
  BY <1>1, <1>2, <1>3, <1>4, <1>5, <1>6, <1>7, <1>8, <1>9, <1>10, <1>11, <1>12, <1>13, <1>14, <1>15
     DEF Defines, Writes

LEMMA ExecuteRest ==
  ASSUME NEW p, NEW m, DOMAIN m = {"val", "mem", "sp", "pushed", "aligned", "seen"},
         NEW i, i = At(blocks, p), NEW x, x = Execute(m, p), NEW in, in = Actual(m, i)
  PROVE  /\ i.kind \in Defines \cup Writes \cup {"sp"} => DOMAIN x = DOMAIN m
         /\ i.kind \in (Defines \cup Writes) \ {"push"} => x.sp = m.sp
         /\ i.kind \in (Defines \cup Writes \cup {"sp"}) \ {"push", "call"} => x.pushed = m.pushed
         /\ i.kind \in (Defines \cup Writes \cup {"sp"}) \ {"op", "call"} => x.seen = m.seen
         /\ i.kind = "sp" => x.sp = m.sp + i.tag
         /\ i.kind = "push" => x.sp = m.sp - 1 /\ x.pushed = m.pushed + 1
         /\ i.kind = "op" => x.seen = Append(m.seen, <<i.tag, in, <<>>>>)
         /\ i.kind = "call" =>
              /\ x.pushed = 0
              /\ x.seen = Append(m.seen, <<i.tag, in, Pending(m)>>)
<1> DEFINE Set(v) == [m EXCEPT !.val = Over([y \in {color[d] : d \in i.def} |-> v], @)]
<1>a. ASSUME NEW v
      PROVE  /\ DOMAIN Set(v) = DOMAIN m /\ Set(v).sp = m.sp
             /\ Set(v).pushed = m.pushed /\ Set(v).seen = m.seen
  OBVIOUS
<1>1. CASE i.kind = "op"
  <2> PICK w : w = Set(i.tag)
    OBVIOUS
  <2> PICK z : z = Append(w.seen, <<i.tag, in, <<>>>>)
    OBVIOUS
  <2>1. x = [w EXCEPT !.seen = z]
    BY <1>1 DEF Execute, Actual
  <2>2. DOMAIN w = DOMAIN m /\ w.sp = m.sp /\ w.pushed = m.pushed /\ w.seen = m.seen
    BY <1>a
  <2>3. DOMAIN x = DOMAIN m /\ x.sp = m.sp /\ x.pushed = m.pushed /\ x.seen = z
    BY <2>1, <2>2
  <2> QED
    BY <1>1, <2>2, <2>3
<1>2. CASE i.kind = "move"
  BY <1>2 DEF Execute
<1>3. CASE i.kind = "const"
  BY <1>3 DEF Execute
<1>4. CASE i.kind = "load"
  BY <1>4 DEF Execute
<1>5. CASE i.kind = "offset"
  BY <1>5 DEF Execute
<1>6. CASE i.kind = "addr"
  BY <1>6 DEF Execute
<1>7. CASE i.kind = "get"
  BY <1>7 DEF Execute
<1>8. CASE i.kind = "param"
  BY <1>8 DEF Execute
<1>9. CASE i.kind = "call"
  <2>1. Calls(m, i, x)
    BY <1>9, ExecuteCall
  <2>2. /\ DOMAIN x = DOMAIN m /\ x.sp = m.sp /\ x.pushed = 0
        /\ x.seen = Append(m.seen, <<i.tag, in, Pending(m)>>)
    BY <2>1, CallParts
  <2> HIDE DEF Set
  <2> QED
    BY <1>9, <2>2
<1>10. CASE i.kind = "store"
  BY <1>10 DEF Execute, Put
<1>11. CASE i.kind = "far"
  BY <1>11 DEF Execute, Put
<1>12. CASE i.kind = "put"
  BY <1>12 DEF Execute, Put
<1>13. CASE i.kind = "push"
  <2> PICK w : w = Put(m, m.sp - 1, in[1])
    OBVIOUS
  <2>1. x = Pushed(w)
    BY <1>13, ExecutePush
  <2>2. DOMAIN w = DOMAIN m /\ w.sp = m.sp /\ w.pushed = m.pushed /\ w.seen = m.seen
    BY DEF Put
  <2>3. DOMAIN x = DOMAIN m /\ x.sp = m.sp - 1 /\ x.pushed = m.pushed + 1 /\ x.seen = m.seen
    BY <2>1, <2>2 DEF Pushed
  <2> QED
    BY <1>13, <2>3
<1>14. CASE i.kind = "sp"
  <2>1. x = [m EXCEPT !.sp = @ + i.tag]
    BY <1>14 DEF Execute
  <2> HIDE DEF Set
  <2>2. DOMAIN x = DOMAIN m /\ x.sp = m.sp + i.tag /\ x.pushed = m.pushed /\ x.seen = m.seen
    BY <2>1
  <2> QED
    BY <1>14, <2>2 DEF Defines, Writes
<1>15. CASE i.kind \notin Defines \cup Writes \cup {"sp"}
  BY <1>15 DEF Defines, Writes
<1> HIDE DEF Set
<1> QED
  BY <1>1, <1>2, <1>3, <1>4, <1>5, <1>6, <1>7, <1>8, <1>9, <1>10, <1>11, <1>12, <1>13, <1>14, <1>15
     DEF Defines, Writes

(***************************************************************************)
(* An instruction leaves the machines together.                            *)
(***************************************************************************)
LEMMA ValuesStep ==
  ASSUME NEW p, NEW n, NEW m, Underway(p, n, m), NEW i, i = At(blocks, p),
         NEW e, e = DoColored(n, i), NEW x, x = Execute(m, p)
  PROVE  RegsReal(e.val, x.val) /\ Preserved(x.val)
<1> PICK in : in = Operands(n, i, color)
  OBVIOUS
<1> DEFINE D == {color[d] : d \in i.def}
<1> PICK v : v = Result(n, i, in)
  OBVIOUS
<1>1. /\ i.kind \in Kind /\ i.def \subseteq Node
      /\ DOMAIN m = {"val", "mem", "sp", "pushed", "aligned", "seen"}
      /\ RegsReal(n.val, m.val) /\ Preserved(m.val)
  <2>1. i \in Insn(MaxNode) /\ MaxNode \in Nat
    BY DEF Underway
  <2>2. i.kind \in Kind /\ i.def \in SUBSET (0 .. MaxNode - 1)
    BY <2>1, InsnParts
  <2> QED
    BY <2>2 DEF Underway, Realized, Node
<1>2. D \cap CalleeSave \subseteq Range(frame.saved)
  BY <1>1 DEF Underway, InFrame
<1>3. Leaves(D, v, Written(i, in), n, e)
  BY EffectLeaves DEF DoColored
<1>4. /\ i.kind \in Defines => x.val = Over([d \in D |-> Fills(m, p, Actual(m, i))], m.val)
      /\ i.kind \in Writes \cup {"sp"} => x.val = m.val
  BY <1>1, ExecuteValues
<1>5. i.kind \in Writes \cup {"sp"} => D = {}
  BY DEF Underway, Sound, Writes
<1> HIDE DEF D
<1>6. /\ DOMAIN e.val = D \cup DOMAIN n.val
      /\ \A d \in D : e.val[d] = v
      /\ \A r \in DOMAIN n.val : r \notin D => e.val[r] = n.val[r]
  BY <1>3 DEF Leaves
<1>7. CASE i.kind \in Defines
  <2> PICK f : f = Fills(m, p, Actual(m, i))
    OBVIOUS
  <2>1. f = Real(v)
    <3>1. i.kind \notin {"store", "far", "put", "push", "sp"}
      BY <1>7 DEF Defines
    <3> QED
      BY <3>1, FillsReal
  <2>2. x.val = Over([d \in D |-> f], m.val)
    BY <1>4, <1>7
  <2> PICK real : real = m.val
    OBVIOUS
  <2>3. Filled(D, f, real, Over([d \in D |-> f], real))
    BY SetFills
  <2>4. Filled(D, Real(v), m.val, x.val)
    BY <2>1, <2>2, <2>3
  <2> QED
    BY <1>1, <1>2, <1>3, <2>4, SetReal
<1>8. CASE i.kind \in Writes \cup {"sp"}
  <2>1. x.val = m.val /\ D = {}
    BY <1>4, <1>5, <1>8
  <2>2. DOMAIN e.val = DOMAIN n.val /\ \A r \in DOMAIN n.val : e.val[r] = n.val[r]
    BY <1>6, <2>1
  <2>3. RegsReal(e.val, m.val)
    BY <1>1, <2>2 DEF RegsReal
  <2> QED
    BY <1>1, <2>1, <2>3
<1> QED
  BY <1>1, <1>7, <1>8 DEF Kind, Defines, Writes

LEMMA SlotsSame ==
  ASSUME NEW slot, NEW sp, NEW pushed, NEW mem, NEW c, StackReal(slot, sp, pushed, mem, c),
         NEW slot2, DOMAIN slot2 = DOMAIN slot, \A a \in DOMAIN slot : slot2[a] = slot[a]
  PROVE  StackReal(slot2, sp, pushed, mem, c)
BY DEF StackReal, SlotsReal

(* What a store writes, and that it is a word of an object.                *)
LEMMA StoreTarget ==
  ASSUME NEW p, NEW n, NEW m, Underway(p, n, m), NEW i, i = At(blocks, p),
         i.kind \in {"store", "far", "put"}, NEW in, in = Operands(n, i, color)
  PROVE  \E a \in Words : \E v :
           /\ Written(i, in) = In(a, v)
           /\ Target(m, p, Actual(m, i)) = Spot(a) /\ Stores(i, Actual(m, i)) = Real(v)
<1> PICK out : out = Actual(m, i)
  OBVIOUS
<1>1. \A k \in DOMAIN i.use : out[k] = Real(in[k])
  BY ActualIn
<1>2. /\ i.tag \in Int /\ 1 \in DOMAIN i.use
      /\ i.kind \in {"put", "far"} => 2 \in DOMAIN i.use
  BY InsnParts DEF Underway
<1>3. InFrame /\ m.sp = Base + n.sp
  BY DEF Underway, Realized
<1>4. /\ SpOffset(p) = n.sp /\ n.sp \in Int /\ Base \in Int
      /\ \A x \in Range(objects) : x.id = i.tag =>
           /\ frame.at[i.tag] \in Nat
           /\ m.sp + (frame.at[i.tag] - SpOffset(p)) = Base + frame.at[i.tag]
  BY SlotSpot
<1>5. CASE i.kind \in {"store", "far"}
  <2> PICK a : a = <<i.tag, 0>>
    OBVIOUS
  <2>1. PICK x \in Range(objects) : x = Slot(i.tag)
    BY <1>5 DEF Underway, Sound
  <2>2. x.id = i.tag /\ x.size = 1 /\ i.tag \in Nat
    BY <1>3, <2>1 DEF Slot, InFrame
  <2>3. a \in Words /\ a[1] = i.tag /\ a[2] = 0
    BY <2>2 DEF Words
  <2>4. frame.at[i.tag] \in Nat /\ m.sp + (frame.at[i.tag] - SpOffset(p)) = Base + frame.at[i.tag]
    BY <1>4, <2>2
  <2>5. Spot(a) = Base + frame.at[i.tag]
    <3>1. Spot(a) = Base + frame.at[i.tag] + 0
      BY <2>3 DEF Spot
    <3> PICK y \in Int : y = frame.at[i.tag]
      BY <2>4
    <3>2. Base + y + 0 = Base + y
      BY <1>4
    <3> QED
      BY <3>1, <3>2
  <2>6. Target(m, p, out) = m.sp + (frame.at[i.tag] - SpOffset(p))
    <3>1. CASE i.kind = "store"
      BY <3>1 DEF Target
    <3>2. CASE i.kind = "far"
      <4>1. Target(m, p, out) = m.sp + out[2]
        BY <3>2 DEF Target
      <4>2. in[2] = Distance(i.tag, n.sp)
        BY <3>2 DEF Underway, Meaningful
      <4>3. Real(Distance(i.tag, n.sp)) = frame.at[i.tag] - n.sp
        BY DEF Real, Distance
      <4>4. out[2] = frame.at[i.tag] - n.sp
        BY <1>1, <1>2, <3>2, <4>2, <4>3
      <4> QED
        BY <1>4, <4>1, <4>4
    <3> QED
      BY <1>5, <3>1, <3>2
  <2>7. Written(i, in) = In(a, in[1])
    <3>1. CASE i.kind = "store"
      BY <3>1 DEF Written
    <3>2. CASE i.kind = "far"
      <4>1. in[2] = Distance(i.tag, n.sp)
        BY <3>2 DEF Underway, Meaningful
      <4>2. in[2][2] = i.tag
        BY <4>1 DEF Distance
      <4> QED
        BY <3>2, <4>2 DEF Written
    <3> QED
      BY <1>5, <3>1, <3>2
  <2>8. Stores(i, out) = Real(in[1])
    BY <1>1, <1>2, <1>5 DEF Stores
  <2> QED
    BY <2>3, <2>4, <2>5, <2>6, <2>7, <2>8
<1>6. CASE i.kind = "put"
  <2>1. PICK o \in Range(source.arrays) : in[1] = Address(o.id) /\ i.tag \in 0 .. o.size - 1
    BY <1>6 DEF Underway, Meaningful
  <2> PICK a : a = <<o.id, i.tag>>
    OBVIOUS
  <2>2. a[1] = o.id /\ a[2] = i.tag /\ in[1][2] = o.id
    BY <2>1 DEF Address
  <2>3. a \in Words
    <3>1. o \in Range(objects) /\ o.id \in Nat /\ o.size \in Nat
      BY DEF Underway, InFrame
    <3>2. i.tag \in Nat /\ i.tag < o.size
      BY <2>1, <3>1
    <3> QED
      BY <3>1, <3>2 DEF Words
  <2>4. Written(i, in) = In(a, in[2])
    BY <1>6, <2>2 DEF Written
  <2>5. Target(m, p, out) = out[1] + i.tag
    BY <1>6 DEF Target
  <2>6. out[1] = Base + frame.at[o.id]
    <3>1. out[1] = Real(in[1])
      BY <1>1, <1>2
    <3>2. Real(Address(o.id)) = Base + frame.at[o.id]
      BY DEF Real, Address
    <3> QED
      BY <2>1, <3>1, <3>2
  <2>7. Spot(a) = out[1] + i.tag
    BY <2>2, <2>6 DEF Spot
  <2>8. Stores(i, out) = Real(in[2])
    BY <1>1, <1>2, <1>6 DEF Stores
  <2> QED
    BY <2>3, <2>4, <2>5, <2>7, <2>8
<1> QED
  BY <1>5, <1>6

\* The rest of what an instruction does to the machine of places, and to memory.
Affects(n, i, e) ==
  /\ e.sp = n.sp + SpChange(i)
  /\ i.kind = "push" => e.pushed = <<Operands(n, i, color)[1][2]>> \o n.pushed
  /\ i.kind = "call" => e.pushed = <<>>
  /\ i.kind \notin {"push", "call"} => e.pushed = n.pushed
  /\ e.seen = Seen(n, i, Operands(n, i, color))

LEMMA ColoredAffects ==
  ASSUME NEW n, NEW i
  PROVE  Affects(n, i, DoColored(n, i))
<1> PICK in : in = Operands(n, i, color)
  OBVIOUS
<1> PICK e : e = DoColored(n, i)
  OBVIOUS
<1>1. /\ e.sp = n.sp + SpChange(i)
      /\ e.pushed = CASE i.kind = "push" -> <<in[1][2]>> \o n.pushed
                      [] i.kind = "call" -> <<>>
                      [] OTHER -> n.pushed
      /\ e.seen = Seen(n, i, in)
  BY DEF DoColored, Effect
<1>2. /\ i.kind = "push" => e.pushed = <<in[1][2]>> \o n.pushed
      /\ i.kind = "call" => e.pushed = <<>>
      /\ i.kind \notin {"push", "call"} => e.pushed = n.pushed
  BY <1>1
<1> QED
  BY <1>1, <1>2 DEF Affects

Remembers(m, p, x) ==
  LET i == At(blocks, p)
      in == Actual(m, i)
  IN  /\ i.kind \in Writes => x.mem = Over(In(Target(m, p, in), Stores(i, in)), m.mem)
      /\ i.kind \in (Defines \ {"call"}) \cup {"sp"} => x.mem = m.mem
      /\ i.kind = "call" => x.mem = [a \in {b \in DOMAIN m.mem : b >= m.sp} |-> m.mem[a]]

LEMMA ExecuteRemembers ==
  ASSUME NEW p, NEW m, DOMAIN m = {"val", "mem", "sp", "pushed", "aligned", "seen"}
  PROVE  Remembers(m, p, Execute(m, p))
<1> PICK i : i = At(blocks, p)
  OBVIOUS
<1> PICK in : in = Actual(m, i)
  OBVIOUS
<1> PICK x : x = Execute(m, p)
  OBVIOUS
<1>1. /\ i.kind \in Writes => x.mem = Over(In(Target(m, p, in), Stores(i, in)), m.mem)
      /\ i.kind \in (Defines \ {"call"}) \cup {"sp"} => x.mem = m.mem
      /\ i.kind = "call" => x.mem = [a \in {b \in DOMAIN m.mem : b >= m.sp} |-> m.mem[a]]
  BY ExecuteMemory
<1> QED
  BY <1>1 DEF Remembers

(* The memory after a store.                                               *)
LEMMA WrittenStep ==
  ASSUME NEW p, NEW n, NEW m, Underway(p, n, m), NEW i, i = At(blocks, p),
         i.kind \in {"store", "far", "put"}, NEW e, e = DoColored(n, i), NEW x, x = Execute(m, p)
  PROVE  StackReal(e.slot, e.sp, e.pushed, x.mem, x.pushed)
<1> PICK in : in = Operands(n, i, color)
  OBVIOUS
<1> PICK out : out = Actual(m, i)
  OBVIOUS
<1>1. /\ InFrame /\ DOMAIN m = {"val", "mem", "sp", "pushed", "aligned", "seen"}
      /\ StackReal(n.slot, n.sp, n.pushed, m.mem, m.pushed) /\ n.sp \in Int
  BY DEF Underway, Realized, StackReal, Waiting
<1> PICK a \in Words :
      \E v : /\ Written(i, in) = In(a, v)
             /\ Target(m, p, out) = Spot(a) /\ Stores(i, out) = Real(v)
  BY StoreTarget
<1>2. PICK v :
        /\ Written(i, in) = In(a, v)
        /\ Target(m, p, out) = Spot(a) /\ Stores(i, out) = Real(v)
  OBVIOUS
<1>3. i.kind \in Writes /\ i.kind \notin {"push", "call", "op", "sp"}
  BY DEF Writes
<1>4. x.mem = Over(In(Target(m, p, out), Stores(i, out)), m.mem)
  BY <1>1, <1>3, ExecuteRemembers DEF Remembers
<1>5. x.pushed = m.pushed
  BY <1>1, <1>3, ExecuteRest
<1>6. x.mem = Over(In(Spot(a), Real(v)), m.mem)
  BY <1>2, <1>4
<1> PICK mem : mem = m.mem
  OBVIOUS
<1> PICK y : y = Spot(a)
  OBVIOUS
<1> PICK w : w = Real(v)
  OBVIOUS
<1>7. Changed(mem, y, w, Over(In(y, w), mem))
  BY PutChanges
<1> PICK mem2 : mem2 = x.mem
  OBVIOUS
<1>8. Changed(mem, Spot(a), Real(v), mem2)
  BY <1>6, <1>7
<1> PICK slot : slot = n.slot
  OBVIOUS
<1> PICK slot2 : slot2 = e.slot
  OBVIOUS
<1> PICK z : z = Written(i, in)
  OBVIOUS
<1>9. Leaves({color[d] : d \in i.def}, Result(n, i, in), Written(i, in), n, e)
  BY EffectLeaves DEF DoColored
<1>10. DOMAIN z = {a} /\ z[a] = v
  BY <1>2 DEF In
<1>11. /\ DOMAIN slot2 = {a} \cup DOMAIN slot /\ slot2[a] = v
       /\ \A b \in DOMAIN slot : b # a => slot2[b] = slot[b]
  BY <1>9, <1>10 DEF Leaves
<1>12. e.sp = n.sp /\ e.pushed = n.pushed
  <2>1. e.sp = n.sp + SpChange(i) /\ e.pushed = n.pushed
    BY <1>3, ColoredAffects DEF Affects
  <2>2. SpChange(i) = 0
    BY <1>3 DEF SpChange
  <2> QED
    BY <1>1, <2>1, <2>2
<1>13. StackReal(slot, n.sp, n.pushed, mem, m.pushed)
  BY <1>1
<1>14. StackReal(slot2, n.sp, n.pushed, mem2, m.pushed)
  BY <1>1, <1>8, <1>11, <1>13, PutSlot
<1> QED
  BY <1>5, <1>12, <1>14

LEMMA SlotsStay ==
  ASSUME NEW n, NEW i, i.kind \notin {"store", "far", "put"}, NEW e, e = DoColored(n, i)
  PROVE  DOMAIN e.slot = DOMAIN n.slot /\ \A a \in DOMAIN n.slot : e.slot[a] = n.slot[a]
<1> PICK in : in = Operands(n, i, color)
  OBVIOUS
<1>1. Leaves({color[d] : d \in i.def}, Result(n, i, in), Written(i, in), n, e)
  BY EffectLeaves DEF DoColored
<1> PICK z : z = Written(i, in)
  OBVIOUS
<1>2. DOMAIN z = {}
  BY DEF Written
<1> QED
  BY <1>1, <1>2 DEF Leaves

LEMMA PushedStep ==
  ASSUME NEW p, NEW n, NEW m, Underway(p, n, m), NEW i, i = At(blocks, p),
         i.kind = "push", NEW e, e = DoColored(n, i), NEW x, x = Execute(m, p)
  PROVE  StackReal(e.slot, e.sp, e.pushed, x.mem, x.pushed)
<1> PICK in : in = Operands(n, i, color)
  OBVIOUS
<1> PICK out : out = Actual(m, i)
  OBVIOUS
<1>1. /\ InFrame /\ DOMAIN m = {"val", "mem", "sp", "pushed", "aligned", "seen"}
      /\ StackReal(n.slot, n.sp, n.pushed, m.mem, m.pushed)
      /\ n.sp \in Int /\ Base \in Int /\ m.sp = Base + n.sp /\ m.pushed \in Nat
  BY DEF Underway, Realized, StackReal, Waiting, InFrame
<1>2. 1 \in DOMAIN i.use
  BY InsnParts DEF Underway
<1>3. out[1] = in[1][2]
  <2>1. in[1][1] = "num"
    <3>1. DOMAIN in = DOMAIN i.use
      BY DEF Operands
    <3> QED
      BY <1>2, <3>1 DEF Underway, Meaningful
  <2>2. out[1] = Real(in[1])
    BY <1>2, ActualIn
  <2>3. Real(in[1]) = in[1][2]
    BY <2>1 DEF Real
  <2> QED
    BY <2>2, <2>3
<1> PICK w : w = out[1]
  OBVIOUS
<1>4. i.kind \in Writes
  BY DEF Writes
<1>5. Target(m, p, out) = m.sp - 1 /\ Stores(i, out) = w
  BY DEF Target, Stores
<1>6. x.mem = Over(In(Target(m, p, out), Stores(i, out)), m.mem)
  BY <1>1, <1>4, ExecuteRemembers DEF Remembers
<1>7. x.pushed = m.pushed + 1
  BY <1>1, ExecuteRest
<1> PICK y : y = Base + n.sp - 1
  OBVIOUS
<1> PICK mem : mem = m.mem
  OBVIOUS
<1> PICK mem2 : mem2 = x.mem
  OBVIOUS
<1>8. Changed(mem, y, w, Over(In(y, w), mem))
  BY PutChanges
<1>9. Changed(mem, Base + n.sp - 1, w, mem2)
  BY <1>1, <1>5, <1>6, <1>8
<1>10. StackReal(n.slot, n.sp, n.pushed, mem, m.pushed)
  BY <1>1
<1>11. StackReal(n.slot, n.sp - 1, <<w>> \o n.pushed, mem2, m.pushed + 1)
  BY <1>1, <1>9, <1>10, PutPush
<1>12. e.sp = n.sp - 1 /\ e.pushed = <<w>> \o n.pushed
  <2>1. e.sp = n.sp + SpChange(i) /\ e.pushed = <<in[1][2]>> \o n.pushed
    BY ColoredAffects DEF Affects
  <2>2. SpChange(i) = -1
    BY DEF SpChange
  <2>3. n.sp + -1 = n.sp - 1
    BY <1>1
  <2> QED
    BY <1>3, <2>1, <2>2, <2>3
<1>13. DOMAIN e.slot = DOMAIN n.slot /\ \A a \in DOMAIN n.slot : e.slot[a] = n.slot[a]
  BY SlotsStay
<1> QED
  BY <1>7, <1>11, <1>12, <1>13, SlotsSame

LEMMA OtherStep ==
  ASSUME NEW p, NEW n, NEW m, Underway(p, n, m), NEW i, i = At(blocks, p),
         i.kind \in (Defines \cup {"sp"}), NEW e, e = DoColored(n, i), NEW x, x = Execute(m, p)
  PROVE  StackReal(e.slot, e.sp, e.pushed, x.mem, x.pushed)
<1> PICK in : in = Operands(n, i, color)
  OBVIOUS
<1>1. /\ InFrame /\ DOMAIN m = {"val", "mem", "sp", "pushed", "aligned", "seen"}
      /\ StackReal(n.slot, n.sp, n.pushed, m.mem, m.pushed)
      /\ n.sp \in Int /\ Base \in Int /\ m.sp = Base + n.sp
  BY DEF Underway, Realized, StackReal, Waiting, InFrame
<1>2. DOMAIN e.slot = DOMAIN n.slot /\ \A a \in DOMAIN n.slot : e.slot[a] = n.slot[a]
  <2>1. i.kind \notin {"store", "far", "put"}
    BY DEF Defines
  <2> QED
    BY <2>1, SlotsStay
<1>3. e.sp = n.sp + SpChange(i)
  BY ColoredAffects DEF Affects
<1>4. i.kind # "sp" => e.sp = n.sp
  <2>1. i.kind # "push"
    BY DEF Defines
  <2>2. i.kind # "sp" => SpChange(i) = 0
    BY <2>1 DEF SpChange
  <2> QED
    BY <1>1, <1>3, <2>2
<1>5. e.pushed = IF i.kind = "call" THEN <<>> ELSE n.pushed
  <2>1. i.kind # "push"
    BY DEF Defines
  <2>2. i.kind = "call" => e.pushed = <<>>
    BY ColoredAffects DEF Affects
  <2>3. i.kind # "call" => e.pushed = n.pushed
    BY <2>1, ColoredAffects DEF Affects
  <2> QED
    BY <2>2, <2>3
<1>6. CASE i.kind = "call"
  <2> PICK mem2 : mem2 = x.mem
    OBVIOUS
  <2> PICK mem : mem = m.mem
    OBVIOUS
  <2>1. mem2 = [a \in {b \in DOMAIN mem : b >= Base + n.sp} |-> mem[a]]
    BY <1>1, <1>6, ExecuteRemembers DEF Remembers
  <2>2. x.pushed = 0
    BY <1>1, <1>6, ExecuteRest
  <2>3. StackReal(n.slot, n.sp, <<>>, mem2, 0)
    BY <1>1, <2>1, DropUsed
  <2>4. StackReal(e.slot, n.sp, <<>>, mem2, 0)
    BY <1>2, <2>3, SlotsSame
  <2> QED
    BY <1>4, <1>5, <1>6, <2>2, <2>4
<1>7. CASE i.kind = "sp"
  <2>1. x.mem = m.mem /\ x.pushed = m.pushed
    <3>1. x.mem = m.mem
      BY <1>1, <1>7, ExecuteRemembers DEF Remembers
    <3>2. i.kind \in (Defines \cup Writes \cup {"sp"}) \ {"push", "call"}
      BY <1>7
    <3>3. x.pushed = m.pushed
      BY <1>1, <3>2, ExecuteRest
    <3> QED
      BY <3>1, <3>3
  <2>2. n.pushed = <<>> /\ n.sp + SpChange(i) <= 0
    BY <1>7 DEF Underway, Meaningful
  <2>3. SpChange(i) = i.tag /\ i.tag \in Int
    BY <1>7, InsnParts DEF SpChange, Underway
  <2> PICK d \in Int : d = i.tag
    BY <2>3
  <2>4. StackReal(n.slot, n.sp + d, <<>>, m.mem, m.pushed)
    BY <1>1, <2>2, <2>3, MoveSp
  <2>5. e.sp = n.sp + d /\ e.pushed = <<>>
    BY <1>3, <1>5, <1>7, <2>2, <2>3
  <2> QED
    BY <1>2, <2>1, <2>4, <2>5, SlotsSame
<1>8. CASE i.kind \notin {"call", "sp"}
  <2>1. x.mem = m.mem
    BY <1>1, <1>8, ExecuteRemembers DEF Remembers
  <2>2. x.pushed = m.pushed
    <3>1. i.kind \in (Defines \cup Writes \cup {"sp"}) \ {"push", "call"}
      BY <1>8 DEF Defines
    <3> QED
      BY <1>1, <3>1, ExecuteRest
  <2>3. StackReal(e.slot, n.sp, n.pushed, m.mem, m.pushed)
    BY <1>1, <1>2, SlotsSame
  <2> QED
    BY <1>4, <1>5, <1>8, <2>1, <2>2, <2>3
<1> QED
  BY <1>6, <1>7, <1>8

(* What is observed is what the program hands over.                        *)
LEMMA SeenStep ==
  ASSUME NEW p, NEW n, NEW m, Underway(p, n, m), NEW i, i = At(blocks, p),
         NEW e, e = DoColored(n, i), NEW x, x = Execute(m, p)
  PROVE  x.seen = e.seen
<1> PICK in : in = Operands(n, i, color)
  OBVIOUS
<1> PICK out : out = Actual(m, i)
  OBVIOUS
<1>1. /\ DOMAIN m = {"val", "mem", "sp", "pushed", "aligned", "seen"} /\ m.seen = n.seen
      /\ Waiting(n.sp, n.pushed, m.mem, m.pushed) /\ m.sp = Base + n.sp
      /\ i.kind \in Kind
  <2>1. i.kind \in Kind
    BY InsnParts DEF Underway
  <2> QED
    BY <2>1 DEF Underway, Realized, StackReal
<1>2. e.seen = Seen(n, i, in)
  BY ColoredAffects DEF Affects
<1>3. i.kind \in {"op", "call"} => out = Numbers(in)
  <2> SUFFICES ASSUME i.kind \in {"op", "call"} PROVE out = Numbers(in)
    OBVIOUS
  <2>1. DOMAIN in = DOMAIN i.use
    BY DEF Operands
  <2>2. \A k \in DOMAIN i.use : in[k][1] = "num"
    BY <2>1 DEF Underway, Meaningful
  <2>3. \A k \in DOMAIN i.use : out[k] = Real(in[k])
    BY ActualIn
  <2>4. \A k \in DOMAIN i.use : out[k] = in[k][2]
    BY <2>2, <2>3 DEF Real
  <2>5. out = [k \in DOMAIN i.use |-> out[k]]
    BY DEF Actual
  <2>6. Numbers(in) = [k \in DOMAIN i.use |-> in[k][2]]
    BY <2>1 DEF Numbers
  <2> QED
    BY <2>4, <2>5, <2>6
<1>4. Pending(m) = n.pushed
  <2> PICK c \in Nat : c = m.pushed
    BY <1>1 DEF Waiting
  <2>1. /\ \A k \in 1 .. c : Base + n.sp + k - 1 \in DOMAIN m.mem
        /\ n.pushed = [k \in 1 .. c |-> m.mem[Base + n.sp + k - 1]]
    BY <1>1 DEF Waiting
  <2>2. \A k \in 1 .. c : Word(m, m.sp + k - 1) = m.mem[Base + n.sp + k - 1]
    BY <1>1, <2>1 DEF Word
  <2>3. Pending(m) = [k \in 1 .. c |-> Word(m, m.sp + k - 1)]
    BY DEF Pending
  <2> QED
    BY <2>1, <2>2, <2>3
<1>5. CASE i.kind = "op"
  <2>1. x.seen = Append(m.seen, <<i.tag, out, <<>>>>)
    BY <1>1, <1>5, ExecuteRest
  <2>2. e.seen = Append(n.seen, <<i.tag, Numbers(in), <<>>>>)
    BY <1>2, <1>5 DEF Seen
  <2> QED
    BY <1>1, <1>3, <1>5, <2>1, <2>2
<1>6. CASE i.kind = "call"
  <2>1. x.seen = Append(m.seen, <<i.tag, out, Pending(m)>>)
    BY <1>1, <1>6, ExecuteRest
  <2>2. e.seen = Append(n.seen, <<i.tag, Numbers(in), n.pushed>>)
    BY <1>2, <1>6 DEF Seen
  <2> QED
    BY <1>1, <1>3, <1>4, <1>6, <2>1, <2>2
<1>7. CASE i.kind \notin {"op", "call"}
  <2>1. i.kind \in (Defines \cup Writes \cup {"sp"}) \ {"op", "call"}
    BY <1>1, <1>7 DEF Kind, Defines, Writes
  <2>2. x.seen = m.seen
    BY <1>1, <2>1, ExecuteRest
  <2>3. e.seen = n.seen
    BY <1>2, <1>7 DEF Seen
  <2> QED
    BY <1>1, <2>2, <2>3
<1> QED
  BY <1>5, <1>6, <1>7

LEMMA StepRealized ==
  ASSUME NEW p, NEW n, NEW m, Underway(p, n, m)
  PROVE  Realized(DoColored(n, At(blocks, p)), Execute(m, p))
<1> PICK i : i = At(blocks, p)
  OBVIOUS
<1> PICK e : e = DoColored(n, i)
  OBVIOUS
<1> PICK x : x = Execute(m, p)
  OBVIOUS
<1>1. /\ DOMAIN m = {"val", "mem", "sp", "pushed", "aligned", "seen"}
      /\ n.sp \in Int /\ Base \in Int /\ m.sp = Base + n.sp
  BY DEF Underway, Realized, StackReal, Waiting, InFrame
<1>2. i.kind \in Defines \cup Writes \cup {"sp"} /\ i.tag \in Int
  <2>1. i.kind \in Kind /\ i.tag \in Int
    BY InsnParts DEF Underway
  <2> QED
    BY <2>1 DEF Kind, Defines, Writes
<1>3. RegsReal(e.val, x.val) /\ Preserved(x.val)
  BY ValuesStep
<1>4. x.seen = e.seen
  BY SeenStep
<1>5. StackReal(e.slot, e.sp, e.pushed, x.mem, x.pushed)
  <2>1. CASE i.kind \in {"store", "far", "put"}
    BY <2>1, WrittenStep
  <2>2. CASE i.kind = "push"
    BY <2>2, PushedStep
  <2>3. CASE i.kind \in Defines \cup {"sp"}
    BY <2>3, OtherStep
  <2> QED
    BY <1>2, <2>1, <2>2, <2>3 DEF Writes
<1>6. DOMAIN x = DOMAIN m
  BY <1>1, <1>2, ExecuteRest
<1>7. x.sp = Base + e.sp
  <2>1. e.sp = n.sp + SpChange(i)
    BY ColoredAffects DEF Affects
  <2>2. CASE i.kind = "push"
    <3>1. x.sp = m.sp - 1
      BY <1>1, <2>2, ExecuteRest
    <3>2. SpChange(i) = -1
      BY <2>2 DEF SpChange
    <3>3. \A b, s \in Int : b + s - 1 = b + (s + -1)
      OBVIOUS
    <3>4. Base + n.sp - 1 = Base + (n.sp + -1)
      BY <1>1, <3>3
    <3> QED
      BY <1>1, <2>1, <3>1, <3>2, <3>4
  <2>3. CASE i.kind = "sp"
    <3>1. x.sp = m.sp + i.tag
      BY <1>1, <2>3, ExecuteRest
    <3>2. SpChange(i) = i.tag
      BY <2>3 DEF SpChange
    <3>3. \A b, s, t \in Int : b + s + t = b + (s + t)
      OBVIOUS
    <3>4. Base + n.sp + i.tag = Base + (n.sp + i.tag)
      BY <1>1, <1>2, <3>3
    <3> QED
      BY <1>1, <2>1, <3>1, <3>2, <3>4
  <2>4. CASE i.kind \notin {"push", "sp"}
    <3>1. x.sp = m.sp
      <4>1. i.kind \in (Defines \cup Writes) \ {"push"}
        BY <1>2, <2>4
      <4> QED
        BY <1>1, <4>1, ExecuteRest
    <3>2. SpChange(i) = 0
      BY <2>4 DEF SpChange
    <3> QED
      BY <1>1, <2>1, <3>1, <3>2
  <2> QED
    BY <2>2, <2>3, <2>4
<1> QED
  BY <1>1, <1>3, <1>4, <1>5, <1>6, <1>7 DEF Realized

(***************************************************************************)
(* Code on the machine, part by part.                                      *)
(***************************************************************************)
Executing(m, ps) == FoldLeft(Execute, m, ps)
Ran(m, ps, E) == Run(m, ps, Len(ps), E)

\* M is the machine after each part.
RanParts(m, ss, M) ==
  /\ M[0] = m
  /\ \A k \in 1 .. Len(ss) : M[k] = Executing(M[k - 1], ss[k])

LEMMA ExecutingRun ==
  ASSUME NEW T, NEW ps \in Seq(T), NEW m
  PROVE  \E E : Ran(m, ps, E) /\ Executing(m, ps) = E[Len(ps)]
BY Executed DEF Ran, Executing

(* There is one way to execute code.                                       *)
LEMMA RunUnique ==
  ASSUME NEW m, NEW s, NEW N \in Nat, NEW E, NEW F,
         Run(m, s, N, E), Run(m, s, N, F)
  PROVE  E[N] = F[N]
<1> DEFINE P == {k \in 0 .. N : E[k] = F[k]}
<1>1. 0 \in P
  BY DEF Run
<1>2. ASSUME NEW k \in 1 .. N, k - 1 \in P PROVE k \in P
  <2>1. E[k - 1] = F[k - 1]
    BY <1>2
  <2>2. E[k] = F[k]
    BY <2>1 DEF Run
  <2> QED
    BY <2>2
<1> HIDE DEF P
<1>3. 0 .. N \subseteq P
  BY <1>1, <1>2, UpToInduction
<1> QED
  BY <1>3 DEF P

LEMMA ExecutingNone ==
  ASSUME NEW m
  PROVE  Executing(m, <<>>) = m
<1>1. <<>> \in Seq({}) /\ Len(<<>>) = 0
  OBVIOUS
<1>2. PICK E : Ran(m, <<>>, E) /\ Executing(m, <<>>) = E[Len(<<>>)]
  BY <1>1, ExecutingRun
<1> QED
  BY <1>1, <1>2 DEF Ran, Run

LEMMA ExecutingBoth ==
  ASSUME NEW m, NEW T, NEW s \in Seq(T), NEW t \in Seq(T)
  PROVE  Executing(m, s \o t) = Executing(Executing(m, s), t)
<1> PICK u : u = s \o t
  OBVIOUS
<1> DEFINE N == Len(s)
           M == Len(t)
<1>1. /\ u \in Seq(T) /\ N \in Nat /\ M \in Nat /\ Len(u) = N + M
      /\ \A k \in 1 .. N : u[k] = s[k]
      /\ \A k \in 1 .. M : u[N + k] = t[k]
  <2>1. u \in Seq(T) /\ N \in Nat /\ M \in Nat /\ Len(u) = N + M
    BY ConcatProperties, LenProperties
  <2>2. \A k \in 1 .. N + M : u[k] = IF k <= N THEN s[k] ELSE t[k - N]
    BY <2>1, ConcatProperties
  <2>3. ASSUME NEW k \in 1 .. M PROVE u[N + k] = t[k]
    <3>1. N + k \in 1 .. N + M /\ ~(N + k <= N) /\ (N + k) - N = k
      BY <2>1
    <3> QED
      BY <2>2, <3>1
  <2>4. ASSUME NEW k \in 1 .. N PROVE u[k] = s[k]
    <3>1. k \in 1 .. N + M /\ k <= N
      BY <2>1
    <3> QED
      BY <2>2, <3>1
  <2> QED
    BY <2>1, <2>3, <2>4
<1>0. u \in Seq(T)
  BY <1>1
<1>2. PICK E : Ran(m, u, E) /\ Executing(m, u) = E[Len(u)]
  BY <1>0, ExecutingRun
<1>3. PICK F : Ran(m, s, F) /\ Executing(m, s) = F[N]
  BY ExecutingRun
<1> PICK n : n = Executing(m, s)
  OBVIOUS
<1>4. PICK G : Ran(n, t, G) /\ Executing(n, t) = G[M]
  BY ExecutingRun
<1> HIDE DEF N, M
<1>5. E[N] = F[N]
  <2>1. Len(s) = N /\ N \in Nat
    BY <1>1 DEF N
  <2>2. E[0] = m /\ F[0] = m
    BY <1>2, <1>3 DEF Ran, Run
  <2>3. \A k \in 1 .. N : F[k] = Execute(F[k - 1], s[k])
    BY <1>3, <2>1 DEF Ran, Run
  <2>4. \A k \in 1 .. N : E[k] = Execute(E[k - 1], s[k])
    <3> TAKE k \in 1 .. N
    <3>1. k \in 1 .. Len(u) /\ u[k] = s[k]
      BY <1>1
    <3> QED
      BY <1>2, <3>1 DEF Ran, Run
  <2>5. Run(m, s, N, E) /\ Run(m, s, N, F)
    BY <2>2, <2>3, <2>4 DEF Run
  <2> QED
    BY <2>1, <2>5, RunUnique
<1> DEFINE H == [k \in 0 .. M |-> E[N + k]]
<1>6. H[M] = G[M]
  <2>1. Len(t) = M /\ M \in Nat
    BY <1>1 DEF M
  <2>2. H[0] = n /\ G[0] = n
    <3>1. 0 \in 0 .. M /\ N + 0 = N
      BY <1>1
    <3> QED
      BY <1>3, <1>4, <1>5, <3>1 DEF Ran, Run
  <2>3. \A k \in 1 .. M : G[k] = Execute(G[k - 1], t[k])
    BY <1>4, <2>1 DEF Ran, Run
  <2>4. \A k \in 1 .. M : H[k] = Execute(H[k - 1], t[k])
    <3> TAKE k \in 1 .. M
    <3>1. N + k \in 1 .. Len(u) /\ u[N + k] = t[k] /\ (N + k) - 1 = N + (k - 1)
      BY <1>1
    <3>2. E[N + k] = Execute(E[(N + k) - 1], u[N + k])
      BY <1>2, <3>1 DEF Ran, Run
    <3>3. k \in 0 .. M /\ k - 1 \in 0 .. M
      BY <1>1
    <3> QED
      BY <3>1, <3>2, <3>3
  <2> HIDE DEF H
  <2>5. Run(n, t, M, H) /\ Run(n, t, M, G)
    BY <2>2, <2>3, <2>4 DEF Run
  <2> QED
    BY <2>1, <2>5, RunUnique
<1>7. H[M] = E[N + M]
  BY <1>1
<1> QED
  BY <1>1, <1>2, <1>4, <1>6, <1>7

(* The parts one after the other.                                          *)
LEMMA ExecutingParts ==
  ASSUME NEW m, NEW T, NEW ss \in Seq(Seq(T))
  PROVE  \E M : /\ RanParts(m, ss, M)
                /\ Executing(m, FlattenSeq(ss)) = M[Len(ss)]
<1> PICK N : N = Len(ss)
  OBVIOUS
<1>1. N \in Nat /\ \A k \in 1 .. N : ss[k] \in Seq(T)
  BY LenProperties
<1>2. PICK g : JoinedUp(ss, T, g)
  BY FlattenSteps
<1> DEFINE M == [k \in 0 .. N |-> Executing(m, g[k])]
<1>3. /\ g[0] = <<>> /\ FlattenSeq(ss) = g[N]
      /\ \A k \in 0 .. N : g[k] \in Seq(T)
      /\ \A k \in 1 .. N : g[k] = g[k - 1] \o ss[k]
  BY <1>2 DEF JoinedUp
<1>4. M[0] = m
  BY <1>1, <1>3, ExecutingNone
<1>5. ASSUME NEW k \in 1 .. N PROVE M[k] = Executing(M[k - 1], ss[k])
  <2>1. k \in 0 .. N /\ k - 1 \in 0 .. N
    BY <1>1
  <2>2. g[k - 1] \in Seq(T) /\ ss[k] \in Seq(T) /\ g[k] = g[k - 1] \o ss[k]
    BY <1>1, <1>3, <2>1
  <2>3. Executing(m, g[k]) = Executing(Executing(m, g[k - 1]), ss[k])
    BY <2>2, ExecutingBoth
  <2> QED
    BY <2>1, <2>3
<1>6. M[N] = Executing(m, FlattenSeq(ss))
  BY <1>1, <1>3
<1> HIDE DEF M
<1>7. RanParts(m, ss, M)
  BY <1>4, <1>5 DEF RanParts
<1> QED
  BY <1>6, <1>7

(***************************************************************************)
(* A path on the stack.                                                    *)
(***************************************************************************)
\* The code and its frame when it is emitted.
Emitted ==
  /\ CodeOK /\ InFrame
  /\ \A b \in DOMAIN blocks : Balanced(blocks[b].insts)
  /\ \A q \in Instructions(blocks) : Sound(At(blocks, q), objects, remat)
  /\ Range(source.arrays) \subseteq Range(objects)

Placewise(n, s) == After(source.arrays, color, n, s)

\* Between blocks sp is where the prologue left it.
Together(n, m) == Realized(n, m) /\ n.sp = 0

\* Where sp stands after each instruction.
Standings(s, r) ==
  /\ r[0] = 0
  /\ \A k \in 0 .. Len(s) : SpAfter(s, k) = r[k] /\ r[k] \in Int
  /\ \A k \in 1 .. Len(s) : r[k] = r[k - 1] + SpChange(s[k])

LEMMA SpStands ==
  ASSUME NEW n \in Nat, NEW s \in Seq(Insn(n))
  PROVE  \E r : Standings(s, r)
<1> PICK N : N = Len(s)
  OBVIOUS
<1>0. n \in Nat /\ s \in Seq(Insn(n))
  OBVIOUS
<1>1. PICK r : Sums(r, Changes(s), N)
  BY <1>0, SpSums, ZenonT(60)
<1>2. \A k \in 0 .. Len(s) : SpAfter(s, k) = r[k]
  BY <1>1, SpAfterSums
<1>3. r[0] = 0 /\ \A k \in 0 .. Len(s) : r[k] \in Int
  BY <1>1 DEF Sums
<1>4. \A k \in 1 .. Len(s) : r[k] = r[k - 1] + SpChange(s[k])
  BY <1>1 DEF Sums, Changes
<1>5. Standings(s, r)
  BY <1>2, <1>3, <1>4 DEF Standings
<1> QED
  BY <1>5

Sense(n, i) == Meaningful(source.arrays, n, i, color, Operands(n, i, color))

LEMMA ColoredFaultless ==
  ASSUME NEW n, NEW i, Fine(DoColored(n, i))
  PROVE  Fine(n) /\ Sense(n, i)
<1> PICK in : in = Operands(n, i, color)
  OBVIOUS
<1>1. DoColored(n, i).faults
        = n.faults \cup (IF Meaningful(source.arrays, n, i, color, in) THEN {} ELSE {i})
  BY DEF DoColored, Effect
<1>2. n.faults = {} /\ Meaningful(source.arrays, n, i, color, in)
  BY <1>1 DEF Fine
<1> QED
  BY <1>2 DEF Fine, Sense

(* A block leaves the machines together: where sp stands at an instruction *)
(* is what maintain_sp adds up before it.                                  *)
LEMMA BlockRealized ==
  ASSUME Emitted, NEW b \in DOMAIN blocks,
         NEW ps, ps = [k \in DOMAIN blocks[b].insts |-> <<b, k>>],
         NEW n, NEW m, Together(n, m), Fine(Placewise(n, blocks[b].insts))
  PROVE  Together(Placewise(n, blocks[b].insts), Executing(m, ps))
<1> PICK s \in Seq(Insn(MaxNode)) : s = blocks[b].insts
  BY CodeAt DEF Emitted
<1> PICK N \in Nat : N = Len(s)
  BY LenProperties
<1>1. DOMAIN s = 1 .. N /\ MaxNode \in Nat
  BY LenProperties, CodeAt DEF Emitted
<1>2. \A k \in 1 .. N : /\ ps[k] = <<b, k>> /\ ps[k] \in Instructions(blocks)
                        /\ At(blocks, ps[k]) = s[k] /\ SpOffset(ps[k]) = SpAfter(s, k)
  BY <1>1 DEF Instructions, At, SpOffset
<1>3. ps \in Seq(Instructions(blocks)) /\ Len(ps) = N
  <2>1. ps \in [1 .. N -> Instructions(blocks)]
    BY <1>1, <1>2
  <2> QED
    BY <2>1, CodeOf
<1>4. PICK E : Ran(m, ps, E) /\ Executing(m, ps) = E[Len(ps)]
  BY <1>3, ExecutingRun
<1>5. PICK F : Trace(source.arrays, color, n, s, F) /\ After(source.arrays, color, n, s) = F[Len(s)]
  BY AfterTrace
<1>6. s \in Seq(Insn(MaxNode))
  OBVIOUS
<1>7. PICK r : Standings(s, r)
  BY <1>1, <1>6, SpStands
<1>8. /\ r[0] = 0
      /\ \A k \in 0 .. N : SpAfter(s, k) = r[k] /\ r[k] \in Int
      /\ \A k \in 1 .. N : r[k] = r[k - 1] + SpChange(s[k])
  BY <1>7 DEF Standings
<1>9. /\ E[0] = m /\ F[0] = n
      /\ \A k \in 1 .. N : /\ E[k] = Execute(E[k - 1], ps[k])
                           /\ F[k] = DoColored(F[k - 1], s[k])
  BY <1>3, <1>4, <1>5 DEF Ran, Run, Trace, DoColored
<1> DEFINE P == {k \in 0 .. N : Fine(F[k]) => Realized(F[k], E[k]) /\ F[k].sp = r[k]}
<1>10. 0 \in P
  BY <1>8, <1>9 DEF Together
<1>11. ASSUME NEW k \in 1 .. N, k - 1 \in P PROVE k \in P
  <2> PICK x : x = E[k - 1]
    OBVIOUS
  <2> PICK y : y = F[k - 1]
    OBVIOUS
  <2> PICK p : p = ps[k]
    OBVIOUS
  <2> PICK i : i = At(blocks, p)
    OBVIOUS
  <2>1. k \in 0 .. N /\ k - 1 \in 0 .. N
    OBVIOUS
  <2>3. i = s[k]
    BY <1>2
  <2>4. E[k] = Execute(x, p) /\ F[k] = DoColored(y, i)
    BY <1>9, <2>3
  <2>2. ASSUME Fine(DoColored(y, i)) PROVE Realized(DoColored(y, i), Execute(x, p)) /\ DoColored(y, i).sp = r[k]
    <3>1. Fine(y) /\ Meaningful(source.arrays, y, i, color, Operands(y, i, color))
      BY <2>2, ColoredFaultless DEF Sense
    <3>2. Realized(y, x) /\ y.sp = r[k - 1]
      BY <1>11, <3>1
    <3>3. y.sp + SpChange(i) = r[k] /\ r[k] = SpOffset(p)
      BY <1>2, <1>8, <2>1, <2>3, <3>2
    <3>4. i \in Insn(MaxNode) /\ Sound(i, objects, remat)
      <4>1. s[k] \in Insn(MaxNode)
        BY <1>1, LenProperties
      <4> QED
        BY <1>2, <2>3, <4>1 DEF Emitted
    <3>5. Underway(p, y, x)
      BY <1>1, <3>1, <3>2, <3>3, <3>4 DEF Underway, Emitted
    <3>6. Realized(DoColored(y, At(blocks, p)), Execute(x, p))
      BY <3>5, StepRealized
    <3>7. DoColored(y, i).sp = y.sp + SpChange(i)
      <4>1. Affects(y, i, DoColored(y, i))
        BY ColoredAffects
      <4> PICK e : e = DoColored(y, i)
        OBVIOUS
      <4>2. Affects(y, i, e)
        BY <4>1
      <4> QED
        BY <4>2 DEF Affects
    <3> QED
      BY <3>3, <3>6, <3>7
  <2> QED
    BY <2>1, <2>2, <2>4
<1> HIDE DEF P
<1>12. 0 .. N \subseteq P
  BY <1>10, <1>11, UpToInduction
<1>13. Fine(F[N]) => Realized(F[N], E[N]) /\ F[N].sp = r[N]
  BY <1>12 DEF P
<1>14. r[N] = 0
  <2>1. SpAfter(s, Len(s)) = 0
    BY DEF Emitted, Balanced
  <2> QED
    BY <1>8, <2>1
<1>15. Placewise(n, s) = F[N] /\ Executing(m, ps) = E[N]
  BY <1>3, <1>4, <1>5 DEF Placewise
<1> QED
  BY <1>13, <1>14, <1>15 DEF Together

LEMMA PathRealized ==
  ASSUME Emitted, NEW path \in Seq(DOMAIN blocks), NEW n, NEW m, Together(n, m),
         Fine(Placewise(n, CodeAlong(blocks, path)))
  PROVE  Together(Placewise(n, CodeAlong(blocks, path)), Executing(m, Along(path)))
<1> PICK N \in Nat : N = Len(path)
  BY LenProperties
<1>1. DOMAIN path = 1 .. N /\ \A k \in 1 .. N : path[k] \in DOMAIN blocks
  BY LenProperties
<1> DEFINE T == Insn(MaxNode)
           ss == [k \in DOMAIN path |-> blocks[path[k]].insts]
           tt == [k \in DOMAIN path |-> [i \in DOMAIN blocks[path[k]].insts |-> <<path[k], i>>]]
<1>2. \A b \in DOMAIN blocks : blocks[b].insts \in Seq(T)
  BY CodeAt DEF Emitted
<1>3. ASSUME NEW k \in 1 .. N PROVE tt[k] \in Seq(Instructions(blocks))
  <2> PICK b \in DOMAIN blocks : b = path[k]
    BY <1>1
  <2> PICK s \in Seq(T) : s = blocks[b].insts
    BY <1>2
  <2> PICK l \in Nat : l = Len(s)
    BY LenProperties
  <2>1. DOMAIN s = 1 .. l
    BY LenProperties
  <2>2. tt[k] = [i \in 1 .. l |-> <<b, i>>]
    BY <1>1, <2>1
  <2>3. \A i \in 1 .. l : <<b, i>> \in Instructions(blocks)
    BY <2>1 DEF Instructions
  <2> HIDE DEF tt
  <2>4. tt[k] \in [1 .. l -> Instructions(blocks)]
    BY <2>2, <2>3
  <2> QED
    BY <2>4, CodeOf
<1>4. /\ ss \in [1 .. N -> Seq(T)] /\ tt \in [1 .. N -> Seq(Instructions(blocks))]
      /\ \A k \in 1 .. N : /\ ss[k] = blocks[path[k]].insts
                           /\ tt[k] = [i \in DOMAIN blocks[path[k]].insts |-> <<path[k], i>>]
  BY <1>1, <1>2, <1>3
<1>5. CodeAlong(blocks, path) = FlattenSeq(ss) /\ Along(path) = FlattenSeq(tt)
  BY DEF CodeAlong, Along
<1> HIDE DEF ss, tt, T
<1>6. /\ ss \in Seq(Seq(T)) /\ tt \in Seq(Seq(Instructions(blocks)))
      /\ Len(ss) = N /\ Len(tt) = N
  BY <1>4, CodeOf
<1>a. ss \in Seq(Seq(T))
  BY <1>6
<1>7. PICK F : /\ ByParts(source.arrays, color, n, ss, F)
               /\ After(source.arrays, color, n, FlattenSeq(ss)) = F[Len(ss)]
  BY <1>a, AfterParts
<1>8. PICK E : RanParts(m, tt, E) /\ Executing(m, FlattenSeq(tt)) = E[Len(tt)]
  BY <1>6, ExecutingParts
<1>9. /\ E[0] = m /\ F[0] = n
      /\ \A k \in 1 .. N : /\ E[k] = Executing(E[k - 1], tt[k])
                           /\ F[k] = Placewise(F[k - 1], ss[k])
  BY <1>6, <1>7, <1>8 DEF ByParts, RanParts, Placewise
<1> DEFINE P == {k \in 0 .. N : Fine(F[k]) => Together(F[k], E[k])}
<1>10. 0 \in P
  BY <1>9
<1>11. ASSUME NEW k \in 1 .. N, k - 1 \in P PROVE k \in P
  <2> PICK x : x = E[k - 1]
    OBVIOUS
  <2> PICK y : y = F[k - 1]
    OBVIOUS
  <2> PICK b \in DOMAIN blocks : b = path[k]
    BY <1>1
  <2> PICK ps : ps = [i \in DOMAIN blocks[b].insts |-> <<b, i>>]
    OBVIOUS
  <2> PICK s \in Seq(T) : s = blocks[b].insts
    BY <1>2
  <2>3. k \in 0 .. N /\ tt[k] = ps /\ ss[k] = blocks[b].insts
    BY <1>4
  <2>1. E[k] = Executing(x, ps) /\ F[k] = Placewise(y, blocks[b].insts)
    BY <1>9, <2>3
  <2>2. ASSUME Fine(F[k]) PROVE Together(F[k], E[k])
    <3>1. Fine(y)
      BY <2>1, <2>2, FaultlessAfter DEF Placewise
    <3>2. Together(y, x)
      BY <1>11, <3>1
    <3>3. Fine(Placewise(y, blocks[b].insts))
      BY <2>1, <2>2
    <3>4. Together(Placewise(y, blocks[b].insts), Executing(x, ps))
      BY <3>2, <3>3, BlockRealized
    <3> QED
      BY <2>1, <3>4
  <2> QED
    BY <2>2, <2>3
<1> HIDE DEF P
<1>12. 0 .. N \subseteq P
  BY <1>10, <1>11, UpToInduction
<1>13. Fine(F[N]) => Together(F[N], E[N])
  BY <1>12 DEF P
<1>14. /\ Placewise(n, CodeAlong(blocks, path)) = F[N]
       /\ Executing(m, Along(path)) = E[N]
  BY <1>5, <1>6, <1>7, <1>8 DEF Placewise
<1> QED
  BY <1>13, <1>14

(***************************************************************************)
(* From the entry to the return.                                           *)
(***************************************************************************)
LEMMA SavedPlace ==
  ASSUME NEW l \in Nat, NEW k \in 1 .. l, NEW a \in Int, a = 0 - l + k - 1
  PROVE  a >= 0 - l /\ a <= 0 - 1 /\ a - (0 - l) + 1 = k
OBVIOUS

(* What the prologue leaves: the saved registers in their words, and the   *)
(* memory of the caller.                                                   *)
LEMMA PrologueParts ==
  ASSUME InFrame, NEW m, m = Prologue(AtEntry)
  PROVE  /\ DOMAIN m = {"val", "mem", "sp", "pushed", "aligned", "seen"}
         /\ m.sp = Base /\ m.val = AtEntry.val /\ m.pushed = 0 /\ m.seen = <<>>
         /\ DOMAIN m.mem = (Base + frame.size .. 0 - 1) \cup (0 .. MaxNode)
         /\ \A k \in 1 .. Len(frame.saved) :
              m.mem[Base + frame.size + k - 1] = AtEntry.val[frame.saved[k]]
         /\ \A a \in 0 .. MaxNode : m.mem[a] = AtEntry.mem[a]
<1> PICK z \in Nat : z = frame.size
  BY DEF InFrame
<1> PICK l \in Nat : l = Len(frame.saved)
  BY DEF InFrame
<1> PICK b \in Int : b = Base
  BY DEF InFrame
<1> PICK e : e = AtEntry
  OBVIOUS
<1>1. /\ DOMAIN e = {"val", "mem", "sp", "pushed", "aligned", "seen"}
      /\ e.sp = 0 /\ e.pushed = 0 /\ e.seen = <<>> /\ DOMAIN e.mem = 0 .. MaxNode
  BY DEF AtEntry
<1>2. b + z + l = 0 /\ 0 - l - z = b /\ b + z = 0 - l
  <2>1. b + z + l = 0
    BY DEF InFrame
  <2>2. \A x \in Int, u, v \in Nat : x + u + v = 0 => 0 - v - u = x /\ x + u = 0 - v
    OBVIOUS
  <2> QED
    BY <2>1, <2>2
<1> DEFINE w == [a \in 0 - l .. 0 - 1 |-> e.val[frame.saved[a - (0 - l) + 1]]]
<1>3. /\ DOMAIN m = DOMAIN e /\ m.sp = 0 - l - z /\ m.val = e.val /\ m.pushed = 0 /\ m.seen = <<>>
      /\ m.mem = Over(w, e.mem)
  BY <1>1 DEF Prologue
<1>4. \A k \in 1 .. l : /\ b + z + k - 1 \in DOMAIN w
                        /\ w[b + z + k - 1] = e.val[frame.saved[k]]
  <2> TAKE k \in 1 .. l
  <2> PICK a \in Int : a = b + z + k - 1
    OBVIOUS
  <2>1. a = 0 - l + k - 1
    BY <1>2
  <2>2. a \in 0 - l .. 0 - 1 /\ a - (0 - l) + 1 = k
    <3>1. a >= 0 - l /\ a <= 0 - 1 /\ a - (0 - l) + 1 = k
      BY <2>1, SavedPlace
    <3> QED
      BY <3>1
  <2> QED
    BY <2>2
<1>5. DOMAIN w = b + z .. 0 - 1
  BY <1>2
<1>6. \A a \in 0 .. MaxNode : a \notin DOMAIN w
  OBVIOUS
<1> HIDE DEF w
<1> PICK mem : mem = e.mem
  OBVIOUS
<1>7. /\ DOMAIN Over(w, mem) = DOMAIN w \cup DOMAIN mem
      /\ \A a \in DOMAIN w : Over(w, mem)[a] = w[a]
      /\ \A a \in DOMAIN mem : a \notin DOMAIN w => Over(w, mem)[a] = mem[a]
  BY DEF Over
<1>8. DOMAIN m.mem = (b + z .. 0 - 1) \cup (0 .. MaxNode)
  BY <1>1, <1>3, <1>5, <1>7
<1>9. \A k \in 1 .. l : m.mem[b + z + k - 1] = e.val[frame.saved[k]]
  BY <1>3, <1>4, <1>7
<1>10. \A a \in 0 .. MaxNode : m.mem[a] = e.mem[a]
  BY <1>1, <1>3, <1>6, <1>7
<1> QED
  BY <1>1, <1>2, <1>3, <1>8, <1>9, <1>10

LEMMA StartRealized ==
  ASSUME InFrame
  PROVE  Together(AtStart, Prologue(AtEntry))
<1> PICK m : m = Prologue(AtEntry)
  OBVIOUS
<1> PICK z \in Nat : z = frame.size
  BY DEF InFrame
<1> PICK b \in Int : b = Base
  BY DEF InFrame
<1>1. /\ DOMAIN m = {"val", "mem", "sp", "pushed", "aligned", "seen"}
      /\ m.sp = Base /\ m.val = AtEntry.val /\ m.pushed = 0 /\ m.seen = <<>>
      /\ DOMAIN m.mem = (b + z .. 0 - 1) \cup (0 .. MaxNode)
  BY PrologueParts
<1>2. AtStart.sp = 0 /\ AtStart.seen = <<>> /\ AtStart.pushed = <<>> /\ DOMAIN AtStart.slot = {}
  BY DEF AtStart
<1>3. RegsReal(AtStart.val, m.val)
  <2> SUFFICES ASSUME NEW x \in DOMAIN AtStart.val
               PROVE  x \in DOMAIN m.val /\ m.val[x] = Real(AtStart.val[x])
    BY DEF RegsReal
  <2>1. x \in Machine /\ AtStart.val[x] = Num(-1 - x)
    BY DEF AtStart
  <2>2. x \in DOMAIN m.val /\ m.val[x] = -1 - x
    BY <1>1, <2>1 DEF AtEntry
  <2>3. Real(Num(-1 - x)) = -1 - x
    BY DEF Real, Num
  <2> QED
    BY <2>1, <2>2, <2>3
<1>4. Preserved(m.val)
  <2>1. CalleeSave \subseteq Machine
    BY Registers
  <2>2. DOMAIN AtEntry.val = Machine
    BY DEF AtEntry
  <2> QED
    BY <1>1, <2>1, <2>2 DEF Preserved
<1>5. SlotsReal(AtStart.slot, m.mem)
  BY <1>2 DEF SlotsReal
<1>6. Spared(m.mem)
  <2>1. \A a \in b + z .. MaxNode : a \in (b + z .. 0 - 1) \cup (0 .. MaxNode)
    OBVIOUS
  <2> QED
    BY <1>1, <2>1 DEF Spared
<1>7. Waiting(0, <<>>, m.mem, 0)
  <2>1. <<>> = [k \in 1 .. 0 |-> m.mem[Base + 0 + k - 1]]
    OBVIOUS
  <2>2. 0 \in Nat /\ 0 \in Int /\ 0 + 0 <= 0 /\ 1 .. 0 = {}
    OBVIOUS
  <2> QED
    BY <2>1, <2>2 DEF Waiting
<1>8. m.sp = Base + 0
  BY <1>1
<1>9. StackReal(AtStart.slot, AtStart.sp, AtStart.pushed, m.mem, m.pushed)
  BY <1>1, <1>2, <1>5, <1>6, <1>7 DEF StackReal
<1>10. Realized(AtStart, m)
  BY <1>1, <1>2, <1>3, <1>4, <1>8, <1>9 DEF Realized
<1> QED
  BY <1>2, <1>10 DEF Together

(* The epilogue gives back what the prologue saved.                        *)
LEMMA EpilogueReturns ==
  ASSUME InFrame, MaxNode \in Nat, NEW n, NEW m, Together(n, m), NEW e, e = Epilogue(m)
  PROVE  /\ e.seen = n.seen
         /\ \A r \in CalleeSave : e.val[r] = AtEntry.val[r]
         /\ \A a \in 0 .. MaxNode : Word(e, a) = AtEntry.mem[a]
<1> PICK q : q = Prologue(AtEntry)
  OBVIOUS
<1> PICK z \in Nat : z = frame.size
  BY DEF InFrame
<1> PICK l \in Nat : l = Len(frame.saved)
  BY DEF InFrame
<1> PICK b \in Int : b = Base
  BY DEF InFrame
<1>1. /\ DOMAIN m = {"val", "mem", "sp", "pushed", "aligned", "seen"}
      /\ m.sp = b /\ m.seen = n.seen /\ Preserved(m.val)
      /\ \A a \in b + z .. MaxNode : a \in DOMAIN m.mem /\ m.mem[a] = q.mem[a]
  <2>1. Realized(n, m) /\ n.sp = 0
    BY DEF Together
  <2>2. m.sp = Base + 0
    BY <2>1 DEF Realized
  <2> QED
    BY <2>1, <2>2 DEF Realized, StackReal, Spared
<1>2. /\ \A k \in 1 .. l : q.mem[b + z + k - 1] = AtEntry.val[frame.saved[k]]
      /\ \A a \in 0 .. MaxNode : q.mem[a] = AtEntry.mem[a]
  BY PrologueParts
<1>3. b + z + l = 0 /\ b + z = 0 - l
  <2>1. b + z + l = 0
    BY DEF InFrame
  <2>2. \A x \in Int, u, v \in Nat : x + u + v = 0 => x + u = 0 - v
    OBVIOUS
  <2> QED
    BY <2>1, <2>2
<1> DEFINE Back(k) == Word(m, b + z + k - 1)
           Which(r) == CHOOSE k \in DOMAIN frame.saved : frame.saved[k] = r
           back == [r \in Range(frame.saved) |-> Back(Which(r))]
<1>4. /\ e.val = Over(back, m.val) /\ e.mem = m.mem /\ e.seen = m.seen
  <2>1. m.sp + frame.size = b + z
    BY <1>1
  <2> QED
    BY <1>1, <2>1 DEF Epilogue
<1>5. ASSUME NEW r \in Range(frame.saved) PROVE back[r] = AtEntry.val[r]
  <2> PICK k : k = Which(r)
    OBVIOUS
  <2>1. k \in 1 .. l /\ frame.saved[k] = r
    <3>1. \E j \in DOMAIN frame.saved : frame.saved[j] = r
      BY DEF Range
    <3>2. DOMAIN frame.saved = 1 .. l
      BY DEF InFrame
    <3> QED
      BY <3>1, <3>2
  <2> HIDE DEF Which
  <2> PICK a \in Int : a = b + z + k - 1
    BY <2>1
  <2>2. a \in b + z .. MaxNode
    <3>1. b + z = 0 - l
      BY <1>3
    <3>2. a = 0 - l + k - 1
      BY <3>1
    <3>3. a >= 0 - l /\ a <= 0 - 1
      BY <2>1, <3>2, SavedPlace
    <3> QED
      BY <3>1, <3>3
  <2>3. a \in DOMAIN m.mem /\ m.mem[a] = AtEntry.val[r]
    BY <1>1, <1>2, <2>1, <2>2
  <2>4. Back(k) = AtEntry.val[r]
    BY <2>3 DEF Word
  <2> QED
    BY <2>4
<1>6. DOMAIN back = Range(frame.saved)
  OBVIOUS
<1> HIDE DEF back
<1> PICK val : val = m.val
  OBVIOUS
<1>7. /\ \A r \in DOMAIN back : Over(back, val)[r] = back[r]
      /\ \A r \in DOMAIN val : r \notin DOMAIN back => Over(back, val)[r] = val[r]
  BY DEF Over
<1>8. ASSUME NEW r \in CalleeSave PROVE e.val[r] = AtEntry.val[r]
  <2>1. CASE r \in Range(frame.saved)
    BY <1>4, <1>5, <1>6, <1>7, <2>1
  <2>2. CASE r \notin Range(frame.saved)
    <3>1. r \in DOMAIN m.val /\ m.val[r] = AtEntry.val[r]
      BY <1>1, <2>2 DEF Preserved
    <3> QED
      BY <1>4, <1>6, <1>7, <2>2, <3>1
  <2> QED
    BY <2>1, <2>2
<1>9. ASSUME NEW a \in 0 .. MaxNode PROVE Word(e, a) = AtEntry.mem[a]
  <2>1. a \in b + z .. MaxNode
    BY <1>3
  <2>2. a \in DOMAIN m.mem /\ m.mem[a] = AtEntry.mem[a]
    BY <1>1, <1>2, <2>1
  <2> QED
    BY <1>4, <2>2 DEF Word
<1> QED
  BY <1>1, <1>4, <1>8, <1>9

LEMMA EmittedStands ==
  ASSUME FrameInv, StackInv, RunInv, WordsApart, pc = "framed"
  PROVE  Emitted
<1>1. InFrame
  BY FrameStands
<1> QED
  BY <1>1 DEF Emitted, FrameInv, StackInv, RunInv

LEMMA ReturnsWell ==
  ASSUME FrameInv, StackInv, RunInv, WordsApart, ColorsRun, pc = "framed", NEW path \in source.paths
  PROVE  /\ AtReturn(path).seen = Behaviour(source.blocks, Identity, path)
         /\ \A r \in CalleeSave : AtReturn(path).val[r] = AtEntry.val[r]
         /\ \A a \in 0 .. MaxNode : Word(AtReturn(path), a) = AtEntry.mem[a]
<1>1. Emitted
  BY EmittedStands
<1>2. InFrame /\ MaxNode \in Nat
  BY <1>1, CodeAt DEF Emitted
<1>3. path \in Seq(DOMAIN blocks)
  BY StackAssumption DEF StackInv
<1> PICK m : m = Prologue(AtEntry)
  OBVIOUS
<1> PICK n : n = Placewise(AtStart, CodeAlong(blocks, path))
  OBVIOUS
<1>4. Fine(n) /\ n.seen = Behaviour(source.blocks, Identity, path)
  <2>1. n = Outcome(source.arrays, blocks, color, path)
    BY DEF Placewise, Outcome
  <2> QED
    BY <2>1 DEF ColorsRun, Fine
<1>5. Together(AtStart, m)
  BY <1>2, StartRealized
<1> PICK x : x = Executing(m, Along(path))
  OBVIOUS
<1>6. Together(n, x)
  BY <1>1, <1>3, <1>4, <1>5, PathRealized
<1> PICK e : e = Epilogue(x)
  OBVIOUS
<1>7. AtReturn(path) = e
  BY DEF AtReturn, Along, Executing
<1>8. /\ e.seen = n.seen
      /\ \A r \in CalleeSave : e.val[r] = AtEntry.val[r]
      /\ \A a \in 0 .. MaxNode : Word(e, a) = AtEntry.mem[a]
  BY <1>2, <1>6, EpilogueReturns
<1> QED
  BY <1>4, <1>7, <1>8

LEMMA BehavesOnStack ==
  FrameInv /\ StackInv /\ RunInv /\ WordsApart /\ ColorsRun => FrameBehaviour
BY ReturnsWell DEF FrameBehaviour

(* On every path the emitted code hands every operation and call, on a     *)
(* real stack, the operands the source does: the layout, maintain_sp, the  *)
(* slots and the parameters fit (Func::allocate_register, handle_params).  *)
THEOREM FrameBehaviourCorrect == FrameSpec => []FrameBehaviour
BY BehavesOnStack, FrameInvCorrect, StackInvCorrect, RunInvCorrect, WordsApartCorrect,
   ColorsRunCorrect, PTL

LEMMA CallerGetsBack ==
  FrameInv /\ StackInv /\ RunInv /\ WordsApart /\ ColorsRun => CallerUnharmed
<1> SUFFICES ASSUME FrameInv, StackInv, RunInv, WordsApart, ColorsRun, pc = "framed",
                    NEW path \in source.paths, NEW m, m = AtReturn(path)
             PROVE  /\ m.sp = 0
                    /\ \A r \in CalleeSave : m.val[r] = AtEntry.val[r]
                    /\ \A a \in DOMAIN AtEntry.mem : Word(m, a) = AtEntry.mem[a]
  BY DEF CallerUnharmed
<1>1. m.sp = 0
  BY ReturnGood
<1>2. DOMAIN AtEntry.mem = 0 .. MaxNode
  BY DEF AtEntry
<1> QED
  BY <1>1, <1>2, ReturnsWell

(* The caller gets back its stack pointer, its callee-saved registers and  *)
(* its memory: no slot, array word, push or saved register lies in the     *)
(* place of another (the layout, the prologue and the epilogue).           *)
THEOREM CallerUnharmedCorrect == FrameSpec => []CallerUnharmed
BY CallerGetsBack, FrameInvCorrect, StackInvCorrect, RunInvCorrect, WordsApartCorrect,
   ColorsRunCorrect, PTL
===============================================================================
