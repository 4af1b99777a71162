----------------------------- MODULE MeaningProofs -----------------------------
(***************************************************************************)
(* What reg_allocate does to the meaning of a function: nothing.  A run of *)
(* the code after a round is related, instruction by instruction, to a run *)
(* of the code before it.                                                  *)
(***************************************************************************)
EXTENDS FrameProofs

-------------------------------------------------------------------------------
(***************************************************************************)
(* Running instructions one after the other, from machine m on.            *)
(***************************************************************************)
Runs(arrays, reg, m, s, D, g) ==
  g = [t \in D |-> IF t = {} THEN m ELSE Effect(arrays, g[t \ {Max(t)}], s[Max(t)], reg)]

LEMMA RunExists ==
  ASSUME NEW arrays, NEW reg, NEW m, NEW s, NEW N \in Nat
  PROVE  \E g : Runs(arrays, reg, m, s, SUBSET (1 .. N), g)
<1> PICK S : S = 1 .. N
  OBVIOUS
<1>1. IsFiniteSet(S) /\ \A t \in SUBSET S : t # {} => Max(t) \in t
  BY MaxOf
<1>2. \A t \in SUBSET S : IsFiniteSet(t) /\ Cardinality(t) \in Nat /\ (Cardinality(t) = 0 <=> t = {})
  BY <1>1, FS_Subset, FS_CardinalityType, FS_EmptySet
<1>3. \A t \in SUBSET S : t # {} => /\ t \ {Max(t)} \in SUBSET S
                                    /\ Cardinality(t \ {Max(t)}) = Cardinality(t) - 1
  <2> TAKE t \in SUBSET S
  <2> PICK x : x = Max(t)
    OBVIOUS
  <2> HAVE t # {}
  <2>1. x \in t /\ IsFiniteSet(t)
    BY <1>1, <1>2
  <2>2. Cardinality(t \ {x}) = Cardinality(t) - 1
    BY <2>1, FS_RemoveElement
  <2> QED
    BY <2>2
<1>4. \A t \in SUBSET S : Cardinality(t) <= N
  <2>1. Cardinality(1 .. N) = N
    <3> PICK a \in Int : a = 1
      OBVIOUS
    <3> PICK b \in Int : b = N
      OBVIOUS
    <3>1. Cardinality(a .. b) = IF a > b THEN 0 ELSE b - a + 1
      BY FS_Interval
    <3> QED
      BY <3>1
  <2>2. \A t \in SUBSET S : Cardinality(t) <= Cardinality(S)
    BY <1>1, FS_Subset
  <2> PICK c : c = Cardinality(S)
    OBVIOUS
  <2> QED
    BY <2>1, <2>2
<1> DEFINE P == {n \in 0 .. N : \E g : Runs(arrays, reg, m, s, UpTo(S, n), g)}
<1>5. 0 \in P
  <2> DEFINE g == [t \in UpTo(S, 0) |-> m]
  <2>1. \A t \in UpTo(S, 0) : t = {}
    BY <1>2 DEF UpTo
  <2>2. g = [t \in UpTo(S, 0) |-> IF t = {} THEN m ELSE Effect(arrays, g[t \ {Max(t)}], s[Max(t)], reg)]
    BY <2>1
  <2>3. Runs(arrays, reg, m, s, UpTo(S, 0), g)
    BY <2>2 DEF Runs
  <2> QED
    BY <2>3
<1>6. ASSUME NEW n \in 1 .. N, n - 1 \in P PROVE n \in P
  <2>1. PICK g : Runs(arrays, reg, m, s, UpTo(S, n - 1), g)
    BY <1>6
  <2>2. UpTo(S, n - 1) \subseteq UpTo(S, n)
    BY <1>2 DEF UpTo
  <2>3. ASSUME NEW t \in UpTo(S, n), t # {} PROVE t \ {Max(t)} \in UpTo(S, n - 1)
    <3>1. t \in SUBSET S /\ Cardinality(t) \in Nat /\ Cardinality(t) <= n
      BY <1>2 DEF UpTo
    <3> PICK u : u = t \ {Max(t)}
      OBVIOUS
    <3>2. u \in SUBSET S /\ Cardinality(u) = Cardinality(t) - 1
      BY <1>3, <2>3, <3>1
    <3>3. Cardinality(u) <= n - 1
      BY <3>1, <3>2
    <3> QED
      BY <3>2, <3>3 DEF UpTo
  <2> DEFINE h == [t \in UpTo(S, n) |->
                     IF t = {} THEN m ELSE Effect(arrays, g[t \ {Max(t)}], s[Max(t)], reg)]
  <2>4. \A t \in UpTo(S, n - 1) :
          g[t] = IF t = {} THEN m ELSE Effect(arrays, g[t \ {Max(t)}], s[Max(t)], reg)
    BY <2>1 DEF Runs
  <2>5. \A t \in UpTo(S, n - 1) : h[t] = g[t]
    BY <2>2, <2>4
  <2>6. \A t \in UpTo(S, n) : t # {} => h[t \ {Max(t)}] = g[t \ {Max(t)}]
    BY <2>3, <2>5
  <2>7. h = [t \in UpTo(S, n) |-> IF t = {} THEN m ELSE Effect(arrays, h[t \ {Max(t)}], s[Max(t)], reg)]
    BY <2>6
  <2> HIDE DEF h
  <2>8. Runs(arrays, reg, m, s, UpTo(S, n), h)
    BY <2>7 DEF Runs
  <2> QED
    BY <2>8
<1> HIDE DEF P
<1>7. 0 .. N \subseteq P
  BY <1>5, <1>6, UpToInduction
<1>8. PICK g : Runs(arrays, reg, m, s, UpTo(S, N), g)
  BY <1>7 DEF P
<1>9. UpTo(S, N) = SUBSET S
  BY <1>4 DEF UpTo
<1> QED
  BY <1>8, <1>9

\* E is the machine after each instruction.
Trace(arrays, reg, m, s, E) ==
  /\ E[0] = m
  /\ \A k \in 1 .. Len(s) : E[k] = Effect(arrays, E[k - 1], s[k], reg)

(* A run goes from machine to machine.                                     *)
LEMMA AfterTrace ==
  ASSUME NEW arrays, NEW reg, NEW T, NEW s \in Seq(T), NEW m
  PROVE  \E E : Trace(arrays, reg, m, s, E) /\ After(arrays, reg, m, s) = E[Len(s)]
<1> PICK N : N = Len(s)
  OBVIOUS
<1>1. N \in Nat /\ DOMAIN s = 1 .. N
  BY LenProperties
<1> DEFINE F == CHOOSE g : g = [t \in SUBSET (1 .. N) |->
                  IF t = {} THEN m ELSE Effect(arrays, g[t \ {Max(t)}], s[Max(t)], reg)]
<1>2. After(arrays, reg, m, s) = F[1 .. N]
  BY <1>1 DEF After, FoldLeft, MapThenFoldSet
<1>3. PICK g : Runs(arrays, reg, m, s, SUBSET (1 .. N), g)
  BY <1>1, RunExists
<1>4. g = [t \in SUBSET (1 .. N) |-> IF t = {} THEN m ELSE Effect(arrays, g[t \ {Max(t)}], s[Max(t)], reg)]
  BY <1>3 DEF Runs
<1>5. F = [t \in SUBSET (1 .. N) |-> IF t = {} THEN m ELSE Effect(arrays, F[t \ {Max(t)}], s[Max(t)], reg)]
  BY <1>4
<1> HIDE DEF F
<1> DEFINE E == [k \in 0 .. N |-> F[1 .. k]]
<1>6. ASSUME NEW k \in 1 .. N PROVE F[1 .. k] = Effect(arrays, F[1 .. k - 1], s[k], reg)
  <2>1. (1 .. k) \in SUBSET (1 .. N) /\ 1 .. k # {} /\ (1 .. k) \ {k} = 1 .. k - 1
    <3>1. N \in Nat /\ k \in Nat /\ k >= 1 /\ k <= N
      BY <1>1
    <3>2. \A x \in 1 .. k : x \in 1 .. N
      BY <3>1
    <3>3. \A x : x \in (1 .. k) \ {k} <=> x \in 1 .. k - 1
      BY <3>1
    <3>4. k \in 1 .. k
      BY <3>1
    <3> QED
      BY <3>2, <3>3, <3>4
  <2>2. Max(1 .. k) = k
    BY <1>1, MaxOf
  <2>3. F[1 .. k] = Effect(arrays, F[(1 .. k) \ {Max(1 .. k)}], s[Max(1 .. k)], reg)
    BY <1>5, <2>1
  <2> QED
    BY <2>1, <2>2, <2>3
<1>7. F[1 .. 0] = m
  <2>1. 1 .. 0 = {} /\ {} \in SUBSET (1 .. N)
    BY <1>1
  <2> QED
    BY <1>5, <2>1
<1>8. \A k \in 0 .. N : E[k] = F[1 .. k]
  OBVIOUS
<1>9. \A k \in 1 .. N : k \in 0 .. N /\ k - 1 \in 0 .. N
  BY <1>1
<1>10. 0 \in 0 .. N /\ N \in 0 .. N
  BY <1>1
<1> HIDE DEF E
<1>11. Trace(arrays, reg, m, s, E)
  BY <1>6, <1>7, <1>8, <1>9, <1>10 DEF Trace
<1> QED
  BY <1>2, <1>8, <1>10, <1>11

\* The first N steps of a run.
Begins(arrays, reg, m, s, N, E) ==
  /\ E[0] = m
  /\ \A k \in 1 .. N : E[k] = Effect(arrays, E[k - 1], s[k], reg)

(* There is one way to run code.                                           *)
LEMMA TraceUnique ==
  ASSUME NEW arrays, NEW reg, NEW m, NEW s, NEW N \in Nat, NEW E, NEW F,
         Begins(arrays, reg, m, s, N, E), Begins(arrays, reg, m, s, N, F)
  PROVE  E[N] = F[N]
<1> DEFINE P == {k \in 0 .. N : E[k] = F[k]}
<1>1. 0 \in P
  BY DEF Begins
<1>2. ASSUME NEW k \in 1 .. N, k - 1 \in P PROVE k \in P
  <2>1. E[k - 1] = F[k - 1]
    BY <1>2
  <2>2. E[k] = F[k]
    BY <2>1 DEF Begins
  <2> QED
    BY <2>2
<1> HIDE DEF P
<1>3. 0 .. N \subseteq P
  BY <1>1, <1>2, UpToInduction
<1> QED
  BY <1>3 DEF P

LEMMA AfterNone ==
  ASSUME NEW arrays, NEW reg, NEW m
  PROVE  After(arrays, reg, m, <<>>) = m
<1>1. <<>> \in Seq({}) /\ Len(<<>>) = 0
  OBVIOUS
<1>2. PICK E : Trace(arrays, reg, m, <<>>, E) /\ After(arrays, reg, m, <<>>) = E[Len(<<>>)]
  BY <1>1, AfterTrace
<1> QED
  BY <1>1, <1>2 DEF Trace

LEMMA AfterOne ==
  ASSUME NEW arrays, NEW reg, NEW m, NEW i
  PROVE  After(arrays, reg, m, <<i>>) = Effect(arrays, m, i, reg)
<1> PICK s : s = <<i>>
  OBVIOUS
<1>1. s \in Seq({i}) /\ Len(s) = 1 /\ s[1] = i
  OBVIOUS
<1>2. PICK E : Trace(arrays, reg, m, s, E) /\ After(arrays, reg, m, s) = E[Len(s)]
  BY <1>1, AfterTrace
<1>3. 1 \in 1 .. Len(s) /\ 1 - 1 = 0
  BY <1>1
<1>4. E[1] = Effect(arrays, E[1 - 1], s[1], reg) /\ E[0] = m
  BY <1>2, <1>3 DEF Trace
<1> QED
  BY <1>1, <1>2, <1>3, <1>4

(* Code is run part by part.                                               *)
LEMMA AfterBoth ==
  ASSUME NEW arrays, NEW reg, NEW m, NEW T, NEW s \in Seq(T), NEW t \in Seq(T)
  PROVE  After(arrays, reg, m, s \o t) = After(arrays, reg, After(arrays, reg, m, s), t)
<1> PICK u : u = s \o t
  OBVIOUS
<1> DEFINE N == Len(s)
           M == Len(t)
<1>1. /\ u \in Seq(T) /\ N \in Nat /\ M \in Nat /\ Len(u) = N + M
      /\ \A k \in 1 .. N : u[k] = s[k]
      /\ \A k \in 1 .. M : u[N + k] = t[k]
  <2>1. u \in Seq(T) /\ N \in Nat /\ M \in Nat /\ Len(u) = N + M
    BY ConcatProperties, LenProperties
  <2>2. \A k \in 1 .. N + M : u[k] = IF k <= N THEN s[k] ELSE t[k - N]
    BY <2>1, ConcatProperties
  <2>3. ASSUME NEW k \in 1 .. M PROVE u[N + k] = t[k]
    <3>1. N + k \in 1 .. N + M /\ ~(N + k <= N) /\ (N + k) - N = k
      BY <2>1
    <3> QED
      BY <2>2, <3>1
  <2>4. ASSUME NEW k \in 1 .. N PROVE u[k] = s[k]
    <3>1. k \in 1 .. N + M /\ k <= N
      BY <2>1
    <3> QED
      BY <2>2, <3>1
  <2> QED
    BY <2>1, <2>3, <2>4
<1>0. u \in Seq(T)
  BY <1>1
<1>2. PICK E : Trace(arrays, reg, m, u, E) /\ After(arrays, reg, m, u) = E[Len(u)]
  BY <1>0, AfterTrace
<1>3. PICK F : Trace(arrays, reg, m, s, F) /\ After(arrays, reg, m, s) = F[N]
  BY AfterTrace
<1> PICK n : n = After(arrays, reg, m, s)
  OBVIOUS
<1>4. PICK G : Trace(arrays, reg, n, t, G) /\ After(arrays, reg, n, t) = G[M]
  BY AfterTrace
<1> HIDE DEF N, M
<1>5. E[N] = F[N]
  <2>1. Len(s) = N /\ N \in Nat
    BY <1>1 DEF N
  <2>2. E[0] = m /\ F[0] = m
    BY <1>2, <1>3 DEF Trace
  <2>3. \A k \in 1 .. N : F[k] = Effect(arrays, F[k - 1], s[k], reg)
    BY <1>3, <2>1 DEF Trace
  <2>4. \A k \in 1 .. N : E[k] = Effect(arrays, E[k - 1], s[k], reg)
    <3> TAKE k \in 1 .. N
    <3>1. k \in 1 .. Len(u) /\ u[k] = s[k]
      BY <1>1
    <3> QED
      BY <1>2, <3>1 DEF Trace
  <2>5. Begins(arrays, reg, m, s, N, E) /\ Begins(arrays, reg, m, s, N, F)
    BY <2>2, <2>3, <2>4 DEF Begins
  <2> QED
    BY <2>1, <2>5, TraceUnique
<1> DEFINE H == [k \in 0 .. M |-> E[N + k]]
<1>6. H[M] = G[M]
  <2>1. Len(t) = M /\ M \in Nat
    BY <1>1 DEF M
  <2>2. H[0] = n /\ G[0] = n
    <3>1. 0 \in 0 .. M /\ N + 0 = N
      BY <1>1
    <3> QED
      BY <1>3, <1>4, <1>5, <3>1 DEF Trace
  <2>3. \A k \in 1 .. M : G[k] = Effect(arrays, G[k - 1], t[k], reg)
    BY <1>4, <2>1 DEF Trace
  <2>4. \A k \in 1 .. M : H[k] = Effect(arrays, H[k - 1], t[k], reg)
    <3> TAKE k \in 1 .. M
    <3>1. N + k \in 1 .. Len(u) /\ u[N + k] = t[k] /\ (N + k) - 1 = N + (k - 1)
      BY <1>1
    <3>2. E[N + k] = Effect(arrays, E[(N + k) - 1], u[N + k], reg)
      BY <1>2, <3>1 DEF Trace
    <3>3. k \in 0 .. M /\ k - 1 \in 0 .. M
      BY <1>1
    <3> QED
      BY <3>1, <3>2, <3>3
  <2> HIDE DEF H
  <2>5. Begins(arrays, reg, n, t, M, H) /\ Begins(arrays, reg, n, t, M, G)
    BY <2>2, <2>3, <2>4 DEF Begins
  <2> QED
    BY <2>1, <2>5, TraceUnique
<1>7. H[M] = E[N + M]
  BY <1>1
<1> QED
  BY <1>1, <1>2, <1>4, <1>6, <1>7

\* M is the machine after each part.
ByParts(arrays, reg, m, ss, M) ==
  /\ M[0] = m
  /\ \A k \in 1 .. Len(ss) : M[k] = After(arrays, reg, M[k - 1], ss[k])

LEMMA AfterParts ==
  ASSUME NEW arrays, NEW reg, NEW m, NEW T, NEW ss \in Seq(Seq(T))
  PROVE  \E M : /\ ByParts(arrays, reg, m, ss, M)
                /\ After(arrays, reg, m, FlattenSeq(ss)) = M[Len(ss)]
<1> PICK N : N = Len(ss)
  OBVIOUS
<1>1. N \in Nat /\ \A k \in 1 .. N : ss[k] \in Seq(T)
  BY LenProperties
<1>2. PICK g : JoinedUp(ss, T, g)
  BY FlattenSteps
<1> DEFINE M == [k \in 0 .. N |-> After(arrays, reg, m, g[k])]
<1>3. /\ g[0] = <<>> /\ FlattenSeq(ss) = g[N]
      /\ \A k \in 0 .. N : g[k] \in Seq(T)
      /\ \A k \in 1 .. N : g[k] = g[k - 1] \o ss[k]
  BY <1>2 DEF JoinedUp
<1>4. M[0] = m
  BY <1>1, <1>3, AfterNone
<1>5. ASSUME NEW k \in 1 .. N PROVE M[k] = After(arrays, reg, M[k - 1], ss[k])
  <2>1. k \in 0 .. N /\ k - 1 \in 0 .. N
    BY <1>1
  <2>2. g[k - 1] \in Seq(T) /\ ss[k] \in Seq(T) /\ g[k] = g[k - 1] \o ss[k]
    BY <1>1, <1>3, <2>1
  <2>3. After(arrays, reg, m, g[k]) = After(arrays, reg, After(arrays, reg, m, g[k - 1]), ss[k])
    BY <2>2, AfterBoth
  <2> QED
    BY <2>1, <2>3
<1>6. M[N] = After(arrays, reg, m, FlattenSeq(ss))
  BY <1>1, <1>3
<1> HIDE DEF M
<1>7. ByParts(arrays, reg, m, ss, M)
  BY <1>4, <1>5 DEF ByParts
<1> QED
  BY <1>6, <1>7

-------------------------------------------------------------------------------
(***************************************************************************)
(* One instruction: what it leaves, and that a run without fault has had   *)
(* none.                                                                   *)
(***************************************************************************)
LEMMA EffectParts ==
  ASSUME NEW arrays, NEW m, NEW i, NEW reg, NEW in, in = Operands(m, i, reg),
         NEW e, e = Effect(arrays, m, i, reg)
  PROVE  /\ DOMAIN e.val = {reg[d] : d \in i.def} \cup DOMAIN m.val
         /\ \A d \in i.def : e.val[reg[d]] = Result(m, i, in)
         /\ \A x \in DOMAIN m.val : x \notin {reg[d] : d \in i.def} => e.val[x] = m.val[x]
         /\ DOMAIN e.slot = DOMAIN Written(i, in) \cup DOMAIN m.slot
         /\ \A a \in DOMAIN Written(i, in) : e.slot[a] = Written(i, in)[a]
         /\ \A a \in DOMAIN m.slot : a \notin DOMAIN Written(i, in) => e.slot[a] = m.slot[a]
         /\ e.sp = m.sp + SpChange(i)
         /\ e.pushed = CASE i.kind = "push" -> <<in[1][2]>> \o m.pushed
                         [] i.kind = "call" -> <<>>
                         [] OTHER -> m.pushed
         /\ e.seen = Seen(m, i, in)
         /\ e.faults = m.faults \cup (IF Meaningful(arrays, m, i, reg, in) THEN {} ELSE {i})
<1> DEFINE f == [x \in {reg[d] : d \in i.def} |-> Result(m, i, in)]
           w == Written(i, in)
<1>1. e.val = Over(f, m.val) /\ e.slot = Over(w, m.slot)
  BY DEF Effect
<1>2. /\ DOMAIN f = {reg[d] : d \in i.def}
      /\ \A d \in i.def : reg[d] \in DOMAIN f /\ f[reg[d]] = Result(m, i, in)
  OBVIOUS
<1>3. /\ e.sp = m.sp + SpChange(i)
      /\ e.pushed = CASE i.kind = "push" -> <<in[1][2]>> \o m.pushed
                      [] i.kind = "call" -> <<>>
                      [] OTHER -> m.pushed
      /\ e.seen = Seen(m, i, in)
      /\ e.faults = m.faults \cup (IF Meaningful(arrays, m, i, reg, in) THEN {} ELSE {i})
  BY DEF Effect
<1> HIDE DEF f, w
<1>4. /\ DOMAIN e.val = DOMAIN f \cup DOMAIN m.val
      /\ \A x \in DOMAIN f : e.val[x] = f[x]
      /\ \A x \in DOMAIN m.val : x \notin DOMAIN f => e.val[x] = m.val[x]
  <2> PICK v : v = m.val
    OBVIOUS
  <2>1. /\ DOMAIN Over(f, v) = DOMAIN f \cup DOMAIN v
        /\ \A x \in DOMAIN f : Over(f, v)[x] = f[x]
        /\ \A x \in DOMAIN v : x \notin DOMAIN f => Over(f, v)[x] = v[x]
    BY DEF Over
  <2> QED
    BY <1>1, <2>1
<1>5. /\ DOMAIN e.slot = DOMAIN w \cup DOMAIN m.slot
      /\ \A a \in DOMAIN w : e.slot[a] = w[a]
      /\ \A a \in DOMAIN m.slot : a \notin DOMAIN w => e.slot[a] = m.slot[a]
  <2> PICK v : v = m.slot
    OBVIOUS
  <2>1. /\ DOMAIN Over(w, v) = DOMAIN w \cup DOMAIN v
        /\ \A x \in DOMAIN w : Over(w, v)[x] = w[x]
        /\ \A x \in DOMAIN v : x \notin DOMAIN w => Over(w, v)[x] = v[x]
    BY DEF Over
  <2> QED
    BY <1>1, <2>1
<1>6. /\ DOMAIN e.val = {reg[d] : d \in i.def} \cup DOMAIN m.val
      /\ \A d \in i.def : e.val[reg[d]] = Result(m, i, in)
      /\ \A x \in DOMAIN m.val : x \notin {reg[d] : d \in i.def} => e.val[x] = m.val[x]
  BY <1>2, <1>4
<1> QED
  BY <1>3, <1>5, <1>6 DEF w

\* Registers D get v, and the places of w what w says.
Leaves(D, v, w, m, e) ==
  /\ DOMAIN e.val = D \cup DOMAIN m.val
  /\ \A d \in D : e.val[d] = v
  /\ \A x \in DOMAIN m.val : x \notin D => e.val[x] = m.val[x]
  /\ DOMAIN e.slot = DOMAIN w \cup DOMAIN m.slot
  /\ \A a \in DOMAIN w : e.slot[a] = w[a]
  /\ \A a \in DOMAIN m.slot : a \notin DOMAIN w => e.slot[a] = m.slot[a]

LEMMA EffectLeaves ==
  ASSUME NEW arrays, NEW m, NEW i, NEW reg, NEW in, in = Operands(m, i, reg)
  PROVE  Leaves({reg[d] : d \in i.def}, Result(m, i, in), Written(i, in), m, Effect(arrays, m, i, reg))
<1> DEFINE D == {reg[d] : d \in i.def}
           v == Result(m, i, in)
           w == Written(i, in)
           f == [x \in D |-> v]
<1> PICK e : e = Effect(arrays, m, i, reg)
  OBVIOUS
<1>1. e.val = Over(f, m.val) /\ e.slot = Over(w, m.slot)
  BY DEF Effect
<1>2. DOMAIN f = D /\ \A d \in D : f[d] = v
  OBVIOUS
<1> HIDE DEF f, w, D, v
<1>3. /\ DOMAIN e.val = D \cup DOMAIN m.val
      /\ \A x \in D : e.val[x] = v
      /\ \A x \in DOMAIN m.val : x \notin D => e.val[x] = m.val[x]
  <2> PICK u : u = m.val
    OBVIOUS
  <2>1. /\ DOMAIN Over(f, u) = DOMAIN f \cup DOMAIN u
        /\ \A x \in DOMAIN f : Over(f, u)[x] = f[x]
        /\ \A x \in DOMAIN u : x \notin DOMAIN f => Over(f, u)[x] = u[x]
    BY DEF Over
  <2> QED
    BY <1>1, <1>2, <2>1
<1>4. /\ DOMAIN e.slot = DOMAIN w \cup DOMAIN m.slot
      /\ \A a \in DOMAIN w : e.slot[a] = w[a]
      /\ \A a \in DOMAIN m.slot : a \notin DOMAIN w => e.slot[a] = m.slot[a]
  <2> PICK u : u = m.slot
    OBVIOUS
  <2>1. /\ DOMAIN Over(w, u) = DOMAIN w \cup DOMAIN u
        /\ \A x \in DOMAIN w : Over(w, u)[x] = w[x]
        /\ \A x \in DOMAIN u : x \notin DOMAIN w => Over(w, u)[x] = u[x]
    BY DEF Over
  <2> QED
    BY <1>1, <2>1
<1>5. Leaves(D, v, w, m, e)
  BY <1>3, <1>4 DEF Leaves
<1> QED
  BY <1>5 DEF D, v, w

LEMMA Faultless ==
  ASSUME NEW arrays, NEW m, NEW i, NEW reg, Effect(arrays, m, i, reg).faults = {}
  PROVE  m.faults = {} /\ Meaningful(arrays, m, i, reg, Operands(m, i, reg))
<1> PICK in : in = Operands(m, i, reg)
  OBVIOUS
<1>1. Effect(arrays, m, i, reg).faults
        = m.faults \cup (IF Meaningful(arrays, m, i, reg, in) THEN {} ELSE {i})
  BY DEF Effect
<1> QED
  BY <1>1

\* Nothing has gone wrong.
Fine(m) == m.faults = {}

LEMMA FaultlessAfter ==
  ASSUME NEW arrays, NEW reg, NEW T, NEW s \in Seq(T), NEW m, Fine(After(arrays, reg, m, s))
  PROVE  Fine(m)
<1> PICK N : N = Len(s)
  OBVIOUS
<1>1. N \in Nat
  BY LenProperties
<1>2. PICK E : Trace(arrays, reg, m, s, E) /\ After(arrays, reg, m, s) = E[Len(s)]
  BY AfterTrace
<1> DEFINE P == {k \in 0 .. N : Fine(E[N - k])}
<1>3. 0 \in P
  BY <1>1, <1>2
<1>4. ASSUME NEW k \in 1 .. N, k - 1 \in P PROVE k \in P
  <2> PICK j : j = N - (k - 1)
    OBVIOUS
  <2>1. j \in 1 .. N /\ j - 1 = N - k
    BY <1>1
  <2>2. Fine(E[j]) /\ E[j] = Effect(arrays, E[j - 1], s[j], reg)
    BY <1>2, <1>4, <2>1 DEF Trace
  <2>3. Fine(E[j - 1])
    BY <2>2, Faultless DEF Fine
  <2> QED
    BY <2>1, <2>3
<1> HIDE DEF P
<1>5. 0 .. N \subseteq P
  BY <1>1, <1>3, <1>4, UpToInduction
<1>6. Fine(E[N - N]) /\ N - N = 0
  BY <1>1, <1>5 DEF P
<1> QED
  BY <1>2, <1>6 DEF Trace

LEMMA FaultlessParts ==
  ASSUME NEW arrays, NEW reg, NEW T, NEW ss \in Seq(Seq(T)), NEW m, NEW M,
         ByParts(arrays, reg, m, ss, M), Fine(M[Len(ss)])
  PROVE  \A k \in 0 .. Len(ss) : Fine(M[k])
<1> PICK N : N = Len(ss)
  OBVIOUS
<1>1. N \in Nat /\ \A k \in 1 .. N : ss[k] \in Seq(T)
  BY LenProperties
<1> DEFINE P == {k \in 0 .. N : Fine(M[N - k])}
<1>3. 0 \in P
  BY <1>1
<1>4. ASSUME NEW k \in 1 .. N, k - 1 \in P PROVE k \in P
  <2> PICK j : j = N - (k - 1)
    OBVIOUS
  <2>1. j \in 1 .. N /\ j - 1 = N - k
    BY <1>1
  <2>2. Fine(M[j]) /\ M[j] = After(arrays, reg, M[j - 1], ss[j])
    BY <1>4, <2>1 DEF ByParts
  <2> PICK n : n = M[j - 1]
    OBVIOUS
  <2> PICK s \in Seq(T) : s = ss[j]
    BY <1>1, <2>1
  <2>3. Fine(After(arrays, reg, n, s))
    BY <2>2
  <2>4. Fine(n)
    BY <2>3, FaultlessAfter
  <2> QED
    BY <2>1, <2>4
<1> HIDE DEF P
<1>5. 0 .. N \subseteq P
  BY <1>1, <1>3, <1>4, UpToInduction
<1>6. ASSUME NEW k \in 0 .. N PROVE Fine(M[k])
  <2>1. N - k \in 0 .. N /\ N - (N - k) = k
    BY <1>1
  <2> QED
    BY <1>5, <2>1 DEF P
<1> QED
  BY <1>6

-------------------------------------------------------------------------------
(***************************************************************************)
(* The same instruction on two machines.  Shared: n has what m has, apart  *)
(* from registers.                                                         *)
(***************************************************************************)
Shared(m, n) ==
  /\ m.faults = {} /\ n.faults = {}
  /\ m.sp \in Int /\ m.sp <= 0
  /\ n.sp = m.sp /\ n.pushed = m.pushed /\ n.seen = m.seen
  /\ \A a \in DOMAIN m.slot : a \in DOMAIN n.slot /\ n.slot[a] = m.slot[a]

Twins(i, j) == j.kind = i.kind /\ j.tag = i.tag /\ Len(j.use) = Len(i.use)
Supplied(n, j, ren) == \A k \in DOMAIN j.use : ren[j.use[k]] \in DOMAIN n.val

LEMMA SameEffect ==
  ASSUME NEW arrays, NEW m, NEW n, Shared(m, n), NEW q \in Nat, NEW i \in Insn(q), NEW j,
         Twins(i, j), NEW reg, NEW ren, NEW in,
         in = Operands(m, i, reg), Operands(n, j, ren) = in,
         Meaningful(arrays, m, i, reg, in), Supplied(n, j, ren)
  PROVE  /\ Shared(Effect(arrays, m, i, reg), Effect(arrays, n, j, ren))
         /\ Result(n, j, in) = Result(m, i, in)
         /\ Written(j, in) = Written(i, in)
<1> PICK e : e = Effect(arrays, m, i, reg)
  OBVIOUS
<1> PICK f : f = Effect(arrays, n, j, ren)
  OBVIOUS
<1>0. j.kind = i.kind /\ j.tag = i.tag
  BY DEF Twins
<1>1. /\ m.faults = {} /\ n.faults = {} /\ m.sp \in Int
      /\ n.sp = m.sp /\ n.pushed = m.pushed /\ n.seen = m.seen
      /\ \A a \in DOMAIN m.slot : a \in DOMAIN n.slot /\ n.slot[a] = m.slot[a]
  BY DEF Shared
<1>2. Written(j, in) = Written(i, in)
  BY <1>0 DEF Written
<1>3. SpChange(j) = SpChange(i) /\ SpChange(i) \in Int
  BY <1>0, ChangeType DEF SpChange
<1>4. /\ i.kind = "load" => <<i.tag, 0>> \in DOMAIN m.slot
      /\ i.kind = "get" => <<in[1][2], i.tag>> \in DOMAIN m.slot
      /\ m.sp + SpChange(i) <= 0
  BY DEF Meaningful
<1>5. Result(n, j, in) = Result(m, i, in)
  <2>1. CASE i.kind = "load"
    <3>1. Result(m, i, in) = m.slot[<<i.tag, 0>>] /\ Result(n, j, in) = n.slot[<<i.tag, 0>>]
      BY <1>0, <1>1, <1>4, <2>1 DEF Result, Held
    <3> QED
      BY <1>1, <1>4, <2>1, <3>1
  <2>2. CASE i.kind = "get"
    <3>1. /\ Result(m, i, in) = m.slot[<<in[1][2], i.tag>>]
          /\ Result(n, j, in) = n.slot[<<in[1][2], i.tag>>]
      BY <1>0, <1>1, <1>4, <2>2 DEF Result, Held
    <3> QED
      BY <1>1, <1>4, <2>2, <3>1
  <2>3. CASE i.kind \notin {"load", "get"}
    BY <1>0, <1>1, <2>3 DEF Result
  <2> QED
    BY <2>1, <2>2, <2>3
<1>6. Meaningful(arrays, n, j, ren, in)
  BY <1>0, <1>1, <1>3 DEF Meaningful, Supplied
<1>7. Seen(n, j, in) = Seen(m, i, in)
  BY <1>0, <1>1 DEF Seen
<1>8. /\ e.sp = m.sp + SpChange(i) /\ e.seen = Seen(m, i, in) /\ e.faults = {}
      /\ e.pushed = CASE i.kind = "push" -> <<in[1][2]>> \o m.pushed
                      [] i.kind = "call" -> <<>>
                      [] OTHER -> m.pushed
      /\ DOMAIN e.slot = DOMAIN Written(i, in) \cup DOMAIN m.slot
      /\ \A a \in DOMAIN Written(i, in) : e.slot[a] = Written(i, in)[a]
      /\ \A a \in DOMAIN m.slot : a \notin DOMAIN Written(i, in) => e.slot[a] = m.slot[a]
  BY <1>1, EffectParts
<1>9. /\ f.sp = n.sp + SpChange(j) /\ f.seen = Seen(n, j, in) /\ f.faults = {}
      /\ f.pushed = CASE j.kind = "push" -> <<in[1][2]>> \o n.pushed
                      [] j.kind = "call" -> <<>>
                      [] OTHER -> n.pushed
      /\ DOMAIN f.slot = DOMAIN Written(j, in) \cup DOMAIN n.slot
      /\ \A a \in DOMAIN Written(j, in) : f.slot[a] = Written(j, in)[a]
      /\ \A a \in DOMAIN n.slot : a \notin DOMAIN Written(j, in) => f.slot[a] = n.slot[a]
  BY <1>1, <1>6, EffectParts
<1>10. f.pushed = e.pushed
  BY <1>0, <1>1, <1>8, <1>9
<1>11. \A a \in DOMAIN e.slot : a \in DOMAIN f.slot /\ f.slot[a] = e.slot[a]
  BY <1>1, <1>2, <1>8, <1>9
<1>12. e.sp \in Int /\ e.sp <= 0 /\ f.sp = e.sp /\ f.seen = e.seen
  BY <1>1, <1>3, <1>4, <1>7, <1>8, <1>9
<1>13. Shared(e, f)
  BY <1>8, <1>9, <1>10, <1>11, <1>12 DEF Shared
<1> QED
  BY <1>2, <1>5, <1>13

-------------------------------------------------------------------------------
(***************************************************************************)
(* What the code that spilling puts in does: one register or one slot gets *)
(* a value.                                                                *)
(***************************************************************************)
Do(m, i) == Effect(source.arrays, m, i, Identity)
RunOf(m, s) == After(source.arrays, Identity, m, s)

Ready(n) == n.faults = {} /\ n.sp \in Int /\ n.sp <= 0

\* The rest of the machine is as it was.
Still(n, e) == Ready(e) /\ e.sp = n.sp /\ e.pushed = n.pushed /\ e.seen = n.seen

SameSlots(n, e) == DOMAIN e.slot = DOMAIN n.slot /\ \A a \in DOMAIN n.slot : e.slot[a] = n.slot[a]
SameValues(n, e) == DOMAIN e.val = DOMAIN n.val /\ \A x \in DOMAIN n.val : e.val[x] = n.val[x]

\* Register t gets v; slot r gets v.
Sets(n, e, t, v) ==
  /\ Still(n, e) /\ SameSlots(n, e)
  /\ DOMAIN e.val = DOMAIN n.val \cup {t} /\ e.val[t] = v
  /\ \A x \in DOMAIN n.val : x # t => e.val[x] = n.val[x]

Saves(n, e, r, v) ==
  /\ Still(n, e) /\ SameValues(n, e)
  /\ DOMAIN e.slot = DOMAIN n.slot \cup {<<r, 0>>} /\ e.slot[<<r, 0>>] = v
  /\ \A a \in DOMAIN n.slot : a # <<r, 0>> => e.slot[a] = n.slot[a]

LEMMA RegisterSet ==
  ASSUME NEW n, Ready(n), NEW i, NEW t \in Node,
         i.kind \in {"load", "const", "offset"}, i.def = {t}, i.use = <<>>,
         i.kind = "load" => <<i.tag, 0>> \in DOMAIN n.slot
  PROVE  Sets(n, Do(n, i), t, Result(n, i, <<>>))
<1> PICK e : e = Do(n, i)
  OBVIOUS
<1> PICK in : in = Operands(n, i, Identity)
  OBVIOUS
<1>1. in = <<>>
  <2>1. DOMAIN i.use = {}
    BY EmptySeq
  <2> QED
    BY <2>1 DEF Operands
<1>2. {Identity[d] : d \in i.def} = {t} /\ Identity[t] = t
  BY DEF Identity
<1>3. SpChange(i) = 0 /\ Written(i, in) = <<>>
  BY DEF SpChange, Written
<1>4. Meaningful(source.arrays, n, i, Identity, in)
  <2>1. DOMAIN i.use = {}
    BY EmptySeq
  <2>2. n.sp + 0 <= 0
    BY DEF Ready
  <2> QED
    BY <1>3, <2>1, <2>2 DEF Meaningful
<1>5. DOMAIN Written(i, in) = {}
  BY <1>3, EmptySeq
<1>6. /\ DOMAIN e.val = {Identity[d] : d \in i.def} \cup DOMAIN n.val
      /\ \A d \in i.def : e.val[Identity[d]] = Result(n, i, in)
      /\ \A x \in DOMAIN n.val : x \notin {Identity[d] : d \in i.def} => e.val[x] = n.val[x]
      /\ DOMAIN e.slot = DOMAIN Written(i, in) \cup DOMAIN n.slot
      /\ \A a \in DOMAIN n.slot : a \notin DOMAIN Written(i, in) => e.slot[a] = n.slot[a]
      /\ e.sp = n.sp + SpChange(i)
      /\ e.pushed = CASE i.kind = "push" -> <<in[1][2]>> \o n.pushed
                      [] i.kind = "call" -> <<>>
                      [] OTHER -> n.pushed
      /\ e.seen = Seen(n, i, in)
      /\ e.faults = n.faults \cup (IF Meaningful(source.arrays, n, i, Identity, in) THEN {} ELSE {i})
  BY EffectParts DEF Do
<1>7. e.pushed = n.pushed /\ e.seen = n.seen
  BY <1>6 DEF Seen
<1>8. e.faults = {} /\ e.sp = n.sp
  BY <1>3, <1>4, <1>6 DEF Ready
<1>9. SameSlots(n, e)
  BY <1>5, <1>6 DEF SameSlots
<1>10. DOMAIN e.val = DOMAIN n.val \cup {t} /\ e.val[t] = Result(n, i, in)
       /\ \A x \in DOMAIN n.val : x # t => e.val[x] = n.val[x]
  BY <1>2, <1>6
<1>11. Still(n, e)
  BY <1>7, <1>8 DEF Still, Ready
<1> QED
  BY <1>1, <1>9, <1>10, <1>11 DEF Sets

LEMMA SlotSaved ==
  ASSUME NEW n, Ready(n), NEW r, NEW t \in Node, t \in DOMAIN n.val
  PROVE  Saves(n, Do(n, Store(t, r)), r, n.val[t])
<1> PICK i : i = Store(t, r)
  OBVIOUS
<1> PICK e : e = Do(n, i)
  OBVIOUS
<1> PICK in : in = Operands(n, i, Identity)
  OBVIOUS
<1>0. i.kind = "store" /\ i.tag = r /\ i.def = {} /\ i.use = <<t>> /\ DOMAIN i.use = {1} /\ i.use[1] = t
  BY DEF Store
<1>1. Identity[t] = t
  BY DEF Identity
<1>2. 1 \in DOMAIN in /\ in[1] = n.val[t]
  BY <1>0, <1>1 DEF Operands, Held
<1>3. SpChange(i) = 0 /\ Written(i, in) = In(<<r, 0>>, in[1])
  BY <1>0 DEF SpChange, Written
<1>4. Meaningful(source.arrays, n, i, Identity, in)
  <2>1. n.sp + 0 <= 0
    BY DEF Ready
  <2> QED
    BY <1>0, <1>1, <1>3, <2>1 DEF Meaningful
<1>5. DOMAIN Written(i, in) = {<<r, 0>>} /\ Written(i, in)[<<r, 0>>] = n.val[t]
  BY <1>2, <1>3 DEF In
<1>6. /\ DOMAIN e.val = {Identity[d] : d \in i.def} \cup DOMAIN n.val
      /\ \A x \in DOMAIN n.val : x \notin {Identity[d] : d \in i.def} => e.val[x] = n.val[x]
      /\ DOMAIN e.slot = DOMAIN Written(i, in) \cup DOMAIN n.slot
      /\ \A a \in DOMAIN Written(i, in) : e.slot[a] = Written(i, in)[a]
      /\ \A a \in DOMAIN n.slot : a \notin DOMAIN Written(i, in) => e.slot[a] = n.slot[a]
      /\ e.sp = n.sp + SpChange(i)
      /\ e.pushed = CASE i.kind = "push" -> <<in[1][2]>> \o n.pushed
                      [] i.kind = "call" -> <<>>
                      [] OTHER -> n.pushed
      /\ e.seen = Seen(n, i, in)
      /\ e.faults = n.faults \cup (IF Meaningful(source.arrays, n, i, Identity, in) THEN {} ELSE {i})
  BY EffectParts DEF Do
<1>7. e.pushed = n.pushed /\ e.seen = n.seen
  BY <1>0, <1>6 DEF Seen
<1>8. e.faults = {} /\ e.sp = n.sp
  BY <1>3, <1>4, <1>6 DEF Ready
<1>9. SameValues(n, e)
  <2>1. {Identity[d] : d \in i.def} = {}
    BY <1>0
  <2> QED
    BY <1>6, <2>1 DEF SameValues
<1>10. /\ DOMAIN e.slot = DOMAIN n.slot \cup {<<r, 0>>} /\ e.slot[<<r, 0>>] = n.val[t]
       /\ \A a \in DOMAIN n.slot : a # <<r, 0>> => e.slot[a] = n.slot[a]
  BY <1>5, <1>6
<1>11. Still(n, e)
  BY <1>7, <1>8 DEF Still, Ready
<1> QED
  BY <1>9, <1>10, <1>11 DEF Saves

(* Each place a register is spilled at has a temporary of its own.         *)
LEMMA TempsApart ==
  ASSUME CodeOK, NEW U, spilled \in Seq(U), NEW s \in Sites, NEW t \in Sites, Temp(s) = Temp(t)
  PROVE  s = t
<1>1. IsFiniteSet(Sites) /\ reg_n \in Nat
  <2>1. K \in Nat /\ MaxNode \in Nat /\ reg_n \in K .. MaxNode
    BY RegisterAssumption DEF CodeOK
  <2> QED
    BY <2>1, TempRange
<1>2. ASSUME NEW u \in Sites
      PROVE  u[1][1] \in Nat /\ u[1][2] \in Nat /\ u[2] \in Nat /\ u = <<<<u[1][1], u[1][2]>>, u[2]>>
  <2>1. u \in Instructions(blocks) \X DOMAIN spilled
    BY DEF Sites
  <2>2. u[1] \in Instructions(blocks) /\ u[2] \in DOMAIN spilled /\ u = <<u[1], u[2]>>
    BY <2>1
  <2>3. u[1][1] \in DOMAIN blocks /\ u[1][2] \in DOMAIN blocks[u[1][1]].insts /\ u[1] = <<u[1][1], u[1][2]>>
    BY <2>2 DEF Instructions
  <2>4. blocks \in Seq(Block(reg_n))
    BY DEF CodeOK
  <2>5. DOMAIN blocks = 1 .. Len(blocks)
        /\ DOMAIN blocks[u[1][1]].insts = 1 .. Len(blocks[u[1][1]].insts)
    BY <1>1, <2>3, <2>4, CodeParts
  <2>6. DOMAIN spilled = 1 .. Len(spilled)
    BY LenProperties
  <2> QED
    BY <2>2, <2>3, <2>5, <2>6
<1>3. ASSUME NEW u \in Sites, NEW v \in Sites, Earlier(u, v) PROVE Temp(u) # Temp(v)
  <2> DEFINE A == {w \in Sites : Earlier(w, u)}
             B == {w \in Sites : Earlier(w, v)}
  <2>1. A \subseteq B
    <3> SUFFICES ASSUME NEW w \in Sites, Earlier(w, u) PROVE Earlier(w, v)
      OBVIOUS
    <3> QED
      BY <1>2, <1>3 DEF Earlier
  <2>2. u \in B /\ u \notin A
    <3>1. ~Earlier(u, u)
      BY <1>2 DEF Earlier
    <3> QED
      BY <1>3, <3>1
  <2>3. Temp(u) = reg_n + Cardinality(A) /\ Temp(v) = reg_n + Cardinality(B)
    BY DEF Temp
  <2>4. IsFiniteSet(B)
    <3>1. B \subseteq Sites
      OBVIOUS
    <3> QED
      BY <1>1, <3>1, FS_Subset
  <2> HIDE DEF A, B
  <2>5. IsFiniteSet(A) /\ Cardinality(A) # Cardinality(B)
    BY <2>1, <2>2, <2>4, FS_Subset
  <2>6. Cardinality(A) \in Nat /\ Cardinality(B) \in Nat
    BY <2>4, <2>5, FS_CardinalityType
  <2> QED
    BY <1>1, <2>3, <2>5, <2>6
<1>4. s = t \/ Earlier(s, t) \/ Earlier(t, s)
  <2>1. /\ s[1][1] \in Nat /\ s[1][2] \in Nat /\ s[2] \in Nat /\ s = <<<<s[1][1], s[1][2]>>, s[2]>>
        /\ t[1][1] \in Nat /\ t[1][2] \in Nat /\ t[2] \in Nat /\ t = <<<<t[1][1], t[1][2]>>, t[2]>>
    BY <1>2
  <2>2. s[1] = <<s[1][1], s[1][2]>> /\ t[1] = <<t[1][1], t[1][2]>>
    BY <2>1
  <2> QED
    BY <2>1, <2>2 DEF Earlier
<1> QED
  BY <1>3, <1>4

-------------------------------------------------------------------------------
(***************************************************************************)
(* Spilling.  n goes along with m: the registers of S are in their slots,  *)
(* but for those of D, or known constants.                                 *)
(***************************************************************************)
Matches(S, D, m, n) ==
  /\ Shared(m, n)
  /\ DOMAIN m.val \subseteq 0 .. reg_n - 1
  /\ \A r \in DOMAIN m.val :
       /\ r \notin S => r \in DOMAIN n.val /\ n.val[r] = m.val[r]
       /\ r \in S \ (DOMAIN remat \cup D) => <<r, 0>> \in DOMAIN n.slot /\ n.slot[<<r, 0>>] = m.val[r]
       /\ r \in DOMAIN remat => m.val[r] = Num(remat[r])
  /\ \A a \in DOMAIN m.slot : a[1] \notin S

\* Between n and x the temporaries of the first q spilled registers that the
\* instruction at p reads got their values in m.
Loaded(p, m, n, x, q) ==
  /\ Still(n, x) /\ SameSlots(n, x)
  /\ \A r \in DOMAIN n.val : r < reg_n => r \in DOMAIN x.val /\ x.val[r] = n.val[r]
  /\ \A j \in 1 .. q : <<p, j>> \in Sites /\ spilled[j] \in Uses(At(blocks, p)) =>
       /\ Temp(<<p, j>>) \in DOMAIN x.val
       /\ x.val[Temp(<<p, j>>)] = m.val[spilled[j]]

LEMMA LoadedMore ==
  ASSUME NEW p, NEW m, NEW n, NEW x, NEW y, NEW q \in Nat, q > 0, Loaded(p, m, n, x, q - 1),
         NEW t, NEW v, Sets(x, y, t, v), t = Temp(<<p, q>>), v = m.val[spilled[q]],
         ~(t < reg_n),
         \A j \in 1 .. q - 1 : <<p, j>> \in Sites => Temp(<<p, j>>) # t
  PROVE  Loaded(p, m, n, y, q)
<1>1. Still(n, y)
  BY DEF Loaded, Sets, Still
<1>2. SameSlots(n, y)
  BY DEF Loaded, Sets, SameSlots
<1>3. ASSUME NEW r \in DOMAIN n.val, r < reg_n PROVE r \in DOMAIN y.val /\ y.val[r] = n.val[r]
  <2>1. r # t
    BY <1>3
  <2>2. r \in DOMAIN x.val /\ x.val[r] = n.val[r]
    BY <1>3 DEF Loaded
  <2> QED
    BY <2>1, <2>2 DEF Sets
<1>4. ASSUME NEW j \in 1 .. q, <<p, j>> \in Sites, spilled[j] \in Uses(At(blocks, p))
      PROVE  Temp(<<p, j>>) \in DOMAIN y.val /\ y.val[Temp(<<p, j>>)] = m.val[spilled[j]]
  <2>1. CASE j = q
    BY <2>1 DEF Sets
  <2>2. CASE j # q
    <3>1. j \in 1 .. q - 1
      BY <2>2
    <3> PICK u : u = Temp(<<p, j>>)
      OBVIOUS
    <3>2. u # t /\ u \in DOMAIN x.val /\ x.val[u] = m.val[spilled[j]]
      BY <1>4, <3>1 DEF Loaded
    <3>3. u \in DOMAIN y.val /\ y.val[u] = x.val[u]
      BY <3>2 DEF Sets
    <3> QED
      BY <3>2, <3>3
  <2> QED
    BY <2>1, <2>2
<1> QED
  BY <1>1, <1>2, <1>3, <1>4 DEF Loaded

LEMMA LoadedStill ==
  ASSUME NEW p, NEW m, NEW n, NEW x, NEW q \in Nat, q > 0, Loaded(p, m, n, x, q - 1),
         ~(<<p, q>> \in Sites /\ spilled[q] \in Uses(At(blocks, p)))
  PROVE  Loaded(p, m, n, x, q)
<1>1. ASSUME NEW j \in 1 .. q, <<p, j>> \in Sites, spilled[j] \in Uses(At(blocks, p)) PROVE j \in 1 .. q - 1
  BY <1>1
<1> QED
  BY <1>1 DEF Loaded

\* The instruction at p has its operands in m.
Provided(p, m) == \A r \in Uses(At(blocks, p)) : r \in DOMAIN m.val

LEMMA ReloadsRun ==
  ASSUME CodeOK, spilled \in Seq(0 .. reg_n - 1), reg_n + Cardinality(Sites) <= MaxNode,
         NEW p \in Instructions(blocks), NEW m, NEW n, Matches(Range(spilled), {}, m, n), Provided(p, m)
  PROVE  Loaded(p, m, n, RunOf(n, FlattenSeq(Reloads(p))), Len(spilled))
<1> PICK i : i = At(blocks, p)
  OBVIOUS
<1> PICK N : N = Len(spilled)
  OBVIOUS
<1> PICK c : c = reg_n + Cardinality(Sites)
  OBVIOUS
<1>1. /\ reg_n \in Nat /\ Cardinality(Sites) \in Nat /\ c \in Nat /\ c <= MaxNode /\ MaxNode \in Nat
      /\ \A s \in Sites : Temp(s) \in Int /\ Temp(s) >= reg_n /\ Temp(s) \in Node
  <2>1. K \in Nat /\ MaxNode \in Nat /\ reg_n \in K .. MaxNode
    BY RegisterAssumption DEF CodeOK
  <2>2. Cardinality(Sites) \in Nat /\ \A s \in Sites : Temp(s) \in reg_n .. reg_n + Cardinality(Sites) - 1
    BY TempRange
  <2> QED
    BY <2>1, <2>2 DEF Node
<1>2. N \in Nat /\ DOMAIN spilled = 1 .. N
  BY LenProperties
<1> DEFINE ss == Reloads(p)
<1>3. ss \in Seq(Seq(SpillCode(c)))
  BY <1>1, ReloadsClean
<1>4. PICK M : /\ ByParts(source.arrays, Identity, n, ss, M)
               /\ After(source.arrays, Identity, n, FlattenSeq(ss)) = M[Len(ss)]
  BY <1>3, AfterParts
<1>5. Len(ss) = N /\ \A q \in 1 .. N : ss[q] = IF <<p, q>> \in Sites THEN Reload(i, spilled[q], Temp(<<p, q>>)) ELSE <<>>
  BY <1>2 DEF Reloads
<1>6. M[0] = n /\ \A q \in 1 .. N : M[q] = RunOf(M[q - 1], ss[q])
  BY <1>4, <1>5 DEF ByParts, RunOf
<1> HIDE DEF ss
<1>7. Shared(m, n) /\ \A r \in DOMAIN m.val :
        /\ r \in Range(spilled) \ DOMAIN remat => <<r, 0>> \in DOMAIN n.slot /\ n.slot[<<r, 0>>] = m.val[r]
        /\ r \in DOMAIN remat => m.val[r] = Num(remat[r])
  BY DEF Matches
<1>8. Ready(n)
  BY <1>7 DEF Shared, Ready
<1> DEFINE P == {q \in 0 .. N : Loaded(p, m, n, M[q], q)}
<1>9. 0 \in P
  <2>1. Still(n, n) /\ SameSlots(n, n)
    BY <1>8 DEF Still, SameSlots
  <2>2. \A j \in 1 .. 0 : FALSE
    OBVIOUS
  <2>3. Loaded(p, m, n, n, 0)
    BY <2>1, <2>2 DEF Loaded
  <2> QED
    BY <1>2, <1>6, <2>3
<1>10. ASSUME NEW q \in 1 .. N, q - 1 \in P PROVE q \in P
  <2> PICK x : x = M[q - 1]
    OBVIOUS
  <2> PICK y : y = M[q]
    OBVIOUS
  <2> PICK r : r = spilled[q]
    OBVIOUS
  <2> PICK t : t = Temp(<<p, q>>)
    OBVIOUS
  <2>0. q \in 0 .. N
    BY <1>2
  <2>1. Loaded(p, m, n, x, q - 1) /\ q \in Nat /\ q > 0
    BY <1>10
  <2>2. y = RunOf(x, ss[q])
    BY <1>6
  <2>3. CASE ~(<<p, q>> \in Sites /\ r \in Uses(i))
    <3>1. ss[q] = <<>>
      BY <1>5, <2>3 DEF Reload
    <3>2. y = x
      BY <2>2, <3>1, AfterNone DEF RunOf
    <3>3. Loaded(p, m, n, x, q)
      BY <2>1, <2>3, LoadedStill
    <3> QED
      BY <2>0, <3>2, <3>3
  <2>4. CASE <<p, q>> \in Sites /\ r \in Uses(i)
    <3>1. r \in DOMAIN m.val /\ r \in Range(spilled)
      BY <1>2, <2>4 DEF Provided, Range
    <3>2. t \in Node /\ t \in Int /\ t >= reg_n
      BY <1>1, <2>4
    <3>3. Ready(x) /\ SameSlots(n, x)
      BY <2>1 DEF Loaded, Still
    <3>4. PICK w : ss[q] = <<w>> /\ Sets(x, Do(x, w), t, m.val[r])
      <4>1. CASE r \in DOMAIN remat
        <5> PICK w : w = Const(t, remat[r])
          OBVIOUS
        <5>1. ss[q] = <<w>>
          BY <1>5, <2>4, <4>1 DEF Reload
        <5>2. w.kind = "const" /\ w.def = {t} /\ w.use = <<>> /\ w.tag = remat[r]
          BY DEF Const
        <5>3. Sets(x, Do(x, w), t, Result(x, w, <<>>))
          BY <3>2, <3>3, <5>2, RegisterSet
        <5>4. Result(x, w, <<>>) = Num(remat[r])
          BY <5>2 DEF Result
        <5> QED
          BY <1>7, <3>1, <4>1, <5>1, <5>3, <5>4
      <4>2. CASE r \notin DOMAIN remat
        <5> PICK w : w = Load(t, r)
          OBVIOUS
        <5>1. ss[q] = <<w>>
          BY <1>5, <2>4, <4>2 DEF Reload
        <5>2. w.kind = "load" /\ w.def = {t} /\ w.use = <<>> /\ w.tag = r
          BY DEF Load
        <5>3. <<r, 0>> \in DOMAIN x.slot /\ x.slot[<<r, 0>>] = m.val[r]
          BY <1>7, <3>1, <3>3, <4>2 DEF SameSlots
        <5>4. Sets(x, Do(x, w), t, Result(x, w, <<>>))
          BY <3>2, <3>3, <5>2, <5>3, RegisterSet
        <5>5. Result(x, w, <<>>) = m.val[r]
          BY <5>2, <5>3 DEF Result, Held
        <5> QED
          BY <5>1, <5>4, <5>5
      <4> QED
        BY <4>1, <4>2
    <3>5. y = Do(x, w)
      BY <2>2, <3>4, AfterOne DEF RunOf, Do
    <3>6. \A j \in 1 .. q - 1 : <<p, j>> \in Sites => Temp(<<p, j>>) # t
      <4>1. ASSUME NEW j \in 1 .. q - 1, <<p, j>> \in Sites, Temp(<<p, j>>) = t PROVE FALSE
        <5>1. <<p, j>> = <<p, q>>
          BY <2>4, <4>1, TempsApart
        <5>2. j = q
          BY <5>1
        <5> QED
          BY <5>2
      <4> QED
        BY <4>1
    <3>7. ~(t < reg_n)
      BY <1>1, <3>2
    <3>8. Sets(x, y, t, m.val[r])
      BY <3>4, <3>5
    <3>9. Loaded(p, m, n, y, q)
      BY <2>1, <3>6, <3>7, <3>8, LoadedMore
    <3> QED
      BY <2>0, <3>9
  <2> QED
    BY <2>3, <2>4
<1> HIDE DEF P
<1>11. 0 .. N \subseteq P
  BY <1>2, <1>9, <1>10, UpToInduction
<1>12. Loaded(p, m, n, M[N], N)
  BY <1>2, <1>11 DEF P
<1> QED
  BY <1>4, <1>5, <1>12 DEF RunOf, ss

(* A store of the code writes to a slot or to an array, not to the slot of *)
(* a register of the code.                                                 *)
LEMMA WrittenApart ==
  ASSUME CodeOK, StackInv, RunInv, NEW p \in Instructions(blocks), NEW m, NEW i, i = At(blocks, p),
         NEW in, Meaningful(source.arrays, m, i, Identity, in)
  PROVE  \A a \in DOMAIN Written(i, in) : a[1] \notin Regs(blocks)
<1>1. Sound(i, objects, remat)
  BY DEF RunInv
<1>2. \A x \in Range(objects) : x.id \notin Regs(blocks)
  BY DEF StackInv
<1>3. Slot(i.tag).id = i.tag
  BY DEF Slot
<1>4. CASE i.kind = "store"
  <2>1. DOMAIN Written(i, in) = {<<i.tag, 0>>}
    BY <1>4 DEF Written, In
  <2>2. i.tag \notin Regs(blocks)
    BY <1>1, <1>2, <1>3, <1>4 DEF Sound
  <2> QED
    BY <2>1, <2>2
<1>5. CASE i.kind = "far"
  <2>1. DOMAIN Written(i, in) = {<<in[2][2], 0>>}
    BY <1>5 DEF Written, In
  <2>2. i.tag \notin Regs(blocks)
    BY <1>1, <1>2, <1>3, <1>5 DEF Sound
  <2>3. in[2][2] = i.tag
    BY <1>5 DEF Meaningful, Distance
  <2> QED
    BY <2>1, <2>2, <2>3
<1>6. CASE i.kind = "put"
  <2>1. DOMAIN Written(i, in) = {<<in[1][2], i.tag>>}
    BY <1>6 DEF Written, In
  <2>2. PICK a \in Range(source.arrays) : in[1] = Address(a.id)
    BY <1>6 DEF Meaningful
  <2>3. in[1][2] = a.id
    BY <2>2 DEF Address
  <2>4. a.id \notin Regs(blocks)
    BY <1>2, <2>2 DEF RunInv
  <2> QED
    BY <2>1, <2>3, <2>4
<1>7. CASE i.kind \notin {"store", "far", "put"}
  <2>1. Written(i, in) = <<>>
    BY <1>7 DEF Written
  <2> QED
    BY <2>1, EmptySeq
<1> QED
  BY <1>4, <1>5, <1>6, <1>7

\* Where the registers of the instruction at p are.
Renamed(p, r, j) == j \in 1 .. Len(spilled) /\ spilled[j] = r /\ <<p, j>> \in Sites /\ NameAt(p, r) = Temp(<<p, j>>)

LEMMA NamedPlace ==
  ASSUME CodeOK, spilled \in Seq(0 .. reg_n - 1), NEW p \in Instructions(blocks), ~Erased(At(blocks, p)),
         NEW r, r \in Uses(At(blocks, p)) \cup At(blocks, p).def
  PROVE  /\ r \in Range(spilled) => \E j : Renamed(p, r, j)
         /\ r \notin Range(spilled) => NameAt(p, r) = r
<1> PICK i : i = At(blocks, p)
  OBVIOUS
<1> PICK N : N = Len(spilled)
  OBVIOUS
<1>1. DOMAIN spilled = 1 .. N
  BY LenProperties
<1>2. ASSUME NEW j \in 1 .. N, spilled[j] = r PROVE <<p, j>> \in Sites
  <2>1. r \in Uses(i) \/ (r \in i.def /\ r \notin DOMAIN remat)
    BY <1>1, <1>2 DEF Erased, Range
  <2> QED
    BY <1>1, <1>2, <2>1 DEF Sites
<1>3. ASSUME r \in Range(spilled) PROVE \E j : Renamed(p, r, j)
  <2> DEFINE q == CHOOSE j \in 1 .. N : spilled[j] = r
  <2>1. q \in 1 .. N /\ spilled[q] = r
    BY <1>1, <1>3 DEF Range
  <2>2. <<p, q>> \in Sites
    BY <1>2, <2>1
  <2>3. NameAt(p, r) = Temp(<<p, q>>)
    BY <2>1, <2>2 DEF NameAt
  <2> HIDE DEF q
  <2> QED
    BY <2>1, <2>2, <2>3 DEF Renamed
<1>4. ASSUME r \notin Range(spilled) PROVE NameAt(p, r) = r
  <2>1. ~\E j \in 1 .. N : spilled[j] = r /\ <<p, j>> \in Sites
    BY <1>1, <1>4 DEF Range
  <2> QED
    BY <2>1 DEF NameAt
<1> QED
  BY <1>3, <1>4

\* The temporaries of what the instruction at p defines hold it.
Computed(p, e, y) ==
  \A j \in 1 .. Len(spilled) : <<p, j>> \in Sites /\ spilled[j] \in At(blocks, p).def =>
    /\ Temp(<<p, j>>) \in DOMAIN y.val
    /\ y.val[Temp(<<p, j>>)] = e.val[spilled[j]]

(* The registers a machine reads in an instruction that means something.   *)
LEMMA OperandsThere ==
  ASSUME CodeOK, NEW p \in Instructions(blocks), NEW m, Fine(Do(m, At(blocks, p)))
  PROVE  /\ Provided(p, m)
         /\ Operands(m, At(blocks, p), Identity)
              = [k \in DOMAIN At(blocks, p).use |-> m.val[At(blocks, p).use[k]]]
<1> PICK i : i = At(blocks, p)
  OBVIOUS
<1>1. reg_n \in Nat /\ MaxNode \in Nat /\ reg_n <= MaxNode /\ i \in Insn(reg_n)
  BY CodeAt
<1>2. \A k \in DOMAIN i.use : i.use[k] \in 0 .. reg_n - 1
  BY <1>1, InsnParts
<1>3. \A k \in DOMAIN i.use : Identity[i.use[k]] = i.use[k]
  BY <1>1, <1>2 DEF Identity, Node
<1>4. Meaningful(source.arrays, m, i, Identity, Operands(m, i, Identity))
  BY Faultless DEF Fine, Do
<1>5. \A k \in DOMAIN i.use : i.use[k] \in DOMAIN m.val
  BY <1>3, <1>4 DEF Meaningful
<1>6. Provided(p, m)
  BY <1>5 DEF Provided, Uses, Range
<1> QED
  BY <1>3, <1>5, <1>6 DEF Operands, Held

LEMMA NamedParts ==
  ASSUME CodeOK, NEW p \in Instructions(blocks), NEW i, i = At(blocks, p), NEW w, w = Named(p)
  PROVE  /\ w.kind = i.kind /\ w.tag = i.tag /\ w.def = {NameAt(p, r) : r \in i.def}
         /\ DOMAIN w.use = DOMAIN i.use /\ \A k \in DOMAIN i.use : w.use[k] = NameAt(p, i.use[k])
         /\ Len(w.use) = Len(i.use)
<1>1. reg_n \in Nat /\ i \in Insn(reg_n)
  BY CodeAt
<1>2. i \in [kind : Kind, tag : Int, def : SUBSET (0 .. reg_n - 1), use : Seq(0 .. reg_n - 1)]
  BY <1>1 DEF Insn
<1> DEFINE u == [k \in DOMAIN i.use |-> NameAt(p, i.use[k])]
           D == {NameAt(p, r) : r \in i.def}
<1>3. w = [i EXCEPT !.def = D, !.use = u]
  BY DEF Named
<1>4. DOMAIN u = DOMAIN i.use /\ \A k \in DOMAIN i.use : u[k] = NameAt(p, i.use[k])
  OBVIOUS
<1>5. Len(i.use) \in Nat /\ DOMAIN i.use = 1 .. Len(i.use)
  BY <1>1, InsnParts
<1>6. Len(u) = Len(i.use)
  <2>1. u \in [1 .. Len(i.use) -> {NameAt(p, i.use[k]) : k \in DOMAIN i.use}]
    BY <1>5
  <2> QED
    BY <1>5, <2>1, CodeOf
<1> HIDE DEF u, D
<1>7. w.kind = i.kind /\ w.tag = i.tag /\ w.def = D /\ w.use = u
  BY <1>2, <1>3
<1> QED
  BY <1>4, <1>6, <1>7 DEF D

(* With its operands loaded, the renamed instruction does what the         *)
(* instruction does, and leaves what it defines in the temporaries.        *)
LEMMA NamedRuns ==
  ASSUME CodeOK, StackInv, RunInv, spilled \in Seq(0 .. reg_n - 1),
         NEW S, S = Range(spilled), S \subseteq Regs(blocks),
         reg_n + Cardinality(Sites) <= MaxNode,
         NEW p \in Instructions(blocks), ~Erased(At(blocks, p)),
         NEW m, NEW n, Matches(S, {}, m, n), NEW x, Loaded(p, m, n, x, Len(spilled)),
         NEW e, e = Do(m, At(blocks, p)), Fine(e), NEW y, y = Do(x, Named(p))
  PROVE  Matches(S, At(blocks, p).def, e, y) /\ Computed(p, e, y)
<1> PICK i : i = At(blocks, p)
  OBVIOUS
<1> PICK w : w = Named(p)
  OBVIOUS
<1> PICK in : in = Operands(m, i, Identity)
  OBVIOUS
<1> PICK N : N = Len(spilled)
  OBVIOUS
<1>1. /\ reg_n \in Nat /\ MaxNode \in Nat /\ reg_n <= MaxNode /\ i \in Insn(reg_n)
      /\ i.def \subseteq Regs(blocks)
  BY CodeAt
<1>2. /\ i.def \in SUBSET (0 .. reg_n - 1) /\ Uses(i) \in SUBSET (0 .. reg_n - 1)
      /\ \A k \in DOMAIN i.use : i.use[k] \in Uses(i)
  BY <1>1, InsnParts
<1>3. /\ w.kind = i.kind /\ w.tag = i.tag /\ w.def = {NameAt(p, r) : r \in i.def}
      /\ DOMAIN w.use = DOMAIN i.use /\ \A k \in DOMAIN i.use : w.use[k] = NameAt(p, i.use[k])
      /\ Len(w.use) = Len(i.use)
  BY NamedParts
<1>4. Provided(p, m) /\ in = [k \in DOMAIN i.use |-> m.val[i.use[k]]]
  BY OperandsThere
<1>5. Meaningful(source.arrays, m, i, Identity, in) /\ m.faults = {}
  BY Faultless DEF Fine, Do
<1>6. \A s \in Sites : Temp(s) \in Int /\ Temp(s) >= reg_n /\ Temp(s) \in Node
  <2>1. Cardinality(Sites) \in Nat /\ \A s \in Sites : Temp(s) \in reg_n .. reg_n + Cardinality(Sites) - 1
    BY TempRange
  <2> QED
    BY <1>1, <2>1 DEF Node
<1>7. /\ Shared(m, n) /\ DOMAIN m.val \subseteq 0 .. reg_n - 1
      /\ \A r \in DOMAIN m.val :
           /\ r \notin S => r \in DOMAIN n.val /\ n.val[r] = m.val[r]
           /\ r \in S \ DOMAIN remat => <<r, 0>> \in DOMAIN n.slot /\ n.slot[<<r, 0>>] = m.val[r]
           /\ r \in DOMAIN remat => m.val[r] = Num(remat[r])
      /\ \A a \in DOMAIN m.slot : a[1] \notin S
  BY DEF Matches
<1>8. /\ Still(n, x) /\ SameSlots(n, x)
      /\ \A r \in DOMAIN n.val : r < reg_n => r \in DOMAIN x.val /\ x.val[r] = n.val[r]
  BY DEF Loaded
\* Names: temporaries for what is spilled, and the rest as it was.
<1>9. ASSUME NEW r \in Uses(i) \cup i.def
      PROVE  /\ NameAt(p, r) \in Node
             /\ r \in S => \E j : Renamed(p, r, j)
             /\ r \notin S => NameAt(p, r) = r
  <2>1. /\ r \in S => \E j : Renamed(p, r, j)
        /\ r \notin S => NameAt(p, r) = r
    BY NamedPlace
  <2>2. CASE r \in S
    <3>1. PICK j : Renamed(p, r, j)
      BY <2>1, <2>2
    <3>2. NameAt(p, r) \in Node
      BY <1>6, <3>1 DEF Renamed
    <3> QED
      BY <2>1, <3>2
  <2>3. CASE r \notin S
    BY <1>1, <1>2, <2>1, <2>3 DEF Node
  <2> QED
    BY <2>1, <2>2, <2>3
<1>10. ASSUME NEW r \in Uses(i)
       PROVE  NameAt(p, r) \in DOMAIN x.val /\ x.val[NameAt(p, r)] = m.val[r]
  <2>1. r \in DOMAIN m.val /\ r \in 0 .. reg_n - 1 /\ r < reg_n
    BY <1>1, <1>2, <1>4 DEF Provided
  <2>2. CASE r \in S
    <3>1. PICK j : Renamed(p, r, j)
      BY <1>9, <2>2
    <3> QED
      BY <3>1 DEF Renamed, Loaded
  <2>3. CASE r \notin S
    <3>1. NameAt(p, r) = r
      BY <1>9, <2>3
    <3> QED
      BY <1>7, <1>8, <2>1, <2>3, <3>1
  <2> QED
    BY <2>2, <2>3
<1>11. \A r \in Node : Identity[r] = r
  BY DEF Identity
<1>12. \A k \in DOMAIN w.use : Identity[w.use[k]] \in DOMAIN x.val /\ x.val[Identity[w.use[k]]] = m.val[i.use[k]]
  BY <1>2, <1>3, <1>9, <1>10, <1>11
<1>13. Operands(x, w, Identity) = in
  BY <1>3, <1>4, <1>12 DEF Operands, Held
<1>14. Shared(m, x)
  BY <1>7, <1>8 DEF Shared, Still, Ready, SameSlots
<1>15. /\ Shared(e, y) /\ Result(x, w, in) = Result(m, i, in) /\ Written(w, in) = Written(i, in)
  <2>1. Supplied(x, w, Identity)
    BY <1>12 DEF Supplied
  <2>2. Twins(i, w)
    BY <1>3 DEF Twins
  <2>3. e = Effect(source.arrays, m, i, Identity) /\ y = Effect(source.arrays, x, w, Identity)
    BY DEF Do
  <2>4. Meaningful(source.arrays, m, i, Identity, in)
    BY <1>5
  <2>5. reg_n \in Nat /\ i \in Insn(reg_n)
    BY <1>1
  <2>6. /\ Shared(Effect(source.arrays, m, i, Identity), Effect(source.arrays, x, w, Identity))
        /\ Result(x, w, in) = Result(m, i, in)
        /\ Written(w, in) = Written(i, in)
    BY <1>13, <1>14, <2>1, <2>2, <2>4, <2>5, SameEffect
  <2> QED
    BY <2>3, <2>6
\* What the two leave.
<1> PICK v : v = Result(m, i, in)
  OBVIOUS
<1>16. {Identity[d] : d \in i.def} = i.def
  <2>1. \A d \in i.def : Identity[d] = d
    BY <1>1, <1>2, <1>11 DEF Node
  <2> QED
    BY <2>1
<1>17. {Identity[d] : d \in w.def} = w.def
  <2>1. \A d \in w.def : Identity[d] = d
    BY <1>3, <1>9, <1>11
  <2> QED
    BY <2>1
<1>18. Leaves(i.def, v, Written(i, in), m, e)
  <2>1. Leaves({Identity[d] : d \in i.def}, v, Written(i, in), m, Do(m, i))
    BY EffectLeaves DEF Do
  <2> QED
    BY <1>16, <2>1
<1>19. Leaves(w.def, v, Written(i, in), x, y)
  <2>1. Leaves({Identity[d] : d \in w.def}, Result(x, w, in), Written(w, in), x, Do(x, w))
    BY <1>13, EffectLeaves DEF Do
  <2> QED
    BY <1>15, <1>17, <2>1
<1>20. \A a \in DOMAIN Written(i, in) : a[1] \notin S
  BY <1>5, WrittenApart
<1>21. Sound(i, objects, remat)
  BY DEF RunInv
<1>22. ASSUME NEW r \in DOMAIN e.val, r \notin S
       PROVE  r \in DOMAIN y.val /\ y.val[r] = e.val[r]
  <2>1. CASE r \in i.def
    <3>1. NameAt(p, r) = r
      BY <1>9, <1>22, <2>1
    <3>2. r \in w.def
      BY <1>3, <2>1, <3>1
    <3> QED
      BY <1>18, <1>19, <2>1, <3>2 DEF Leaves
  <2>2. CASE r \notin i.def
    <3>1. r \in DOMAIN m.val /\ e.val[r] = m.val[r] /\ r \in 0 .. reg_n - 1
      BY <1>7, <1>18, <2>2 DEF Leaves
    <3>2. r < reg_n
      BY <1>1, <3>1
    <3>5. r \in DOMAIN x.val /\ x.val[r] = m.val[r]
      BY <1>7, <1>8, <1>22, <3>1, <3>2
    <3>3. \A d \in i.def : NameAt(p, d) # r
      <4>1. ASSUME NEW d \in i.def, d \in S PROVE NameAt(p, d) # r
        <5>1. PICK j : Renamed(p, d, j)
          BY <1>9, <4>1
        <5>2. NameAt(p, d) \in Int /\ NameAt(p, d) >= reg_n
          BY <1>6, <5>1 DEF Renamed
        <5> QED
          BY <1>1, <3>1, <3>2, <5>2
      <4>2. ASSUME NEW d \in i.def, d \notin S PROVE NameAt(p, d) # r
        BY <1>9, <2>2, <4>2
      <4> QED
        BY <4>1, <4>2
    <3>4. r \notin w.def
      BY <1>3, <3>3
    <3> QED
      BY <1>19, <3>1, <3>4, <3>5 DEF Leaves
  <2> QED
    BY <2>1, <2>2
<1>23. ASSUME NEW r \in DOMAIN e.val, r \in S \ (DOMAIN remat \cup i.def)
       PROVE  <<r, 0>> \in DOMAIN y.slot /\ y.slot[<<r, 0>>] = e.val[r]
  <2>1. r \in DOMAIN m.val /\ e.val[r] = m.val[r]
    BY <1>18, <1>23 DEF Leaves
  <2>2. <<r, 0>> \in DOMAIN x.slot /\ x.slot[<<r, 0>>] = m.val[r]
    BY <1>7, <1>8, <1>23, <2>1 DEF SameSlots
  <2> PICK a : a = <<r, 0>>
    OBVIOUS
  <2>3. a[1] = r
    OBVIOUS
  <2>4. a \notin DOMAIN Written(i, in)
    BY <1>20, <1>23, <2>3
  <2> QED
    BY <1>19, <2>1, <2>2, <2>4 DEF Leaves
<1>24. ASSUME NEW r \in DOMAIN e.val, r \in DOMAIN remat PROVE e.val[r] = Num(remat[r])
  <2>1. CASE r \in i.def
    <3>1. i.kind = "const" /\ i.tag = remat[r]
      BY <1>21, <1>24, <2>1 DEF Sound
    <3>2. v = Num(i.tag)
      BY <3>1 DEF Result
    <3> QED
      BY <1>18, <2>1, <3>1, <3>2 DEF Leaves
  <2>2. CASE r \notin i.def
    BY <1>7, <1>18, <1>24, <2>2 DEF Leaves
  <2> QED
    BY <2>1, <2>2
<1>25. \A a \in DOMAIN e.slot : a[1] \notin S
  BY <1>7, <1>18, <1>20 DEF Leaves
<1>26. DOMAIN e.val \subseteq 0 .. reg_n - 1
  BY <1>2, <1>7, <1>18 DEF Leaves
<1>27. Matches(S, i.def, e, y)
  BY <1>15, <1>22, <1>23, <1>24, <1>25, <1>26 DEF Matches
<1>28. Computed(p, e, y)
  <2> SUFFICES ASSUME NEW j \in 1 .. N, <<p, j>> \in Sites, spilled[j] \in i.def
               PROVE  Temp(<<p, j>>) \in DOMAIN y.val /\ y.val[Temp(<<p, j>>)] = e.val[spilled[j]]
    BY DEF Computed
  <2> PICK r : r = spilled[j]
    OBVIOUS
  <2>1. DOMAIN spilled = 1 .. N
    BY LenProperties
  <2>2. r \in S /\ r \in i.def
    BY <2>1 DEF Range
  <2>3. PICK q : Renamed(p, r, q)
    BY <1>9, <2>2
  <2>4. q \in 1 .. N /\ spilled[q] = r /\ NameAt(p, r) = Temp(<<p, q>>)
    BY <2>3 DEF Renamed
  <2>5. q = j
    <3>1. IsInjective(spilled)
      BY DEF StackInv
    <3> QED
      BY <2>1, <2>4, <3>1 DEF IsInjective
  <2>6. Temp(<<p, j>>) \in w.def
    BY <1>3, <2>2, <2>4, <2>5
  <2> QED
    BY <1>18, <1>19, <2>2, <2>6 DEF Leaves
<1> QED
  BY <1>27, <1>28

LEMMA MatchesFewer ==
  ASSUME NEW S, NEW C, NEW D, NEW m, NEW n, Matches(S, D, m, n), D \cap S \cap DOMAIN m.val \subseteq C \cup DOMAIN remat
  PROVE  Matches(S, C, m, n)
<1>1. \A r \in DOMAIN m.val : r \in S \ (DOMAIN remat \cup C) => r \in S \ (DOMAIN remat \cup D)
  OBVIOUS
<1> QED
  BY <1>1 DEF Matches

LEMMA MatchesSaved ==
  ASSUME NEW S, NEW D, NEW m, NEW n, Matches(S, D, m, n), NEW r \in S, NEW y, Saves(n, y, r, m.val[r])
  PROVE  Matches(S, D \ {r}, m, y)
<1>1. \A a \in DOMAIN m.slot : a[1] \notin S
  BY DEF Matches
<1>2. <<r, 0>>[1] = r
  OBVIOUS
<1>3. \A a \in DOMAIN m.slot : a # <<r, 0>>
  BY <1>1, <1>2
<1>4. Shared(m, y)
  BY <1>3 DEF Matches, Shared, Saves, Still, Ready
<1>5. ASSUME NEW u \in DOMAIN m.val, u \notin S PROVE u \in DOMAIN y.val /\ y.val[u] = m.val[u]
  BY <1>5 DEF Matches, Saves, SameValues
<1>6. ASSUME NEW u \in DOMAIN m.val, u \in S \ (DOMAIN remat \cup (D \ {r}))
      PROVE  <<u, 0>> \in DOMAIN y.slot /\ y.slot[<<u, 0>>] = m.val[u]
  <2>1. CASE u = r
    BY <2>1 DEF Saves
  <2>2. CASE u # r
    <3>1. <<u, 0>> \in DOMAIN n.slot /\ n.slot[<<u, 0>>] = m.val[u]
      BY <1>6, <2>2 DEF Matches
    <3>2. <<u, 0>> # <<r, 0>>
      BY <2>2
    <3> QED
      BY <3>1, <3>2 DEF Saves
  <2> QED
    BY <2>1, <2>2
<1> QED
  BY <1>1, <1>4, <1>5, <1>6 DEF Matches

LEMMA ComputedSaved ==
  ASSUME NEW p, NEW e, NEW x, NEW y, NEW r, NEW v, Computed(p, e, x), Saves(x, y, r, v)
  PROVE  Computed(p, e, y)
BY DEF Computed, Saves, SameValues

\* The registers of D that none of the last q spilled registers is.
Unsaved(D, q) == {r \in D : \A j \in Len(spilled) + 1 - q .. Len(spilled) : spilled[j] # r}

(* Stored away, the registers the instruction defines are in their slots.  *)
LEMMA WriteBacksRun ==
  ASSUME CodeOK, spilled \in Seq(0 .. reg_n - 1), NEW S, S = Range(spilled),
         reg_n + Cardinality(Sites) <= MaxNode,
         NEW p \in Instructions(blocks), ~Erased(At(blocks, p)),
         NEW e, NEW y, Matches(S, At(blocks, p).def, e, y), Computed(p, e, y)
  PROVE  Matches(S, {}, e, RunOf(y, FlattenSeq(WriteBacks(p))))
<1> PICK i : i = At(blocks, p)
  OBVIOUS
<1> PICK N : N = Len(spilled)
  OBVIOUS
<1> PICK c : c = reg_n + Cardinality(Sites)
  OBVIOUS
<1> DEFINE ss == WriteBacks(p)
<1>1. c \in Nat /\ \A s \in Sites : Temp(s) \in Node
  <2>1. /\ Cardinality(Sites) \in Nat
        /\ \A s \in Sites : Temp(s) \in reg_n .. reg_n + Cardinality(Sites) - 1
    BY TempRange
  <2>2. reg_n \in Nat /\ MaxNode \in Nat
    BY CodeAt
  <2> QED
    BY <2>1, <2>2 DEF Node
<1>2. N \in Nat /\ DOMAIN spilled = 1 .. N
  BY LenProperties
<1>3. ss \in Seq(Seq(SpillCode(c)))
  BY <1>1, ReloadsClean
<1>4. PICK M : /\ ByParts(source.arrays, Identity, y, ss, M)
               /\ After(source.arrays, Identity, y, FlattenSeq(ss)) = M[Len(ss)]
  BY <1>3, AfterParts
<1>5. Len(ss) = N /\ \A q \in 1 .. N :
        ss[q] = IF <<p, N + 1 - q>> \in Sites
                THEN WriteBack(i, spilled[N + 1 - q], Temp(<<p, N + 1 - q>>)) ELSE <<>>
  BY <1>2 DEF WriteBacks
<1>6. M[0] = y /\ \A q \in 1 .. N : M[q] = RunOf(M[q - 1], ss[q])
  BY <1>4, <1>5 DEF ByParts, RunOf
<1> HIDE DEF ss
<1> DEFINE P == {q \in 0 .. N : Matches(S, Unsaved(i.def, q), e, M[q]) /\ Computed(p, e, M[q])}
<1>7. 0 \in P
  <2>1. Unsaved(i.def, 0) = i.def
    <3>1. \A j \in N + 1 - 0 .. N : FALSE
      BY <1>2
    <3> QED
      BY <3>1 DEF Unsaved
  <2> QED
    BY <1>2, <1>6, <2>1
<1>8. ASSUME NEW q \in 1 .. N, q - 1 \in P PROVE q \in P
  <2> PICK x : x = M[q - 1]
    OBVIOUS
  <2> PICK z : z = M[q]
    OBVIOUS
  <2> PICK k : k = N + 1 - q
    OBVIOUS
  <2> PICK r : r = spilled[k]
    OBVIOUS
  <2> PICK t : t = Temp(<<p, k>>)
    OBVIOUS
  <2> PICK D : D = Unsaved(i.def, q - 1)
    OBVIOUS
  <2> PICK C : C = Unsaved(i.def, q)
    OBVIOUS
  <2>1. k \in 1 .. N /\ q \in 0 .. N /\ r \in S
    <3>1. k \in 1 .. N /\ q \in 0 .. N
      BY <1>2
    <3> QED
      BY <1>2, <3>1 DEF Range
  <2>2. Matches(S, D, e, x) /\ Computed(p, e, x)
    BY <1>8
  <2>3. z = RunOf(x, ss[q])
    BY <1>6
  <2>4. D \ {r} \subseteq C
    <3> SUFFICES ASSUME NEW u \in D, u # r PROVE u \in C
      OBVIOUS
    <3>1. u \in i.def /\ \A j \in N + 1 - (q - 1) .. N : spilled[j] # u
      BY DEF Unsaved
    <3>2. \A j \in N + 1 - q .. N : j = k \/ j \in N + 1 - (q - 1) .. N
      BY <1>2
    <3> QED
      BY <3>1, <3>2 DEF Unsaved
  <2>5. CASE <<p, k>> \in Sites /\ r \in i.def
    <3>1. ss[q] = <<Store(t, r)>>
      BY <1>5, <2>5 DEF WriteBack
    <3>2. z = Do(x, Store(t, r))
      BY <2>3, <3>1, AfterOne DEF RunOf, Do
    <3>3. t \in Node /\ t \in DOMAIN x.val /\ x.val[t] = e.val[r]
      BY <1>1, <2>1, <2>2, <2>5 DEF Computed
    <3>4. Ready(x)
      BY <2>2 DEF Matches, Shared, Ready
    <3>5. Saves(x, z, r, e.val[r])
      BY <3>2, <3>3, <3>4, SlotSaved
    <3>6. Matches(S, D \ {r}, e, z) /\ Computed(p, e, z)
      BY <2>1, <2>2, <3>5, MatchesSaved, ComputedSaved
    <3>7. Matches(S, C, e, z)
      BY <2>4, <3>6, MatchesFewer
    <3> QED
      BY <2>1, <3>6, <3>7
  <2>6. CASE ~(<<p, k>> \in Sites /\ r \in i.def)
    <3>1. ss[q] = <<>>
      BY <1>5, <2>6 DEF WriteBack
    <3>2. z = x
      BY <2>3, <3>1, AfterNone DEF RunOf
    <3>3. r \notin i.def
      <4>1. ASSUME r \in i.def PROVE FALSE
        <5>1. r \notin DOMAIN remat
          BY <2>1, <4>1 DEF Erased
        <5>2. <<p, k>> \in Sites
          BY <1>2, <2>1, <4>1, <5>1 DEF Sites
        <5> QED
          BY <2>6, <4>1, <5>2
      <4> QED
        BY <4>1
    <3>4. r \notin D
      BY <3>3 DEF Unsaved
    <3>5. Matches(S, C, e, z)
      BY <2>2, <2>4, <3>2, <3>4, MatchesFewer
    <3> QED
      BY <2>1, <2>2, <3>2, <3>5
  <2> QED
    BY <2>5, <2>6
<1> HIDE DEF P
<1>9. 0 .. N \subseteq P
  BY <1>2, <1>7, <1>8, UpToInduction
<1>10. Matches(S, Unsaved(i.def, N), e, M[N])
  BY <1>2, <1>9 DEF P
<1>11. Unsaved(i.def, N) \cap S = {}
  <2>1. \A r \in S : \E j \in 1 .. N : spilled[j] = r
    BY <1>2 DEF Range
  <2>2. N + 1 - N = 1
    BY <1>2
  <2> QED
    BY <2>1, <2>2 DEF Unsaved
<1>12. Matches(S, {}, e, M[N])
  BY <1>10, <1>11, MatchesFewer
<1> QED
  BY <1>4, <1>5, <1>12 DEF RunOf, ss

\* Code t does to a machine that goes along what code s does.
Serves(S, s, t) ==
  \A m, n : Matches(S, {}, m, n) /\ Fine(RunOf(m, s)) => Matches(S, {}, RunOf(m, s), RunOf(n, t))

(* Nothing takes the place of an instruction that loads a spilled constant.*)
LEMMA ErasedServes ==
  ASSUME CodeOK, RunInv, spilled \in Seq(0 .. reg_n - 1),
         NEW p \in Instructions(blocks), Erased(At(blocks, p)),
         NEW m, NEW n, Matches(Range(spilled), {}, m, n), Fine(Do(m, At(blocks, p)))
  PROVE  Matches(Range(spilled), {}, Do(m, At(blocks, p)), n)
<1> PICK S : S = Range(spilled)
  OBVIOUS
<1> PICK i : i = At(blocks, p)
  OBVIOUS
<1> PICK e : e = Do(m, i)
  OBVIOUS
<1> PICK in : in = Operands(m, i, Identity)
  OBVIOUS
<1>1. reg_n \in Nat /\ MaxNode \in Nat /\ reg_n <= MaxNode /\ i \in Insn(reg_n)
  BY CodeAt
<1>2. PICK r \in i.def : r \in S /\ r \in DOMAIN remat
  BY DEF Erased
<1>3. Sound(i, objects, remat)
  BY DEF RunInv
<1>4. i.kind = "const" /\ i.def = {r} /\ i.tag = remat[r]
  BY <1>2, <1>3 DEF Sound
<1>5. r \in 0 .. reg_n - 1
  BY <1>1, <1>2, InsnParts
<1>6. Identity[r] = r
  BY <1>1, <1>5 DEF Identity, Node
<1>7. Result(m, i, in) = Num(remat[r]) /\ Written(i, in) = <<>> /\ SpChange(i) = 0 /\ Seen(m, i, in) = m.seen
  BY <1>4 DEF Result, Written, SpChange, Seen
<1>8. Leaves({r}, Num(remat[r]), <<>>, m, e)
  <2>1. Leaves({Identity[d] : d \in i.def}, Result(m, i, in), Written(i, in), m, Do(m, i))
    BY EffectLeaves DEF Do
  <2>2. {Identity[d] : d \in i.def} = {r}
    BY <1>4, <1>6
  <2> QED
    BY <1>7, <2>1, <2>2
<1>9. e.sp = m.sp /\ e.seen = m.seen /\ e.pushed = m.pushed /\ e.faults = {}
  <2>1. /\ e.sp = m.sp + SpChange(i)
        /\ e.pushed = CASE i.kind = "push" -> <<in[1][2]>> \o m.pushed
                        [] i.kind = "call" -> <<>>
                        [] OTHER -> m.pushed
        /\ e.seen = Seen(m, i, in)
    BY EffectParts DEF Do
  <2>2. m.sp \in Int
    BY DEF Matches, Shared
  <2> QED
    BY <1>4, <1>7, <2>1, <2>2 DEF Fine
<1>10. DOMAIN <<>> = {}
  BY EmptySeq
<1>11. Shared(e, n)
  BY <1>8, <1>9, <1>10 DEF Matches, Shared, Leaves
<1>12. DOMAIN e.val \subseteq 0 .. reg_n - 1
  BY <1>5, <1>8 DEF Matches, Leaves
<1>13. ASSUME NEW u \in DOMAIN e.val
       PROVE  /\ u \notin S => u \in DOMAIN n.val /\ n.val[u] = e.val[u]
              /\ u \in S \ DOMAIN remat => <<u, 0>> \in DOMAIN n.slot /\ n.slot[<<u, 0>>] = e.val[u]
              /\ u \in DOMAIN remat => e.val[u] = Num(remat[u])
  <2>1. CASE u = r
    <3>1. e.val[u] = Num(remat[u])
      BY <1>8, <2>1 DEF Leaves
    <3> QED
      BY <1>2, <2>1, <3>1
  <2>2. CASE u # r
    <3>1. u \in DOMAIN m.val /\ e.val[u] = m.val[u]
      BY <1>8, <2>2 DEF Leaves
    <3>2. /\ u \notin S => u \in DOMAIN n.val /\ n.val[u] = m.val[u]
          /\ u \in S \ DOMAIN remat => <<u, 0>> \in DOMAIN n.slot /\ n.slot[<<u, 0>>] = m.val[u]
          /\ u \in DOMAIN remat => m.val[u] = Num(remat[u])
      BY <3>1 DEF Matches
    <3> QED
      BY <3>1, <3>2
  <2> QED
    BY <2>1, <2>2
<1>14. \A a \in DOMAIN e.slot : a[1] \notin S
  BY <1>8, <1>10 DEF Matches, Leaves
<1>15. Matches(S, {}, e, n)
  BY <1>11, <1>12, <1>13, <1>14 DEF Matches
<1> QED
  BY <1>15

LEMMA RunAround ==
  ASSUME NEW T, NEW a \in Seq(T), NEW w \in T, NEW b \in Seq(T), NEW n
  PROVE  RunOf(n, a \o <<w>> \o b) = RunOf(Do(RunOf(n, a), w), b)
<1>1. ASSUME NEW u \in Seq(T), NEW v \in Seq(T), NEW g PROVE RunOf(g, u \o v) = RunOf(RunOf(g, u), v)
  BY AfterBoth DEF RunOf
<1>2. ASSUME NEW u \in Seq(T), NEW v \in Seq(T) PROVE u \o v \in Seq(T)
  BY ConcatProperties
<1>3. <<w>> \in Seq(T)
  OBVIOUS
<1>4. ASSUME NEW d \in Seq(T) PROVE RunOf(n, (a \o d) \o b) = RunOf(RunOf(RunOf(n, a), d), b)
  <2>1. RunOf(n, a \o d) = RunOf(RunOf(n, a), d)
    BY <1>1
  <2>2. RunOf(n, (a \o d) \o b) = RunOf(RunOf(n, a \o d), b)
    BY <1>1, <1>2
  <2> QED
    BY <2>1, <2>2
<1>5. RunOf(n, (a \o <<w>>) \o b) = RunOf(RunOf(RunOf(n, a), <<w>>), b)
  BY <1>3, <1>4
<1>6. RunOf(RunOf(n, a), <<w>>) = Do(RunOf(n, a), w)
  BY AfterOne DEF RunOf, Do
<1> QED
  BY <1>5, <1>6

LEMMA RewrittenServes ==
  ASSUME CodeOK, StackInv, RunInv, spilled \in Seq(0 .. reg_n - 1), Range(spilled) \subseteq Regs(blocks),
         reg_n + Cardinality(Sites) <= MaxNode, NEW p \in Instructions(blocks)
  PROVE  Serves(Range(spilled), <<At(blocks, p)>>, Rewritten(p))
<1> PICK S : S = Range(spilled)
  OBVIOUS
<1> PICK i : i = At(blocks, p)
  OBVIOUS
<1> SUFFICES ASSUME NEW m, NEW n, Matches(S, {}, m, n), Fine(RunOf(m, <<i>>))
             PROVE  Matches(S, {}, RunOf(m, <<i>>), RunOf(n, Rewritten(p)))
  BY DEF Serves
<1> PICK e : e = Do(m, i)
  OBVIOUS
<1>1. RunOf(m, <<i>>) = e /\ Fine(e)
  BY AfterOne DEF RunOf, Do
<1>2. CASE Erased(i)
  <2>1. Rewritten(p) = <<>>
    BY <1>2, RewrittenForm
  <2>2. RunOf(n, Rewritten(p)) = n
    BY <2>1, AfterNone DEF RunOf
  <2>3. Matches(S, {}, e, n)
    BY <1>1, <1>2, ErasedServes
  <2> QED
    BY <1>1, <2>2, <2>3
<1>3. CASE ~Erased(i)
  <2> PICK a : a = FlattenSeq(Reloads(p))
    OBVIOUS
  <2> PICK b : b = FlattenSeq(WriteBacks(p))
    OBVIOUS
  <2> PICK w : w = Named(p)
    OBVIOUS
  <2>1. Rewritten(p) = a \o <<w>> \o b
    BY <1>3, RewrittenForm
  <2> PICK c : c = reg_n + Cardinality(Sites)
    OBVIOUS
  <2>2. a \in Seq(Clean(c)) /\ w \in Clean(c) /\ b \in Seq(Clean(c))
    <3>1. c \in Nat
      BY TempRange, CodeAt
    <3>2. a \in Seq(SpillCode(c)) /\ b \in Seq(SpillCode(c))
      BY <3>1, ReloadsClean
    <3>3. SpillCode(c) \subseteq Clean(c)
      BY DEF SpillCode
    <3>4. a \in Seq(Clean(c)) /\ b \in Seq(Clean(c))
      BY <3>2, <3>3, SeqMonotonic
    <3> QED
      BY <1>3, <3>1, <3>4, NamedClean
  <2> PICK x : x = RunOf(n, a)
    OBVIOUS
  <2> PICK y : y = Do(x, w)
    OBVIOUS
  <2>4. RunOf(n, Rewritten(p)) = RunOf(y, b)
    BY <2>1, <2>2, RunAround
  <2>5. Provided(p, m)
    BY <1>1, OperandsThere
  <2>6. Loaded(p, m, n, x, Len(spilled))
    BY <2>5, ReloadsRun
  <2>7. Matches(S, i.def, e, y) /\ Computed(p, e, y)
    BY <1>1, <1>3, <2>6, NamedRuns
  <2>8. Matches(S, {}, e, RunOf(y, b))
    BY <1>3, <2>7, WriteBacksRun
  <2> QED
    BY <1>1, <2>4, <2>8
<1> QED
  BY <1>2, <1>3

-------------------------------------------------------------------------------
(***************************************************************************)
(* Code that serves, part by part.                                         *)
(***************************************************************************)
LEMMA PartsServe ==
  ASSUME NEW T, NEW ss \in Seq(Seq(T)), NEW tt \in Seq(Seq(T)), Len(tt) = Len(ss),
         NEW S, \A k \in 1 .. Len(ss) : Serves(S, ss[k], tt[k])
  PROVE  Serves(S, FlattenSeq(ss), FlattenSeq(tt))
<1> PICK N : N = Len(ss)
  OBVIOUS
<1>1. N \in Nat
  BY LenProperties
<1> SUFFICES ASSUME NEW m, NEW n, Matches(S, {}, m, n), Fine(RunOf(m, FlattenSeq(ss)))
             PROVE  Matches(S, {}, RunOf(m, FlattenSeq(ss)), RunOf(n, FlattenSeq(tt)))
  BY DEF Serves
<1>2. PICK M : /\ ByParts(source.arrays, Identity, m, ss, M)
               /\ After(source.arrays, Identity, m, FlattenSeq(ss)) = M[N]
  BY AfterParts
<1>3. PICK L : /\ ByParts(source.arrays, Identity, n, tt, L)
               /\ After(source.arrays, Identity, n, FlattenSeq(tt)) = L[N]
  BY AfterParts
<1>4. \A k \in 0 .. N : Fine(M[k])
  <2>1. Fine(M[N])
    BY <1>2 DEF RunOf
  <2> QED
    BY <1>2, <2>1, FaultlessParts
<1> DEFINE P == {k \in 0 .. N : Matches(S, {}, M[k], L[k])}
<1>5. 0 \in P
  BY <1>1, <1>2, <1>3 DEF ByParts
<1>6. ASSUME NEW k \in 1 .. N, k - 1 \in P PROVE k \in P
  <2>1. k \in 0 .. N /\ Matches(S, {}, M[k - 1], L[k - 1])
    BY <1>1, <1>6
  <2>2. M[k] = RunOf(M[k - 1], ss[k]) /\ L[k] = RunOf(L[k - 1], tt[k])
    BY <1>2, <1>3 DEF ByParts, RunOf
  <2>3. Fine(M[k])
    BY <1>4, <2>1
  <2>4. Matches(S, {}, M[k], L[k])
    BY <2>1, <2>2, <2>3 DEF Serves
  <2> QED
    BY <2>1, <2>4
<1> HIDE DEF P
<1>7. 0 .. N \subseteq P
  BY <1>1, <1>5, <1>6, UpToInduction
<1>8. Matches(S, {}, M[N], L[N])
  BY <1>1, <1>7 DEF P
<1> QED
  BY <1>2, <1>3, <1>8 DEF RunOf

\* Code as parts of one instruction.
Singles(s) == [k \in 1 .. Len(s) |-> <<s[k]>>]

LEMMA SinglesRun ==
  ASSUME NEW T, NEW s \in Seq(T), NEW m
  PROVE  /\ Singles(s) \in Seq(Seq(T)) /\ Len(Singles(s)) = Len(s)
         /\ RunOf(m, FlattenSeq(Singles(s))) = RunOf(m, s)
<1> PICK N : N = Len(s)
  OBVIOUS
<1> DEFINE ss == Singles(s)
<1>1. N \in Nat /\ \A k \in 1 .. N : s[k] \in T
  BY LenProperties
<1>2. ss \in [1 .. N -> Seq(T)] /\ \A k \in 1 .. N : ss[k] = <<s[k]>>
  BY <1>1 DEF Singles
<1> HIDE DEF ss
<1>3. ss \in Seq(Seq(T)) /\ Len(ss) = N
  BY <1>1, <1>2, CodeOf
<1>4. PICK M : /\ ByParts(source.arrays, Identity, m, ss, M)
               /\ After(source.arrays, Identity, m, FlattenSeq(ss)) = M[Len(ss)]
  BY <1>3, AfterParts
<1>5. PICK E : Trace(source.arrays, Identity, m, s, E) /\ After(source.arrays, Identity, m, s) = E[N]
  BY AfterTrace
<1>6. Begins(source.arrays, Identity, m, s, N, M)
  <2>1. \A k \in 1 .. N : M[k] = Effect(source.arrays, M[k - 1], s[k], Identity)
    <3> TAKE k \in 1 .. N
    <3> PICK x : x = M[k - 1]
      OBVIOUS
    <3> PICK i : i = s[k]
      OBVIOUS
    <3>1. M[k] = After(source.arrays, Identity, x, <<i>>)
      BY <1>2, <1>3, <1>4 DEF ByParts
    <3>2. After(source.arrays, Identity, x, <<i>>) = Effect(source.arrays, x, i, Identity)
      BY AfterOne
    <3> QED
      BY <3>1, <3>2
  <2> QED
    BY <1>4, <2>1 DEF ByParts, Begins
<1>7. Begins(source.arrays, Identity, m, s, N, E)
  BY <1>5 DEF Trace, Begins
<1>8. M[N] = E[N]
  BY <1>1, <1>6, <1>7, TraceUnique
<1> QED
  BY <1>3, <1>4, <1>5, <1>8 DEF RunOf, ss

(* Replaced instruction by instruction, code serves.                       *)
LEMMA CodeServes ==
  ASSUME NEW T, NEW s \in Seq(T), NEW tt \in Seq(Seq(T)), Len(tt) = Len(s),
         NEW S, \A k \in 1 .. Len(s) : Serves(S, <<s[k]>>, tt[k])
  PROVE  Serves(S, s, FlattenSeq(tt))
<1>1. Singles(s) \in Seq(Seq(T)) /\ Len(Singles(s)) = Len(s)
  BY SinglesRun
<1>2. \A k \in 1 .. Len(Singles(s)) : Serves(S, Singles(s)[k], tt[k])
  BY <1>1 DEF Singles
<1>3. Serves(S, FlattenSeq(Singles(s)), FlattenSeq(tt))
  BY <1>1, <1>2, PartsServe
<1>4. \A m : RunOf(m, FlattenSeq(Singles(s))) = RunOf(m, s)
  BY SinglesRun
<1> QED
  BY <1>3, <1>4 DEF Serves

(* Along a path, blocks that serve.                                        *)
LEMMA PathServes ==
  ASSUME NEW D, NEW path \in Seq(D), NEW T, NEW bs, NEW cs,
         \A b \in D : bs[b].insts \in Seq(T) /\ cs[b].insts \in Seq(T),
         NEW S, \A b \in D : Serves(S, bs[b].insts, cs[b].insts)
  PROVE  Serves(S, CodeAlong(bs, path), CodeAlong(cs, path))
<1> PICK N : N = Len(path)
  OBVIOUS
<1>1. N \in Nat /\ DOMAIN path = 1 .. N /\ \A k \in 1 .. N : path[k] \in D
  BY LenProperties
<1> DEFINE ss == [k \in DOMAIN path |-> bs[path[k]].insts]
           tt == [k \in DOMAIN path |-> cs[path[k]].insts]
<1>2. ss \in [1 .. N -> Seq(T)] /\ tt \in [1 .. N -> Seq(T)]
  BY <1>1
<1>3. \A k \in 1 .. N : Serves(S, ss[k], tt[k])
  BY <1>1
<1>4. CodeAlong(bs, path) = FlattenSeq(ss) /\ CodeAlong(cs, path) = FlattenSeq(tt)
  BY DEF CodeAlong
<1> HIDE DEF ss, tt
<1>5. ss \in Seq(Seq(T)) /\ tt \in Seq(Seq(T)) /\ Len(ss) = N /\ Len(tt) = N
  BY <1>1, <1>2, CodeOf
<1>6. Serves(S, FlattenSeq(ss), FlattenSeq(tt))
  BY <1>3, <1>5, PartsServe
<1> QED
  BY <1>4, <1>6

(* Code that is replaced instruction by instruction runs as it did.        *)
LEMMA PatchServes ==
  ASSUME CodeOK, NEW S, NEW f,
         \A p \in Instructions(blocks) :
           f[p] \in Seq(Insn(MaxNode)) /\ Serves(S, <<At(blocks, p)>>, f[p]),
         NEW cs, \A b \in DOMAIN blocks : cs[b].insts = FlattenSeq(InPlace(f, b)),
         NEW path \in Seq(DOMAIN blocks)
  PROVE  Serves(S, CodeAlong(blocks, path), CodeAlong(cs, path))
<1> PICK T : T = Insn(MaxNode)
  OBVIOUS
<1>1. \A b \in DOMAIN blocks : blocks[b].insts \in Seq(T)
  BY CodeAt
<1>2. ASSUME NEW b \in DOMAIN blocks
      PROVE  cs[b].insts \in Seq(T) /\ Serves(S, blocks[b].insts, cs[b].insts)
  <2> PICK s \in Seq(T) : s = blocks[b].insts
    BY <1>1
  <2> DEFINE tt == InPlace(f, b)
  <2>1. Len(s) \in Nat /\ DOMAIN s = 1 .. Len(s)
    BY LenProperties
  <2>2. \A k \in 1 .. Len(s) : <<b, k>> \in Instructions(blocks) /\ At(blocks, <<b, k>>) = s[k]
    BY <2>1 DEF Instructions, At
  <2>3. \A k \in 1 .. Len(s) : f[<<b, k>>] \in Seq(T) /\ Serves(S, <<s[k]>>, f[<<b, k>>])
    BY <2>2
  <2>4. tt = [k \in 1 .. Len(s) |-> f[<<b, k>>]]
    BY <2>1 DEF InPlace
  <2> HIDE DEF tt
  <2>5. tt \in [1 .. Len(s) -> Seq(T)] /\ \A k \in 1 .. Len(s) : Serves(S, <<s[k]>>, tt[k])
    BY <2>3, <2>4
  <2>6. tt \in Seq(Seq(T)) /\ Len(tt) = Len(s)
    BY <2>1, <2>5, CodeOf
  <2>7. Serves(S, s, FlattenSeq(tt))
    BY <2>5, <2>6, CodeServes
  <2>8. FlattenSeq(tt) \in Seq(T)
    BY <2>6, Flattened
  <2> QED
    BY <2>7, <2>8 DEF tt
<1> QED
  BY <1>1, <1>2, PathServes

(* So the program keeps its meaning.                                       *)
LEMMA MeaningKept ==
  ASSUME CodeOK, StackInv, RunInv, NEW S, Matches(S, {}, AtStart, AtStart), NEW f,
         \A p \in Instructions(blocks) :
           f[p] \in Seq(Insn(MaxNode)) /\ Serves(S, <<At(blocks, p)>>, f[p]),
         NEW cs, \A b \in DOMAIN blocks : cs[b].insts = FlattenSeq(InPlace(f, b)),
         NEW path \in source.paths
  PROVE  /\ Outcome(source.arrays, cs, Identity, path).faults = {}
         /\ Outcome(source.arrays, cs, Identity, path).seen = Behaviour(source.blocks, Identity, path)
<1>1. path \in Seq(DOMAIN blocks)
  <2>1. source \in Programs /\ DOMAIN blocks = DOMAIN source.blocks
    BY DEF StackInv
  <2>2. source.paths \subseteq Seq(DOMAIN source.blocks)
    BY <2>1, StackAssumption
  <2> QED
    BY <2>1, <2>2
<1>2. Serves(S, CodeAlong(blocks, path), CodeAlong(cs, path))
  BY <1>1, PatchServes
<1> PICK m : m = RunOf(AtStart, CodeAlong(blocks, path))
  OBVIOUS
<1> PICK n : n = RunOf(AtStart, CodeAlong(cs, path))
  OBVIOUS
<1>3. m = Outcome(source.arrays, blocks, Identity, path) /\ n = Outcome(source.arrays, cs, Identity, path)
  BY DEF Outcome, RunOf
<1>4. m.faults = {} /\ m.seen = Behaviour(source.blocks, Identity, path)
  BY <1>3 DEF RunInv
<1>5. Matches(S, {}, m, n)
  BY <1>2, <1>4 DEF Serves, Fine
<1>6. n.faults = {} /\ n.seen = m.seen
  BY <1>5 DEF Matches, Shared
<1> QED
  BY <1>3, <1>4, <1>6

LEMMA StartMatches ==
  ASSUME CodeOK, RunInv, NEW S, S \cap Machine = {}
  PROVE  Matches(S, {}, AtStart, AtStart)
<1>1. K \in Nat /\ reg_n \in Nat /\ K <= reg_n
  BY RegisterAssumption, CodeAt DEF CodeOK
<1>2. /\ AtStart.faults = {} /\ AtStart.sp = 0 /\ DOMAIN AtStart.val = Machine
      /\ DOMAIN AtStart.slot = {}
  BY DEF AtStart
<1>3. Shared(AtStart, AtStart)
  BY <1>2 DEF Shared
<1>4. Machine \subseteq 0 .. reg_n - 1
  BY <1>1 DEF Machine
<1>5. DOMAIN remat \cap Machine = {}
  BY DEF RunInv
<1> QED
  BY <1>2, <1>3, <1>4, <1>5 DEF Matches

(* Where the instructions of the new code come from.                       *)
LEMMA PatchParts ==
  ASSUME CodeOK, NEW T, NEW f, \A p \in Instructions(blocks) : f[p] \in Seq(T),
         NEW cs, DOMAIN cs = DOMAIN blocks,
         \A b \in DOMAIN blocks : cs[b].insts = FlattenSeq(InPlace(f, b))
  PROVE  \A q \in Instructions(cs) : At(cs, q) \in T
<1> SUFFICES ASSUME NEW q \in Instructions(cs) PROVE At(cs, q) \in T
  OBVIOUS
<1>1. PICK b \in DOMAIN blocks : \E k \in DOMAIN cs[b].insts : q = <<b, k>>
  BY DEF Instructions
<1>2. PICK k \in DOMAIN cs[b].insts : q = <<b, k>>
  BY <1>1
<1> PICK s \in Seq(Insn(MaxNode)) : s = blocks[b].insts
  BY CodeAt
<1> DEFINE tt == InPlace(f, b)
<1>3. Len(s) \in Nat /\ DOMAIN s = 1 .. Len(s)
  BY LenProperties
<1>4. \A j \in 1 .. Len(s) : <<b, j>> \in Instructions(blocks)
  BY <1>3 DEF Instructions
<1>5. tt \in [1 .. Len(s) -> Seq(T)]
  BY <1>3, <1>4 DEF InPlace
<1> HIDE DEF tt
<1>6. tt \in Seq(Seq(T))
  BY <1>3, <1>5, CodeOf
<1> PICK u : u = cs[b].insts
  OBVIOUS
<1>7. u \in Seq(T)
  BY <1>6, Flattened DEF tt
<1>8. u[k] \in T
  BY <1>2, <1>7, LenProperties
<1> QED
  BY <1>2, <1>8 DEF At

-------------------------------------------------------------------------------
(***************************************************************************)
(* Spilling keeps the code sound: the new loads and stores have slots, and *)
(* the temporaries of constants are defined by them alone.                 *)
(***************************************************************************)
LEMMA FlattenCovers ==
  ASSUME NEW T, NEW ss \in Seq(Seq(T)), NEW k \in 1 .. Len(ss), NEW x, x \in Range(ss[k])
  PROVE  x \in Range(FlattenSeq(ss))
<1> PICK N : N = Len(ss)
  OBVIOUS
<1>1. N \in Nat /\ \A q \in 1 .. N : ss[q] \in Seq(T)
  BY LenProperties
<1>2. PICK g : JoinedUp(ss, T, g)
  BY FlattenSteps
<1>3. /\ FlattenSeq(ss) = g[N]
      /\ \A q \in 0 .. N : g[q] \in Seq(T)
      /\ \A q \in 1 .. N : g[q] = g[q - 1] \o ss[q]
  BY <1>2 DEF JoinedUp
<1> DEFINE P == {q \in 0 .. N : q >= k => x \in Range(g[q])}
<1>4. 0 \in P
  BY <1>1
<1>5. ASSUME NEW q \in 1 .. N, q - 1 \in P PROVE q \in P
  <2> PICK a \in Seq(T) : a = g[q - 1]
    BY <1>1, <1>3
  <2> PICK b \in Seq(T) : b = ss[q]
    BY <1>1
  <2>1. g[q] = a \o b
    BY <1>3
  <2>2. Range(g[q]) = Range(a) \cup Range(b)
    BY <2>1, RangeConcatenation
  <2>3. q \in 0 .. N
    BY <1>1
  <2>4. ASSUME q >= k PROVE x \in Range(g[q])
    <3>1. q = k \/ q - 1 >= k
      BY <1>1, <2>4
    <3> QED
      BY <1>5, <2>2, <3>1
  <2> QED
    BY <2>3, <2>4
<1> HIDE DEF P
<1>6. 0 .. N \subseteq P
  BY <1>1, <1>4, <1>5, UpToInduction
<1> QED
  BY <1>1, <1>3, <1>6 DEF P

(* A spilled register that is no constant has a slot.                      *)
LEMMA SlotsThere ==
  ASSUME objects \in Seq(Objects), spilled \in Seq(Nat), Spilling
  PROVE  /\ Range(objects) \subseteq Range(objects')
         /\ \A j \in DOMAIN spilled : spilled[j] \notin DOMAIN remat => Slot(spilled[j]) \in Range(objects')
<1> DEFINE N == Len(spilled)
           ss == [k \in DOMAIN spilled |-> SlotFor(spilled[k])]
<1>1. N \in Nat /\ DOMAIN spilled = 1 .. N /\ \A k \in 1 .. N : spilled[k] \in Nat
  BY LenProperties
<1>2. objects' = objects \o FlattenSeq(ss)
  BY DEF Spilling
<1>3. \A n \in Nat : SlotFor(n) \in Seq(Objects)
  <2> TAKE n \in Nat
  <2>1. Slot(n) \in Objects
    BY DEF Slot, Objects
  <2> QED
    BY <2>1 DEF SlotFor
<1>4. ss \in [1 .. N -> Seq(Objects)] /\ \A k \in 1 .. N : ss[k] = SlotFor(spilled[k])
  BY <1>1, <1>3
<1> HIDE DEF N, ss
<1>5. ss \in Seq(Seq(Objects)) /\ Len(ss) = N
  BY <1>1, <1>4, CodeOf
<1> PICK a \in Seq(Objects) : a = objects
  OBVIOUS
<1> PICK b \in Seq(Objects) : b = FlattenSeq(ss)
  BY <1>5, Flattened
<1>6. Range(objects') = Range(a) \cup Range(b)
  BY <1>2, RangeConcatenation
<1>7. ASSUME NEW j \in DOMAIN spilled, spilled[j] \notin DOMAIN remat
      PROVE  Slot(spilled[j]) \in Range(objects')
  <2> PICK x : x = Slot(spilled[j])
    OBVIOUS
  <2>1. j \in 1 .. N /\ ss[j] = <<x>>
    BY <1>1, <1>4, <1>7 DEF SlotFor
  <2>2. x \in Range(<<x>>)
    BY DEF Range
  <2>3. x \in Range(b)
    BY <1>5, <2>1, <2>2, FlattenCovers
  <2> QED
    BY <1>6, <2>3
<1> QED
  BY <1>6, <1>7

(* What is known constant after a rewrite: what was, and the temporaries   *)
(* of what was.                                                            *)
ConstantsKept ==
  /\ \A s \in Sites : Temp(s) \in DOMAIN remat' =>
       spilled[s[2]] \in DOMAIN remat /\ remat'[Temp(s)] = remat[spilled[s[2]]]
  /\ \A r \in 0 .. reg_n - 1 : r \in DOMAIN remat' => r \in DOMAIN remat /\ remat'[r] = remat[r]
  /\ DOMAIN remat' \subseteq DOMAIN remat \cup {Temp(s) : s \in Sites}

LEMMA RematAfter ==
  ASSUME CodeOK, spilled \in Seq(0 .. reg_n - 1), Rewrite
  PROVE  ConstantsKept
<1> DEFINE again == {s \in Sites : spilled[s[2]] \in DOMAIN remat}
           from(r) == CHOOSE s \in again : Temp(s) = r
<1>1. remat' = [r \in DOMAIN remat \cup {Temp(s) : s \in again} |->
                  IF r \in DOMAIN remat THEN remat[r] ELSE remat[spilled[from(r)[2]]]]
  BY DEF Rewrite
<1>2. again \subseteq Sites
  OBVIOUS
<1>3. reg_n \in Nat /\ DOMAIN remat \subseteq 0 .. reg_n - 1
  BY CodeAt DEF CodeOK
<1>4. \A s \in Sites : Temp(s) \in Int /\ Temp(s) >= reg_n
  <2>1. Cardinality(Sites) \in Nat /\ \A s \in Sites : Temp(s) \in reg_n .. reg_n + Cardinality(Sites) - 1
    BY TempRange
  <2> QED
    BY <1>3, <2>1
<1>5. ASSUME NEW s \in Sites, Temp(s) \in DOMAIN remat'
      PROVE  spilled[s[2]] \in DOMAIN remat /\ remat'[Temp(s)] = remat[spilled[s[2]]]
  <2> PICK t : t = Temp(s)
    OBVIOUS
  <2>1. t \notin DOMAIN remat
    BY <1>3, <1>4
  <2>2. t \in {Temp(u) : u \in again}
    BY <1>1, <1>5, <2>1
  <2>3. from(t) \in again /\ Temp(from(t)) = t
    BY <2>2
  <2>4. remat'[t] = remat[spilled[from(t)[2]]]
    BY <1>1, <1>5, <2>1
  <2> HIDE DEF from
  <2>5. from(t) = s
    BY <1>2, <2>3, TempsApart
  <2> QED
    BY <2>3, <2>4, <2>5
<1>6. ASSUME NEW r \in 0 .. reg_n - 1, r \in DOMAIN remat' PROVE r \in DOMAIN remat /\ remat'[r] = remat[r]
  <2>1. r \notin {Temp(u) : u \in again}
    BY <1>2, <1>3, <1>4
  <2>2. r \in DOMAIN remat
    BY <1>1, <1>6, <2>1
  <2> HIDE DEF from
  <2> QED
    BY <1>1, <2>2
<1>7. DOMAIN remat' \subseteq DOMAIN remat \cup {Temp(s) : s \in Sites}
  <2> HIDE DEF from
  <2> QED
    BY <1>1, <1>2
<1> QED
  BY <1>5, <1>6, <1>7 DEF ConstantsKept

\* The instructions that fit the objects and constants after the step.
Fitting == {i \in Insn(MaxNode) : Sound(i, objects', remat')}

LEMMA RewrittenSound ==
  ASSUME CodeOK, StackInv, RunInv, spilled \in Seq(0 .. reg_n - 1),
         reg_n + Cardinality(Sites) <= MaxNode, Spilling, NEW p \in Instructions(blocks)
  PROVE  Rewritten(p) \in Seq(Fitting)
<1> PICK i : i = At(blocks, p)
  OBVIOUS
<1> PICK N : N = Len(spilled)
  OBVIOUS
<1> PICK c : c = reg_n + Cardinality(Sites)
  OBVIOUS
<1>1. /\ reg_n \in Nat /\ MaxNode \in Nat /\ reg_n <= MaxNode /\ i \in Insn(reg_n)
      /\ c \in Nat /\ c <= MaxNode
  <2>1. reg_n \in Nat /\ MaxNode \in Nat /\ reg_n <= MaxNode /\ i \in Insn(reg_n)
    BY CodeAt
  <2>2. Cardinality(Sites) \in Nat
    BY TempRange
  <2> QED
    BY <2>1, <2>2
<1>2. N \in Nat /\ DOMAIN spilled = 1 .. N /\ \A j \in 1 .. N : spilled[j] \in 0 .. reg_n - 1
  BY LenProperties
<1>3. ConstantsKept
  BY RematAfter DEF Spilling
<1>4. /\ Range(objects) \subseteq Range(objects')
      /\ \A j \in 1 .. N : spilled[j] \notin DOMAIN remat => Slot(spilled[j]) \in Range(objects')
  <2>1. spilled \in Seq(Nat)
    <3>1. 0 .. reg_n - 1 \subseteq Nat
      BY <1>1
    <3> QED
      BY <3>1, SeqMonotonic
  <2>2. objects \in Seq(Objects)
    BY DEF StackInv, Objects
  <2> QED
    BY <1>2, <2>1, <2>2, SlotsThere
<1>5. Sound(i, objects, remat)
  BY DEF RunInv
<1>6. SpillCode(c) \subseteq Insn(MaxNode) /\ Clean(c) \subseteq Insn(MaxNode)
  <2>1. SpillCode(c) \subseteq Insn(c) /\ Clean(c) \subseteq Insn(c)
    BY DEF SpillCode, Clean
  <2>2. \A k \in Insn(c) : k \in Insn(MaxNode)
    <3> TAKE k \in Insn(c)
    <3>1. k.def \subseteq 0 .. c - 1 /\ Uses(k) \subseteq 0 .. c - 1
      BY <1>1, InsnParts
    <3>2. 0 .. c - 1 \subseteq 0 .. MaxNode - 1
      BY <1>1
    <3> QED
      BY <1>1, <3>1, <3>2, InsnBelow
  <2> QED
    BY <2>1, <2>2
<1>7. <<>> \in Seq(Fitting) /\ \A k \in Fitting : <<k>> \in Seq(Fitting)
  OBVIOUS
<1>8. CASE Erased(i)
  BY <1>7, <1>8, RewrittenForm
<1>9. CASE ~Erased(i)
  <2>1. ASSUME NEW j \in 1 .. N, <<p, j>> \in Sites
        PROVE  /\ Reload(i, spilled[j], Temp(<<p, j>>)) \in Seq(Fitting)
               /\ WriteBack(i, spilled[j], Temp(<<p, j>>)) \in Seq(Fitting)
    <3> PICK t : t = Temp(<<p, j>>)
      OBVIOUS
    <3> PICK r : r = spilled[j]
      OBVIOUS
    <3> PICK s \in Sites : s = <<p, j>>
      BY <2>1
    <3>1. r \in 0 .. reg_n - 1 /\ r \in Int /\ r \in Range(spilled) /\ s[2] = j
      <4>1. r \in Range(spilled)
        BY <1>2 DEF Range
      <4> QED
        BY <1>2, <4>1
    <3>2. t \in DOMAIN remat' => r \in DOMAIN remat /\ remat'[t] = remat[r]
      BY <1>3, <3>1 DEF ConstantsKept
    <3>3. t \in (0 .. c - 1) \cap Kept(c)
      BY <1>1, TempClean
    <3>4. \A v \in Int : /\ Load(t, v) \in Insn(MaxNode) /\ Store(t, v) \in Insn(MaxNode)
                         /\ Const(t, v) \in Insn(MaxNode)
      BY <1>1, <1>6, <3>3, SpillCodeClean
    <3>5. ASSUME r \in DOMAIN remat PROVE Const(t, remat[r]) \in Fitting
      <4>1. remat[r] \in Int
        BY <3>5 DEF CodeOK
      <4> PICK k : k = Const(t, remat[r])
        OBVIOUS
      <4>2. k.kind = "const" /\ k.def = {t} /\ k.tag = remat[r]
        BY DEF Const
      <4>3. Sound(k, objects', remat')
        BY <3>2, <4>2 DEF Sound
      <4>4. k \in Insn(MaxNode)
        BY <3>4, <4>1
      <4> QED
        BY <4>3, <4>4 DEF Fitting
    <3>6. ASSUME r \notin DOMAIN remat PROVE Load(t, r) \in Fitting /\ Store(t, r) \in Fitting
      <4>1. Slot(r) \in Range(objects') /\ t \notin DOMAIN remat'
        BY <1>4, <3>2, <3>6
      <4> PICK k : k = Load(t, r)
        OBVIOUS
      <4> PICK l : l = Store(t, r)
        OBVIOUS
      <4>2. k.kind = "load" /\ k.def = {t} /\ k.tag = r /\ l.kind = "store" /\ l.def = {} /\ l.tag = r
        BY DEF Load, Store
      <4>3. Sound(k, objects', remat') /\ Sound(l, objects', remat')
        BY <4>1, <4>2 DEF Sound
      <4>4. k \in Insn(MaxNode) /\ l \in Insn(MaxNode)
        BY <3>1, <3>4
      <4> QED
        BY <4>3, <4>4 DEF Fitting
    <3>7. r \in i.def => r \notin DOMAIN remat
      BY <1>9, <3>1 DEF Erased
    <3>8. Reload(i, r, t) \in Seq(Fitting)
      BY <1>7, <3>5, <3>6 DEF Reload
    <3>9. WriteBack(i, r, t) \in Seq(Fitting)
      BY <1>7, <3>6, <3>7 DEF WriteBack
    <3> QED
      BY <3>8, <3>9
  <2>2. FlattenSeq(Reloads(p)) \in Seq(Fitting)
    <3>1. Reloads(p) \in [1 .. N -> Seq(Fitting)]
      BY <1>7, <2>1 DEF Reloads
    <3>2. Reloads(p) \in Seq(Seq(Fitting))
      BY <1>2, <3>1, CodeOf
    <3> QED
      BY <3>2, Flattened
  <2>3. FlattenSeq(WriteBacks(p)) \in Seq(Fitting)
    <3>1. \A j \in 1 .. N : N + 1 - j \in 1 .. N
      BY <1>2
    <3>2. WriteBacks(p) \in [1 .. N -> Seq(Fitting)]
      BY <1>7, <2>1, <3>1 DEF WriteBacks
    <3>3. WriteBacks(p) \in Seq(Seq(Fitting))
      BY <1>2, <3>2, CodeOf
    <3> QED
      BY <3>3, Flattened
  <2>4. Named(p) \in Fitting
    <3> PICK w : w = Named(p)
      OBVIOUS
    <3>1. w \in Insn(MaxNode)
      BY <1>1, <1>6, <1>9, NamedClean
    <3>2. w.kind = i.kind /\ w.tag = i.tag /\ w.def = {NameAt(p, r) : r \in i.def}
      BY NamedParts
    <3>3. ASSUME NEW r \in w.def, r \in DOMAIN remat'
          PROVE  w.kind = "const" /\ w.def = {r} /\ w.tag = remat'[r]
      <4>1. PICK d \in i.def : r = NameAt(p, d)
        BY <3>2, <3>3
      <4>2. d \in 0 .. reg_n - 1
        BY <1>1, InsnParts
      <4>3. d \notin Range(spilled)
        <5> SUFFICES ASSUME d \in Range(spilled) PROVE FALSE
          OBVIOUS
        <5>1. PICK j : Renamed(p, d, j)
          BY <1>9, NamedPlace
        <5> PICK s : s = <<p, j>>
          OBVIOUS
        <5>2. s \in Sites /\ spilled[s[2]] = d /\ r = Temp(s)
          BY <4>1, <5>1 DEF Renamed
        <5>3. d \in DOMAIN remat
          BY <1>3, <3>3, <5>2 DEF ConstantsKept
        <5> QED
          BY <1>9, <5>3 DEF Erased
      <4>4. r = d
        BY <1>9, <4>1, <4>3, NamedPlace
      <4>5. d \in DOMAIN remat /\ remat'[d] = remat[d]
        BY <1>3, <3>3, <4>2, <4>4 DEF ConstantsKept
      <4>6. i.kind = "const" /\ i.def = {d} /\ i.tag = remat[d]
        BY <1>5, <4>5 DEF Sound
      <4>7. w.def = {r}
        BY <3>2, <4>1, <4>4, <4>6
      <4> QED
        BY <3>2, <4>4, <4>5, <4>6, <4>7
    <3>4. w.kind \in {"store", "far", "put", "push", "sp"} => w.def = {}
      BY <1>5, <3>2 DEF Sound
    <3>5. /\ w.kind \in {"load", "store", "offset", "far"} => Slot(w.tag) \in Range(objects')
          /\ w.kind = "addr" => \E x \in Range(objects') : x.id = w.tag
      BY <1>4, <1>5, <3>2 DEF Sound
    <3>6. Sound(w, objects', remat')
      BY <3>3, <3>4, <3>5 DEF Sound
    <3> QED
      BY <3>1, <3>6 DEF Fitting
  <2> PICK a \in Seq(Fitting) : a = FlattenSeq(Reloads(p))
    BY <2>2
  <2> PICK b \in Seq(Fitting) : b = FlattenSeq(WriteBacks(p))
    BY <2>3
  <2> PICK d \in Seq(Fitting) : d = <<Named(p)>>
    BY <1>7, <2>4
  <2>5. Rewritten(p) = (a \o d) \o b
    BY <1>9, RewrittenForm
  <2> QED
    BY <2>5, ConcatProperties
<1> QED
  BY <1>8, <1>9

LEMMA SpillingMeaning ==
  ASSUME FrameInv, StackInv, RunInv, Spilling
  PROVE  RunInv'
<1>1. /\ pc = "rewrite" /\ source' = source /\ reg_n + Cardinality(Sites) <= MaxNode
      /\ blocks' = [b \in DOMAIN blocks |->
                      [blocks[b] EXCEPT !.insts =
                         FlattenSeq([k \in DOMAIN @ |-> Rewritten(<<b, k>>)])]]
  BY DEF Spilling, Rewrite
<1>2. CodeOK /\ reg_n \in Nat /\ MaxNode \in Nat
  BY CodeAt DEF FrameInv
<1>3. spilled \in Seq(0 .. reg_n - 1)
  BY <1>1, SpilledRegisters
<1>4. Range(spilled) \subseteq Regs(blocks) /\ Range(spilled) \cap Machine = {}
  BY <1>1, SpilledPseudo
<1> PICK f : f = [p \in Instructions(blocks) |-> Rewritten(p)]
  OBVIOUS
<1> PICK S : S = Range(spilled)
  OBVIOUS
<1> PICK cs : cs = blocks'
  OBVIOUS
<1>5. \A p \in Instructions(blocks) : f[p] \in Seq(Fitting)
  BY <1>1, <1>2, <1>3, RewrittenSound
<1>6. \A p \in Instructions(blocks) : f[p] \in Seq(Insn(MaxNode))
  <2>1. Fitting \subseteq Insn(MaxNode)
    BY DEF Fitting
  <2> QED
    BY <1>5, <2>1, SeqMonotonic
<1>7. \A p \in Instructions(blocks) : Serves(S, <<At(blocks, p)>>, f[p])
  BY <1>1, <1>2, <1>3, <1>4, RewrittenServes
<1>8. /\ DOMAIN cs = DOMAIN blocks
      /\ \A b \in DOMAIN blocks : cs[b].insts = FlattenSeq(InPlace(f, b)) /\ cs[b].succ = blocks[b].succ
  <2>1. ASSUME NEW b \in DOMAIN blocks
        PROVE  cs[b].insts = FlattenSeq(InPlace(f, b)) /\ cs[b].succ = blocks[b].succ
    <3> DEFINE ss == [k \in DOMAIN blocks[b].insts |-> Rewritten(<<b, k>>)]
    <3>1. \A k \in DOMAIN blocks[b].insts : f[<<b, k>>] = Rewritten(<<b, k>>)
      BY DEF Instructions
    <3>2. ss = InPlace(f, b)
      BY <3>1 DEF InPlace
    <3>3. cs[b] = [blocks[b] EXCEPT !.insts = FlattenSeq(ss)]
      BY <1>1
    <3> HIDE DEF ss
    <3>4. blocks[b] \in [insts : Seq(Insn(reg_n)), succ : SUBSET Nat, depth : Nat]
      <4>1. blocks \in Seq(Block(reg_n))
        BY <1>2 DEF CodeOK
      <4>2. blocks[b] \in Block(reg_n)
        BY <4>1, LenProperties
      <4> QED
        BY <4>2 DEF Block
    <3> QED
      BY <3>2, <3>3, <3>4
  <2> QED
    BY <1>1, <2>1
<1>9. \A q \in Instructions(cs) : At(cs, q) \in Fitting
  BY <1>2, <1>5, <1>8, PatchParts
<1>10. Matches(S, {}, AtStart, AtStart)
  BY <1>2, <1>4, StartMatches
<1>11. \A path \in source.paths :
         /\ Outcome(source.arrays, cs, Identity, path).faults = {}
         /\ Outcome(source.arrays, cs, Identity, path).seen = Behaviour(source.blocks, Identity, path)
  BY <1>2, <1>6, <1>7, <1>8, <1>10, MeaningKept
<1>12. \A q \in Instructions(blocks') : Sound(At(blocks', q), objects', remat')
  BY <1>9 DEF Fitting
<1>13. \A b \in DOMAIN blocks' : blocks'[b].succ = source'.blocks[b].succ
  BY <1>1, <1>8 DEF RunInv
<1>14. Range(source'.arrays) \subseteq Range(objects')
  <2>1. spilled \in Seq(Nat)
    <3>1. 0 .. reg_n - 1 \subseteq Nat
      BY <1>2
    <3> QED
      BY <1>3, <3>1, SeqMonotonic
  <2>2. objects \in Seq(Objects)
    BY DEF StackInv, Objects
  <2>3. Range(objects) \subseteq Range(objects')
    BY <2>1, <2>2, SlotsThere
  <2> QED
    BY <1>1, <2>3 DEF RunInv
<1>15. DOMAIN remat' \cap Machine = {}
  <2>1. ConstantsKept
    BY <1>2, <1>3, RematAfter DEF Spilling
  <2>2. \A s \in Sites : Temp(s) \notin Machine
    <3>1. Cardinality(Sites) \in Nat /\ \A s \in Sites : Temp(s) \in reg_n .. reg_n + Cardinality(Sites) - 1
      BY <1>2, <1>3, TempRange
    <3>2. K \in Nat /\ K <= reg_n
      BY <1>2, RegisterAssumption DEF CodeOK
    <3> QED
      BY <1>2, <3>1, <3>2 DEF Machine
  <2>3. DOMAIN remat \cap Machine = {}
    BY DEF RunInv
  <2> QED
    BY <2>1, <2>2, <2>3 DEF ConstantsKept
<1>16. \A path \in source'.paths :
         /\ Outcome(source'.arrays, blocks', Identity, path).faults = {}
         /\ Outcome(source'.arrays, blocks', Identity, path).seen = Behaviour(source.blocks, Identity, path)
  BY <1>1, <1>11
<1>17. \A path : Behaviour(source.blocks, Identity, path)' = Behaviour(source.blocks, Identity, path)
  BY <1>1 DEF Behaviour
<1> QED
  BY <1>1, <1>12, <1>13, <1>14, <1>15, <1>16, <1>17 DEF RunInv

-------------------------------------------------------------------------------
(***************************************************************************)
(* check_store_stack: a store through a register for its offset.           *)
(***************************************************************************)
LEMMA KeptServes ==
  ASSUME CodeOK, RunInv, NEW p \in Instructions(blocks)
  PROVE  Serves({}, <<At(blocks, p)>>, <<At(blocks, p)>>)
<1> PICK i : i = At(blocks, p)
  OBVIOUS
<1> SUFFICES ASSUME NEW m, NEW n, Matches({}, {}, m, n), Fine(RunOf(m, <<i>>))
             PROVE  Matches({}, {}, RunOf(m, <<i>>), RunOf(n, <<i>>))
  BY DEF Serves
<1> PICK e : e = Do(m, i)
  OBVIOUS
<1> PICK y : y = Do(n, i)
  OBVIOUS
<1> PICK in : in = Operands(m, i, Identity)
  OBVIOUS
<1>1. RunOf(m, <<i>>) = e /\ RunOf(n, <<i>>) = y
  BY AfterOne DEF RunOf, Do
<1>2. reg_n \in Nat /\ MaxNode \in Nat /\ reg_n <= MaxNode /\ i \in Insn(reg_n)
  BY CodeAt
<1>3. /\ Shared(m, n) /\ DOMAIN m.val \subseteq 0 .. reg_n - 1
      /\ \A r \in DOMAIN m.val :
           /\ r \in DOMAIN n.val /\ n.val[r] = m.val[r]
           /\ r \in DOMAIN remat => m.val[r] = Num(remat[r])
  BY DEF Matches
<1>4. Fine(e) /\ Meaningful(source.arrays, m, i, Identity, in)
  BY <1>1, Faultless DEF Fine, Do
<1>5. \A k \in DOMAIN i.use : Identity[i.use[k]] \in DOMAIN m.val
  BY <1>4 DEF Meaningful
<1>6. \A k \in DOMAIN i.use : Identity[i.use[k]] \in DOMAIN n.val /\ n.val[Identity[i.use[k]]] = m.val[Identity[i.use[k]]]
  BY <1>3, <1>5
<1>7. Operands(n, i, Identity) = in
  BY <1>5, <1>6 DEF Operands, Held
<1>8. Supplied(n, i, Identity) /\ Twins(i, i)
  BY <1>6 DEF Supplied, Twins
<1>9. /\ Shared(e, y)
      /\ Result(n, i, in) = Result(m, i, in)
  <2>1. /\ Shared(Effect(source.arrays, m, i, Identity), Effect(source.arrays, n, i, Identity))
        /\ Result(n, i, in) = Result(m, i, in)
    BY <1>2, <1>3, <1>4, <1>7, <1>8, SameEffect
  <2> QED
    BY <2>1 DEF Do
<1>10. {Identity[d] : d \in i.def} = i.def /\ i.def \subseteq 0 .. reg_n - 1
  <2>1. i.def \subseteq 0 .. reg_n - 1
    BY <1>2, InsnParts
  <2>2. \A d \in i.def : Identity[d] = d
    BY <1>2, <2>1 DEF Identity, Node
  <2> QED
    BY <2>1, <2>2
<1> PICK v : v = Result(m, i, in)
  OBVIOUS
<1>11. Leaves(i.def, v, Written(i, in), m, e) /\ Leaves(i.def, v, Written(i, in), n, y)
  <2>1. Leaves({Identity[d] : d \in i.def}, v, Written(i, in), m, e)
    BY EffectLeaves DEF Do
  <2>2. Leaves({Identity[d] : d \in i.def}, v, Written(i, in), n, y)
    BY <1>7, <1>9, EffectLeaves DEF Do
  <2> QED
    BY <1>10, <2>1, <2>2
<1>12. Sound(i, objects, remat)
  BY DEF RunInv
<1>13. ASSUME NEW r \in DOMAIN e.val
       PROVE  /\ r \in DOMAIN y.val /\ y.val[r] = e.val[r] /\ r \in 0 .. reg_n - 1
              /\ r \in DOMAIN remat => e.val[r] = Num(remat[r])
  <2>1. CASE r \in i.def
    <3>1. r \in DOMAIN y.val /\ y.val[r] = v /\ e.val[r] = v
      BY <1>11, <2>1 DEF Leaves
    <3>2. ASSUME r \in DOMAIN remat PROVE v = Num(remat[r])
      <4>1. i.kind = "const" /\ i.tag = remat[r]
        BY <1>12, <2>1, <3>2 DEF Sound
      <4> QED
        BY <4>1 DEF Result
    <3> QED
      BY <1>10, <2>1, <3>1, <3>2
  <2>2. CASE r \notin i.def
    <3>1. r \in DOMAIN m.val /\ e.val[r] = m.val[r]
      BY <1>11, <2>2 DEF Leaves
    <3>2. r \in DOMAIN n.val
      BY <1>3, <3>1
    <3>3. r \in DOMAIN y.val /\ y.val[r] = n.val[r]
      BY <1>11, <2>2, <3>2 DEF Leaves
    <3> QED
      BY <1>3, <3>1, <3>3
  <2> QED
    BY <2>1, <2>2
<1>14. Matches({}, {}, e, y)
  BY <1>9, <1>13 DEF Matches
<1> QED
  BY <1>1, <1>14

LEMMA RunTwo ==
  ASSUME NEW n, NEW o, NEW w
  PROVE  RunOf(n, <<o, w>>) = Do(Do(n, o), w)
<1> PICK s : s = <<o, w>>
  OBVIOUS
<1> PICK T : T = {o, w}
  OBVIOUS
<1>1. s \in Seq(T) /\ Len(s) = 2 /\ s[1] = o /\ s[2] = w
  OBVIOUS
<1>0. s \in Seq(T)
  BY <1>1
<1>2. PICK E : Trace(source.arrays, Identity, n, s, E) /\ After(source.arrays, Identity, n, s) = E[Len(s)]
  BY <1>0, AfterTrace
<1>3. 1 \in 1 .. Len(s) /\ 1 - 1 = 0 /\ 2 \in 1 .. Len(s) /\ 2 - 1 = 1
  BY <1>1
<1>4. E[1] = Effect(source.arrays, E[1 - 1], s[1], Identity) /\ E[0] = n
  BY <1>2, <1>3 DEF Trace
<1>5. E[2] = Effect(source.arrays, E[2 - 1], s[2], Identity)
  BY <1>2, <1>3 DEF Trace
<1>6. E[1] = Do(n, o)
  BY <1>1, <1>3, <1>4 DEF Do
<1>7. E[2] = Do(E[1], w)
  BY <1>1, <1>3, <1>5 DEF Do
<1> QED
  BY <1>1, <1>2, <1>6, <1>7 DEF RunOf

\* A store changes no more than registers and words.
Passes(m, e) == e.sp = m.sp /\ e.pushed = m.pushed /\ e.seen = m.seen

LEMMA StorePasses ==
  ASSUME NEW m, m.sp \in Int, NEW i, i.kind \in {"store", "far"}
  PROVE  Passes(m, Do(m, i))
<1> PICK e : e = Do(m, i)
  OBVIOUS
<1> PICK in : in = Operands(m, i, Identity)
  OBVIOUS
<1>1. /\ e.sp = m.sp + SpChange(i)
      /\ e.pushed = CASE i.kind = "push" -> <<in[1][2]>> \o m.pushed
                      [] i.kind = "call" -> <<>>
                      [] OTHER -> m.pushed
      /\ e.seen = Seen(m, i, in)
  BY DEF Do, Effect
<1>2. SpChange(i) = 0 /\ Seen(m, i, in) = m.seen
  BY DEF SpChange, Seen
<1>3. Passes(m, e)
  BY <1>1, <1>2 DEF Passes
<1> QED
  BY <1>3

LEMMA DoFine ==
  ASSUME NEW m, NEW i, NEW in, in = Operands(m, i, Identity), m.faults = {},
         Meaningful(source.arrays, m, i, Identity, in)
  PROVE  Fine(Do(m, i))
<1> PICK e : e = Do(m, i)
  OBVIOUS
<1>1. e.faults = m.faults \cup (IF Meaningful(source.arrays, m, i, Identity, in) THEN {} ELSE {i})
  BY DEF Do, Effect
<1> QED
  BY <1>1 DEF Fine

LEMMA FarServes ==
  ASSUME CodeOK, RunInv, NEW far \in SUBSET Instructions(blocks),
         reg_n + Cardinality(far) <= MaxNode, NEW p \in far, At(blocks, p).kind = "store"
  PROVE  Serves({}, <<At(blocks, p)>>, Checked(far, p))
<1> PICK i : i = At(blocks, p)
  OBVIOUS
<1> PICK t : t = OffsetReg(far, p)
  OBVIOUS
<1> PICK o : o = Instr("offset", i.tag, {t}, <<>>)
  OBVIOUS
<1> PICK w : w = Instr("far", i.tag, {}, <<i.use[1], t>>)
  OBVIOUS
<1>1. Checked(far, p) = <<o, w>>
  BY DEF Checked
<1> SUFFICES ASSUME NEW m, NEW n, Matches({}, {}, m, n), Fine(RunOf(m, <<i>>))
             PROVE  Matches({}, {}, RunOf(m, <<i>>), RunOf(n, Checked(far, p)))
  BY DEF Serves
<1> PICK e : e = Do(m, i)
  OBVIOUS
<1> PICK x : x = Do(n, o)
  OBVIOUS
<1> PICK y : y = Do(x, w)
  OBVIOUS
<1> PICK in : in = Operands(m, i, Identity)
  OBVIOUS
<1> PICK out : out = Operands(x, w, Identity)
  OBVIOUS
<1>2. RunOf(m, <<i>>) = e /\ RunOf(n, Checked(far, p)) = y
  <2>1. RunOf(n, <<o, w>>) = y
    BY RunTwo
  <2>2. RunOf(m, <<i>>) = e
    BY AfterOne DEF RunOf, Do
  <2> QED
    BY <1>1, <2>1, <2>2
<1>3. /\ reg_n \in Nat /\ MaxNode \in Nat /\ reg_n <= MaxNode /\ i \in Insn(reg_n)
      /\ t \in Int /\ t >= reg_n /\ t \in Node
  <2>1. reg_n \in Nat /\ MaxNode \in Nat /\ reg_n <= MaxNode /\ i \in Insn(reg_n)
    BY CodeAt
  <2>2. Cardinality(far) \in Nat /\ t \in reg_n .. reg_n + Cardinality(far) - 1
    BY OffsetRange
  <2> QED
    BY <2>1, <2>2 DEF Node
<1> PICK a : a = i.use[1]
  OBVIOUS
<1>4. a \in 0 .. reg_n - 1 /\ a \in Node /\ DOMAIN i.use # {} /\ 1 \in DOMAIN i.use
  <2>1. 1 \in DOMAIN i.use /\ i.use[1] \in Uses(i) /\ Uses(i) \in SUBSET (0 .. reg_n - 1)
    BY <1>3, InsnParts
  <2> QED
    BY <1>3, <2>1 DEF Node
<1>5. /\ Shared(m, n) /\ DOMAIN m.val \subseteq 0 .. reg_n - 1
      /\ \A r \in DOMAIN m.val :
           /\ r \in DOMAIN n.val /\ n.val[r] = m.val[r]
           /\ r \in DOMAIN remat => m.val[r] = Num(remat[r])
  BY DEF Matches
<1>6. Fine(e) /\ Meaningful(source.arrays, m, i, Identity, in) /\ m.faults = {}
  BY <1>2, Faultless DEF Fine, Do
<1>7. Identity[a] = a /\ Identity[t] = t
  BY <1>3, <1>4 DEF Identity
<1>8. a \in DOMAIN m.val /\ in[1] = m.val[a]
  <2>1. Identity[i.use[1]] = a
    BY <1>7
  <2>2. a \in DOMAIN m.val
    BY <1>4, <1>6, <2>1 DEF Meaningful
  <2>3. in[1] = Held(m.val, Identity[i.use[1]])
    BY <1>4 DEF Operands
  <2> QED
    BY <2>1, <2>2, <2>3 DEF Held
\* The offset.
<1>9. Sets(n, x, t, Distance(i.tag, n.sp))
  <2>1. o.kind = "offset" /\ o.def = {t} /\ o.use = <<>> /\ o.tag = i.tag
    BY DEF Instr
  <2>2. Ready(n)
    BY <1>5 DEF Shared, Ready
  <2>3. Sets(n, Do(n, o), t, Result(n, o, <<>>))
    BY <1>3, <2>1, <2>2, RegisterSet
  <2>4. Result(n, o, <<>>) = Distance(i.tag, n.sp)
    BY <2>1 DEF Result
  <2> QED
    BY <2>3, <2>4
<1>10. x.sp = n.sp /\ x.pushed = n.pushed /\ x.seen = n.seen /\ x.faults = {} /\ x.sp \in Int /\ x.sp <= 0
  BY <1>9 DEF Sets, Still, Ready
<1>11. DOMAIN x.slot = DOMAIN n.slot /\ \A b \in DOMAIN n.slot : x.slot[b] = n.slot[b]
  BY <1>9 DEF Sets, SameSlots
<1>12. /\ DOMAIN x.val = DOMAIN n.val \cup {t} /\ x.val[t] = Distance(i.tag, n.sp)
       /\ \A r \in DOMAIN n.val : r # t => x.val[r] = n.val[r]
  BY <1>9 DEF Sets
<1>13. a # t /\ a \in DOMAIN x.val /\ x.val[a] = m.val[a]
  <2>1. a # t
    BY <1>3, <1>4
  <2> QED
    BY <1>5, <1>8, <1>12, <2>1
\* The store.
<1>14. /\ w.kind = "far" /\ w.tag = i.tag /\ w.def = {} /\ DOMAIN w.use = {1, 2}
       /\ w.use[1] = a /\ w.use[2] = t
  BY DEF Instr
<1>15. out[1] = m.val[a] /\ out[2] = Distance(i.tag, n.sp)
  <2>1. 1 \in DOMAIN w.use /\ 2 \in DOMAIN w.use
    BY <1>14
  <2>2. Identity[w.use[1]] = a /\ Identity[w.use[2]] = t
    BY <1>7, <1>14
  <2>3. out[1] = Held(x.val, Identity[w.use[1]]) /\ out[2] = Held(x.val, Identity[w.use[2]])
    BY <2>1 DEF Operands
  <2>4. Held(x.val, a) = m.val[a]
    BY <1>13 DEF Held
  <2>5. Held(x.val, t) = Distance(i.tag, n.sp)
    BY <1>12 DEF Held
  <2> QED
    BY <2>2, <2>3, <2>4, <2>5
<1>16. i.kind = "store" /\ i.def = {} /\ SpChange(i) = 0 /\ SpChange(w) = 0
  <2>1. Sound(i, objects, remat)
    BY DEF RunInv
  <2> QED
    BY <1>14, <2>1 DEF Sound, SpChange
<1>17. Meaningful(source.arrays, x, w, Identity, out)
  <2>1. \A k \in DOMAIN w.use : Identity[w.use[k]] \in DOMAIN x.val
    <3> TAKE k \in DOMAIN w.use
    <3>1. CASE k = 1
      BY <1>7, <1>13, <1>14, <3>1
    <3>2. CASE k = 2
      BY <1>7, <1>12, <1>14, <3>2
    <3> QED
      BY <1>14, <3>1, <3>2
  <2>2. out[2] = Distance(w.tag, x.sp)
    BY <1>10, <1>14, <1>15
  <2>3. x.sp + SpChange(w) <= 0
    BY <1>10, <1>16
  <2> QED
    BY <1>14, <2>1, <2>2, <2>3 DEF Meaningful
<1>18. Written(i, in) = In(<<i.tag, 0>>, m.val[a]) /\ Written(w, out) = In(<<i.tag, 0>>, m.val[a])
  <2>0. \A k, l : Distance(k, l)[2] = k
    BY DEF Distance
  <2>1. out[2][2] = i.tag
    BY <1>15, <2>0
  <2>2. Written(i, in) = In(<<i.tag, 0>>, in[1])
    BY <1>16 DEF Written
  <2>3. Written(w, out) = In(<<out[2][2], 0>>, out[1])
    BY <1>14 DEF Written
  <2> QED
    BY <1>8, <1>15, <2>1, <2>2, <2>3
<1> PICK u : u = In(<<i.tag, 0>>, m.val[a])
  OBVIOUS
<1>19. Leaves({}, Result(m, i, in), u, m, e) /\ Leaves({}, Result(x, w, out), u, x, y)
  <2>1. Leaves({Identity[d] : d \in i.def}, Result(m, i, in), Written(i, in), m, e)
    BY EffectLeaves DEF Do
  <2>2. Leaves({Identity[d] : d \in w.def}, Result(x, w, out), Written(w, out), x, y)
    BY EffectLeaves DEF Do
  <2>3. {Identity[d] : d \in i.def} = {} /\ {Identity[d] : d \in w.def} = {}
    BY <1>14, <1>16
  <2> QED
    BY <1>18, <2>1, <2>2, <2>3
<1>20. Passes(m, e) /\ Passes(x, y) /\ Fine(e) /\ Fine(y)
  <2>1. Passes(m, Do(m, i))
    BY <1>5, <1>16, StorePasses DEF Shared
  <2>2. Passes(x, Do(x, w))
    BY <1>10, <1>14, StorePasses
  <2>3. Fine(Do(x, w))
    BY <1>10, <1>17, DoFine
  <2> QED
    BY <1>6, <2>1, <2>2, <2>3
<1>21. /\ m.sp \in Int /\ m.sp <= 0 /\ n.sp = m.sp /\ n.pushed = m.pushed /\ n.seen = m.seen
       /\ \A b \in DOMAIN m.slot : b \in DOMAIN n.slot /\ n.slot[b] = m.slot[b]
  BY <1>5 DEF Shared
<1>22. Shared(e, y)
  <2>1. e.sp = m.sp /\ e.pushed = m.pushed /\ e.seen = m.seen /\ y.sp = x.sp /\ y.pushed = x.pushed /\ y.seen = x.seen
    BY <1>20 DEF Passes
  <2>2. e.sp \in Int /\ e.sp <= 0 /\ y.sp = e.sp /\ y.pushed = e.pushed /\ y.seen = e.seen
    BY <1>10, <1>21, <2>1
  <2>3. ASSUME NEW b \in DOMAIN e.slot PROVE b \in DOMAIN y.slot /\ y.slot[b] = e.slot[b]
    <3>1. CASE b \in DOMAIN u
      <4>1. e.slot[b] = u[b]
        BY <1>19, <3>1 DEF Leaves
      <4>2. y.slot[b] = u[b] /\ b \in DOMAIN y.slot
        BY <1>19, <3>1 DEF Leaves
      <4> QED
        BY <4>1, <4>2
    <3>2. CASE b \notin DOMAIN u
      <4>1. b \in DOMAIN m.slot /\ e.slot[b] = m.slot[b]
        BY <1>19, <3>2 DEF Leaves
      <4>2. b \in DOMAIN x.slot /\ x.slot[b] = m.slot[b]
        BY <1>11, <1>21, <4>1
      <4> QED
        BY <1>19, <3>2, <4>1, <4>2 DEF Leaves
    <3> QED
      BY <3>1, <3>2
  <2> QED
    BY <1>20, <2>2, <2>3 DEF Shared, Fine
<1>23. ASSUME NEW r \in DOMAIN e.val
       PROVE  /\ r \in DOMAIN y.val /\ y.val[r] = e.val[r] /\ r \in 0 .. reg_n - 1
              /\ r \in DOMAIN remat => e.val[r] = Num(remat[r])
  <2>1. r \in DOMAIN m.val /\ e.val[r] = m.val[r]
    BY <1>19 DEF Leaves
  <2>2. r # t /\ r \in DOMAIN n.val /\ n.val[r] = m.val[r]
    BY <1>3, <1>5, <2>1
  <2>3. r \in DOMAIN x.val /\ x.val[r] = m.val[r]
    BY <1>12, <2>2
  <2>4. r \in DOMAIN y.val /\ y.val[r] = x.val[r]
    BY <1>19, <2>3 DEF Leaves
  <2> QED
    BY <1>5, <2>1, <2>3, <2>4
<1>24. Matches({}, {}, e, y)
  BY <1>22, <1>23 DEF Matches
<1> QED
  BY <1>2, <1>24

LEMMA CheckedSound ==
  ASSUME CodeOK, RunInv, NEW far \in SUBSET Instructions(blocks),
         \A p \in far : At(blocks, p).kind = "store",
         reg_n + Cardinality(far) <= MaxNode, objects' = objects, remat' = remat,
         NEW p \in Instructions(blocks)
  PROVE  Checked(far, p) \in Seq(Fitting)
<1> PICK i : i = At(blocks, p)
  OBVIOUS
<1> PICK c : c = reg_n + Cardinality(far)
  OBVIOUS
<1>1. reg_n \in Nat /\ MaxNode \in Nat /\ i \in Insn(MaxNode) /\ c \in Nat /\ c <= MaxNode
  <2>1. reg_n \in Nat /\ MaxNode \in Nat /\ i \in Insn(MaxNode)
    BY CodeAt
  <2>2. Cardinality(far) \in Nat
    BY <2>1, OffsetRange
  <2> QED
    BY <2>1, <2>2
<1>2. Checked(far, p) \in Seq(Insn(MaxNode))
  <2>1. Checked(far, p) \in Seq(Grown(c))
    BY <1>1, CheckedCode
  <2>2. Grown(c) \subseteq Insn(MaxNode)
    BY <1>1, InsnMonotonic DEF Grown
  <2> QED
    BY <2>1, <2>2, SeqMonotonic
<1>3. Sound(i, objects, remat)
  BY DEF RunInv
<1>4. CASE p \notin far
  <2>1. i \in Fitting
    BY <1>1, <1>3 DEF Fitting
  <2>2. <<i>> \in Seq(Fitting)
    BY <2>1
  <2> QED
    BY <1>4, <2>2 DEF Checked
<1>5. CASE p \in far
  <2> PICK r : r = OffsetReg(far, p)
    OBVIOUS
  <2> PICK a : a = Instr("offset", i.tag, {r}, <<>>)
    OBVIOUS
  <2> PICK b : b = Instr("far", i.tag, {}, <<i.use[1], r>>)
    OBVIOUS
  <2> PICK t : t = Checked(far, p)
    OBVIOUS
  <2>1. t = <<a, b>>
    BY <1>5 DEF Checked
  <2>2. a \in Insn(MaxNode) /\ b \in Insn(MaxNode)
    <3>1. \A k \in 1 .. Len(t) : t[k] \in Insn(MaxNode)
      BY <1>2, LenProperties
    <3>2. Len(t) = 2 /\ t[1] = a /\ t[2] = b
      BY <2>1
    <3>3. 1 \in 1 .. Len(t) /\ 2 \in 1 .. Len(t)
      BY <3>2
    <3> QED
      BY <3>1, <3>2, <3>3
  <2>3. a.kind = "offset" /\ a.tag = i.tag /\ a.def = {r} /\ b.kind = "far" /\ b.tag = i.tag /\ b.def = {}
    BY DEF Instr
  <2>4. Slot(i.tag) \in Range(objects)
    BY <1>3, <1>5 DEF Sound
  <2>5. r \notin DOMAIN remat
    <3>1. r \in reg_n .. reg_n + Cardinality(far) - 1
      BY <1>1, <1>5, OffsetRange
    <3>2. r \notin 0 .. reg_n - 1
      BY <1>1, <3>1
    <3> QED
      BY <3>2 DEF CodeOK
  <2>6. Sound(a, objects, remat) /\ Sound(b, objects, remat)
    BY <2>3, <2>4, <2>5 DEF Sound
  <2>7. a \in Fitting /\ b \in Fitting
    BY <2>2, <2>6 DEF Fitting
  <2> QED
    BY <2>1, <2>7
<1> QED
  BY <1>4, <1>5

LEMMA ReplacedMeaning ==
  ASSUME FrameInv, StackInv, RunInv, Replace
  PROVE  RunInv'
<1> PICK far : far = FarStores(Layout)
  OBVIOUS
<1>1. /\ source' = source /\ objects' = objects /\ remat' = remat
      /\ reg_n + Cardinality(far) <= MaxNode
      /\ blocks' = [b \in DOMAIN blocks |->
                      [blocks[b] EXCEPT !.insts =
                         FlattenSeq([k \in DOMAIN @ |-> Checked(far, <<b, k>>)])]]
  BY DEF Replace
<1>2. CodeOK /\ reg_n \in Nat /\ MaxNode \in Nat
  BY CodeAt DEF FrameInv
<1>3. far \in SUBSET Instructions(blocks) /\ \A p \in far : At(blocks, p).kind = "store"
  BY DEF FarStores
<1> PICK f : f = [p \in Instructions(blocks) |-> Checked(far, p)]
  OBVIOUS
<1> PICK cs : cs = blocks'
  OBVIOUS
<1>4. \A p \in Instructions(blocks) : f[p] \in Seq(Fitting)
  BY <1>1, <1>2, <1>3, CheckedSound
<1>5. \A p \in Instructions(blocks) : f[p] \in Seq(Insn(MaxNode))
  <2>1. Fitting \subseteq Insn(MaxNode)
    BY DEF Fitting
  <2> QED
    BY <1>4, <2>1, SeqMonotonic
<1>6. ASSUME NEW p \in Instructions(blocks) PROVE Serves({}, <<At(blocks, p)>>, f[p])
  <2>1. CASE p \in far
    BY <1>1, <1>2, <1>3, <2>1, FarServes
  <2>2. CASE p \notin far
    <3>1. Checked(far, p) = <<At(blocks, p)>>
      BY <2>2 DEF Checked
    <3> QED
      BY <1>2, <3>1, KeptServes
  <2> QED
    BY <2>1, <2>2
<1>7. /\ DOMAIN cs = DOMAIN blocks
      /\ \A b \in DOMAIN blocks : cs[b].insts = FlattenSeq(InPlace(f, b)) /\ cs[b].succ = blocks[b].succ
  <2>1. ASSUME NEW b \in DOMAIN blocks
        PROVE  cs[b].insts = FlattenSeq(InPlace(f, b)) /\ cs[b].succ = blocks[b].succ
    <3> DEFINE ss == [k \in DOMAIN blocks[b].insts |-> Checked(far, <<b, k>>)]
    <3>1. \A k \in DOMAIN blocks[b].insts : f[<<b, k>>] = Checked(far, <<b, k>>)
      BY DEF Instructions
    <3>2. ss = InPlace(f, b)
      BY <3>1 DEF InPlace
    <3>3. cs[b] = [blocks[b] EXCEPT !.insts = FlattenSeq(ss)]
      BY <1>1
    <3> HIDE DEF ss
    <3>4. blocks[b] \in [insts : Seq(Insn(reg_n)), succ : SUBSET Nat, depth : Nat]
      <4>1. blocks \in Seq(Block(reg_n))
        BY <1>2 DEF CodeOK
      <4>2. blocks[b] \in Block(reg_n)
        BY <4>1, LenProperties
      <4> QED
        BY <4>2 DEF Block
    <3> QED
      BY <3>2, <3>3, <3>4
  <2> QED
    BY <1>1, <2>1
<1>8. \A q \in Instructions(cs) : At(cs, q) \in Fitting
  BY <1>2, <1>4, <1>7, PatchParts
<1>9. Matches({}, {}, AtStart, AtStart)
  BY <1>2, StartMatches
<1>10. \A path \in source.paths :
         /\ Outcome(source.arrays, cs, Identity, path).faults = {}
         /\ Outcome(source.arrays, cs, Identity, path).seen = Behaviour(source.blocks, Identity, path)
  BY <1>2, <1>5, <1>6, <1>7, <1>9, MeaningKept
<1>11. \A q \in Instructions(blocks') : Sound(At(blocks', q), objects', remat')
  BY <1>8 DEF Fitting
<1>12. \A b \in DOMAIN blocks' : blocks'[b].succ = source'.blocks[b].succ
  BY <1>1, <1>7 DEF RunInv
<1>13. Range(source'.arrays) \subseteq Range(objects') /\ DOMAIN remat' \cap Machine = {}
  BY <1>1 DEF RunInv
<1>14. \A path \in source'.paths :
         /\ Outcome(source'.arrays, blocks', Identity, path).faults = {}
         /\ Outcome(source'.arrays, blocks', Identity, path).seen = Behaviour(source.blocks, Identity, path)
  BY <1>1, <1>10
<1>15. \A path : Behaviour(source.blocks, Identity, path)' = Behaviour(source.blocks, Identity, path)
  BY <1>1 DEF Behaviour
<1> QED
  BY <1>11, <1>12, <1>13, <1>14, <1>15 DEF RunInv

-------------------------------------------------------------------------------
(***************************************************************************)
(* The other steps leave the code alone.                                   *)
(***************************************************************************)
LEMMA RunInitInv ==
  ASSUME FrameInit
  PROVE  RunInv
<1>1. source \in Programs /\ blocks = source.blocks /\ remat = source.remat /\ objects = source.arrays
  BY DEF FrameInit, RegInit
<1>2. /\ DOMAIN source.remat \cap Machine = {}
      /\ \A q \in Instructions(source.blocks) : Sound(At(source.blocks, q), source.arrays, source.remat)
      /\ \A path \in source.paths : Outcome(source.arrays, source.blocks, Identity, path).faults = {}
  BY <1>1, RunAssumption
<1> QED
  BY <1>1, <1>2 DEF RunInv, Behaviour

LEMMA RunKept ==
  ASSUME RunInv, UNCHANGED <<source, blocks, remat, objects>>
  PROVE  RunInv'
BY DEF RunInv, Behaviour

LEMMA RunNextInv ==
  ASSUME FrameInv, StackInv, RunInv, [FrameStep \/ Framed]_state
  PROVE  RunInv'
<1>1. CASE Allocate
  <2>1. UNCHANGED <<source, blocks, remat, objects>>
    BY <1>1 DEF Allocate, RegStep, Build, code
  <2> QED
    BY <2>1, RunKept
<1>2. CASE Spilling
  BY <1>2, SpillingMeaning
<1>3. CASE Replace
  BY <1>3, ReplacedMeaning
<1>4. CASE Finish
  <2>1. UNCHANGED <<source, blocks, remat, objects>>
    BY <1>4 DEF Finish, code
  <2> QED
    BY <2>1, RunKept
<1>5. CASE UNCHANGED state
  <2>1. UNCHANGED <<source, blocks, remat, objects>>
    BY <1>5 DEF state, code
  <2> QED
    BY <2>1, RunKept
<1> QED
  BY <1>1, <1>2, <1>3, <1>4, <1>5 DEF FrameStep, Framed

(* Through all rounds the code means something on every path, and what the *)
(* source means (rewrite_function, check_store_stack).                     *)
THEOREM RunInvCorrect == FrameSpec => []RunInv
BY RunInitInv, RunNextInv, FrameInvCorrect, StackInvCorrect, PTL DEF FrameSpec

(* What the run checks of the rounds of the allocation holds for every     *)
(* function and number of registers.                                       *)
THEOREM AllocInvCorrect == FrameSpec => []AllocInv
BY FrameInvCorrect, StackInvCorrect, WordsApartCorrect, RunInvCorrect, PTL DEF AllocInv

LEMMA RunPreserves ==
  ASSUME RunInv
  PROVE  RewritePreserves
BY DEF RunInv, RewritePreserves, Behaviour

(* Spilling changes nothing: whichever registers are spilled, and however  *)
(* often, each operand gets the value it got in the source                 *)
(* (rewrite_function).                                                     *)
THEOREM RewritePreservesCorrect == FrameSpec => []RewritePreserves
BY RunInvCorrect, RunPreserves, PTL
===============================================================================
