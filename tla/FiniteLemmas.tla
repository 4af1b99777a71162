---------------------------- MODULE FiniteLemmas ------------------------------
(***************************************************************************)
(* Facts about least elements, finite sets, sums and sequences that the    *)
(* proofs about the allocator use.                                         *)
(***************************************************************************)
EXTENDS Integers, Sequences, FiniteSets, FiniteSetsExt, Functions, SequencesExt,
        FiniteSetTheorems, SequenceTheorems, TLAPS

(* A nonempty set of naturals has a least element, and Min is it.          *)
LEMMA LeastNatural ==
  ASSUME NEW S \in SUBSET Nat, S # {}
  PROVE  \E x \in S : \A y \in S : x <= y
<1>1. \E x \in S : \A y \in S : ~ (<<y, x>> \in OpToRel(<, Nat))
  BY NatLessThanWellFounded, WFMin
<1>2. \A x, y \in S : <<y, x>> \notin OpToRel(<, Nat) => x <= y
  BY DEF OpToRel
<1> QED
  BY <1>1, <1>2

LEMMA MinNatural ==
  ASSUME NEW S \in SUBSET Nat, S # {}
  PROVE  Min(S) \in S /\ \A y \in S : Min(S) <= y
BY LeastNatural DEF Min

(* A total and transitive relation has a minimal element on a finite set.  *)
LEMMA MinimalElement ==
  ASSUME NEW S, IsFiniteSet(S), S # {}, NEW R,
         \A x, y \in S : <<x, y>> \in R \/ <<y, x>> \in R,
         \A x, y, z \in S : <<x, y>> \in R /\ <<y, z>> \in R => <<x, z>> \in R
  PROVE  \E x \in S : \A y \in S : <<x, y>> \in R
<1> DEFINE Below(x) == {y \in S : <<y, x>> \in R}
           count == [x \in S |-> Cardinality(Below(x))]
           C == {count[x] : x \in S}
<1>1. ASSUME NEW x \in S
      PROVE  IsFiniteSet(Below(x)) /\ count[x] = Cardinality(Below(x)) /\ count[x] \in Nat
  <2>1. IsFiniteSet(Below(x))
    BY FS_Subset
  <2> QED
    BY <2>1, FS_CardinalityType
<1>2. PICK x \in S : \A y \in S : count[x] <= count[y]
  <2>1. \A x \in S : count[x] \in Nat
    BY <1>1
  <2> HIDE DEF count
  <2>2. C \in SUBSET Nat /\ C # {}
    BY <2>1
  <2>3. PICK c \in C : \A d \in C : c <= d
    BY <2>2, LeastNatural
  <2> QED
    BY <2>3
<1>3. ASSUME NEW y \in S, <<x, y>> \notin R PROVE FALSE
  <2>1. Below(y) \in SUBSET Below(x)
    BY <1>3
  <2>2. x \in Below(x) /\ x \notin Below(y)
    BY <1>3
  <2>3. IsFiniteSet(Below(x)) /\ IsFiniteSet(Below(y))
    BY <1>1
  <2> HIDE DEF Below
  <2>4. Cardinality(Below(y)) <= Cardinality(Below(x))
        /\ Cardinality(Below(y)) # Cardinality(Below(x))
    BY <2>1, <2>2, <2>3, FS_Subset
  <2>5. count[x] <= count[y] /\ count[x] = Cardinality(Below(x))
        /\ count[y] = Cardinality(Below(y)) /\ count[x] \in Nat /\ count[y] \in Nat
    BY <1>1, <1>2
  <2> HIDE DEF count
  <2> QED
    BY <2>4, <2>5
<1> QED
  BY <1>2, <1>3

(* So a finite nonempty set of naturals has a greatest element.            *)
LEMMA MaxNatural ==
  ASSUME NEW S \in SUBSET Nat, IsFiniteSet(S), S # {}
  PROVE  Max(S) \in S /\ \A y \in S : y <= Max(S)
<1> DEFINE R == {p \in S \X S : p[1] >= p[2]}
<1>1. \A x, y \in S : <<x, y>> \in R <=> x >= y
  OBVIOUS
<1>2. \A x, y, z \in Nat : (x >= y \/ y >= x) /\ (x >= y /\ y >= z => x >= z)
  OBVIOUS
<1> HIDE DEF R
<1>3. /\ \A x, y \in S : <<x, y>> \in R \/ <<y, x>> \in R
      /\ \A x, y, z \in S : <<x, y>> \in R /\ <<y, z>> \in R => <<x, z>> \in R
  BY <1>1, <1>2
<1>4. \E x \in S : \A y \in S : <<x, y>> \in R
  BY <1>3, MinimalElement
<1>5. \E x \in S : \A y \in S : x >= y
  BY <1>1, <1>4
<1>6. Max(S) \in S /\ \A y \in S : Max(S) >= y
  BY <1>5 DEF Max
<1> QED
  BY <1>6

-------------------------------------------------------------------------------
\* One unfolding of the sum of f over s, by the sums over smaller sets.
Unfold(f, g, s) ==
  IF s = {} THEN 0
  ELSE f[CHOOSE x \in s : TRUE] + g[s \ {CHOOSE x \in s : TRUE}]

\* The subsets of S with at most n elements.
UpTo(S, n) == {s \in SUBSET S : Cardinality(s) <= n}

LEMMA SmallerSubset ==
  ASSUME NEW S, IsFiniteSet(S), NEW s \in SUBSET S, s # {}
  PROVE  /\ (CHOOSE x \in s : TRUE) \in s
         /\ s \ {CHOOSE x \in s : TRUE} \in SUBSET S
         /\ Cardinality(s) \in Nat
         /\ Cardinality(s) > 0
         /\ Cardinality(s \ {CHOOSE x \in s : TRUE}) = Cardinality(s) - 1
<1>1. IsFiniteSet(s)
  BY FS_Subset
<1>2. Cardinality(s) \in Nat /\ Cardinality(s) # 0
  BY <1>1, FS_CardinalityType, FS_EmptySet
<1> DEFINE x == CHOOSE x \in s : TRUE
<1>3. x \in s
  OBVIOUS
<1> HIDE DEF x
<1>4. Cardinality(s \ {x}) = Cardinality(s) - 1
  BY <1>1, <1>3, FS_RemoveElement
<1>5. x \in s /\ s \ {x} \in SUBSET S /\ Cardinality(s) > 0
  BY <1>2, <1>3
<1> QED
  BY <1>2, <1>4, <1>5 DEF x

(* The recursive definition of a sum defines a function.                   *)
LEMMA SumExists ==
  ASSUME NEW f, NEW S, IsFiniteSet(S)
  PROVE  \E g : g = [s \in SUBSET S |-> Unfold(f, g, s)]
<1> DEFINE Ok(n) == \E g : g = [s \in UpTo(S, n) |-> Unfold(f, g, s)]
           Bad == {n \in Nat : ~Ok(n)}
<1>1. Ok(0)
  <2> DEFINE g == [s \in UpTo(S, 0) |-> 0]
  <2>1. ASSUME NEW s \in UpTo(S, 0) PROVE s = {}
    <3>1. s \in SUBSET S /\ Cardinality(s) <= 0
      BY DEF UpTo
    <3>2. IsFiniteSet(s) /\ Cardinality(s) \in Nat
      BY <3>1, FS_Subset, FS_CardinalityType
    <3> QED
      BY <3>1, <3>2, FS_EmptySet
  <2>2. g = [s \in UpTo(S, 0) |-> Unfold(f, g, s)]
    BY <2>1 DEF Unfold
  <2> QED
    BY <2>2
<1>2. ASSUME NEW n \in Nat, Ok(n) PROVE Ok(n + 1)
  <2>1. PICK g : g = [s \in UpTo(S, n) |-> Unfold(f, g, s)]
    BY <1>2
  <2> DEFINE h == [s \in UpTo(S, n + 1) |-> Unfold(f, g, s)]
  <2>2. ASSUME NEW s \in UpTo(S, n + 1), s # {}
        PROVE  h[s \ {CHOOSE x \in s : TRUE}] = g[s \ {CHOOSE x \in s : TRUE}]
    <3>1. s \ {CHOOSE x \in s : TRUE} \in UpTo(S, n)
          /\ s \ {CHOOSE x \in s : TRUE} \in UpTo(S, n + 1)
      BY <2>2, SmallerSubset DEF UpTo
    <3> QED
      BY <2>1, <3>1
  <2>3. \A s \in UpTo(S, n + 1) : Unfold(f, h, s) = Unfold(f, g, s)
    <3> HIDE DEF h
    <3> QED
      BY <2>2 DEF Unfold
  <2>4. h = [s \in UpTo(S, n + 1) |-> Unfold(f, h, s)]
    BY <2>3
  <2> QED
    BY <2>4
<1>3. Bad = {}
  <2> SUFFICES ASSUME Bad # {} PROVE FALSE
    OBVIOUS
  <2>1. PICK n \in Bad : \A m \in Bad : n <= m
    <3>1. Bad \in SUBSET Nat
      OBVIOUS
    <3> HIDE DEF Bad
    <3> QED
      BY <3>1, LeastNatural
  <2> HIDE DEF Ok
  <2>2. n \in Nat /\ n # 0
    BY <1>1
  <2>3. Ok(n - 1)
    BY <2>1, <2>2
  <2> QED
    BY <1>2, <2>2, <2>3
<1>4. UpTo(S, Cardinality(S)) = SUBSET S
  BY FS_Subset DEF UpTo
<1>5. Cardinality(S) \in Nat
  BY FS_CardinalityType
<1>6. Ok(Cardinality(S))
  BY <1>3, <1>5
<1> QED
  BY <1>4, <1>6

\* What MapThenSumSet(LAMBDA e : f[e], S) unfolds to.
SumOver(f, S) == (CHOOSE g : g = [s \in SUBSET S |-> Unfold(f, g, s)])[S]

(* A sum of naturals is a natural, and nothing sums to 0.                  *)
LEMMA SumNatural ==
  ASSUME NEW f, NEW S, IsFiniteSet(S), \A e \in S : f[e] \in Nat
  PROVE  /\ SumOver(f, S) \in Nat
         /\ S = {} => SumOver(f, S) = 0
<1> DEFINE g == CHOOSE g : g = [s \in SUBSET S |-> Unfold(f, g, s)]
<1>1. g = [s \in SUBSET S |-> Unfold(f, g, s)]
  BY SumExists
<1>2. SumOver(f, S) = g[S]
  BY DEF SumOver
<1> HIDE DEF g
<1> DEFINE Bad == {s \in SUBSET S : g[s] \notin Nat}
           Sizes == {n \in Nat : \E s \in Bad : n = Cardinality(s)}
<1>3. g[{}] = 0
  BY <1>1 DEF Unfold
<1>4. Bad = {}
  <2> SUFFICES ASSUME Bad # {} PROVE FALSE
    OBVIOUS
  <2>1. Sizes # {} /\ Sizes \in SUBSET Nat
    <3>1. \A s \in Bad : Cardinality(s) \in Nat
      BY FS_Subset, FS_CardinalityType
    <3> QED
      BY <3>1
  <2>2. PICK n \in Sizes : \A m \in Sizes : n <= m
    <3> HIDE DEF Sizes
    <3> QED
      BY <2>1, LeastNatural
  <2>3. PICK s \in Bad : n = Cardinality(s)
    OBVIOUS
  <2>4. s # {}
    BY <1>3
  <2> DEFINE x == CHOOSE x \in s : TRUE
  <2>5. x \in S /\ s \ {x} \in SUBSET S /\ Cardinality(s \ {x}) \in Nat
        /\ Cardinality(s \ {x}) < n
    BY <2>3, <2>4, SmallerSubset
  <2>6. g[s \ {x}] \in Nat
    BY <2>2, <2>5
  <2>7. g[s] = f[x] + g[s \ {x}]
    BY <1>1, <2>4 DEF Unfold
  <2> QED
    BY <2>5, <2>6, <2>7
<1> QED
  BY <1>2, <1>3, <1>4

-------------------------------------------------------------------------------
(* Counting the smaller members numbers a finite set of naturals.          *)
LEMMA RankExists ==
  ASSUME NEW S \in SUBSET Nat, IsFiniteSet(S)
  PROVE  /\ Cardinality(S) \in Nat
         /\ \A i \in 1 .. Cardinality(S) :
              \E n \in S : Cardinality({m \in S : m < n}) = i - 1
         /\ \A n \in S : \E i \in 1 .. Cardinality(S) : Cardinality({m \in S : m < n}) = i - 1
         /\ \A n, k \in S : Cardinality({m \in S : m < n}) = Cardinality({m \in S : m < k})
                              => n = k
<1> DEFINE Lower(n) == {m \in S : m < n}
           rank == [n \in S |-> Cardinality(Lower(n))]
<1>1. Cardinality(S) \in Nat
  BY FS_CardinalityType
<1>2. ASSUME NEW n \in S
      PROVE  /\ IsFiniteSet(Lower(n))
             /\ Cardinality(Lower(n)) \in 0 .. Cardinality(S) - 1
  <2>1. Lower(n) \in SUBSET S /\ n \notin Lower(n)
    OBVIOUS
  <2> HIDE DEF Lower
  <2>2. IsFiniteSet(Lower(n)) /\ Cardinality(Lower(n)) <= Cardinality(S)
        /\ Cardinality(Lower(n)) # Cardinality(S)
    BY <2>1, FS_Subset
  <2>3. Cardinality(Lower(n)) \in Nat
    BY <2>2, FS_CardinalityType
  <2> QED
    BY <1>1, <2>2, <2>3
<1>3. ASSUME NEW n \in S, NEW k \in S, n < k
      PROVE  Cardinality(Lower(n)) # Cardinality(Lower(k))
  <2>1. Lower(n) \in SUBSET Lower(k) /\ n \in Lower(k) /\ n \notin Lower(n)
    <3>1. \A x \in S : x \in Nat
      OBVIOUS
    <3>2. \A x \in Lower(n) : x \in Lower(k)
      BY <1>3, <3>1
    <3>3. n \in Lower(k) /\ n \notin Lower(n)
      BY <1>3, <3>1
    <3> QED
      BY <3>2, <3>3
  <2>2. IsFiniteSet(Lower(k))
    BY <1>2
  <2> HIDE DEF Lower
  <2> QED
    BY <2>1, <2>2, FS_Subset
<1> HIDE DEF Lower
<1>4. \A n, k \in S : Cardinality(Lower(n)) = Cardinality(Lower(k)) => n = k
  <2>1. \A n, k \in S : n = k \/ n < k \/ k < n
    OBVIOUS
  <2> QED
    BY <1>3, <2>1
<1>5. rank \in Injection(S, 0 .. Cardinality(S) - 1)
  BY <1>2, <1>4 DEF Injection, IsInjective
<1>6. /\ IsFiniteSet(0 .. Cardinality(S) - 1)
      /\ Cardinality(0 .. Cardinality(S) - 1) = Cardinality(S)
  <2> DEFINE c == Cardinality(S)
  <2>1. c \in Nat
    BY <1>1
  <2> HIDE DEF c
  <2>2. IsFiniteSet(0 .. c - 1) /\ Cardinality(0 .. c - 1) = c
    BY <2>1, FS_Interval
  <2> QED
    BY <2>2 DEF c
<1>7. rank \in Surjection(S, 0 .. Cardinality(S) - 1)
  <2> HIDE DEF rank
  <2> QED
    BY <1>5, <1>6, FS_Injection
<1>8. ASSUME NEW i \in 1 .. Cardinality(S) PROVE \E n \in S : Cardinality(Lower(n)) = i - 1
  <2>1. i - 1 \in 0 .. Cardinality(S) - 1
    BY <1>1
  <2> QED
    BY <1>7, <2>1 DEF Surjection
<1>9. ASSUME NEW n \in S PROVE \E i \in 1 .. Cardinality(S) : Cardinality(Lower(n)) = i - 1
  <2>1. /\ Cardinality(Lower(n)) + 1 \in 1 .. Cardinality(S)
        /\ Cardinality(Lower(n)) = (Cardinality(Lower(n)) + 1) - 1
    BY <1>1, <1>2
  <2> QED
    BY <2>1
<1> QED
  BY <1>1, <1>4, <1>8, <1>9 DEF Lower

-------------------------------------------------------------------------------
(* Comparing fractions by cross multiplication is transitive.              *)
LEMMA Monotone ==
  ASSUME NEW a \in Nat, NEW b \in Nat, NEW z \in Nat, a <= b
  PROVE  a * z <= b * z
<1>1. PICK d \in Nat : b = a + d
  <2>1. b - a \in Nat /\ b = a + (b - a)
    OBVIOUS
  <2> QED
    BY <2>1
<1>2. (a + d) * z = a * z + d * z
  OBVIOUS
<1>3. a * z \in Nat /\ d * z \in Nat
  OBVIOUS
<1> QED
  BY <1>1, <1>2, <1>3

LEMMA Cancel ==
  ASSUME NEW a \in Nat, NEW b \in Nat, NEW y \in Nat, y > 0, a * y <= b * y
  PROVE  a <= b
<1> SUFFICES ASSUME b + 1 <= a PROVE FALSE
  OBVIOUS
<1>1. (b + 1) * y <= a * y
  BY Monotone
<1>2. (b + 1) * y = b * y + y
  OBVIOUS
<1>3. b * y \in Nat /\ a * y \in Nat
  OBVIOUS
<1> QED
  BY <1>1, <1>2, <1>3

LEMMA FractionsTransitive ==
  ASSUME NEW a \in Nat, NEW b \in Nat, NEW c \in Nat,
         NEW x \in Nat, NEW y \in Nat, NEW z \in Nat,
         y > 0, a * y <= b * x, b * z <= c * y
  PROVE  a * z <= c * x
<1>1. a * y \in Nat /\ b * x \in Nat /\ b * z \in Nat /\ c * y \in Nat /\ a * z \in Nat /\ c * x \in Nat
  OBVIOUS
<1>2. (a * y) * z <= (b * x) * z
  BY <1>1, Monotone
<1>3. (b * z) * x <= (c * y) * x
  BY <1>1, Monotone
<1>4. (a * y) * z = (a * z) * y /\ (b * x) * z = (b * z) * x /\ (c * y) * x = (c * x) * y
  OBVIOUS
<1>5. (a * z) * y <= (c * x) * y
  <2>1. (a * z) * y \in Nat /\ (b * z) * x \in Nat /\ (c * x) * y \in Nat
    BY <1>1
  <2> QED
    BY <1>2, <1>3, <1>4, <2>1
<1> QED
  BY <1>1, <1>5, Cancel

-------------------------------------------------------------------------------
(* A queue without repetitions whose head leaves while others join.        *)
LEMMA RequeuedSequence ==
  ASSUME NEW S, NEW q \in Seq(S), q # <<>>, IsInjective(q),
         NEW r \in Seq(S), IsInjective(r), Range(q) \cap Range(r) = {}
  PROVE  /\ Tail(q) \o r \in Seq(S \ {Head(q)})
         /\ Range(Tail(q) \o r) = (Range(q) \ {Head(q)}) \cup Range(r)
         /\ IsInjective(Tail(q) \o r)
<1> DEFINE t == Tail(q)
           w == t \o r
<1>1. /\ Len(q) \in Nat /\ Len(q) > 0 /\ DOMAIN q = 1 .. Len(q) /\ Head(q) = q[1]
      /\ \A i \in 1 .. Len(q) : q[i] \in S
  BY EmptySeq, LenProperties
<1>2. /\ t \in Seq(S) /\ Len(t) = Len(q) - 1 /\ DOMAIN t = 1 .. Len(t)
      /\ \A i \in 1 .. Len(t) : t[i] = q[i + 1]
  BY HeadTailProperties, LenProperties
<1>3. Len(r) \in Nat /\ DOMAIN r = 1 .. Len(r) /\ \A i \in 1 .. Len(r) : r[i] \in S
  BY LenProperties
<1> HIDE DEF t
<1>4. /\ w \in Seq(S) /\ Len(w) = Len(t) + Len(r)
      /\ \A i \in 1 .. Len(t) + Len(r) : w[i] = IF i <= Len(t) THEN t[i] ELSE r[i - Len(t)]
  BY <1>2, ConcatProperties
<1>5. Range(w) = Range(t) \cup Range(r)
  BY <1>2, RangeConcatenation
<1>6. DOMAIN w = 1 .. Len(t) + Len(r) /\ Len(t) \in Nat
  BY <1>2, <1>4, LenProperties
<1> HIDE DEF w
<1>7. \A i, j \in 1 .. Len(q) : q[i] = q[j] => i = j
  BY <1>1 DEF IsInjective
<1>8. Range(t) = Range(q) \ {Head(q)}
  <2>1. ASSUME NEW i \in 1 .. Len(q), q[i] # Head(q)
        PROVE  i - 1 \in 1 .. Len(t) /\ t[i - 1] = q[i]
    <3>1. i # 1 /\ i - 1 \in 1 .. Len(t)
      BY <1>1, <1>2, <2>1
    <3>2. t[i - 1] = q[(i - 1) + 1]
      BY <1>2, <3>1
    <3> QED
      BY <3>1, <3>2
  <2>2. ASSUME NEW i \in 1 .. Len(t)
        PROVE  i + 1 \in 1 .. Len(q) /\ t[i] = q[i + 1] /\ t[i] # Head(q)
    BY <1>1, <1>2, <1>7
  <2> QED
    BY <1>1, <1>2, <2>1, <2>2 DEF Range
<1>9. w \in Seq(S \ {Head(q)})
  <2>1. Range(w) \subseteq S \ {Head(q)}
    <3>1. Range(r) \subseteq S /\ Range(q) \subseteq S /\ Head(q) \in Range(q)
      BY <1>1, <1>3 DEF Range
    <3> QED
      BY <1>5, <1>8, <3>1
  <2>2. w \in Seq(Range(w))
    BY <1>4, SeqOfRange
  <2> QED
    BY <2>1, <2>2, SeqMonotonic
<1>10. IsInjective(w)
  <2> SUFFICES ASSUME NEW i \in 1 .. Len(t) + Len(r), NEW j \in 1 .. Len(t) + Len(r), w[i] = w[j]
               PROVE  i = j
    BY <1>6 DEF IsInjective
  <2>1. CASE i <= Len(t) /\ j <= Len(t)
    <3>1. q[i + 1] = q[j + 1] /\ i + 1 \in 1 .. Len(q) /\ j + 1 \in 1 .. Len(q)
      BY <1>1, <1>2, <1>4, <1>6, <2>1
    <3>2. i + 1 = j + 1
      BY <1>7, <3>1
    <3> QED
      BY <3>2
  <2>2. CASE i > Len(t) /\ j > Len(t)
    <3>1. r[i - Len(t)] = r[j - Len(t)] /\ i - Len(t) \in 1 .. Len(r) /\ j - Len(t) \in 1 .. Len(r)
      BY <1>3, <1>4, <1>6, <2>2
    <3>2. i - Len(t) = j - Len(t)
      BY <1>3, <3>1 DEF IsInjective
    <3> QED
      BY <1>6, <3>2
  <2>3. ASSUME NEW a \in 1 .. Len(t), NEW b \in 1 .. Len(r) PROVE t[a] # r[b]
    <3>1. t[a] \in Range(q) /\ r[b] \in Range(r)
      BY <1>2, <1>3, <1>8 DEF Range
    <3> QED
      BY <3>1
  <2>4. CASE i <= Len(t) /\ j > Len(t)
    <3>1. i \in 1 .. Len(t) /\ j - Len(t) \in 1 .. Len(r) /\ w[i] = t[i] /\ w[j] = r[j - Len(t)]
      BY <1>3, <1>4, <1>6, <2>4
    <3> QED
      BY <2>3, <3>1
  <2>5. CASE i > Len(t) /\ j <= Len(t)
    <3>1. j \in 1 .. Len(t) /\ i - Len(t) \in 1 .. Len(r) /\ w[j] = t[j] /\ w[i] = r[i - Len(t)]
      BY <1>3, <1>4, <1>6, <2>5
    <3> QED
      BY <2>3, <3>1
  <2> QED
    BY <1>6, <2>1, <2>2, <2>4, <2>5
<1> QED
  BY <1>5, <1>8, <1>9, <1>10 DEF w, t

LEMMA RangeAppend ==
  ASSUME NEW S, NEW s \in Seq(S), NEW e \in S
  PROVE  /\ Append(s, e) \in Seq(S)
         /\ Range(Append(s, e)) = Range(s) \cup {e}
<1> DEFINE t == <<e>>
<1>1. Append(s, e) = s \o t /\ t \in Seq(S) /\ Append(s, e) \in Seq(S)
  BY AppendIsConcat, AppendProperties
<1>2. Range(t) = {e}
  BY DEF Range
<1> HIDE DEF t
<1> QED
  BY <1>1, <1>2, RangeConcatenation


(* A function's values are no more than its arguments.                     *)
LEMMA ImageSize ==
  ASSUME NEW f, IsFiniteSet(DOMAIN f)
  PROVE  /\ IsFiniteSet({f[x] : x \in DOMAIN f})
         /\ Cardinality({f[x] : x \in DOMAIN f}) <= Cardinality(DOMAIN f)
<1> DEFINE S == DOMAIN f
           T == {f[x] : x \in S}
           g == [x \in S |-> f[x]]
<1>1. g \in Surjection(S, T)
  BY DEF Surjection
<1> HIDE DEF S, T, g
<1>2. IsFiniteSet(S)
  BY DEF S
<1>3. IsFiniteSet(T) /\ Cardinality(T) <= Cardinality(S)
  BY <1>1, <1>2, FS_Surjection
<1> QED
  BY <1>3 DEF S, T


-------------------------------------------------------------------------------
(***************************************************************************)
(* Induction and recursion with sets and functions in place of predicates  *)
(* and operators: what a recursively defined function needs to be one.     *)
(***************************************************************************)
LEMMA UpToInduction ==
  ASSUME NEW N \in Nat, NEW P, 0 \in P, \A n \in 1 .. N : n - 1 \in P => n \in P
  PROVE  0 .. N \subseteq P
<1> DEFINE Bad == (0 .. N) \ P
<1> SUFFICES ASSUME Bad # {} PROVE FALSE
  OBVIOUS
<1>1. PICK n \in Bad : \A m \in Bad : n <= m
  <2>1. Bad \in SUBSET Nat
    OBVIOUS
  <2> HIDE DEF Bad
  <2> QED
    BY <2>1, LeastNatural
<1>2. n \in 1 .. N /\ n \notin P
  OBVIOUS
<1>3. n - 1 \in 0 .. N /\ ~(n <= n - 1)
  BY <1>2
<1>4. n - 1 \in P
  BY <1>1, <1>3
<1> QED
  BY <1>2, <1>4

\* From a value of V, h leads to another.
Steps(N, V, a, h) == a \in V /\ \A n \in 1 .. N, v \in V : h[<<n, v>>] \in V

\* One unfolding of a function on 0 .. N that starts with a and goes on by h.
Iterate(N, a, h, g) == [n \in 0 .. N |-> IF n = 0 THEN a ELSE h[<<n, g[n - 1]>>]]

LEMMA IterationExists ==
  ASSUME NEW N \in Nat, NEW V, NEW a, NEW h, Steps(N, V, a, h)
  PROVE  \E g \in [0 .. N -> V] : g = Iterate(N, a, h, g)
<1> USE DEF Steps
<1> DEFINE P == {n \in 0 .. N : \E g \in [0 .. n -> V] : g = Iterate(n, a, h, g)}
<1>1. 0 \in P
  <2> DEFINE g == [n \in 0 .. 0 |-> a]
  <2>1. g \in [0 .. 0 -> V] /\ g = Iterate(0, a, h, g)
    BY DEF Iterate
  <2> QED
    BY <2>1
<1>2. ASSUME NEW n \in 1 .. N, n - 1 \in P PROVE n \in P
  <2>1. PICK g \in [0 .. n - 1 -> V] : g = Iterate(n - 1, a, h, g)
    BY <1>2
  <2> DEFINE k == [i \in 0 .. n |-> IF i = n THEN h[<<n, g[n - 1]>>] ELSE g[i]]
  <2>2. n - 1 \in 0 .. n - 1 /\ g[n - 1] \in V
    OBVIOUS
  <2>3. k \in [0 .. n -> V]
    <3>1. \A i \in 0 .. n : i # n => i \in 0 .. n - 1
      OBVIOUS
    <3> QED
      BY <2>2, <3>1
  <2>4. ASSUME NEW i \in 0 .. n
        PROVE  k[i] = IF i = 0 THEN a ELSE h[<<i, k[i - 1]>>]
    <3>1. CASE i = 0
      <4>1. 0 \in 0 .. n - 1 /\ i # n
        BY <3>1
      <4>2. g[0] = a
        BY <2>1, <4>1 DEF Iterate
      <4> QED
        BY <3>1, <4>1, <4>2
    <3>2. CASE i # 0
      <4>1. i - 1 \in 0 .. n - 1 /\ i - 1 \in 0 .. n /\ i - 1 # n
        BY <3>2
      <4>2. k[i - 1] = g[i - 1]
        BY <4>1
      <4>3. CASE i = n
        BY <3>2, <4>2, <4>3
      <4>4. CASE i # n
        <5>1. i \in 0 .. n - 1
          BY <4>4
        <5>2. g[i] = h[<<i, g[i - 1]>>]
          BY <2>1, <3>2, <5>1 DEF Iterate
        <5> QED
          BY <3>2, <4>2, <4>4, <5>2
      <4> QED
        BY <4>3, <4>4
    <3> QED
      BY <3>1, <3>2
  <2> HIDE DEF k
  <2>5. k = Iterate(n, a, h, k)
    BY <2>3, <2>4 DEF Iterate
  <2> QED
    BY <2>3, <2>5
<1> HIDE DEF P
<1>3. N \in P
  BY <1>1, <1>2, UpToInduction
<1> QED
  BY <1>3 DEF P

\* P has the empty set, and every subset of S that has it without its member chosen by c.
Inductive(S, c, P) ==
  /\ {} \in P
  /\ \A s \in SUBSET S : s # {} => c[s] \in s /\ (s \ {c[s]} \in P => s \in P)

(* The same on the subsets of a finite set, by taking out chosen members.  *)
LEMMA SubsetInduction ==
  ASSUME NEW S, IsFiniteSet(S), NEW c, NEW P, Inductive(S, c, P)
  PROVE  SUBSET S \subseteq P
<1> USE DEF Inductive
<1> DEFINE Q == {n \in Nat : \A s \in SUBSET S : Cardinality(s) = n => s \in P}
<1>1. ASSUME NEW s \in SUBSET S
      PROVE  IsFiniteSet(s) /\ Cardinality(s) \in Nat /\ Cardinality(s) <= Cardinality(S)
  BY FS_Subset, FS_CardinalityType
<1>2. 0 \in Q
  BY <1>1, FS_EmptySet
<1>3. Cardinality(S) \in Nat
  BY FS_CardinalityType
<1>4. ASSUME NEW n \in 1 .. Cardinality(S), n - 1 \in Q PROVE n \in Q
  <2>1. ASSUME NEW s \in SUBSET S, Cardinality(s) = n PROVE s \in P
    <3>1. s # {}
      <4>1. n # 0
        BY <1>3
      <4> QED
        BY <2>1, <4>1, FS_EmptySet
    <3>2. c[s] \in s /\ s \ {c[s]} \in SUBSET S
      BY <3>1
    <3>3. Cardinality(s \ {c[s]}) = n - 1
      BY <1>1, <2>1, <3>2, FS_RemoveElement
    <3>4. s \ {c[s]} \in P
      BY <1>4, <3>2, <3>3
    <3> QED
      BY <3>1, <3>4
  <2> QED
    BY <2>1
<1> HIDE DEF Q
<1>5. 0 .. Cardinality(S) \subseteq Q
  BY <1>2, <1>3, <1>4, UpToInduction
<1>6. ASSUME NEW s \in SUBSET S PROVE s \in P
  <2>1. Cardinality(s) \in 0 .. Cardinality(S)
    BY <1>1, <1>3
  <2> QED
    BY <1>5, <2>1 DEF Q
<1> QED
  BY <1>6


\* c chooses members of the subsets of S, and with each h leads from V to V.
FoldSteps(S, c, V, a, h) ==
  /\ a \in V
  /\ \A x \in S, v \in V : h[<<x, v>>] \in V
  /\ \A s \in SUBSET S : s # {} => c[s] \in s

\* g on the subsets of S is a on the empty set and goes on by h.
FoldBy(S, c, V, a, h, g) ==
  /\ g \in [SUBSET S -> V]
  /\ g = [s \in SUBSET S |-> IF s = {} THEN a ELSE h[<<c[s], g[s \ {c[s]}]>>]]

LEMMA FoldExists ==
  ASSUME NEW S, IsFiniteSet(S), NEW c, NEW V, NEW a, NEW h, FoldSteps(S, c, V, a, h)
  PROVE  \E g : FoldBy(S, c, V, a, h, g)
<1> USE DEF FoldSteps
<1> DEFINE N == Cardinality(S)
           rest(s) == s \ {c[s]}
           Fits(n, g) == /\ g \in [UpTo(S, n) -> V]
                         /\ \A s \in UpTo(S, n) : g[s] = IF s = {} THEN a ELSE h[<<c[s], g[rest(s)]>>]
           P == {n \in 0 .. N : \E g : Fits(n, g)}
<1>1. N \in Nat
  BY FS_CardinalityType
<1>2. ASSUME NEW s \in SUBSET S
      PROVE  /\ IsFiniteSet(s) /\ Cardinality(s) \in Nat /\ Cardinality(s) <= N
             /\ s = {} <=> Cardinality(s) = 0
             /\ s # {} => /\ c[s] \in S /\ rest(s) \in SUBSET S
                          /\ Cardinality(rest(s)) = Cardinality(s) - 1
  <2>1. IsFiniteSet(s) /\ Cardinality(s) \in Nat /\ Cardinality(s) <= N
    BY FS_Subset, FS_CardinalityType
  <2>2. s = {} <=> Cardinality(s) = 0
    BY <2>1, FS_EmptySet
  <2>3. ASSUME s # {}
        PROVE  c[s] \in s /\ rest(s) \in SUBSET S /\ Cardinality(rest(s)) = Cardinality(s) - 1
    BY <2>1, <2>3, FS_RemoveElement
  <2> QED
    BY <2>1, <2>2, <2>3
<1>3. 0 \in P
  <2> DEFINE g == [s \in UpTo(S, 0) |-> a]
  <2>1. ASSUME NEW s \in UpTo(S, 0) PROVE s = {}
    <3>1. s \in SUBSET S /\ Cardinality(s) <= 0
      BY DEF UpTo
    <3>2. Cardinality(s) \in Nat /\ (s = {} <=> Cardinality(s) = 0)
      BY <1>2, <3>1
    <3> QED
      BY <3>1, <3>2
  <2>2. Fits(0, g)
    BY <2>1
  <2> QED
    BY <1>1, <2>2
<1>4. ASSUME NEW n \in 1 .. N, n - 1 \in P PROVE n \in P
  <2>1. PICK g : Fits(n - 1, g)
    BY <1>4
  <2> DEFINE k == [s \in UpTo(S, n) |-> IF s = {} THEN a ELSE h[<<c[s], g[rest(s)]>>]]
  <2>2. ASSUME NEW s \in UpTo(S, n), s # {}
        PROVE  /\ rest(s) \in UpTo(S, n - 1) /\ rest(s) \in UpTo(S, n) /\ c[s] \in S
    <3>1. s \in SUBSET S /\ Cardinality(s) <= n
      BY DEF UpTo
    <3>2. /\ rest(s) \in SUBSET S /\ c[s] \in S
          /\ Cardinality(rest(s)) = Cardinality(s) - 1 /\ Cardinality(s) \in Nat
      BY <1>2, <2>2, <3>1
    <3> HIDE DEF rest
    <3>3. Cardinality(rest(s)) <= n - 1 /\ Cardinality(rest(s)) <= n
      BY <1>1, <3>1, <3>2
    <3> QED
      BY <3>2, <3>3 DEF UpTo
  <2>3. ASSUME NEW s \in UpTo(S, n), s # {} PROVE k[rest(s)] = g[rest(s)]
    <3>1. rest(s) \in UpTo(S, n - 1) /\ rest(s) \in UpTo(S, n)
      BY <2>2, <2>3
    <3>2. g[rest(s)] = IF rest(s) = {} THEN a ELSE h[<<c[rest(s)], g[rest(rest(s))]>>]
      BY <2>1, <3>1
    <3> QED
      BY <3>1, <3>2
  <2>4. k \in [UpTo(S, n) -> V]
    <3>1. ASSUME NEW s \in UpTo(S, n), s # {} PROVE h[<<c[s], g[rest(s)]>>] \in V
      BY <2>1, <2>2, <3>1
    <3> QED
      BY <3>1
  <2>5. Fits(n, k)
    BY <2>3, <2>4
  <2> HIDE DEF Fits, k
  <2>6. n \in 0 .. N
    BY <1>1
  <2> QED
    BY <2>5, <2>6
<1> HIDE DEF P
<1>5. N \in P
  BY <1>1, <1>3, <1>4, UpToInduction
<1>6. PICK g : Fits(N, g)
  BY <1>5 DEF P
<1>7. UpTo(S, N) = SUBSET S
  BY <1>2 DEF UpTo
<1>8. g \in [SUBSET S -> V] /\ g = [s \in SUBSET S |-> g[s]]
  BY <1>6, <1>7
<1>9. \A s \in SUBSET S : g[s] = IF s = {} THEN a ELSE h[<<c[s], g[s \ {c[s]}]>>]
  BY <1>6, <1>7
<1>10. FoldBy(S, c, V, a, h, g)
  <2>1. g = [s \in SUBSET S |-> IF s = {} THEN a ELSE h[<<c[s], g[s \ {c[s]}]>>]]
    BY <1>8, <1>9
  <2> QED
    BY <1>8, <2>1 DEF FoldBy
<1> QED
  BY <1>10

-------------------------------------------------------------------------------
\* G is the function FlattenSeq defines.
Flattening(ss, N, G) ==
  G = CHOOSE g : g = [i \in 1 .. N |-> IF i = 1 THEN ss[i] ELSE g[i - 1] \o ss[i]]

Unrolled(ss, N, T, G) ==
  /\ \A n \in 1 .. N : G[n] \in Seq(T)
  /\ \A n \in 1 .. N : G[n] = IF n = 1 THEN ss[n] ELSE G[n - 1] \o ss[n]

(* FlattenSeq's recursion defines a function, with sequences as values.    *)
LEMMA FlattenRecursion ==
  ASSUME NEW T, NEW ss \in Seq(Seq(T)), NEW N, N = Len(ss), NEW G, Flattening(ss, N, G)
  PROVE  Unrolled(ss, N, T, G)
<1>0. N \in Nat /\ \A i \in 1 .. N : ss[i] \in Seq(T)
  BY LenProperties
<1> DEFINE V == Seq(T)
           h == [p \in (1 .. N) \X V |-> p[2] \o ss[p[1]]]
<1>1. \A v \in V, i \in 1 .. N : v \o ss[i] \in V
  BY <1>0, ConcatProperties
<1>2. <<>> \in V /\ \A i \in 1 .. N : <<>> \o ss[i] = ss[i]
  BY <1>0, ConcatEmptySeq
<1> HIDE DEF V
<1>3. \A v \in V, i \in 1 .. N : h[<<i, v>>] = v \o ss[i]
  OBVIOUS
<1> HIDE DEF h
<1>4. PICK a \in V : a = <<>>
  BY <1>2
<1>5. Steps(N, V, a, h)
  BY <1>1, <1>3 DEF Steps
<1>6. PICK g \in [0 .. N -> V] : g = Iterate(N, a, h, g)
  BY <1>0, <1>5, IterationExists
<1> DEFINE f == [i \in 1 .. N |-> g[i]]
<1>7. ASSUME NEW i \in 1 .. N PROVE f[i] = IF i = 1 THEN ss[i] ELSE f[i - 1] \o ss[i]
  <2>1. i \in 0 .. N /\ i # 0 /\ i - 1 \in 0 .. N /\ 0 \in 0 .. N
    BY <1>0
  <2>2. g[i] = h[<<i, g[i - 1]>>] /\ g[0] = a
    BY <1>6, <2>1 DEF Iterate
  <2>3. g[i] = g[i - 1] \o ss[i]
    BY <1>3, <2>1, <2>2
  <2>4. CASE i = 1
    <3>1. g[i - 1] = <<>>
      BY <1>4, <2>2, <2>4
    <3> QED
      BY <1>2, <2>3, <2>4, <3>1
  <2>5. CASE i # 1
    <3>1. i - 1 \in 1 .. N
      BY <2>5
    <3> QED
      BY <2>3, <2>5, <3>1
  <2> QED
    BY <2>4, <2>5
<1>8. f = [i \in 1 .. N |-> IF i = 1 THEN ss[i] ELSE f[i - 1] \o ss[i]]
  <2>1. f = [i \in 1 .. N |-> f[i]]
    OBVIOUS
  <2> HIDE DEF f
  <2> QED
    BY <1>7, <2>1
<1>9. G = [i \in 1 .. N |-> IF i = 1 THEN ss[i] ELSE G[i - 1] \o ss[i]]
  <2> HIDE DEF f
  <2> QED
    BY <1>8 DEF Flattening
<1> DEFINE P == {n \in 0 .. N : n # 0 => G[n] \in V}
<1>10. 0 \in P
  BY <1>0
<1>11. ASSUME NEW n \in 1 .. N, n - 1 \in P PROVE n \in P
  <2>1. G[n] = IF n = 1 THEN ss[n] ELSE G[n - 1] \o ss[n]
    BY <1>9
  <2>2. n # 1 => G[n - 1] \in V
    BY <1>11
  <2>3. ss[n] \in V
    BY <1>0 DEF V
  <2>4. G[n] \in V
    BY <1>1, <2>1, <2>2, <2>3
  <2> QED
    BY <2>4
<1> HIDE DEF P
<1>12. 0 .. N \subseteq P
  BY <1>0, <1>10, <1>11, UpToInduction
<1>13. ASSUME NEW n \in 1 .. N PROVE G[n] \in V
  <2>1. n \in 0 .. N /\ n # 0
    OBVIOUS
  <2>2. n \in P
    BY <1>12, <2>1
  <2> QED
    BY <2>1, <2>2 DEF P
<1>14. \A n \in 1 .. N : G[n] = IF n = 1 THEN ss[n] ELSE G[n - 1] \o ss[n]
  BY <1>9
<1> QED
  BY <1>13, <1>14 DEF V, Unrolled

\* g has the first sequences of ss put together.
JoinedUp(ss, T, g) ==
  /\ g[0] = <<>> /\ \A n \in 0 .. Len(ss) : g[n] \in Seq(T)
  /\ \A n \in 1 .. Len(ss) : g[n] = g[n - 1] \o ss[n]
  /\ FlattenSeq(ss) = g[Len(ss)]

(* Sequences are put together from left to right.                          *)
LEMMA FlattenSteps ==
  ASSUME NEW T, NEW ss \in Seq(Seq(T))
  PROVE  \E g : JoinedUp(ss, T, g)
<1> PICK N : N = Len(ss)
  OBVIOUS
<1>1. N \in Nat /\ \A i \in 1 .. N : ss[i] \in Seq(T)
  BY LenProperties
<1>2. PICK G : Flattening(ss, N, G)
  BY DEF Flattening
<1>3. Unrolled(ss, N, T, G)
  BY <1>2, FlattenRecursion
<1> USE DEF Unrolled
<1> DEFINE g == [n \in 0 .. N |-> IF n = 0 THEN <<>> ELSE G[n]]
<1>4. <<>> \in Seq(T) /\ \A i \in 1 .. N : <<>> \o ss[i] = ss[i]
  BY <1>1, ConcatEmptySeq
<1>5. g[0] = <<>> /\ \A n \in 1 .. N : g[n] = G[n]
  BY <1>1
<1>6. \A n \in 0 .. N : g[n] \in Seq(T)
  BY <1>1, <1>3, <1>4
<1>7. ASSUME NEW n \in 1 .. N PROVE g[n] = g[n - 1] \o ss[n]
  <2>1. CASE n = 1
    <3>1. g[n] = ss[n] /\ g[n - 1] = <<>>
      BY <1>3, <1>5, <2>1
    <3> QED
      BY <1>4, <3>1
  <2>2. CASE n # 1
    <3>1. n - 1 \in 1 .. N
      BY <2>2
    <3> QED
      BY <1>3, <1>5, <2>2, <3>1
  <2> QED
    BY <2>1, <2>2
<1>8. FlattenSeq(ss) = g[N]
  <2>1. CASE N = 0
    <3>1. ss = <<>>
      BY <2>1, EmptySeq
    <3> QED
      BY <1>5, <2>1, <3>1 DEF FlattenSeq
  <2>2. CASE N # 0
    <3>1. FlattenSeq(ss) = G[N]
      BY <1>2, <2>2 DEF FlattenSeq, Flattening
    <3>2. N \in 1 .. N
      BY <1>1, <2>2
    <3> QED
      BY <1>5, <3>1, <3>2
  <2> QED
    BY <2>1, <2>2
<1> HIDE DEF g
<1> QED
  BY <1>5, <1>6, <1>7, <1>8 DEF JoinedUp

(* Sequences put together have the members the parts have.                 *)
LEMMA Flattened ==
  ASSUME NEW T, NEW ss \in Seq(Seq(T))
  PROVE  FlattenSeq(ss) \in Seq(T)
<1>1. Len(ss) \in Nat /\ Len(ss) \in 0 .. Len(ss)
  BY LenProperties
<1>2. PICK g : JoinedUp(ss, T, g)
  BY FlattenSteps
<1> QED
  BY <1>1, <1>2 DEF JoinedUp

-------------------------------------------------------------------------------
(***************************************************************************)
(* Sums from left to right, and walks: sequences whose members change a    *)
(* number.                                                                 *)
(***************************************************************************)
\* r has the sums of the first numbers of e.
Sums(r, e, N) ==
  /\ r \in [0 .. N -> Int]
  /\ r[0] = 0
  /\ \A k \in 1 .. N : r[k] = r[k - 1] + e[k]

\* What FoldLeft unfolds to for a sum.
AddUp(e, N, g) ==
  g = [s \in SUBSET (1 .. N) |-> IF s = {} THEN 0 ELSE g[s \ {Max(s)}] + e[Max(s)]]

LEMMA MaxOf ==
  ASSUME NEW N \in Nat
  PROVE  /\ IsFiniteSet(1 .. N)
         /\ \A s \in SUBSET (1 .. N) : s # {} => Max(s) \in s
         /\ \A k \in 1 .. N : Max(1 .. k) = k
<1>1. IsFiniteSet(1 .. N)
  <2>1. PICK a \in Int, b \in Int : a = 1 /\ b = N
    OBVIOUS
  <2> QED
    BY <2>1, FS_Interval
<1>2. ASSUME NEW s \in SUBSET (1 .. N), s # {}
      PROVE  Max(s) \in s /\ \A y \in s : y <= Max(s)
  <2>1. s \in SUBSET Nat
    OBVIOUS
  <2>2. IsFiniteSet(s)
    <3> PICK S : S = 1 .. N
      OBVIOUS
    <3> QED
      BY <1>1, FS_Subset
  <2> QED
    BY <1>2, <2>1, <2>2, MaxNatural
<1>3. ASSUME NEW k \in 1 .. N PROVE Max(1 .. k) = k
  <2>1. (1 .. k) \in SUBSET (1 .. N) /\ k \in 1 .. k
    OBVIOUS
  <2> DEFINE m == Max(1 .. k)
  <2>2. m \in 1 .. k /\ k <= m
    BY <1>2, <2>1
  <2> HIDE DEF m
  <2>3. m = k
    BY <2>2
  <2> QED
    BY <2>3 DEF m
<1> QED
  BY <1>1, <1>2, <1>3

LEMMA AddUpExists ==
  ASSUME NEW N \in Nat, NEW e, \A k \in 1 .. N : e[k] \in Int
  PROVE  \E g : AddUp(e, N, g)
<1> DEFINE S == 1 .. N
           c == [s \in SUBSET S |-> Max(s)]
           h == [p \in S \X Int |-> p[2] + e[p[1]]]
<1>1. IsFiniteSet(S) /\ \A s \in SUBSET S : s # {} => c[s] = Max(s) /\ c[s] \in s
  BY MaxOf
<1>2. \A x \in S, v \in Int : h[<<x, v>>] = v + e[x] /\ h[<<x, v>>] \in Int
  OBVIOUS
<1>3. \A x \in S : x \in S
  OBVIOUS
<1> HIDE DEF S, c, h
<1>4. FoldSteps(S, c, Int, 0, h)
  BY <1>1, <1>2 DEF FoldSteps
<1>5. PICK g : FoldBy(S, c, Int, 0, h, g)
  BY <1>1, <1>4, FoldExists
<1>6. ASSUME NEW s \in SUBSET S
      PROVE  g[s] = IF s = {} THEN 0 ELSE g[s \ {Max(s)}] + e[Max(s)]
  <2>1. g[s] = IF s = {} THEN 0 ELSE h[<<c[s], g[s \ {c[s]}]>>]
    BY <1>5 DEF FoldBy
  <2>2. CASE s # {}
    <3>1. g[s \ {c[s]}] \in Int /\ c[s] \in S /\ c[s] = Max(s)
      BY <1>1, <1>5, <2>2 DEF FoldBy
    <3>2. g[s] = g[s \ {c[s]}] + e[c[s]]
      BY <1>2, <2>1, <2>2, <3>1
    <3> QED
      BY <2>2, <3>1, <3>2
  <2> QED
    BY <2>1, <2>2
<1>7. g = [s \in SUBSET S |-> IF s = {} THEN 0 ELSE g[s \ {Max(s)}] + e[Max(s)]]
  <2>1. g = [s \in SUBSET S |-> g[s]]
    BY <1>5 DEF FoldBy
  <2> QED
    BY <1>6, <2>1
<1> QED
  BY <1>7 DEF AddUp, S

(* A sum from left to right goes through the sums of the first numbers.    *)
LEMMA AddedUp ==
  ASSUME NEW N \in Nat, NEW e, \A k \in 1 .. N : e[k] \in Int, NEW g, AddUp(e, N, g)
  PROVE  \E r : Sums(r, e, N) /\ g[1 .. N] = r[N]
<1> DEFINE r == [k \in 0 .. N |-> g[1 .. k]]
           P == {k \in 0 .. N : g[1 .. k] \in Int}
<1>1. ASSUME NEW k \in 1 .. N PROVE g[1 .. k] = g[1 .. k - 1] + e[k]
  <2>1. (1 .. k) \in SUBSET (1 .. N) /\ 1 .. k # {} /\ (1 .. k) \ {k} = 1 .. k - 1
    OBVIOUS
  <2>2. Max(1 .. k) = k
    BY MaxOf
  <2>3. g[1 .. k] = g[(1 .. k) \ {Max(1 .. k)}] + e[Max(1 .. k)]
    BY <2>1 DEF AddUp
  <2> QED
    BY <2>1, <2>2, <2>3
<1>2. g[1 .. 0] = 0
  <2>1. 1 .. 0 = {} /\ {} \in SUBSET (1 .. N)
    OBVIOUS
  <2> QED
    BY <2>1 DEF AddUp
<1>3. 0 \in P
  BY <1>2
<1>4. \A k \in 1 .. N : k - 1 \in P => k \in P
  BY <1>1
<1> HIDE DEF P
<1>5. 0 .. N \subseteq P
  BY <1>3, <1>4, UpToInduction
<1>6. \A k \in 0 .. N : r[k] = g[1 .. k] /\ r[k] \in Int
  BY <1>5 DEF P
<1>7. r \in [0 .. N -> Int]
  BY <1>6
<1> HIDE DEF r
<1>8. Sums(r, e, N)
  <2>1. \A k \in 1 .. N : k \in 0 .. N /\ k - 1 \in 0 .. N /\ 0 \in 0 .. N
    OBVIOUS
  <2>2. 0 \in 0 .. N
    OBVIOUS
  <2> QED
    BY <1>1, <1>2, <1>6, <1>7, <2>1, <2>2 DEF Sums
<1>9. N \in 0 .. N
  OBVIOUS
<1> QED
  BY <1>6, <1>8, <1>9

\* f has the M numbers of e after place b.
PartOf(f, M, e, N, b) ==
  /\ b \in 0 .. N /\ M \in Nat /\ b + M <= N
  /\ \A k \in 1 .. N : e[k] \in Int
  /\ \A k \in 1 .. M : f[k] = e[b + k]

(* The numbers from place b on have the same sums from there.              *)
LEMMA SumsOfPart ==
  ASSUME NEW N \in Nat, NEW e, NEW r, Sums(r, e, N),
         NEW b, NEW M, NEW f, PartOf(f, M, e, N, b), NEW q, Sums(q, f, M)
  PROVE  \A k \in 0 .. M : q[k] = r[b + k] - r[b]
<1> USE DEF PartOf
<1> DEFINE P == {k \in 0 .. M : q[k] = r[b + k] - r[b]}
<1>1. M \in Nat /\ b + 0 = b /\ b \in 0 .. N
  OBVIOUS
<1>2. 0 \in P
  <2>1. q[0] = 0 /\ r[b] \in Int
    BY <1>1 DEF Sums
  <2> QED
    BY <1>1, <2>1
<1>3. ASSUME NEW k \in 1 .. M, k - 1 \in P PROVE k \in P
  <2>1. k \in 0 .. M /\ b + k \in 1 .. N /\ b + (k - 1) = (b + k) - 1 /\ (b + k) - 1 \in 0 .. N
    OBVIOUS
  <2>2. q[k] = q[k - 1] + f[k] /\ f[k] = e[b + k]
    BY DEF Sums
  <2>3. r[b + k] = r[(b + k) - 1] + e[b + k]
    BY <2>1 DEF Sums
  <2>4. r[b + k] \in Int /\ r[(b + k) - 1] \in Int /\ r[b] \in Int
    BY <1>1, <2>1 DEF Sums
  <2>5. q[k - 1] = r[(b + k) - 1] - r[b]
    BY <1>3, <2>1
  <2>6. k - 1 \in 0 .. M
    OBVIOUS
  <2>7. q[k] \in Int /\ q[k - 1] \in Int
    BY <2>1, <2>6 DEF Sums
  <2> PICK x \in Int : x = q[k - 1]
    BY <2>7
  <2> PICK y \in Int : y = r[(b + k) - 1]
    BY <2>4
  <2>8. PICK z \in Int : z = e[b + k]
    BY <2>1
  <2>9. q[k] = x + z /\ r[b + k] = y + z /\ x = y - r[b]
    BY <2>2, <2>3, <2>5, <2>8
  <2>10. q[k] = r[b + k] - r[b]
    BY <2>4, <2>8, <2>9
  <2> QED
    BY <2>1, <2>10
<1> HIDE DEF P
<1>4. 0 .. M \subseteq P
  BY <1>1, <1>2, <1>3, UpToInduction
<1> QED
  BY <1>4 DEF P


\* The members of s lead from n to m, by what d says of each, and none of c
\* leaves an odd number.
Walk(s, d, c, n, m) ==
  \E r \in [0 .. Len(s) -> Int] :
    /\ r[0] = n /\ r[Len(s)] = m
    /\ \A k \in 1 .. Len(s) : r[k] = r[k - 1] + d[s[k]] /\ (s[k] \in c => r[k] % 2 = 0)

LEMMA WalkStill ==
  ASSUME NEW T, NEW s \in Seq(T), NEW d, NEW c, \A x \in T : d[x] = 0 /\ x \notin c, NEW n \in Int
  PROVE  Walk(s, d, c, n, n)
<1> DEFINE r == [k \in 0 .. Len(s) |-> n]
<1>1. Len(s) \in Nat /\ \A k \in 1 .. Len(s) : s[k] \in T
  BY LenProperties
<1>2. r \in [0 .. Len(s) -> Int] /\ r[0] = n /\ r[Len(s)] = n
  BY <1>1
<1>3. ASSUME NEW k \in 1 .. Len(s)
      PROVE  r[k] = r[k - 1] + d[s[k]] /\ (s[k] \in c => r[k] % 2 = 0)
  <2>1. r[k] = n /\ r[k - 1] = n /\ d[s[k]] = 0 /\ s[k] \notin c
    BY <1>1
  <2> QED
    BY <2>1
<1> HIDE DEF r
<1> QED
  BY <1>2, <1>3 DEF Walk

LEMMA WalkNone ==
  ASSUME NEW d, NEW c, NEW n \in Int
  PROVE  Walk(<<>>, d, c, n, n)
<1> DEFINE r == [k \in 0 .. 0 |-> n]
<1>1. r \in [0 .. 0 -> Int] /\ r[0] = n
  OBVIOUS
<1>2. Len(<<>>) = 0 /\ 1 .. 0 = {}
  OBVIOUS
<1> HIDE DEF r
<1> QED
  BY <1>1, <1>2 DEF Walk

LEMMA WalkOne ==
  ASSUME NEW d, NEW c, NEW x, NEW n \in Int, NEW m \in Int, m = n + d[x], x \in c => m % 2 = 0
  PROVE  Walk(<<x>>, d, c, n, m)
<1> DEFINE r == [k \in 0 .. 1 |-> IF k = 0 THEN n ELSE m]
<1>1. r \in [0 .. 1 -> Int] /\ r[0] = n /\ r[1] = m
  OBVIOUS
<1> HIDE DEF r
<1>2. Len(<<x>>) = 1 /\ <<x>>[1] = x
  OBVIOUS
<1>3. \A k \in 1 .. 1 : k = 1
  OBVIOUS
<1> QED
  BY <1>1, <1>2, <1>3 DEF Walk

LEMMA WalkOn ==
  ASSUME NEW T, NEW s \in Seq(T), NEW t \in Seq(T), NEW d, NEW c, NEW n, NEW i, NEW m,
         Walk(s, d, c, n, i), Walk(t, d, c, i, m)
  PROVE  Walk(s \o t, d, c, n, m)
<1> PICK M : M = Len(s)
  OBVIOUS
<1> PICK N : N = Len(t)
  OBVIOUS
<1> PICK st : st = s \o t
  OBVIOUS
<1>0. M \in Nat /\ N \in Nat
  BY LenProperties
<1>1. /\ Len(st) = M + N
      /\ \A k \in 1 .. M : st[k] = s[k]
      /\ \A k \in M + 1 .. M + N : st[k] = t[k - M]
  BY LenProperties, ConcatProperties
<1>2. PICK q \in [0 .. M -> Int] :
        /\ q[0] = n /\ q[M] = i
        /\ \A k \in 1 .. M : q[k] = q[k - 1] + d[s[k]] /\ (s[k] \in c => q[k] % 2 = 0)
  BY DEF Walk
<1>3. PICK p \in [0 .. N -> Int] :
        /\ p[0] = i /\ p[N] = m
        /\ \A k \in 1 .. N : p[k] = p[k - 1] + d[t[k]] /\ (t[k] \in c => p[k] % 2 = 0)
  BY DEF Walk
<1> DEFINE r == [k \in 0 .. M + N |-> IF k <= M THEN q[k] ELSE p[k - M]]
<1>4. r \in [0 .. M + N -> Int]
  <2>1. ASSUME NEW k \in 0 .. M + N PROVE (IF k <= M THEN q[k] ELSE p[k - M]) \in Int
    <3>1. CASE k <= M
      <4>1. k \in 0 .. M
        BY <1>0, <3>1
      <4> QED
        BY <3>1, <4>1
    <3>2. CASE ~(k <= M)
      <4>1. k - M \in 0 .. N
        BY <1>0, <3>2
      <4> QED
        BY <3>2, <4>1
    <3> QED
      BY <3>1, <3>2
  <2> QED
    BY <2>1
<1>5. (\A k \in 0 .. M : r[k] = q[k]) /\ (\A k \in 0 .. N : r[M + k] = p[k])
  <2>1. ASSUME NEW k \in 0 .. M PROVE r[k] = q[k]
    BY <1>0
  <2>2. ASSUME NEW k \in 0 .. N PROVE r[M + k] = p[k]
    <3>1. CASE k = 0
      BY <1>0, <1>2, <1>3, <3>1
    <3>2. CASE k # 0
      <4>1. M + k \in 0 .. M + N /\ ~(M + k <= M) /\ (M + k) - M = k
        BY <1>0, <3>2
      <4> QED
        BY <4>1
    <3> QED
      BY <3>1, <3>2
  <2> QED
    BY <2>1, <2>2
<1> HIDE DEF r
<1>6. r[0] = n /\ r[M + N] = m
  BY <1>0, <1>2, <1>3, <1>5
<1>7. ASSUME NEW k \in 1 .. M + N
      PROVE  r[k] = r[k - 1] + d[st[k]] /\ (st[k] \in c => r[k] % 2 = 0)
  <2>1. CASE k <= M
    <3>1. k \in 1 .. M /\ k - 1 \in 0 .. M /\ k \in 0 .. M
      BY <1>0, <2>1
    <3> QED
      BY <1>1, <1>2, <1>5, <3>1
  <2>2. CASE ~(k <= M)
    <3>0. k - M \in 1 .. N
      BY <1>0, <2>2
    <3>1. PICK j \in 1 .. N : j = k - M
      BY <3>0
    <3>2. k = M + j /\ k - 1 = M + (j - 1) /\ j \in 0 .. N /\ j - 1 \in 0 .. N /\ k \in M + 1 .. M + N
      BY <1>0, <3>1
    <3>3. r[k] = p[j] /\ r[k - 1] = p[j - 1] /\ st[k] = t[j]
      BY <1>1, <1>5, <3>1, <3>2
    <3> QED
      BY <1>3, <3>3
  <2> QED
    BY <2>1, <2>2
<1>8. /\ r \in [0 .. Len(st) -> Int] /\ r[0] = n /\ r[Len(st)] = m
      /\ \A k \in 1 .. Len(st) : r[k] = r[k - 1] + d[st[k]] /\ (st[k] \in c => r[k] % 2 = 0)
  BY <1>1, <1>4, <1>6, <1>7
<1>9. Walk(st, d, c, n, m)
  BY <1>8 DEF Walk
<1> QED
  BY <1>9

LEMMA WalkThrough ==
  ASSUME NEW T, NEW ss \in Seq(Seq(T)), NEW d, NEW c, NEW t, t[0] \in Int,
         \A k \in 1 .. Len(ss) : Walk(ss[k], d, c, t[k - 1], t[k])
  PROVE  Walk(FlattenSeq(ss), d, c, t[0], t[Len(ss)])
<1> PICK N : N = Len(ss)
  OBVIOUS
<1>1. N \in Nat /\ \A k \in 1 .. N : ss[k] \in Seq(T)
  BY LenProperties
<1>2. PICK g : JoinedUp(ss, T, g)
  BY FlattenSteps
<1>. USE DEF JoinedUp
<1> DEFINE P == {k \in 0 .. N : Walk(g[k], d, c, t[0], t[k])}
<1>3. 0 \in P
  <2>1. Walk(<<>>, d, c, t[0], t[0])
    <3>1. PICK n \in Int : n = t[0]
      OBVIOUS
    <3> QED
      BY <3>1, WalkNone
  <2> QED
    BY <1>1, <1>2, <2>1
<1>4. ASSUME NEW k \in 1 .. N, k - 1 \in P PROVE k \in P
  <2>1. k - 1 \in 0 .. N /\ k \in 0 .. N
    BY <1>1
  <2>2. g[k - 1] \in Seq(T) /\ ss[k] \in Seq(T) /\ g[k] = g[k - 1] \o ss[k]
    BY <1>1, <1>2, <2>1
  <2>3. Walk(g[k - 1], d, c, t[0], t[k - 1]) /\ Walk(ss[k], d, c, t[k - 1], t[k])
    BY <1>4
  <2>4. Walk(g[k], d, c, t[0], t[k])
    BY <2>2, <2>3, WalkOn
  <2> QED
    BY <2>1, <2>4
<1> HIDE DEF P
<1>5. N \in P
  <2>1. 0 .. N \subseteq P
    BY <1>1, <1>3, <1>4, UpToInduction
  <2> QED
    BY <1>1, <2>1
<1> QED
  BY <1>2, <1>5 DEF P


(* Sums of naturals go up.                                                 *)
LEMMA SumsGrow ==
  ASSUME NEW N \in Nat, NEW e, \A k \in 1 .. N : e[k] \in Nat, NEW r, Sums(r, e, N)
  PROVE  \A j \in 0 .. N : \A i \in 0 .. j : r[i] <= r[j]
<1> DEFINE P == {j \in 0 .. N : \A i \in 0 .. j : r[i] <= r[j]}
<1>1. \A k \in 0 .. N : r[k] \in Int
  BY DEF Sums
<1>2. 0 \in P
  BY <1>1
<1>3. ASSUME NEW n \in 1 .. N, n - 1 \in P PROVE n \in P
  <2>1. r[n] = r[n - 1] + e[n] /\ e[n] \in Nat /\ r[n] \in Int /\ r[n - 1] \in Int
    BY <1>1 DEF Sums
  <2>2. r[n - 1] <= r[n]
    BY <2>1
  <2>3. ASSUME NEW i \in 0 .. n PROVE r[i] <= r[n]
    <3>1. CASE i = n
      BY <2>1, <3>1
    <3>2. CASE i # n
      <4>1. i \in 0 .. n - 1 /\ i \in 0 .. N
        BY <3>2
      <4>2. r[i] <= r[n - 1] /\ r[i] \in Int
        BY <1>1, <1>3, <4>1
      <4> QED
        BY <2>1, <2>2, <4>2
    <3> QED
      BY <3>1, <3>2
  <2> QED
    BY <2>3
<1>4. 0 .. N \subseteq P
  <2> HIDE DEF P
  <2> QED
    BY <1>2, <1>3, UpToInduction
<1> QED
  BY <1>4


\* f is e without its first k numbers.
RestOf(f, e, N, k) ==
  /\ k \in 0 .. N
  /\ \A j \in 1 .. N : e[j] \in Int
  /\ \A j \in 1 .. N - k : f[j] = e[k + j]

LEMMA SumOfRest ==
  ASSUME NEW N \in Nat, NEW e, NEW r, Sums(r, e, N), NEW k, NEW f, RestOf(f, e, N, k),
         NEW q, Sums(q, f, N - k)
  PROVE  q[N - k] = r[N] - r[k]
<1> PICK M \in Nat : M = N - k
  BY DEF RestOf
<1>1. k \in Nat /\ k + M = N /\ M \in 0 .. M
  BY DEF RestOf
<1>2. PartOf(f, M, e, N, k)
  BY <1>1 DEF PartOf, RestOf
<1>3. \A j \in 0 .. M : q[j] = r[k + j] - r[k]
  BY <1>2, SumsOfPart
<1> QED
  BY <1>1, <1>3


LEMMA EvenSum ==
  ASSUME NEW u \in Int, NEW v \in Int, u % 2 = 0, v % 2 = 0
  PROVE  (u + v) % 2 = 0
OBVIOUS

LEMMA EvenNegative ==
  ASSUME NEW u \in Int, u % 2 = 0
  PROVE  (0 - u) % 2 = 0
OBVIOUS


\* The members of t move as those of s.
Alike(s, d, c, t, e, f) ==
  /\ Len(t) = Len(s)
  /\ \A k \in 1 .. Len(s) : e[t[k]] = d[s[k]] /\ (t[k] \in f <=> s[k] \in c)

LEMMA WalkAlike ==
  ASSUME NEW s, NEW t, NEW d, NEW c, NEW e, NEW f, NEW n, NEW m,
         Walk(s, d, c, n, m), Alike(s, d, c, t, e, f)
  PROVE  Walk(t, e, f, n, m)
<1> PICK N : N = Len(s)
  OBVIOUS
<1>1. PICK r \in [0 .. N -> Int] :
        /\ r[0] = n /\ r[N] = m
        /\ \A k \in 1 .. N : r[k] = r[k - 1] + d[s[k]] /\ (s[k] \in c => r[k] % 2 = 0)
  BY DEF Walk
<1>2. Len(t) = N /\ \A k \in 1 .. N : e[t[k]] = d[s[k]] /\ (t[k] \in f <=> s[k] \in c)
  BY DEF Alike
<1>3. \A k \in 1 .. N : r[k] = r[k - 1] + e[t[k]] /\ (t[k] \in f => r[k] % 2 = 0)
  BY <1>1, <1>2
<1> QED
  BY <1>1, <1>2, <1>3 DEF Walk
===============================================================================
