--------------------------- MODULE ColoringProofs -----------------------------
(***************************************************************************)
(* Proofs, for every number of registers and every interference graph,     *)
(* that the allocator's colouring is right.  Coloring!Inv is inductive;    *)
(* the properties of Coloring are read off it.                             *)
(***************************************************************************)
EXTENDS Coloring, FiniteLemmas

LEMMA Registers ==
  /\ Node \subseteq Nat /\ Machine \subseteq Node
  /\ IsFiniteSet(Node) /\ IsFiniteSet(Machine) /\ Cardinality(Machine) = K
  /\ K \in Nat /\ K > 0
  /\ CalleeSave \subseteq Machine
  /\ -1 \notin Node /\ -1 \notin Machine
<1>1. K \in Nat /\ K > 0 /\ MaxNode \in Nat /\ K <= MaxNode
  BY RegisterAssumption
<1>2. IsFiniteSet(Node) /\ IsFiniteSet(Machine) /\ Cardinality(Machine) = K
  BY <1>1, FS_Interval DEF Node, Machine
<1> QED
  BY <1>1, <1>2, RegisterAssumption DEF Node, Machine

LEMMA NodeSets ==
  ASSUME NEW S \in SUBSET Node
  PROVE  IsFiniteSet(S) /\ Cardinality(S) \in Nat /\ S \in SUBSET Nat
BY Registers, FS_Subset, FS_CardinalityType

(* A pair is a set of two different elements.                              *)
LEMMA PairForm ==
  ASSUME NEW S \in SUBSET Node
  PROVE  /\ \A e \in Pairs(S) : \E a, b \in S : a # b /\ e = {a, b}
         /\ \A a, b \in S : a # b => {a, b} \in Pairs(S)
<1>1. ASSUME NEW e \in Pairs(S) PROVE \E a, b \in S : a # b /\ e = {a, b}
  <2>1. e \in SUBSET S /\ Cardinality(e) = 2
    BY <1>1 DEF Pairs
  <2>2. IsFiniteSet(e)
    BY <2>1, NodeSets
  <2>3. PICK a \in e : TRUE
    BY <2>1, FS_EmptySet
  <2>4. IsFiniteSet(e \ {a}) /\ Cardinality(e \ {a}) = 1
    BY <2>1, <2>2, <2>3, FS_RemoveElement
  <2>5. PICK b : e \ {a} = {b}
    BY <2>4, FS_Singleton
  <2> QED
    BY <2>1, <2>3, <2>5
<1>2. ASSUME NEW a \in S, NEW b \in S, a # b PROVE {a, b} \in Pairs(S)
  <2>1. IsFiniteSet({a}) /\ Cardinality({a}) = 1
    BY FS_Singleton
  <2>2. Cardinality({a} \cup {b}) = 2
    BY <1>2, <2>1, FS_AddElement
  <2>3. {a} \cup {b} = {a, b}
    OBVIOUS
  <2> QED
    BY <2>2, <2>3 DEF Pairs
<1> QED
  BY <1>1, <1>2

LEMMA PairEnds ==
  ASSUME NEW e \in Pairs(Node)
  PROVE  /\ Max(e) \in e /\ Min(e) \in e
         /\ Max(e) # Min(e)
         /\ e = {Max(e), Min(e)}
<1>1. PICK a, b \in Node : a # b /\ e = {a, b}
  BY PairForm
<1>2. a \in Nat /\ b \in Nat /\ (a < b \/ b < a)
  BY <1>1, Registers
<1>3. \E x \in e : \A y \in e : x >= y
  BY <1>1, <1>2
<1>4. \E x \in e : \A y \in e : x =< y
  BY <1>1, <1>2
<1>5. Max(e) \in e /\ \A y \in e : Max(e) >= y
  BY <1>3 DEF Max
<1>6. Min(e) \in e /\ \A y \in e : Min(e) =< y
  BY <1>4 DEF Min
<1> QED
  BY <1>1, <1>2, <1>5, <1>6

(* Ascending lists every member of a set once.                             *)
LEMMA AscendingLists ==
  ASSUME NEW S \in SUBSET Node
  PROVE  /\ Ascending(S) \in Seq(S)
         /\ Range(Ascending(S)) = S
         /\ DOMAIN Ascending(S) = 1 .. Cardinality(S)
         /\ Len(Ascending(S)) = Cardinality(S)
         /\ IsInjective(Ascending(S))
<1> DEFINE rank(n) == Cardinality({m \in S : m < n})
           A == Ascending(S)
<1>1. S \in SUBSET Nat /\ IsFiniteSet(S) /\ Cardinality(S) \in Nat
  BY NodeSets
<1>2. /\ \A i \in 1 .. Cardinality(S) : \E n \in S : rank(n) = i - 1
      /\ \A n \in S : \E i \in 1 .. Cardinality(S) : rank(n) = i - 1
      /\ \A n, k \in S : rank(n) = rank(k) => n = k
  BY <1>1, RankExists
<1>3. A = [i \in 1 .. Cardinality(S) |-> CHOOSE n \in S : rank(n) = i - 1]
  BY DEF Ascending
<1> HIDE DEF rank, A
<1>4. \A i \in 1 .. Cardinality(S) : A[i] \in S /\ rank(A[i]) = i - 1
  BY <1>2, <1>3
<1>5. A \in [1 .. Cardinality(S) -> S]
  BY <1>3, <1>4
<1>6. A \in Seq(S) /\ DOMAIN A = 1 .. Cardinality(S) /\ Len(A) = Cardinality(S)
  BY <1>1, <1>5
<1>7. ASSUME NEW n \in S PROVE \E i \in 1 .. Cardinality(S) : A[i] = n
  BY <1>2, <1>4
<1>8. Range(A) = S
  BY <1>4, <1>6, <1>7 DEF Range
<1>9. \A i, j \in 1 .. Cardinality(S) : A[i] = A[j] => i = j
  <2> SUFFICES ASSUME NEW i \in 1 .. Cardinality(S), NEW j \in 1 .. Cardinality(S), A[i] = A[j]
               PROVE  i = j
    OBVIOUS
  <2>1. i - 1 = j - 1
    BY <1>4
  <2> QED
    BY <1>1, <2>1
<1> QED
  BY <1>6, <1>8, <1>9 DEF A, IsInjective

(* The degree of a node is a number.                                       *)
LEMMA DegreeType ==
  ASSUME TypeOK, NEW n \in Node
  PROVE  Degree(n) \in Nat /\ IsFiniteSet(adj[n]) /\ adj[n] \in SUBSET Node
<1>1. adj[n] \in SUBSET Node
  BY DEF TypeOK
<1> QED
  BY <1>1, NodeSets DEF Degree

(* The three ways the code has to say that a node has no moves.            *)
LEMMA NoMoves ==
  ASSUME DOMAIN move \subseteq Pairs(Node), NEW n \in Node
  PROVE  /\ MoveNeighbors(n) = {} <=> EdgesAt(n) = {}
         /\ CanSimplify(n, DOMAIN move) <=> Free(n)
<1>1. ASSUME NEW e \in DOMAIN move, n \in e PROVE MoveNeighbors(n) # {}
  <2>1. PICK a, b \in Node : a # b /\ e = {a, b}
    BY PairForm
  <2>2. \E m \in Node : e = {n, m}
    BY <1>1, <2>1
  <2> QED
    BY <2>2 DEF MoveNeighbors
<1>2. MoveNeighbors(n) # {} => EdgesAt(n) # {}
  BY DEF MoveNeighbors, EdgesAt
<1>3. EdgesAt(n) = {} <=> \A e \in DOMAIN move : n \notin e
  BY DEF EdgesAt
<1> QED
  BY <1>1, <1>2, <1>3 DEF CanSimplify, Free

(* A node of least cost per degree exists among nodes with neighbours.     *)
LEMMA CheapestMember ==
  ASSUME TypeOK, NEW S \in SUBSET Node, S # {}, NEW cost,
         \A n \in S : cost[n] \in Nat /\ Degree(n) > 0
  PROVE  Cheapest(S, cost) \in S
<1> DEFINE R == {p \in S \X S : cost[p[1]] * Degree(p[2]) <= cost[p[2]] * Degree(p[1])}
           Best == {n \in S : \A m \in S : cost[n] * Degree(m) <= cost[m] * Degree(n)}
<1>1. \A n \in S : cost[n] \in Nat /\ Degree(n) \in Nat /\ Degree(n) > 0
  BY DegreeType
<1>2. \A n, m \in S : cost[n] * Degree(m) \in Nat
  BY <1>1
<1>3. \A n, m \in S : <<n, m>> \in R \/ <<m, n>> \in R
  BY <1>2
<1>4. ASSUME NEW n \in S, NEW m \in S, NEW l \in S, <<n, m>> \in R, <<m, l>> \in R
      PROVE  <<n, l>> \in R
  <2>1. cost[n] * Degree(m) <= cost[m] * Degree(n) /\ cost[m] * Degree(l) <= cost[l] * Degree(m)
    BY <1>4
  <2>2. cost[n] * Degree(l) <= cost[l] * Degree(n)
    BY <1>1, <2>1, FractionsTransitive
  <2> QED
    BY <2>2
<1>5. \E n \in S : \A m \in S : <<n, m>> \in R
  <2> HIDE DEF R
  <2> QED
    BY <1>3, <1>4, NodeSets, MinimalElement
<1>6. Best # {} /\ Best \in SUBSET Nat
  BY <1>5, NodeSets
<1>7. Min(Best) \in Best
  <2> HIDE DEF Best
  <2> QED
    BY <1>6, MinNatural
<1> QED
  BY <1>7 DEF Cheapest

(* A score is a number; a register that is not to be used for nothing, and *)
(* saves no frozen move, scores nothing.                                   *)
LEMMA ScoreType ==
  ASSUME TypeOK, ListsTyped, NEW n, NEW r
  PROVE  /\ Score(n, r) \in Nat
         /\ r \in CalleeSave /\ r \notin used /\ FrozenTo(n, r) = {} => Score(n, r) = 0
<1>1. IsFiniteSet(SUBSET Node)
  BY Registers, FS_SUBSET
<1>2. FrozenTo(n, r) \in SUBSET DOMAIN frozen
  BY DEF FrozenTo
<1>3. DOMAIN frozen \subseteq SUBSET Node
  BY DEF TypeOK, Pairs
<1>4. IsFiniteSet(FrozenTo(n, r))
  BY <1>1, <1>2, <1>3, FS_Subset
<1>5. \A e \in FrozenTo(n, r) : frozen[e] \in Nat
  BY <1>2 DEF ListsTyped
<1> DEFINE sum == SumOver(frozen, FrozenTo(n, r))
<1>6. sum \in Nat /\ (FrozenTo(n, r) = {} => sum = 0)
  BY <1>4, <1>5, SumNatural
<1>7. Score(n, r) = (IF r \notin CalleeSave \/ r \in used THEN 1 ELSE 0) + sum
  BY DEF Score, MapThenSumSet, MapThenFoldSet, SumOver, Unfold
<1> HIDE DEF sum
<1>8. CASE r \notin CalleeSave \/ r \in used
  <2>1. Score(n, r) = 1 + sum
    BY <1>7, <1>8
  <2> QED
    BY <1>6, <1>8, <2>1
<1>9. CASE r \in CalleeSave /\ r \notin used
  <2>1. Score(n, r) = 0 + sum
    BY <1>7, <1>9
  <2> QED
    BY <1>6, <1>9, <2>1
<1> QED
  BY <1>8, <1>9

(* The register chosen is free, of the best score, and the first of those. *)
LEMMA BestMember ==
  ASSUME TypeOK, ListsTyped, NEW n, Machine \ Taken # {}
  PROVE  /\ BestRegister(n) \in Machine \ Taken
         /\ \A q \in Machine \ Taken : Score(n, q) <= Score(n, BestRegister(n))
         /\ \A q \in Machine \ Taken :
              Score(n, q) = Score(n, BestRegister(n)) => BestRegister(n) <= q
<1> DEFINE A == Machine \ Taken
           R == {p \in A \X A : Score(n, p[2]) <= Score(n, p[1])}
           Best == {r \in A : \A q \in A : Score(n, q) <= Score(n, r)}
<1>1. \A r \in A : Score(n, r) \in Nat
  BY ScoreType
<1>2. A \in SUBSET Nat /\ IsFiniteSet(A)
  <2>1. A \in SUBSET Machine
    OBVIOUS
  <2> QED
    BY <2>1, Registers, FS_Subset
<1>3. \A r, q \in A : <<r, q>> \in R \/ <<q, r>> \in R
  BY <1>1
<1>4. \A r, q, t \in A : <<r, q>> \in R /\ <<q, t>> \in R => <<r, t>> \in R
  BY <1>1
<1>5. \E r \in A : \A q \in A : <<r, q>> \in R
  <2> HIDE DEF R
  <2> QED
    BY <1>2, <1>3, <1>4, MinimalElement
<1>6. Best # {} /\ Best \in SUBSET Nat
  BY <1>2, <1>5
<1>7. Min(Best) \in Best /\ \A q \in Best : Min(Best) <= q
  <2> HIDE DEF Best
  <2> QED
    BY <1>6, MinNatural
<1>8. BestRegister(n) = Min(Best)
  BY DEF BestRegister
<1>9. \A q \in A : Score(n, q) = Score(n, Min(Best)) => q \in Best
  BY <1>7
<1> QED
  BY <1>7, <1>8, <1>9

-------------------------------------------------------------------------------
(* A run starts with the invariant.                                        *)
LEMMA StartInv ==
  ASSUME NEW g, IsGraph(g), StartOn(g)
  PROVE  Inv
<1> USE Registers
<1>0. /\ graph.occur \subseteq Node /\ graph.occur \in SUBSET Node
      /\ adj \in [Node -> SUBSET graph.occur]
      /\ \A u, v \in Node : u \in adj[v] => v \in adj[u] /\ u # v
      /\ DOMAIN move \subseteq Pairs(graph.occur)
      /\ \A e \in DOMAIN move : move[e] \in Nat \ {0}
  BY DEF StartOn, IsGraph
<1>1. /\ Active = graph.occur
      /\ DOMAIN stack = {} /\ OnStack = {} /\ Range(spilled) = {}
      /\ DOMAIN todo = {} /\ DOMAIN frozen = {}
      /\ \A n \in graph.occur : alias[n] = n
      /\ \A n \in Node \ graph.occur : alias[n] = -1
      /\ \A n \in Node : color[n] = -1
  BY <1>0 DEF StartOn, Active, OnStack, Range
<1>2. TypeOK
  <2>1. IsGraph(graph)
    BY DEF StartOn
  <2>2. Pairs(graph.occur) \subseteq Pairs(Node)
    BY <1>0 DEF Pairs
  <2>3. alias \in [Node -> Node \cup {-1}] /\ color \in [Node -> Machine \cup {-1}]
    BY <1>0 DEF StartOn
  <2>4. adj \in [Node -> SUBSET Node]
    BY <1>0
  <2> QED
    BY <1>0, <1>1, <2>1, <2>2, <2>3, <2>4 DEF StartOn, TypeOK, Location
<1>3. ListsTyped
  BY <1>0, <1>1 DEF StartOn, ListsTyped
<1>4. EdgesJoinActive
  BY <1>0, <1>1 DEF EdgesJoinActive
<1>5. Representatives
  BY <1>0, <1>1 DEF Representatives
<1>6. Places
  BY <1>0, <1>1 DEF StartOn, Places
<1>7. QueueRight
  BY <1>0, <1>1 DEF StartOn, QueueRight, Range, IsInjective
<1>8. EdgesKept
  <2>1. ASSUME NEW x \in graph.occur, NEW y \in graph.adj[x]
        PROVE  alias[x] = x /\ alias[y] = y /\ x # y /\ y \in adj[x]
    <3>1. y \in adj[x] /\ x \in Node /\ y \in graph.occur
      BY <1>0 DEF StartOn
    <3> QED
      BY <1>0, <1>1, <3>1
  <2> QED
    BY <1>1, <2>1 DEF EdgesKept
<1>9. ListsLater
  BY <1>1 DEF ListsLater
<1>10. Colored
  BY <1>1 DEF StartOn, Colored
<1>11. ValidColoring /\ CalleeSavePrefix
  BY DEF StartOn, ValidColoring, CalleeSavePrefix
<1> QED
  BY <1>2, <1>3, <1>4, <1>5, <1>6, <1>7, <1>8, <1>9, <1>10, <1>11 DEF Inv

-------------------------------------------------------------------------------
(* What the invariant says of where nodes are.                             *)
LEMMA Whereabouts ==
  ASSUME Inv
  PROVE  /\ graph.occur \subseteq Node /\ Active \subseteq graph.occur
         /\ remain \subseteq Node /\ remain \cap Machine = {}
         /\ Len(stack) \in Nat /\ DOMAIN stack = 1 .. Len(stack)
         /\ \A i \in DOMAIN stack : /\ stack[i].node \in graph.occur
                                    /\ stack[i].node \notin Machine
                                    /\ stack[i].nbrs \subseteq graph.occur
                                    /\ alias[stack[i].node] = stack[i].node
         /\ OnStack \subseteq graph.occur /\ OnStack \cap Machine = {}
         /\ \A n \in graph.occur : alias[n] \in graph.occur /\ alias[alias[n]] = alias[n]
         /\ \A n \in Active : alias[n] = n
         /\ \A x \in graph.occur : graph.adj[x] \subseteq graph.occur
         /\ \A x \in graph.occur : \A y \in graph.adj[x] : x \in graph.adj[y] /\ x # y
<1>1. graph.occur \subseteq Node /\ Active \subseteq graph.occur
  BY DEF Inv, TypeOK, IsGraph, ListsTyped, Active
<1>2. remain \subseteq Node /\ remain \cap Machine = {}
  BY DEF Inv, TypeOK
<1>3. Len(stack) \in Nat /\ DOMAIN stack = 1 .. Len(stack)
  BY DEF Inv, ListsTyped
<1>4. \A i \in DOMAIN stack : /\ stack[i].node \in graph.occur
                              /\ stack[i].node \notin Machine
                              /\ stack[i].nbrs \subseteq graph.occur
  <2> DEFINE Entry == [node : graph.occur \ Machine, nbrs : SUBSET graph.occur]
  <2>1. stack \in Seq(Entry)
    BY DEF Inv, ListsTyped
  <2>2. \A i \in DOMAIN stack : stack[i] \in Entry
    <3> HIDE DEF Entry
    <3> QED
      BY <2>1, ElementOfSeq, LenProperties
  <2> QED
    BY <2>2
<1>5. \A i \in DOMAIN stack : alias[stack[i].node] = stack[i].node
  BY DEF Inv, Representatives, OnStack
<1>6. OnStack \subseteq graph.occur /\ OnStack \cap Machine = {}
  BY <1>4 DEF OnStack
<1>7. /\ \A n \in graph.occur : alias[n] \in graph.occur /\ alias[alias[n]] = alias[n]
      /\ \A n \in Active : alias[n] = n
  BY <1>1 DEF Inv, Representatives
<1>8. /\ \A x \in graph.occur : graph.adj[x] \subseteq graph.occur
      /\ \A x \in graph.occur : \A y \in graph.adj[x] : x \in graph.adj[y] /\ x # y
  <2>1. IsGraph(graph)
    BY DEF Inv, TypeOK
  <2> QED
    BY <1>1, <2>1 DEF IsGraph
<1> QED
  BY <1>1, <1>2, <1>3, <1>4, <1>5, <1>6, <1>7, <1>8

(* While the graph is taken apart a representative is in the graph, on the *)
(* stack or spilled.                                                       *)
LEMMA RepresentativePlace ==
  ASSUME Inv, Dismantling, NEW n \in graph.occur
  PROVE  alias[n] \in Active \cup OnStack \cup Range(spilled)
<1>1. alias[n] \in graph.occur /\ alias[alias[n]] = alias[n]
  BY Whereabouts
<1>2. alias[n] \notin Coalesced
  BY <1>1 DEF Coalesced
<1> QED
  BY <1>1, <1>2 DEF Inv, Places, Active

(* prepare_for_simplify drops moves that cannot be coalesced and queues    *)
(* every free node.                                                        *)
LEMMA PrepareInv ==
  ASSUME Inv, Prepare
  PROVE  Inv'
<1> USE Registers, Whereabouts DEF Prepare
<1>0. /\ Active' = Active /\ OnStack' = OnStack /\ Coalesced' = Coalesced
      /\ Range(spilled)' = Range(spilled)
      /\ Dismantling /\ Dismantling'
      /\ DOMAIN move' \subseteq DOMAIN move
      /\ \A e \in DOMAIN move' : move'[e] = move[e]
  BY DEF Active, OnStack, Coalesced, Dismantling, Restrict
<1>1. DOMAIN move' \subseteq Pairs(Node)
  BY <1>0 DEF Inv, TypeOK
<1>2. \A n \in remain : CanSimplify(n, DOMAIN move') <=> Free(n)'
  BY <1>1 DEF CanSimplify, Free, EdgesAt, Degree
<1> DEFINE first == {n \in remain : CanSimplify(n, DOMAIN move')}
<1>3. /\ work' \in Seq(first) /\ Range(work') = first
      /\ IsInjective(work')
  <2>1. first \in SUBSET Node
    OBVIOUS
  <2> HIDE DEF first
  <2>2. /\ Ascending(first) \in Seq(first) /\ Range(Ascending(first)) = first
        /\ IsInjective(Ascending(first))
    BY <2>1, AscendingLists
  <2>3. work' = Ascending(first)
    BY DEF first
  <2> QED
    BY <2>2, <2>3
<1>4. TypeOK'
  <2>1. work' \in Seq(remain')
    <3>1. first \subseteq remain /\ remain' = remain
      OBVIOUS
    <3> HIDE DEF first
    <3> QED
      BY <1>3, <3>1, SeqMonotonic
  <2> QED
    BY <1>1, <2>1 DEF Inv, TypeOK, Location
<1>5. ListsTyped'
  BY <1>0 DEF Inv, ListsTyped
<1>6. EdgesJoinActive' /\ Representatives' /\ Places'
  BY <1>0 DEF Inv, EdgesJoinActive, Representatives, Places
<1>7. QueueRight'
  <2>1. \A n \in first : Free(n)'
    BY <1>2
  <2>2. \A n \in remain' : Free(n)' => n \in Range(work')
    BY <1>2, <1>3
  <2>3. \A n \in Range(work') : Free(n)'
    BY <1>3, <2>1
  <2> QED
    BY <1>3, <2>2, <2>3 DEF QueueRight, Range
<1>8. EdgesKept'
  BY <1>0 DEF Inv, EdgesKept
<1>9. ListsLater'
  BY <1>0 DEF Inv, ListsLater
<1>10. Colored' /\ ValidColoring' /\ CalleeSavePrefix'
  BY DEF Inv, Colored, ValidColoring, CalleeSavePrefix
<1> QED
  BY <1>4, <1>5, <1>6, <1>7, <1>8, <1>9, <1>10 DEF Inv

(* remove: a node leaves the graph with its edges.                         *)
LEMMA NodeLeaves ==
  ASSUME Inv, NEW n \in remain, adj' = Without(n), remain' = remain \ {n}, graph' = graph
  PROVE  /\ adj' \in [Node -> SUBSET Node]
         /\ Active' = Active \ {n}
         /\ EdgesJoinActive'
         /\ \A m \in Node : m # n => adj'[m] = adj[m] \ {n}
         /\ \A m \in Node : m # n =>
              Degree(m)' = IF n \in adj[m] THEN Degree(m) - 1 ELSE Degree(m)
<1> USE Whereabouts
<1>1. adj \in [Node -> SUBSET Node]
  BY DEF Inv, TypeOK
<1>2. adj' \in [Node -> SUBSET Node] /\ \A m \in Node : m # n => adj'[m] = adj[m] \ {n}
  BY <1>1 DEF Without
<1>3. Active' = Active \ {n}
  BY DEF Active
<1>4. EdgesJoinActive'
  BY <1>1, <1>3 DEF Inv, EdgesJoinActive, Without
<1>5. ASSUME NEW m \in Node, m # n
      PROVE  Degree(m)' = IF n \in adj[m] THEN Degree(m) - 1 ELSE Degree(m)
  <2>1. IsFiniteSet(adj[m])
    BY <1>1, NodeSets
  <2>2. adj'[m] = adj[m] \ {n}
    BY <1>2, <1>5
  <2>3. Cardinality(adj[m] \ {n}) =
          IF n \in adj[m] THEN Cardinality(adj[m]) - 1 ELSE Cardinality(adj[m])
    BY <2>1, FS_RemoveElement
  <2>4. Degree(m)' = Cardinality(adj'[m]) /\ Degree(m) = Cardinality(adj[m])
    BY DEF Degree
  <2> QED
    BY <2>2, <2>3, <2>4
<1> QED
  BY <1>2, <1>3, <1>4, <1>5

(* What one turn of simplify does to the lists.                            *)
LEMMA SimplifyStep ==
  ASSUME Inv, Simplify, NEW n, n = Head(work)
  PROVE  /\ n \in remain /\ n \in Range(work) /\ n \in Node /\ Free(n)
         /\ Len(stack') = Len(stack) + 1 /\ DOMAIN stack' = 1 .. Len(stack) + 1
         /\ \A i \in 1 .. Len(stack) : stack'[i] = stack[i]
         /\ stack'[Len(stack) + 1].node = n /\ stack'[Len(stack) + 1].nbrs = adj[n]
         /\ stack' \in Seq([node : graph.occur \ Machine, nbrs : SUBSET graph.occur])
         /\ OnStack' = OnStack \cup {n}
<1> USE Whereabouts
<1>1. work \in Seq(remain) /\ work # <<>>
  BY DEF Inv, TypeOK, Simplify
<1>2. n \in remain /\ n \in Range(work)
  BY <1>1 DEF Range
<1>3. Free(n)
  BY <1>2 DEF Inv, QueueRight
<1>4. n \in Node /\ n \in graph.occur /\ n \notin Machine
  BY <1>2 DEF Inv, ListsTyped
<1>5. adj[n] \subseteq graph.occur
  BY <1>4 DEF Inv, EdgesJoinActive
<1> DEFINE Entry == [node : graph.occur \ Machine, nbrs : SUBSET graph.occur]
           e == [node |-> n, nbrs |-> adj[n]]
<1>6. e \in Entry /\ e.node = n /\ e.nbrs = adj[n] /\ stack' = Append(stack, e)
  BY <1>4, <1>5 DEF Simplify
<1>7. stack \in Seq(Entry)
  BY DEF Inv, ListsTyped
<1> HIDE DEF Entry, e
<1>8. /\ stack' \in Seq(Entry) /\ Len(stack') = Len(stack) + 1
      /\ \A i \in 1 .. Len(stack) : stack'[i] = stack[i]
      /\ stack'[Len(stack) + 1] = e
  BY <1>6, <1>7, AppendProperties
<1>9. DOMAIN stack' = 1 .. Len(stack) + 1
  BY <1>8, LenProperties
<1>10. OnStack' = OnStack \cup {n}
  <2>1. OnStack' = {stack'[i].node : i \in 1 .. Len(stack) + 1}
    BY <1>9 DEF OnStack
  <2>2. /\ \A i \in 1 .. Len(stack) : i \in 1 .. Len(stack) + 1 /\ stack'[i].node = stack[i].node
        /\ Len(stack) + 1 \in 1 .. Len(stack) + 1 /\ stack'[Len(stack) + 1].node = n
        /\ \A i \in 1 .. Len(stack) + 1 : i \in 1 .. Len(stack) \/ i = Len(stack) + 1
    BY <1>6, <1>8
  <2>3. OnStack = {stack[i].node : i \in 1 .. Len(stack)}
    BY DEF OnStack
  <2>4. \A x \in OnStack' : x \in OnStack \cup {n}
    BY <2>1, <2>2, <2>3
  <2>5. OnStack \subseteq OnStack'
    BY <2>1, <2>2, <2>3
  <2>6. n \in OnStack'
    BY <2>1, <2>2
  <2> QED
    BY <2>4, <2>5, <2>6
<1> QED
  BY <1>2, <1>3, <1>4, <1>6, <1>8, <1>9, <1>10 DEF Entry

(* The queue loses its head and gains the nodes released, each once.       *)
LEMMA QueueStep ==
  ASSUME Inv, Simplify, NEW n, n = Head(work)
  PROVE  /\ work' \in Seq(remain')
         /\ Range(work') = (Range(work) \ {n}) \cup Released(n)
         /\ IsInjective(work')
<1>1. /\ work \in Seq(remain) /\ work # <<>> /\ IsInjective(work)
      /\ \A m \in Range(work) : Free(m)
  BY DEF Simplify, Inv, TypeOK, QueueRight
<1>2. n \in remain /\ n \in Node /\ Free(n)
  BY SimplifyStep
<1>3. /\ Released(n) \subseteq remain /\ Released(n) \subseteq Node
      /\ Range(work) \cap Released(n) = {}
      /\ n \notin Released(n)
  <2>1. \A m \in Released(n) : m \in Active /\ m \notin Machine /\ Degree(m) = K
    BY <1>2 DEF Inv, EdgesJoinActive, Released
  <2>2. \A m \in Released(n) : m \in remain
    BY <2>1 DEF Active
  <2>3. \A m \in Released(n) : ~Free(m)
    BY <2>1, Registers DEF Free
  <2> QED
    BY <1>1, <1>2, <2>2, <2>3, Whereabouts
<1> DEFINE R == Ascending(Released(n))
<1>4. R \in Seq(remain) /\ Range(R) = Released(n) /\ IsInjective(R)
  <2>1. R \in Seq(Released(n)) /\ Range(R) = Released(n) /\ IsInjective(R)
    BY <1>3, AscendingLists
  <2> HIDE DEF R
  <2> QED
    BY <1>3, <2>1, SeqMonotonic
<1>5. work' = Tail(work) \o R /\ remain' = remain \ {n}
  BY DEF Simplify
<1> HIDE DEF R
<1>6. /\ Tail(work) \o R \in Seq(remain \ {Head(work)})
      /\ Range(Tail(work) \o R) = (Range(work) \ {Head(work)}) \cup Range(R)
      /\ IsInjective(Tail(work) \o R)
  <2>1. Range(work) \cap Range(R) = {}
    BY <1>3, <1>4
  <2> QED
    BY <1>1, <1>4, <2>1, RequeuedSequence
<1> QED
  BY <1>4, <1>5, <1>6

(* One turn of simplify.                                                   *)
LEMMA SimplifyInv ==
  ASSUME Inv, Simplify
  PROVE  Inv'
<1> PICK n : n = Head(work)
  OBVIOUS
<1> PICK L : L = Len(stack)
  OBVIOUS
<1>1. /\ n \in remain /\ n \in Range(work) /\ n \in Node /\ Free(n)
      /\ Len(stack') = L + 1 /\ DOMAIN stack' = 1 .. L + 1
      /\ \A i \in 1 .. L : stack'[i] = stack[i]
      /\ stack'[L + 1].node = n /\ stack'[L + 1].nbrs = adj[n]
      /\ stack' \in Seq([node : graph.occur \ Machine, nbrs : SUBSET graph.occur])
      /\ OnStack' = OnStack \cup {n}
  BY SimplifyStep
<1>2. /\ pc = "simplify" /\ pc' = pc /\ graph' = graph /\ move' = move /\ alias' = alias
      /\ todo' = todo /\ gain' = gain /\ frozen' = frozen /\ spilled' = spilled
      /\ color' = color /\ used' = used
      /\ adj' = Without(n) /\ remain' = remain \ {n}
  BY DEF Simplify
<1>3. /\ work' \in Seq(remain') /\ Range(work') = (Range(work) \ {n}) \cup Released(n)
      /\ IsInjective(work')
  BY QueueStep
<1>4. /\ adj' \in [Node -> SUBSET Node] /\ Active' = Active \ {n} /\ EdgesJoinActive'
      /\ \A m \in Node : m # n => adj'[m] = adj[m] \ {n}
      /\ \A m \in Node : m # n => Degree(m)' = IF n \in adj[m] THEN Degree(m) - 1 ELSE Degree(m)
  BY <1>1, <1>2, NodeLeaves
<1>5. /\ n \notin Machine /\ n \in graph.occur /\ n \in Active /\ alias[n] = n
      /\ n \notin OnStack /\ n \notin Range(spilled)
      /\ L \in Nat /\ DOMAIN stack = 1 .. L
      /\ Dismantling /\ Dismantling'
      /\ Coalesced' = Coalesced /\ Range(spilled)' = Range(spilled)
  <2>1. Dismantling /\ Dismantling'
    BY <1>2 DEF Dismantling
  <2>2. n \in Active /\ alias[n] = n /\ n \in graph.occur /\ n \notin Machine
    BY <1>1, Whereabouts DEF Active, Inv, ListsTyped
  <2>3. n \notin OnStack /\ n \notin Range(spilled)
    BY <1>1, <2>1 DEF Inv, Places
  <2>4. Coalesced' = Coalesced /\ Range(spilled)' = Range(spilled)
    BY <1>2 DEF Coalesced
  <2> QED
    BY <2>1, <2>2, <2>3, <2>4, Whereabouts
<1>6. \A e \in DOMAIN move : n \notin e
  BY <1>1 DEF Free, EdgesAt
<1>7. TypeOK'
  <2>1. /\ pc \in Location /\ IsGraph(graph) /\ DOMAIN move \subseteq Pairs(Node)
        /\ remain \subseteq Node \ Machine /\ alias \in [Node -> Node \cup {-1}]
        /\ DOMAIN todo \subseteq Pairs(Node) /\ DOMAIN frozen \subseteq Pairs(Node)
        /\ gain \in Nat /\ spilled \in Seq(Node \ Machine)
        /\ color \in [Node -> Machine \cup {-1}] /\ used \subseteq Machine
        /\ \A i \in DOMAIN stack : stack[i].node \in Node \ Machine /\ stack[i].nbrs \subseteq Node
        /\ adj[n] \subseteq Node
    BY <1>1 DEF Inv, TypeOK
  <2>2. \A i \in DOMAIN stack' : stack'[i].node \in Node \ Machine /\ stack'[i].nbrs \subseteq Node
    BY <1>1, <1>5, <2>1
  <2> QED
    BY <1>2, <1>3, <1>4, <2>1, <2>2 DEF TypeOK
<1>8. ListsTyped'
  <2>1. DOMAIN move \subseteq Pairs(Active \ {n})
    BY <1>6 DEF Inv, ListsTyped, Pairs
  <2> QED
    BY <1>1, <1>2, <1>4, <1>5, <2>1 DEF Inv, ListsTyped
<1>9. Representatives'
  BY <1>1, <1>2, <1>4, <1>5 DEF Inv, Representatives
<1>10. Places'
  <2>1. \A i \in DOMAIN stack : stack[i].node # n
    BY <1>5 DEF OnStack
  <2>2. \A i, j \in DOMAIN stack' : stack'[i].node = stack'[j].node => i = j
    BY <1>1, <1>5, <2>1 DEF Inv, Places
  <2> QED
    BY <1>1, <1>2, <1>5, <2>2 DEF Inv, Places
<1>11. QueueRight'
  <2>1. /\ \A m \in Range(work) : Free(m)
        /\ \A m \in remain : Free(m) => m \in Range(work)
    BY <1>2 DEF Inv, QueueRight
  <2>2. \A m : EdgesAt(m)' = EdgesAt(m)
    BY <1>2 DEF EdgesAt
  <2>3. \A m \in remain : m \in Node /\ m \notin Machine /\ Degree(m) \in Nat
    BY DegreeType, Whereabouts DEF Inv
  <2>4. DOMAIN move \subseteq Pairs(Node)
    BY DEF Inv, TypeOK
  <2>5. ASSUME NEW m \in Range(work) \ {n} PROVE Free(m)'
    <3>1. Free(m) /\ m \in remain
      <4>1. work \in Seq(remain)
        BY DEF Inv, TypeOK
      <4>2. Range(work) \subseteq remain
        BY <4>1 DEF Range
      <4> QED
        BY <2>1, <4>2
    <3>3. Degree(m)' < K
      <4>1. Degree(m) < K /\ Degree(m) \in Nat /\ K \in Nat
        BY <2>3, <3>1, Registers DEF Free
      <4>2. Degree(m)' = Degree(m) \/ Degree(m)' = Degree(m) - 1
        BY <1>4, <2>3, <2>5, <3>1
      <4> QED
        BY <4>1, <4>2
    <3> QED
      BY <2>2, <3>1, <3>3 DEF Free
  <2>6. ASSUME NEW m \in Released(n) PROVE Free(m)'
    <3>1. m \in adj[n] /\ Degree(m) = K /\ MoveNeighbors(m) = {}
      BY DEF Released
    <3>2. n \in adj[m] /\ m # n /\ m \in Node
      BY <1>1, <3>1, Whereabouts DEF Inv, EdgesJoinActive
    <3>3. Degree(m)' = K - 1
      BY <1>4, <3>1, <3>2
    <3>4. EdgesAt(m) = {}
      BY <2>4, <3>1, <3>2, NoMoves
    <3> QED
      BY <2>2, <3>3, <3>4, Registers DEF Free
  <2>7. ASSUME NEW m \in remain', Free(m)' PROVE m \in Range(work')
    <3>1. m \in remain /\ m # n /\ m \in Node /\ m \notin Machine /\ Degree(m) \in Nat
      BY <1>2, <2>3
    <3>2. EdgesAt(m) = {} /\ Degree(m)' < K
      BY <2>2, <2>7 DEF Free
    <3>3. CASE Degree(m) < K
      BY <1>3, <2>1, <3>1, <3>2, <3>3 DEF Free
    <3>4. CASE Degree(m) >= K
      <4>1. n \in adj[m] /\ Degree(m) = K
        BY <1>4, <3>1, <3>2, <3>4, Registers
      <4>2. m \in adj[n]
        BY <3>1, <4>1 DEF Inv, EdgesJoinActive
      <4>3. MoveNeighbors(m) = {}
        BY <2>4, <3>1, <3>2, NoMoves
      <4> QED
        BY <1>3, <3>1, <4>1, <4>2, <4>3 DEF Released
    <3> QED
      BY <3>1, <3>3, <3>4, Registers
  <2>8. pc' = "simplify"
    BY <1>2
  <2> QED
    BY <1>3, <2>5, <2>6, <2>7, <2>8 DEF QueueRight
<1>12. EdgesKept'
  <2> SUFFICES ASSUME NEW x \in graph.occur, NEW y \in graph.adj[x]
               PROVE  /\ alias[x] # alias[y]
                      /\ alias[x] \in Active \ {n} /\ alias[y] \in Active \ {n}
                           => alias[y] \in adj'[alias[x]]
                      /\ \A i \in 1 .. L + 1 :
                           stack'[i].node = alias[x]
                             /\ (alias[y] \in Active \ {n}
                                  \/ \E j \in 1 .. L + 1 : j > i /\ stack'[j].node = alias[y])
                             => alias[y] \in {alias[m] : m \in stack'[i].nbrs}
    BY <1>1, <1>2, <1>4 DEF EdgesKept
  <2> DEFINE a == alias[x]
             b == alias[y]
  <2>1. /\ a # b
        /\ a \in Active /\ b \in Active => b \in adj[a]
        /\ \A i \in 1 .. L :
             stack[i].node = a /\ (b \in Active \/ \E j \in 1 .. L : j > i /\ stack[j].node = b)
               => b \in {alias[m] : m \in stack[i].nbrs}
    BY <1>5 DEF Inv, EdgesKept
  <2>2. a \in graph.occur /\ b \in graph.occur /\ a \in Node
    BY Whereabouts
  <2> HIDE DEF a, b
  <2>3. a \in Active \ {n} /\ b \in Active \ {n} => b \in adj'[a]
    BY <1>4, <2>1, <2>2
  <2>4. ASSUME NEW i \in 1 .. L, stack[i].node = a,
               b \in Active \ {n} \/ \E j \in 1 .. L + 1 : j > i /\ stack'[j].node = b
        PROVE  b \in {alias[m] : m \in stack[i].nbrs}
    <3>1. b \in Active \/ \E j \in 1 .. L : j > i /\ stack[j].node = b
      BY <1>1, <1>5, <2>4
    <3> QED
      BY <2>1, <2>4, <3>1
  <2>5. ASSUME n = a, b \in Active \ {n} PROVE b \in {alias[m] : m \in adj[n]}
    <3>1. b \in adj[n] /\ alias[b] = b
      BY <1>5, <2>1, <2>5, Whereabouts
    <3> QED
      BY <3>1
  <2>6. \A i \in 1 .. L + 1 : i \in 1 .. L \/ i = L + 1
    BY <1>5
  <2>7. ASSUME NEW i \in 1 .. L + 1, stack'[i].node = a,
               b \in Active \ {n} \/ \E j \in 1 .. L + 1 : j > i /\ stack'[j].node = b
        PROVE  b \in {alias[m] : m \in stack'[i].nbrs}
    <3>1. CASE i \in 1 .. L
      BY <1>1, <2>4, <2>7, <3>1
    <3>2. CASE i = L + 1
      <4>1. ~\E j \in 1 .. L + 1 : j > i
        BY <1>5, <3>2
      <4> QED
        BY <1>1, <2>5, <2>7, <3>2, <4>1
    <3> QED
      BY <2>6, <3>1, <3>2
  <2> QED
    BY <2>1, <2>3, <2>7 DEF a, b
<1>13. ListsLater'
  <2> SUFFICES ASSUME NEW i \in 1 .. L + 1
               PROVE  /\ Cardinality(stack'[i].nbrs) < K
                      /\ \A m \in stack'[i].nbrs :
                           /\ alias[m] \in (Active \ {n}) \cup {stack'[j].node : j \in i + 1 .. L + 1}
                                             \cup Range(spilled)
                           /\ \A j \in 1 .. i : alias[m] # stack'[j].node
    BY <1>1, <1>2, <1>4, <1>5 DEF ListsLater
  <2>1. CASE i \in 1 .. L
    <3>1. Cardinality(stack[i].nbrs) < K
      BY <1>5, <2>1 DEF Inv, ListsLater
    <3>2. ASSUME NEW m \in stack[i].nbrs
          PROVE  /\ alias[m] \in (Active \ {n}) \cup {stack'[j].node : j \in i + 1 .. L + 1}
                                   \cup Range(spilled)
                 /\ \A j \in 1 .. i : alias[m] # stack'[j].node
      <4>1. /\ alias[m] \in Active \cup {stack[j].node : j \in i + 1 .. L} \cup Range(spilled)
            /\ \A j \in 1 .. i : alias[m] # stack[j].node
        BY <1>5, <2>1 DEF Inv, ListsLater
      <4>2. n \in {stack'[j].node : j \in i + 1 .. L + 1}
        <5>1. L + 1 \in i + 1 .. L + 1
          BY <1>5, <2>1
        <5> QED
          BY <1>1, <5>1
      <4>3. {stack[j].node : j \in i + 1 .. L} \subseteq {stack'[j].node : j \in i + 1 .. L + 1}
        <5>1. \A j \in i + 1 .. L : j \in i + 1 .. L + 1 /\ stack'[j] = stack[j]
          BY <1>1, <1>5, <2>1
        <5> QED
          BY <5>1
      <4>4. \A j \in 1 .. i : stack'[j] = stack[j]
        BY <1>1, <1>5, <2>1
      <4> QED
        BY <4>1, <4>2, <4>3, <4>4
    <3> QED
      BY <1>1, <2>1, <3>1, <3>2
  <2>2. CASE i = L + 1
    <3>1. Cardinality(adj[n]) < K
      BY <1>1 DEF Free, Degree
    <3>2. \A m \in adj[n] : m \in Active \ {n} /\ alias[m] = m
      BY <1>1, Whereabouts DEF Inv, EdgesJoinActive
    <3>3. \A j \in 1 .. L + 1 : stack'[j].node = n \/ stack'[j].node \in OnStack
      BY <1>1, <1>5 DEF OnStack
    <3>4. Active \cap OnStack = {}
      BY <1>5, Whereabouts DEF Inv, Places, Active
    <3> QED
      BY <1>1, <2>2, <3>1, <3>2, <3>3, <3>4
  <2> QED
    BY <1>5, <2>1, <2>2
<1>14. Colored' /\ ValidColoring' /\ CalleeSavePrefix'
  BY <1>2 DEF Inv, Colored, ValidColoring, CalleeSavePrefix
<1> QED
  BY <1>4, <1>7, <1>8, <1>9, <1>10, <1>11, <1>12, <1>13, <1>14 DEF Inv

(* simplify ends with nodes left: the queue missed none that is free.      *)
LEMMA StartCoalesceInv ==
  ASSUME Inv, StartCoalesce
  PROVE  Inv'
<1>1. /\ pc = "simplify" /\ work = <<>> /\ pc' = "coalesce" /\ todo' = move /\ gain' = 0
      /\ graph' = graph /\ adj' = adj /\ move' = move /\ remain' = remain /\ work' = work
      /\ stack' = stack /\ alias' = alias /\ frozen' = frozen /\ spilled' = spilled
      /\ color' = color /\ used' = used
  BY DEF StartCoalesce
<1>2. /\ Active' = Active /\ OnStack' = OnStack /\ Coalesced' = Coalesced
      /\ Dismantling /\ Dismantling'
      /\ \A n : Free(n)' <=> Free(n)
  BY <1>1 DEF Active, OnStack, Coalesced, Dismantling, Free, EdgesAt, Degree
<1>3. TypeOK'
  BY <1>1 DEF Inv, TypeOK, Location
<1>4. ListsTyped'
  <2>1. \A e \in DOMAIN move : e \subseteq Active
    BY DEF Inv, ListsTyped, Pairs
  <2>2. \A e \in DOMAIN move : \A n \in e : n \in graph.occur /\ alias[n] \in Active
    BY <2>1, Whereabouts
  <2> QED
    BY <1>1, <1>2, <2>2 DEF Inv, ListsTyped
<1>5. EdgesJoinActive' /\ Representatives' /\ Places'
  BY <1>1, <1>2 DEF Inv, EdgesJoinActive, Representatives, Places
<1>6. QueueRight'
  <2>1. Range(work) = {}
    BY <1>1 DEF Range
  <2> QED
    BY <1>1, <1>2, <2>1 DEF Inv, QueueRight
<1>7. EdgesKept' /\ ListsLater'
  BY <1>1, <1>2 DEF Inv, EdgesKept, ListsLater
<1>8. Colored' /\ ValidColoring' /\ CalleeSavePrefix'
  BY <1>1 DEF Inv, Colored, ValidColoring, CalleeSavePrefix
<1> QED
  BY <1>3, <1>4, <1>5, <1>6, <1>7, <1>8 DEF Inv

(* coalesce ends; when it merged nothing, freeze finds no free node.       *)
LEMMA EndCoalesceInv ==
  ASSUME Inv, EndCoalesce
  PROVE  Inv'
<1>1. /\ pc = "coalesce" /\ DOMAIN todo = {} /\ pc' \in {"loop", "freeze"}
      /\ pc' = "freeze" => ~(gain > 0)
      /\ graph' = graph /\ adj' = adj /\ move' = move /\ remain' = remain /\ work' = work
      /\ stack' = stack /\ alias' = alias /\ todo' = todo /\ gain' = gain /\ frozen' = frozen
      /\ spilled' = spilled /\ color' = color /\ used' = used
  BY DEF EndCoalesce
<1>2. /\ Active' = Active /\ OnStack' = OnStack /\ Coalesced' = Coalesced
      /\ Dismantling /\ Dismantling'
      /\ \A n : Free(n)' <=> Free(n)
  BY <1>1 DEF Active, OnStack, Coalesced, Dismantling, Free, EdgesAt, Degree
<1>3. pc' = "freeze" => gain = 0
  BY <1>1 DEF Inv, TypeOK
<1>4. TypeOK'
  BY <1>1 DEF Inv, TypeOK, Location
<1>5. ListsTyped'
  BY <1>1, <1>2 DEF Inv, ListsTyped
<1>6. EdgesJoinActive' /\ Representatives' /\ Places'
  BY <1>1, <1>2 DEF Inv, EdgesJoinActive, Representatives, Places
<1>7. QueueRight'
  BY <1>1, <1>2, <1>3 DEF Inv, QueueRight
<1>8. EdgesKept' /\ ListsLater'
  BY <1>1, <1>2 DEF Inv, EdgesKept, ListsLater
<1>9. Colored' /\ ValidColoring' /\ CalleeSavePrefix'
  BY <1>1 DEF Inv, Colored, ValidColoring, CalleeSavePrefix
<1> QED
  BY <1>4, <1>5, <1>6, <1>7, <1>8, <1>9 DEF Inv

(* freeze moves the moves of one node from one table to the other.         *)
LEMMA FreezeInv ==
  ASSUME Inv, Freeze
  PROVE  Inv'
<1> DEFINE E == EdgesAt(FreezeChoice)
<1>1. /\ pc = "freeze" /\ pc' = "loop"
      /\ frozen' = [e \in DOMAIN frozen \cup E |->
                     Weight(frozen, e) + (IF e \in E THEN move[e] ELSE 0)]
      /\ move' = Restrict(move, DOMAIN move \ E)
      /\ graph' = graph /\ adj' = adj /\ remain' = remain /\ work' = work /\ stack' = stack
      /\ alias' = alias /\ todo' = todo /\ gain' = gain /\ spilled' = spilled
      /\ color' = color /\ used' = used
  BY DEF Freeze
<1>2. E \subseteq DOMAIN move
  BY DEF EdgesAt
<1> HIDE DEF E
<1>3. /\ Active' = Active /\ OnStack' = OnStack /\ Coalesced' = Coalesced
      /\ Dismantling /\ Dismantling'
  BY <1>1 DEF Active, OnStack, Coalesced, Dismantling
<1>4. DOMAIN move' \subseteq DOMAIN move /\ \A e \in DOMAIN move' : move'[e] = move[e]
  BY <1>1 DEF Restrict
<1>5. /\ DOMAIN frozen' \subseteq Pairs(graph.occur)
      /\ \A e \in DOMAIN frozen' : frozen'[e] \in Nat
  <2>1. /\ DOMAIN move \subseteq Pairs(Active) /\ \A e \in DOMAIN move : move[e] \in Nat
        /\ DOMAIN frozen \subseteq Pairs(graph.occur) /\ \A e \in DOMAIN frozen : frozen[e] \in Nat
    BY DEF Inv, ListsTyped
  <2>2. Pairs(Active) \subseteq Pairs(graph.occur)
    BY Whereabouts DEF Pairs
  <2>3. \A e : Weight(frozen, e) \in Nat
    BY <2>1 DEF Weight
  <2>4. \A e \in DOMAIN frozen' :
          frozen'[e] = Weight(frozen, e) + (IF e \in E THEN move[e] ELSE 0)
    BY <1>1
  <2> QED
    BY <1>1, <1>2, <2>1, <2>2, <2>3, <2>4
<1>6. Pairs(graph.occur) \subseteq Pairs(Node)
  BY Whereabouts DEF Pairs
<1>7. TypeOK'
  BY <1>1, <1>4, <1>5, <1>6 DEF Inv, TypeOK, Location
<1>8. ListsTyped'
  BY <1>1, <1>3, <1>4, <1>5 DEF Inv, ListsTyped
<1>9. EdgesJoinActive' /\ Representatives' /\ Places'
  BY <1>1, <1>3 DEF Inv, EdgesJoinActive, Representatives, Places
<1>10. QueueRight'
  BY <1>1 DEF Inv, QueueRight, Range
<1>11. EdgesKept' /\ ListsLater'
  BY <1>1, <1>3 DEF Inv, EdgesKept, ListsLater
<1>12. Colored' /\ ValidColoring' /\ CalleeSavePrefix'
  BY <1>1 DEF Inv, Colored, ValidColoring, CalleeSavePrefix
<1> QED
  BY <1>7, <1>8, <1>9, <1>10, <1>11, <1>12 DEF Inv

(* select_spill runs when every node left has K neighbours or more, and    *)
(* chooses one of them.                                                    *)
LEMMA SpillStep ==
  ASSUME Inv, pc = "freeze", Freezable = {}
  PROVE  /\ \A n \in remain : Degree(n) >= K
         /\ Spillable # {} => SpillChoice \in remain
<1>1. ASSUME NEW n \in remain PROVE Degree(n) >= K
  <2>1. n \in Node /\ Degree(n) \in Nat
    BY DegreeType, Whereabouts DEF Inv
  <2>2. ~Free(n)
    BY DEF Inv, QueueRight
  <2>3. DOMAIN move \subseteq Pairs(Node)
    BY DEF Inv, TypeOK
  <2>4. MoveNeighbors(n) # {} => ~(Degree(n) < K)
    BY DEF Freezable
  <2>5. MoveNeighbors(n) = {} => ~(Degree(n) < K)
    BY <2>1, <2>2, <2>3, NoMoves DEF Free
  <2> QED
    BY <2>1, <2>4, <2>5, Registers
<1>2. \A n \in remain : /\ n \in Node /\ Degree(n) > 0
                        /\ graph.cost[n] \in Nat /\ graph.useCost[n] \in Nat
  <2>1. \A n \in remain : n \in Node /\ n \in graph.occur \ Machine
    BY Whereabouts DEF Inv, ListsTyped
  <2>2. \A n \in remain : Degree(n) \in Nat
    BY <2>1, DegreeType DEF Inv
  <2>3. \A n \in remain : Degree(n) > 0
    BY <1>1, <2>2, Registers
  <2>4. IsGraph(graph)
    BY DEF Inv, TypeOK
  <2> QED
    BY <2>1, <2>3, <2>4 DEF IsGraph
<1>3. ASSUME Spillable # {} PROVE SpillChoice \in remain
  <2>1. Spillable \subseteq remain
    BY DEF Spillable
  <2>2. ASSUME NEW S \in SUBSET remain, S # {}
        PROVE  Cheapest(S, graph.cost) \in S /\ Cheapest(S, graph.useCost) \in S
    <3>1. S \in SUBSET Node /\ \A n \in S : /\ Degree(n) > 0
                                            /\ graph.cost[n] \in Nat /\ graph.useCost[n] \in Nat
      BY <1>2
    <3>2. TypeOK
      BY DEF Inv
    <3>3. Cheapest(S, graph.cost) \in S
      BY <2>2, <3>1, <3>2, CheapestMember
    <3>4. Cheapest(S, graph.useCost) \in S
      BY <2>2, <3>1, <3>2, CheapestMember
    <3> QED
      BY <3>3, <3>4
  <2>3. Spillable \cap graph.remat \in SUBSET remain /\ Spillable \in SUBSET remain
    BY <2>1
  <2>4. CASE Spillable \cap graph.remat # {}
    <3>1. Cheapest(Spillable \cap graph.remat, graph.useCost) \in remain
      BY <2>2, <2>3, <2>4
    <3> QED
      BY <2>4, <3>1 DEF SpillChoice
  <2>5. CASE Spillable \cap graph.remat = {}
    <3>1. Cheapest(Spillable, graph.cost) \in remain
      BY <1>3, <2>2, <2>3
    <3> QED
      BY <2>5, <3>1 DEF SpillChoice
  <2> QED
    BY <2>4, <2>5
<1> QED
  BY <1>1, <1>3

LEMMA SpillInv ==
  ASSUME Inv, Spill
  PROVE  Inv'
<1> PICK n : n = SpillChoice
  OBVIOUS
<1>1. /\ pc = "freeze" /\ pc' = "loop" /\ Freezable = {} /\ Spillable # {}
      /\ spilled' = Append(spilled, n) /\ remain' = remain \ {n} /\ adj' = Without(n)
      /\ move' = Restrict(move, DOMAIN move \ EdgesAt(n))
      /\ graph' = graph /\ work' = work /\ stack' = stack /\ alias' = alias /\ todo' = todo
      /\ gain' = gain /\ frozen' = frozen /\ color' = color /\ used' = used
  BY DEF Spill
<1>2. n \in remain
  BY <1>1, SpillStep
<1>3. /\ n \in Node /\ n \in graph.occur /\ n \notin Machine /\ n \in Active /\ alias[n] = n
  BY <1>2, Whereabouts DEF Inv, ListsTyped, Active
<1>4. /\ Dismantling /\ Dismantling'
      /\ Coalesced' = Coalesced /\ OnStack' = OnStack
      /\ n \notin OnStack /\ n \notin Range(spilled)
  <2>1. Dismantling /\ Dismantling'
    BY <1>1 DEF Dismantling
  <2> QED
    BY <1>1, <1>2, <2>1 DEF Inv, Places, Coalesced, OnStack
<1>5. spilled' \in Seq(Node \ Machine) /\ Range(spilled') = Range(spilled) \cup {n}
  <2>1. spilled \in Seq(Node \ Machine) /\ n \in Node \ Machine
    BY <1>3 DEF Inv, TypeOK
  <2> QED
    BY <1>1, <2>1, RangeAppend
<1>6. /\ adj' \in [Node -> SUBSET Node] /\ Active' = Active \ {n} /\ EdgesJoinActive'
      /\ \A m \in Node : m # n => adj'[m] = adj[m] \ {n}
  BY <1>1, <1>2, NodeLeaves
<1>7. /\ DOMAIN move' = DOMAIN move \ EdgesAt(n)
      /\ \A e \in DOMAIN move' : move'[e] = move[e] /\ n \notin e
  BY <1>1 DEF Restrict, EdgesAt
<1>8. TypeOK'
  <2>1. DOMAIN move' \subseteq Pairs(Node) /\ remain' \subseteq Node \ Machine
    BY <1>1, <1>7 DEF Inv, TypeOK
  <2>2. work' \in Seq(remain')
    BY <1>1 DEF Inv, QueueRight
  <2> QED
    BY <1>1, <1>5, <1>6, <2>1, <2>2 DEF Inv, TypeOK, Location
<1>9. ListsTyped'
  <2>1. DOMAIN move' \subseteq Pairs(Active \ {n})
    BY <1>7 DEF Inv, ListsTyped, Pairs
  <2> QED
    BY <1>1, <1>3, <1>5, <1>6, <1>7, <2>1 DEF Inv, ListsTyped
<1>10. Representatives'
  BY <1>1, <1>3, <1>4, <1>5, <1>6 DEF Inv, Representatives
<1>11. Places'
  BY <1>1, <1>4, <1>5 DEF Inv, Places
<1>12. QueueRight'
  BY <1>1 DEF Inv, QueueRight, Range
<1>13. EdgesKept'
  <2> SUFFICES ASSUME NEW x \in graph.occur, NEW y \in graph.adj[x]
               PROVE  /\ alias[x] # alias[y]
                      /\ alias[x] \in Active \ {n} /\ alias[y] \in Active \ {n}
                           => alias[y] \in adj'[alias[x]]
                      /\ \A i \in DOMAIN stack :
                           stack[i].node = alias[x]
                             /\ (alias[y] \in Active \ {n}
                                  \/ \E j \in DOMAIN stack : j > i /\ stack[j].node = alias[y])
                             => alias[y] \in {alias[m] : m \in stack[i].nbrs}
    BY <1>1, <1>6 DEF EdgesKept
  <2>1. /\ alias[x] # alias[y]
        /\ alias[x] \in Active /\ alias[y] \in Active => alias[y] \in adj[alias[x]]
        /\ \A i \in DOMAIN stack :
             stack[i].node = alias[x]
               /\ (alias[y] \in Active \/ \E j \in DOMAIN stack : j > i /\ stack[j].node = alias[y])
               => alias[y] \in {alias[m] : m \in stack[i].nbrs}
    BY <1>4 DEF Inv, EdgesKept
  <2>2. alias[x] \in Node
    BY Whereabouts
  <2> QED
    BY <1>6, <2>1, <2>2
<1>14. ListsLater'
  <2> SUFFICES ASSUME NEW i \in DOMAIN stack
               PROVE  /\ Cardinality(stack[i].nbrs) < K
                      /\ \A m \in stack[i].nbrs :
                           /\ alias[m] \in (Active \ {n}) \cup {stack[j].node : j \in i + 1 .. Len(stack)}
                                             \cup (Range(spilled) \cup {n})
                           /\ \A j \in 1 .. i : alias[m] # stack[j].node
    BY <1>1, <1>4, <1>5, <1>6 DEF ListsLater
  <2>1. \A m \in stack[i].nbrs :
          alias[m] \in Active \cup {stack[j].node : j \in i + 1 .. Len(stack)} \cup Range(spilled)
    BY <1>4 DEF Inv, ListsLater
  <2>2. /\ Cardinality(stack[i].nbrs) < K
        /\ \A m \in stack[i].nbrs : \A j \in 1 .. i : alias[m] # stack[j].node
    BY DEF Inv, ListsLater
  <2> QED
    BY <2>1, <2>2
<1>15. Colored' /\ ValidColoring' /\ CalleeSavePrefix'
  BY <1>1 DEF Inv, Colored, ValidColoring, CalleeSavePrefix
<1> QED
  BY <1>6, <1>8, <1>9, <1>10, <1>11, <1>12, <1>13, <1>14, <1>15 DEF Inv

-------------------------------------------------------------------------------
(* combine: what merging v into u does to the graph.                       *)
LEMMA MergedGraph ==
  ASSUME Inv, NEW u \in Active, NEW v \in remain, u # v, u \notin adj[v], Combine(u, v),
         graph' = graph
  PROVE  /\ u \in Node /\ v \in Node /\ v \in Active /\ v \notin Machine
         /\ Active' = Active \ {v}
         /\ adj' \in [Node -> SUBSET Node]
         /\ EdgesJoinActive'
         /\ \A n \in Active \ {v} : \A m \in adj[n] : m # v => m \in adj'[n]
         /\ \A n \in adj[v] : u \in adj'[n] /\ n \in adj'[u]
<1> USE Whereabouts
<1>1. u \in Node /\ v \in Node /\ v \in Active /\ v \notin Machine /\ Active \subseteq Node
  BY DEF Active
<1>2. adj' = MergedAdj(u, v) /\ remain' = remain \ {v}
  BY DEF Combine
<1>3. Active' = Active \ {v}
  BY <1>1, <1>2 DEF Active
<1>4. adj \in [Node -> SUBSET Node]
  BY DEF Inv, TypeOK
<1>5. /\ adj'[v] = {}
      /\ adj'[u] = adj[u] \cup adj[v]
      /\ \A n \in Node \ {u, v} : v \in adj[n] => adj'[n] = (adj[n] \ {v}) \cup {u}
      /\ \A n \in Node \ {u, v} : v \notin adj[n] => adj'[n] = adj[n]
  BY <1>1, <1>2 DEF MergedAdj
<1>6. adj' \in [Node -> SUBSET Node]
  BY <1>1, <1>2, <1>4 DEF MergedAdj
<1>7. \A n \in Node : \A m \in adj[n] : m \in Active /\ m \in Node /\ n \in adj[m] /\ m # n
  BY <1>1, <1>4 DEF Inv, EdgesJoinActive
<1>8. v \notin adj[u] /\ u \notin adj[v] /\ v \notin adj[v] /\ u \notin adj[u]
  BY <1>1, <1>7
<1>9. ASSUME NEW n \in Node, NEW m \in adj'[n]
      PROVE  m \in Active \ {v} /\ n \in adj'[m] /\ m # n
  <2>1. n # v
    BY <1>5, <1>9
  <2>2. CASE n = u
    <3>1. m \in adj[u] \/ m \in adj[v]
      BY <1>5, <1>9, <2>2
    <3>2. m \in Active /\ m \in Node /\ m # v /\ m # u
      BY <1>1, <1>7, <1>8, <3>1
    <3>3. u \in adj'[m]
      BY <1>1, <1>5, <1>7, <3>1, <3>2
    <3> QED
      BY <2>2, <3>2, <3>3
  <2>3. CASE n # u /\ m = u
    <3>1. v \in adj[n] \/ u \in adj[n]
      BY <1>5, <1>9, <2>1, <2>3
    <3>2. n \in adj[v] \/ n \in adj[u]
      BY <1>7, <3>1
    <3> QED
      BY <1>1, <1>5, <2>1, <2>3, <3>2
  <2>4. CASE n # u /\ m # u
    <3>1. m \in adj[n] /\ m # v
      BY <1>5, <1>9, <2>1, <2>4
    <3>2. m \in Active /\ m \in Node /\ n \in adj[m] /\ m # n
      BY <1>7, <3>1
    <3>3. n \in adj'[m]
      BY <1>5, <2>1, <2>4, <3>1, <3>2
    <3> QED
      BY <3>1, <3>2, <3>3
  <2> QED
    BY <2>2, <2>3, <2>4
<1>10. EdgesJoinActive'
  BY <1>3, <1>9 DEF EdgesJoinActive
<1>11. \A n \in Active \ {v} : \A m \in adj[n] : m # v => m \in adj'[n]
  BY <1>1, <1>5
<1>12. \A n \in adj[v] : u \in adj'[n] /\ n \in adj'[u]
  <2>1. \A n \in adj[v] : n \in Node /\ v \in adj[n] /\ n # u /\ n # v
    BY <1>1, <1>7, <1>8
  <2> QED
    BY <1>5, <2>1
<1> QED
  BY <1>1, <1>3, <1>6, <1>10, <1>11, <1>12

(* combine: the moves of v become moves of u.                              *)
LEMMA MergedMoves ==
  ASSUME Inv, NEW u \in Active, NEW v \in remain, u # v, Combine(u, v), graph' = graph
  PROVE  /\ DOMAIN move' \subseteq Pairs(Active \ {v})
         /\ \A e \in DOMAIN move' : move'[e] \in Nat \ {0}
<1> DEFINE Image(e) == IF v \in e THEN (e \ {v}) \cup {u} ELSE e
           kept == {Image(e) : e \in DOMAIN move \ {{u, v}}}
<1>1. move' = [e \in kept |->
                 Weight(move, e) + (IF u \in e THEN Weight(move, (e \ {u}) \cup {v}) ELSE 0)]
  BY DEF Combine, MergedMove
<1>2. /\ DOMAIN move \subseteq Pairs(Active) /\ \A e \in DOMAIN move : move[e] \in Nat \ {0}
  BY DEF Inv, ListsTyped
<1>3. \A e : Weight(move, e) \in Nat /\ (e \in DOMAIN move => Weight(move, e) > 0)
  BY <1>2 DEF Weight
<1>4. u \in Active /\ v \in Active /\ Active \in SUBSET Node /\ Active \ {v} \in SUBSET Node
  BY Whereabouts DEF Active
<1>5. ASSUME NEW e \in DOMAIN move, e # {u, v}
      PROVE  /\ Image(e) \in Pairs(Active \ {v})
             /\ \/ Image(e) \in DOMAIN move
                \/ u \in Image(e) /\ (Image(e) \ {u}) \cup {v} \in DOMAIN move
  <2>1. PICK a, b \in Active : a # b /\ e = {a, b}
    BY <1>2, <1>4, PairForm
  <2>2. CASE v \notin e
    <3>1. Image(e) = e /\ a \in Active \ {v} /\ b \in Active \ {v}
      BY <2>1, <2>2
    <3> QED
      BY <1>4, <2>1, <3>1, PairForm
  <2>3. CASE v \in e
    <3>1. PICK c \in Active : c # v /\ e = {c, v}
      BY <2>1, <2>3
    <3>2. c # u
      BY <1>5, <3>1
    <3>3. Image(e) = {c, u}
      BY <2>3, <3>1
    <3>4. (Image(e) \ {u}) \cup {v} = e
      BY <3>1, <3>2, <3>3
    <3>5. c \in Active \ {v} /\ u \in Active \ {v}
      BY <1>4, <3>1
    <3>6. Image(e) \in Pairs(Active \ {v})
      <4>1. {c, u} \in Pairs(Active \ {v})
        BY <1>4, <3>2, <3>5, PairForm
      <4> QED
        BY <3>3, <4>1
    <3> QED
      BY <3>3, <3>4, <3>6
  <2> QED
    BY <2>2, <2>3
<1> HIDE DEF Image
<1>6. DOMAIN move' = kept
  BY <1>1
<1>7. ASSUME NEW d \in kept PROVE d \in Pairs(Active \ {v}) /\ move'[d] \in Nat \ {0}
  <2>1. PICK e \in DOMAIN move : e # {u, v} /\ d = Image(e)
    OBVIOUS
  <2>2. d \in Pairs(Active \ {v})
    BY <1>5, <2>1
  <2>3. move'[d] = Weight(move, d) + (IF u \in d THEN Weight(move, (d \ {u}) \cup {v}) ELSE 0)
    BY <1>1
  <2>4. CASE d \in DOMAIN move
    BY <1>3, <2>2, <2>3, <2>4
  <2>5. CASE u \in d /\ (d \ {u}) \cup {v} \in DOMAIN move
    BY <1>3, <2>2, <2>3, <2>5
  <2> QED
    BY <1>5, <2>1, <2>2, <2>4, <2>5
<1> QED
  BY <1>6, <1>7

(* combine: what stood for v stands for u.                                 *)
LEMMA MergedAlias ==
  ASSUME Inv, Dismantling, NEW u \in Active, NEW v \in remain, u # v, Combine(u, v),
         graph' = graph, stack' = stack, spilled' = spilled, pc' = pc
  PROVE  /\ \A n \in Node : alias'[n] = IF alias[n] = v THEN u ELSE alias[n]
         /\ alias' \in [Node -> Node \cup {-1}]
         /\ v \notin OnStack /\ u \notin OnStack /\ v \notin Range(spilled) /\ alias[v] = v
         /\ Representatives'
         /\ Places'
<1> USE Whereabouts
<1>1. /\ u \in Node /\ v \in Node /\ u \in graph.occur /\ v \in graph.occur /\ v \in Active
      /\ alias[u] = u /\ alias[v] = v
  BY DEF Active
<1>2. alias' = Merged(u, v) /\ remain' = remain \ {v}
  BY DEF Combine
<1>3. alias \in [Node -> Node \cup {-1}]
  BY DEF Inv, TypeOK
<1>4. \A n \in Node : alias'[n] = IF alias[n] = v THEN u ELSE alias[n]
  BY <1>2 DEF Merged
<1>5. alias' \in [Node -> Node \cup {-1}]
  BY <1>1, <1>2, <1>3 DEF Merged
<1>6. v \notin OnStack /\ u \notin OnStack /\ v \notin Range(spilled)
  BY DEF Inv, Places, Active
<1>7. OnStack' = OnStack /\ Range(spilled)' = Range(spilled) /\ Active' \subseteq Active \ {v}
  <2>1. v \notin Machine
    OBVIOUS
  <2> QED
    BY <1>2, <2>1 DEF OnStack, Active
<1>8. Range(spilled) \subseteq graph.occur
  BY DEF Inv, ListsTyped
<1>9. Representatives'
  <2>1. ASSUME NEW n \in graph.occur PROVE alias'[n] \in graph.occur /\ alias'[alias'[n]] = alias'[n]
    <3>1. alias[n] \in graph.occur /\ alias[alias[n]] = alias[n] /\ n \in Node /\ alias[n] \in Node
      OBVIOUS
    <3> QED
      BY <1>1, <1>4, <3>1
  <2>2. ASSUME NEW n \in Node \ graph.occur PROVE alias'[n] = -1
    <3>1. alias[n] = -1 /\ v # -1
      BY <1>1, Registers DEF Inv, Representatives
    <3> QED
      BY <1>4, <3>1
  <2>3. ASSUME NEW n \in Active' \cup OnStack \cup Range(spilled) PROVE alias'[n] = n
    <3>1. n # v /\ alias[n] = n /\ n \in Node
      BY <1>6, <1>7, <1>8, <2>3 DEF Inv, Representatives
    <3> QED
      BY <1>4, <3>1
  <2> QED
    BY <1>7, <2>1, <2>2, <2>3 DEF Representatives
<1>10. Places'
  <2>1. /\ \A i, j \in DOMAIN stack : stack[i].node = stack[j].node => i = j
        /\ graph.occur \ Machine \subseteq remain \cup OnStack \cup Coalesced \cup Range(spilled)
        /\ remain \cap OnStack = {} /\ remain \cap Range(spilled) = {}
        /\ OnStack \cap Range(spilled) = {}
    BY DEF Inv, Places
  <2>2. Coalesced \cup {v} \subseteq Coalesced'
    <3>1. alias'[v] # v
      BY <1>1, <1>4
    <3>2. \A n \in graph.occur : alias[n] # n => alias'[n] # n
      BY <1>1, <1>4
    <3> QED
      BY <1>1, <3>1, <3>2 DEF Coalesced
  <2> HIDE DEF Coalesced
  <2> QED
    BY <1>2, <1>7, <2>1, <2>2 DEF Places
<1> QED
  BY <1>1, <1>4, <1>5, <1>6, <1>9, <1>10

LEMMA CombineInv ==
  ASSUME Inv, pc = "coalesce", NEW u \in Active, NEW v \in remain, u # v, u \notin adj[v],
         Combine(u, v),
         DOMAIN todo' \subseteq DOMAIN todo, \A e \in DOMAIN todo' : todo'[e] = todo[e],
         gain' \in Nat, gain' > 0,
         UNCHANGED <<pc, graph, work, stack, frozen, spilled, color, used>>
  PROVE  Inv'
<1> USE Whereabouts
<1>1. /\ pc' = pc /\ graph' = graph /\ work' = work /\ stack' = stack /\ frozen' = frozen
      /\ spilled' = spilled /\ color' = color /\ used' = used
      /\ Dismantling /\ Dismantling' /\ remain' = remain \ {v}
  BY DEF Dismantling, Combine
<1>2. /\ u \in Node /\ v \in Node /\ v \in Active /\ v \notin Machine
      /\ Active' = Active \ {v}
      /\ adj' \in [Node -> SUBSET Node]
      /\ EdgesJoinActive'
      /\ \A n \in Active \ {v} : \A m \in adj[n] : m # v => m \in adj'[n]
      /\ \A n \in adj[v] : u \in adj'[n] /\ n \in adj'[u]
  BY <1>1, MergedGraph
<1>3. /\ DOMAIN move' \subseteq Pairs(Active \ {v})
      /\ \A e \in DOMAIN move' : move'[e] \in Nat \ {0}
  BY <1>1, MergedMoves
<1>4. /\ \A n \in Node : alias'[n] = IF alias[n] = v THEN u ELSE alias[n]
      /\ alias' \in [Node -> Node \cup {-1}]
      /\ v \notin OnStack /\ u \notin OnStack /\ v \notin Range(spilled) /\ alias[v] = v
      /\ Representatives'
      /\ Places'
  BY <1>1, MergedAlias
<1>5. work = <<>>
  BY DEF Inv, QueueRight
<1>6. TypeOK'
  <2>1. Pairs(Active \ {v}) \subseteq Pairs(Node)
    BY DEF Pairs
  <2>2. DOMAIN todo' \subseteq Pairs(Node) /\ DOMAIN move' \subseteq Pairs(Node)
    BY <1>3, <2>1 DEF Inv, TypeOK
  <2>3. remain' \subseteq Node \ Machine /\ work' \in Seq(remain')
    BY <1>1, <1>5
  <2> QED
    BY <1>1, <1>2, <1>4, <2>2, <2>3 DEF Inv, TypeOK
<1>7. ListsTyped'
  <2>1. ASSUME NEW e \in DOMAIN todo', NEW n \in e
        PROVE  n \in graph.occur /\ alias'[n] \in Active \ {v}
    <3>1. n \in graph.occur /\ alias[n] \in Active
      BY DEF Inv, ListsTyped
    <3> QED
      BY <1>2, <1>4, <3>1
  <2> QED
    BY <1>1, <1>2, <1>3, <2>1 DEF Inv, ListsTyped
<1>8. QueueRight'
  BY <1>1, <1>5 DEF QueueRight, Range, IsInjective
<1>9. EdgesKept'
  <2> SUFFICES ASSUME NEW x \in graph.occur, NEW y \in graph.adj[x]
               PROVE  /\ alias'[x] # alias'[y]
                      /\ alias'[x] \in Active \ {v} /\ alias'[y] \in Active \ {v}
                           => alias'[y] \in adj'[alias'[x]]
                      /\ \A i \in DOMAIN stack :
                           stack[i].node = alias'[x]
                             /\ (alias'[y] \in Active \ {v}
                                  \/ \E j \in DOMAIN stack : j > i /\ stack[j].node = alias'[y])
                             => alias'[y] \in {alias'[m] : m \in stack[i].nbrs}
    BY <1>1, <1>2 DEF EdgesKept
  <2> PICK a, b : a = alias[x] /\ b = alias[y]
    OBVIOUS
  <2>1. /\ a # b
        /\ a \in Active /\ b \in Active => b \in adj[a]
        /\ \A i \in DOMAIN stack :
             stack[i].node = a /\ (b \in Active \/ \E j \in DOMAIN stack : j > i /\ stack[j].node = b)
               => b \in {alias[m] : m \in stack[i].nbrs}
    BY <1>1 DEF Inv, EdgesKept
  <2>2. /\ x \in Node /\ y \in Node /\ a \in Node /\ b \in Node
        /\ alias'[x] = IF a = v THEN u ELSE a
        /\ alias'[y] = IF b = v THEN u ELSE b
    BY <1>4
  <2>3. adj \in [Node -> SUBSET Node] /\ \A n \in Node : \A m \in adj[n] : n \in adj[m]
    BY DEF Inv, TypeOK, EdgesJoinActive
  <2>4. alias'[x] # alias'[y]
    <3>1. ~(a = v /\ b = u) /\ ~(a = u /\ b = v)
      BY <1>2, <2>1, <2>3
    <3> QED
      BY <2>1, <2>2, <3>1
  <2>5. ASSUME alias'[x] \in Active \ {v}, alias'[y] \in Active \ {v}
        PROVE  alias'[y] \in adj'[alias'[x]]
    <3>1. a \in Active /\ b \in Active /\ b \in adj[a] /\ a \in adj[b]
      BY <1>2, <2>1, <2>2, <2>3, <2>5
    <3>2. CASE a = v
      BY <1>2, <2>1, <2>2, <3>1, <3>2
    <3>3. CASE b = v
      BY <1>2, <2>1, <2>2, <3>1, <3>3
    <3>4. CASE a # v /\ b # v
      BY <1>2, <2>2, <3>1, <3>4
    <3> QED
      BY <3>2, <3>3, <3>4
  <2>6. ASSUME NEW i \in DOMAIN stack, stack[i].node = alias'[x],
               alias'[y] \in Active \ {v} \/ \E j \in DOMAIN stack : j > i /\ stack[j].node = alias'[y]
        PROVE  alias'[y] \in {alias'[m] : m \in stack[i].nbrs}
    <3>1. \A j \in DOMAIN stack : stack[j].node # u /\ stack[j].node # v
      BY <1>4 DEF OnStack
    <3>2. stack[i].node = a
      BY <2>2, <2>6, <3>1
    <3>3. b \in Active \/ \E j \in DOMAIN stack : j > i /\ stack[j].node = b
      BY <1>2, <2>2, <2>6, <3>1
    <3>4. PICK m \in stack[i].nbrs : alias[m] = b
      BY <2>1, <3>2, <3>3
    <3>5. m \in Node
      BY <3>4
    <3>6. alias'[m] = alias'[y]
      BY <1>4, <2>2, <3>4, <3>5
    <3> QED
      BY <3>4, <3>6
  <2> QED
    BY <2>4, <2>5, <2>6
<1>10. ListsLater'
  <2> SUFFICES ASSUME NEW i \in DOMAIN stack
               PROVE  /\ Cardinality(stack[i].nbrs) < K
                      /\ \A m \in stack[i].nbrs :
                           /\ alias'[m] \in (Active \ {v}) \cup {stack[j].node : j \in i + 1 .. Len(stack)}
                                             \cup Range(spilled)
                           /\ \A j \in 1 .. i : alias'[m] # stack[j].node
    BY <1>1, <1>2 DEF ListsLater
  <2>1. \A m \in stack[i].nbrs :
          alias[m] \in Active \cup {stack[j].node : j \in i + 1 .. Len(stack)} \cup Range(spilled)
    BY <1>1 DEF Inv, ListsLater
  <2>2. /\ Cardinality(stack[i].nbrs) < K
        /\ \A m \in stack[i].nbrs : \A j \in 1 .. i : alias[m] # stack[j].node
    BY DEF Inv, ListsLater
  <2>3. \A m \in stack[i].nbrs : m \in Node /\ alias'[m] = IF alias[m] = v THEN u ELSE alias[m]
    BY <1>4
  <2>4. \A j \in 1 .. i : stack[j].node # u
    <3>1. \A j \in 1 .. i : j \in DOMAIN stack
      OBVIOUS
    <3> QED
      BY <1>4, <3>1 DEF OnStack
  <2> QED
    BY <1>2, <2>1, <2>2, <2>3, <2>4
<1>11. Colored' /\ ValidColoring' /\ CalleeSavePrefix'
  <2>1. pc' # "color" /\ pc' # "done"
    BY <1>1
  <2> QED
    BY <1>1, <2>1 DEF Inv, Colored, ValidColoring, CalleeSavePrefix
<1> QED
  BY <1>2, <1>4, <1>6, <1>7, <1>8, <1>9, <1>10, <1>11 DEF Inv

(* One turn of coalesce: an edge is looked at, and its ends merged or not. *)
LEMMA CoalesceInv ==
  ASSUME Inv, Coalesce
  PROVE  Inv'
<1>1. /\ pc = "coalesce"
      /\ pc' = pc /\ graph' = graph /\ work' = work /\ stack' = stack /\ frozen' = frozen
      /\ spilled' = spilled /\ color' = color /\ used' = used
  BY DEF Coalesce
<1>2. PICK e \in DOMAIN todo :
        /\ todo' = Restrict(todo, DOMAIN todo \ {e})
        /\ \/ /\ CanCombine(alias[Max(e)], alias[Min(e)])
              /\ IF alias[Min(e)] \in Machine
                 THEN Combine(alias[Min(e)], alias[Max(e)])
                 ELSE Combine(alias[Max(e)], alias[Min(e)])
              /\ gain' = gain + todo[e]
           \/ UNCHANGED <<adj, move, remain, alias, gain>>
  BY DEF Coalesce
<1>3. DOMAIN todo' \subseteq DOMAIN todo /\ \A d \in DOMAIN todo' : todo'[d] = todo[d]
  BY <1>2 DEF Restrict
<1>4. CASE UNCHANGED <<adj, move, remain, alias, gain>>
  <2>1. /\ adj' = adj /\ move' = move /\ remain' = remain /\ alias' = alias /\ gain' = gain
        /\ Active' = Active /\ OnStack' = OnStack /\ Coalesced' = Coalesced
        /\ (Dismantling' <=> Dismantling)
        /\ \A n : Free(n)' <=> Free(n)
    BY <1>1, <1>4 DEF Active, OnStack, Coalesced, Dismantling, Free, EdgesAt, Degree
  <2>2. TypeOK'
    BY <1>1, <1>3, <2>1 DEF Inv, TypeOK
  <2>3. ListsTyped'
    BY <1>1, <1>3, <2>1 DEF Inv, ListsTyped
  <2>4. EdgesJoinActive' /\ Representatives' /\ Places'
    BY <1>1, <2>1 DEF Inv, EdgesJoinActive, Representatives, Places
  <2>5. QueueRight'
    BY <1>1, <2>1 DEF Inv, QueueRight
  <2>6. EdgesKept' /\ ListsLater'
    BY <1>1, <2>1 DEF Inv, EdgesKept, ListsLater
  <2>7. Colored' /\ ValidColoring' /\ CalleeSavePrefix'
    BY <1>1, <2>1 DEF Inv, Colored, ValidColoring, CalleeSavePrefix
  <2> QED
    BY <2>2, <2>3, <2>4, <2>5, <2>6, <2>7 DEF Inv
<1>5. CASE /\ CanCombine(alias[Max(e)], alias[Min(e)])
           /\ IF alias[Min(e)] \in Machine
              THEN Combine(alias[Min(e)], alias[Max(e)])
              ELSE Combine(alias[Max(e)], alias[Min(e)])
           /\ gain' = gain + todo[e]
  <2> PICK u, v : u = alias[Max(e)] /\ v = alias[Min(e)]
    OBVIOUS
  <2>1. e \in Pairs(Node)
    BY DEF Inv, TypeOK
  <2>2. u \in Active /\ v \in Active
    BY <1>1, <2>1, PairEnds DEF Inv, ListsTyped
  <2>3. u # v /\ ~(u \in Machine /\ v \in Machine) /\ u \notin adj[v]
    BY <1>5 DEF CanCombine
  <2>4. v \notin adj[u]
    BY <2>2, <2>3, Whereabouts DEF Inv, EdgesJoinActive
  <2>5. gain' \in Nat /\ gain' > 0
    <3>1. gain \in Nat /\ todo[e] \in Nat \ {0}
      BY DEF Inv, TypeOK, ListsTyped
    <3> QED
      BY <1>5, <3>1
  <2>6. CASE v \in Machine
    <3>1. u \in remain /\ Combine(v, u)
      BY <1>5, <2>2, <2>3, <2>6 DEF Active
    <3> QED
      BY <1>1, <1>3, <2>2, <2>3, <2>4, <2>5, <3>1, CombineInv
  <2>7. CASE v \notin Machine
    <3>1. v \in remain /\ Combine(u, v)
      BY <1>5, <2>2, <2>7 DEF Active
    <3> QED
      BY <1>1, <1>3, <2>2, <2>3, <2>5, <3>1, CombineInv
  <2> QED
    BY <2>6, <2>7
<1> QED
  BY <1>2, <1>4, <1>5

-------------------------------------------------------------------------------
(* The graph is empty: everything that is not a machine register is on the *)
(* stack or merged, and assign_colors begins.                              *)
LEMMA LeaveInv ==
  ASSUME Inv, Leave
  PROVE  Inv'
<1> USE Whereabouts
<1>1. /\ remain = {} /\ pc' \in {"rewrite", "color"}
      /\ graph' = graph /\ adj' = adj /\ move' = move /\ remain' = remain /\ work' = work
      /\ stack' = stack /\ alias' = alias /\ todo' = todo /\ gain' = gain /\ frozen' = frozen
      /\ spilled' = spilled
  BY DEF Leave
<1>2. /\ Active' = Active /\ OnStack' = OnStack /\ Coalesced' = Coalesced /\ Settled' = Settled
      /\ Dismantling /\ ~Dismantling'
  <2>1. Dismantling /\ ~Dismantling'
    BY <1>1 DEF Dismantling, Leave
  <2> QED
    BY <1>1, <2>1 DEF Active, OnStack, Coalesced, Settled
<1>3. work = <<>>
  BY DEF Inv, QueueRight, Leave
<1>4. \/ pc' = "rewrite" /\ color' = color /\ used' = used
      \/ /\ pc' = "color" /\ spilled = <<>>
         /\ color' = [n \in Node |-> IF n \in graph.occur \cap Machine THEN n ELSE -1]
         /\ used' = graph.occur \cap Machine
  BY DEF Leave
<1>5. TypeOK'
  <2>1. color' \in [Node -> Machine \cup {-1}] /\ used' \subseteq Machine
    BY <1>4 DEF Inv, TypeOK
  <2>2. pc' \in Location
    BY <1>1 DEF Location
  <2> QED
    BY <1>1, <2>1, <2>2 DEF Inv, TypeOK
<1>6. ListsTyped'
  BY <1>1, <1>2 DEF Inv, ListsTyped
<1>7. EdgesJoinActive' /\ Representatives' /\ Places'
  BY <1>1, <1>2 DEF Inv, EdgesJoinActive, Representatives, Places
<1>8. QueueRight'
  BY <1>1, <1>3 DEF QueueRight, Range, IsInjective
<1>9. EdgesKept' /\ ListsLater'
  BY <1>1, <1>2 DEF Inv, EdgesKept, ListsLater
<1>10. ValidColoring' /\ CalleeSavePrefix'
  <2>1. pc' # "done"
    BY <1>1
  <2>2. used' = used \/ used' = graph.occur \cap Machine
    BY <1>4
  <2> QED
    BY <1>1, <2>1, <2>2 DEF Inv, ValidColoring, CalleeSavePrefix
<1>11. Colored'
  <2>1. CASE pc' = "rewrite"
    <3>1. color' = color /\ used' = used
      BY <1>4, <2>1
    <3> QED
      BY <2>1, <3>1 DEF Inv, Colored
  <2>2. CASE pc' = "color"
    <3>1. /\ spilled = <<>>
          /\ color' = [n \in Node |-> IF n \in graph.occur \cap Machine THEN n ELSE -1]
          /\ used' = graph.occur \cap Machine
      BY <1>4, <2>2
    <3>2. Settled \subseteq Machine /\ Settled \subseteq graph.occur
      <4>1. Range(spilled) = {}
        BY <3>1 DEF Range
      <4>2. graph.occur \ Machine \subseteq OnStack \cup Coalesced
        BY <1>1, <1>2, <4>1 DEF Inv, Places
      <4> QED
        BY <4>2 DEF Settled, Coalesced
    <3>3. \A n \in Settled : color'[n] = n
      BY <3>1, <3>2
    <3>4. ASSUME NEW x \in graph.occur, NEW y \in graph.adj[x]
          PROVE  /\ alias[x] # alias[y]
                 /\ alias[x] \in Settled /\ alias[y] \in Settled => color'[alias[x]] # color'[alias[y]]
                 /\ \A i \in DOMAIN stack :
                      stack[i].node = alias[x] /\ (\A j \in 1 .. i : stack[j].node # alias[y])
                        => alias[y] \in {alias[m] : m \in stack[i].nbrs}
      <4>1. /\ alias[x] # alias[y]
            /\ \A i \in DOMAIN stack :
                 stack[i].node = alias[x]
                   /\ (alias[y] \in Active \/ \E j \in DOMAIN stack : j > i /\ stack[j].node = alias[y])
                   => alias[y] \in {alias[m] : m \in stack[i].nbrs}
        BY <1>2 DEF Inv, EdgesKept
      <4>2. alias[y] \in Active \cup OnStack
        <5>1. alias[y] \in Active \cup OnStack \cup Range(spilled)
          BY <1>2, RepresentativePlace
        <5> QED
          BY <3>1, <5>1 DEF Range
      <4>3. ASSUME NEW i \in DOMAIN stack, \A j \in 1 .. i : stack[j].node # alias[y]
            PROVE  alias[y] \in Active \/ \E j \in DOMAIN stack : j > i /\ stack[j].node = alias[y]
        <5>1. CASE alias[y] \in OnStack
          <6>1. PICK j \in DOMAIN stack : stack[j].node = alias[y]
            BY <5>1 DEF OnStack
          <6>2. j > i
            BY <4>3, <6>1
          <6> QED
            BY <6>1, <6>2
        <5> QED
          BY <4>2, <5>1
      <4> QED
        BY <3>3, <4>1, <4>3
    <3>5. \A n \in Node : color'[n] \in used' \cup {-1}
      BY <3>1
    <3>6. \A r \in graph.occur \cap Machine : color'[r] = r
      BY <3>1
    <3>7. \A n \in Settled : color'[n] \in Machine
      BY <3>2, <3>3
    <3> QED
      BY <1>1, <1>2, <3>4, <3>5, <3>6, <3>7 DEF Colored
  <2> QED
    BY <1>1, <2>1, <2>2
<1> QED
  BY <1>5, <1>6, <1>7, <1>8, <1>9, <1>10, <1>11 DEF Inv

-------------------------------------------------------------------------------
(* The node on top of the stack has fewer than K neighbours to avoid, and  *)
(* all of them have their register.                                        *)
LEMMA TakenRegisters ==
  ASSUME Inv, pc = "color", stack # <<>>
  PROVE  /\ Taken \subseteq Machine
         /\ Taken \subseteq used
         /\ Taken # Machine
         /\ Last(stack).node \in graph.occur /\ Last(stack).node \notin Machine
         /\ \A m \in Last(stack).nbrs : alias[m] \in Settled
<1> USE Whereabouts, Registers
<1> PICK L : L = Len(stack)
  OBVIOUS
<1>1. L \in Nat /\ L > 0 /\ L \in DOMAIN stack /\ DOMAIN stack = 1 .. L
  <2>1. stack \in Seq([node : graph.occur \ Machine, nbrs : SUBSET graph.occur])
    BY DEF Inv, ListsTyped
  <2> QED
    BY <2>1, EmptySeq
<1> PICK N : N = stack[L].nbrs
  OBVIOUS
<1>2. /\ Last(stack) = stack[L] /\ N \subseteq graph.occur
      /\ stack[L].node \in graph.occur /\ stack[L].node \notin Machine
  BY <1>1 DEF Last
<1>3. /\ Cardinality(N) < K
      /\ \A m \in N : \A j \in 1 .. L : alias[m] # stack[j].node
  BY <1>1 DEF Inv, ListsLater
<1>4. \A m \in N : alias[m] \in Settled
  <2>1. \A m \in N : alias[m] \notin OnStack
    BY <1>1, <1>3 DEF OnStack
  <2> QED
    BY <1>2, <2>1 DEF Settled
<1>5. \A m \in N : color[alias[m]] \in Machine /\ color[alias[m]] \in used
  <2>1. \A k \in Settled : color[k] \in Machine /\ color[k] \in used
    <3>1. \A k \in Settled : k \in Node
      BY DEF Settled
    <3>2. /\ \A k \in Settled : color[k] \in Machine
          /\ \A k \in Node : color[k] \in used \cup {-1}
      BY DEF Inv, Colored
    <3>3. \A k \in Machine : k # -1
      OBVIOUS
    <3> SUFFICES ASSUME NEW k \in Settled
                 PROVE  color[k] \in Machine /\ color[k] \in used
      OBVIOUS
    <3>4. color[k] \in Machine /\ color[k] \in used \cup {-1}
      BY <3>1, <3>2
    <3> QED
      BY <3>3, <3>4
  <2> QED
    BY <1>4, <2>1
<1>6. Taken = {color[alias[m]] : m \in N}
  BY <1>2 DEF Taken
<1>7. Taken \subseteq Machine /\ Taken \subseteq used
  BY <1>5, <1>6
<1>8. Taken # Machine
  <2> DEFINE f == [m \in N |-> color[alias[m]]]
  <2>1. f \in Surjection(N, Taken)
    BY <1>6 DEF Surjection
  <2>2. N \in SUBSET Node
    BY <1>2
  <2>3. IsFiniteSet(N) /\ Cardinality(N) \in Nat
    BY <2>2, NodeSets
  <2> HIDE DEF f
  <2>4. Cardinality(Taken) <= Cardinality(N) /\ IsFiniteSet(Taken)
    BY <2>1, <2>3, FS_Surjection
  <2>5. Cardinality(Taken) \in Nat
    BY <2>4, FS_CardinalityType
  <2> QED
    BY <1>3, <2>3, <2>4, <2>5
<1> QED
  BY <1>2, <1>4, <1>7, <1>8

(* What one turn of assign_colors does to the stack.                       *)
LEMMA PopStep ==
  ASSUME Inv, stack # <<>>, stack' = Front(stack), alias' = alias, graph' = graph,
         NEW n, n = Last(stack).node
  PROVE  /\ Len(stack) \in Nat /\ Len(stack) \in DOMAIN stack
         /\ n = stack[Len(stack)].node
         /\ DOMAIN stack' = 1 .. Len(stack) - 1 /\ Len(stack') = Len(stack) - 1
         /\ \A i \in 1 .. Len(stack) - 1 : stack'[i] = stack[i]
         /\ stack' \in Seq([node : graph.occur \ Machine, nbrs : SUBSET graph.occur])
         /\ OnStack' = OnStack \ {n}
         /\ Settled' = Settled \cup {n}
<1> USE Whereabouts
<1> PICK L : L = Len(stack)
  OBVIOUS
<1> DEFINE Entry == [node : graph.occur \ Machine, nbrs : SUBSET graph.occur]
<1>1. stack \in Seq(Entry)
  BY DEF Inv, ListsTyped
<1> HIDE DEF Entry
<1>2. L \in Nat /\ L > 0 /\ L \in DOMAIN stack /\ DOMAIN stack = 1 .. L /\ n = stack[L].node
  <2>1. Last(stack) = stack[L]
    BY DEF Last
  <2> QED
    BY <1>1, <2>1, EmptySeq
<1>3. /\ Front(stack) \in Seq(Entry)
      /\ Len(Front(stack)) = L - 1
      /\ \A i \in 1 .. L - 1 : Front(stack)[i] = stack[i]
  <2>1. \A i \in 1 .. L - 1 : stack[i] \in Entry
    BY <1>1, <1>2, ElementOfSeq
  <2>2. Front(stack) = SubSeq(stack, 1, L - 1)
    BY DEF Front
  <2>3. /\ SubSeq(stack, 1, L - 1) \in Seq(Entry)
        /\ Len(SubSeq(stack, 1, L - 1)) = IF 1 <= L - 1 THEN L - 1 - 1 + 1 ELSE 0
        /\ \A i \in 1 .. L - 1 - 1 + 1 : SubSeq(stack, 1, L - 1)[i] = stack[1 + i - 1]
    BY <1>2, <2>1, SubSeqProperties
  <2> QED
    BY <1>2, <2>2, <2>3
<1>4. DOMAIN stack' = 1 .. L - 1
  BY <1>3, LenProperties
<1>5. \A i \in 1 .. L : i = L \/ (i \in 1 .. L - 1 /\ stack'[i] = stack[i])
  BY <1>2, <1>3
<1>6. \A i \in 1 .. L - 1 : stack[i].node # n
  BY <1>2 DEF Inv, Places
<1>7. OnStack' = OnStack \ {n}
  <2>1. OnStack' = {stack'[i].node : i \in 1 .. L - 1}
    BY <1>4 DEF OnStack
  <2>2. OnStack = {stack[i].node : i \in 1 .. L}
    BY <1>2 DEF OnStack
  <2>3. \A x \in OnStack' : x \in OnStack \ {n}
    BY <1>2, <1>3, <1>6, <2>1, <2>2
  <2>4. \A x \in OnStack \ {n} : x \in OnStack'
    BY <1>2, <1>5, <2>1, <2>2
  <2> QED
    BY <2>3, <2>4
<1>8. n \in graph.occur /\ alias[n] = n /\ n \in OnStack
  BY <1>2 DEF OnStack
<1>9. Settled' = Settled \cup {n}
  BY <1>7, <1>8 DEF Settled
<1> QED
  BY <1>2, <1>3, <1>4, <1>7, <1>9 DEF Entry

(* A callee-saved register is handed out for the first time only when the  *)
(* ones before it have been.                                               *)
LEMMA FirstUse ==
  ASSUME Inv, pc = "color", stack # <<>>, NEW n, NEW r, r = BestRegister(n),
         r \in CalleeSave, r \notin graph.occur, NEW q \in CalleeSave, q < r
  PROVE  q \in used
<1> USE Registers, Whereabouts
<1>0. TypeOK /\ ListsTyped
  BY DEF Inv
<1>1. Machine \ Taken # {} /\ Taken \subseteq used
  BY TakenRegisters
<1>2. /\ r \in Machine \ Taken
      /\ \A p \in Machine \ Taken : Score(n, p) <= Score(n, r)
      /\ \A p \in Machine \ Taken : Score(n, p) = Score(n, r) => r <= p
  BY <1>0, <1>1, BestMember
<1>3. CASE r \in used
  BY <1>3 DEF Inv, CalleeSavePrefix
<1>4. CASE r \notin used
  <2> SUFFICES ASSUME q \notin used PROVE FALSE
    OBVIOUS
  <2>1. FrozenTo(n, r) = {}
    <3>1. \A e \in DOMAIN frozen : e \subseteq graph.occur
      BY <1>0 DEF ListsTyped, Pairs
    <3>2. \A b \in graph.occur : color[alias[b]] \in used \cup {-1}
      BY DEF Inv, Colored
    <3>3. r # -1
      BY <1>2
    <3> QED
      BY <1>4, <3>1, <3>2, <3>3 DEF FrozenTo
  <2>2. Score(n, r) = 0
    BY <1>0, <1>4, <2>1, ScoreType
  <2>3. q \in Machine \ Taken
    BY <1>1
  <2>4. Score(n, q) \in Nat
    BY <1>0, ScoreType
  <2>5. r <= q
    BY <1>2, <2>2, <2>3, <2>4
  <2>6. r \in Nat /\ q \in Nat
    BY <1>2
  <2> QED
    BY <2>5, <2>6
<1> QED
  BY <1>3, <1>4

(* One turn of assign_colors' loop.                                        *)
LEMMA ColorInv ==
  ASSUME Inv, Color
  PROVE  Inv'
<1> USE Whereabouts
<1> PICK n, r, L : n = Last(stack).node /\ r = BestRegister(n) /\ L = Len(stack)
  OBVIOUS
<1>1. /\ pc = "color" /\ stack # <<>> /\ pc' = pc
      /\ color' = [color EXCEPT ![n] = r] /\ used' = used \cup {r} /\ stack' = Front(stack)
      /\ graph' = graph /\ adj' = adj /\ move' = move /\ remain' = remain /\ work' = work
      /\ alias' = alias /\ todo' = todo /\ gain' = gain /\ frozen' = frozen /\ spilled' = spilled
  BY DEF Color
<1>2. /\ Taken \subseteq Machine /\ Taken \subseteq used /\ Taken # Machine
      /\ n \in graph.occur /\ n \notin Machine /\ n \in Node
      /\ \A m \in Last(stack).nbrs : alias[m] \in Settled
  BY <1>1, TakenRegisters
<1>3. r \in Machine \ Taken
  BY <1>2, BestMember DEF Inv
<1>4. /\ L \in Nat /\ L \in DOMAIN stack /\ DOMAIN stack = 1 .. L
      /\ n = stack[L].node
      /\ DOMAIN stack' = 1 .. L - 1 /\ Len(stack') = L - 1
      /\ \A i \in 1 .. L - 1 : stack'[i] = stack[i]
      /\ stack' \in Seq([node : graph.occur \ Machine, nbrs : SUBSET graph.occur])
      /\ OnStack' = OnStack \ {n}
      /\ Settled' = Settled \cup {n}
  BY <1>1, PopStep
<1>5. \A i \in 1 .. L - 1 : i \in DOMAIN stack
  BY <1>4
<1>6. Active' = Active /\ Coalesced' = Coalesced /\ ~Dismantling /\ ~Dismantling'
  BY <1>1 DEF Active, Coalesced, Dismantling
<1>7. color \in [Node -> Machine \cup {-1}]
  BY DEF Inv, TypeOK
<1>8. /\ color' \in [Node -> Machine \cup {-1}] /\ color'[n] = r
      /\ \A m \in Node : m # n => color'[m] = color[m]
  BY <1>1, <1>2, <1>3, <1>7
<1>9. TypeOK'
  <2>1. \A i \in DOMAIN stack' : stack'[i].node \in Node \ Machine /\ stack'[i].nbrs \subseteq Node
    BY <1>4, <1>5
  <2>2. used' \subseteq Machine
    BY <1>1, <1>3 DEF Inv, TypeOK
  <2> QED
    BY <1>1, <1>8, <2>1, <2>2 DEF Inv, TypeOK
<1>10. ListsTyped'
  BY <1>1, <1>4, <1>6 DEF Inv, ListsTyped
<1>11. EdgesJoinActive'
  BY <1>1, <1>6 DEF Inv, EdgesJoinActive
<1>12. Representatives'
  BY <1>1, <1>4, <1>6 DEF Inv, Representatives
<1>13. Places'
  BY <1>4, <1>5, <1>6 DEF Inv, Places
<1>14. QueueRight'
  <2>1. work' = <<>> /\ pc' = "color"
    BY <1>1 DEF Inv, QueueRight
  <2> QED
    BY <2>1 DEF QueueRight, Range, IsInjective
<1>15. EdgesKept'
  BY <1>6 DEF EdgesKept
<1>16. ListsLater'
  <2>1. ASSUME NEW i \in 1 .. L - 1
        PROVE  /\ Cardinality(stack'[i].nbrs) < K
               /\ \A m \in stack'[i].nbrs : \A j \in 1 .. i : alias[m] # stack'[j].node
    <3>1. \A j \in 1 .. i : stack'[j] = stack[j]
      BY <1>4
    <3>2. i \in DOMAIN stack /\ i \in 1 .. i
      BY <1>4
    <3> QED
      BY <3>1, <3>2 DEF Inv, ListsLater
  <2> QED
    BY <1>1, <1>4, <1>6, <2>1 DEF ListsLater
<1>17. ValidColoring'
  BY <1>1 DEF ValidColoring
<1>18. CalleeSavePrefix'
  <2> SUFFICES ASSUME NEW p \in used', p \in CalleeSave, p \notin graph.occur,
                      NEW q \in CalleeSave, q < p
               PROVE  q \in used'
    BY <1>1 DEF CalleeSavePrefix
  <2>1. CASE p \in used
    BY <1>1, <2>1 DEF Inv, CalleeSavePrefix
  <2>2. CASE p = r
    BY <1>1, <2>2, FirstUse
  <2> QED
    BY <1>1, <2>1, <2>2
<1>19. Colored'
  <2>1. \A m \in Node : color'[m] \in used' \cup {-1}
    BY <1>1, <1>8 DEF Inv, Colored
  <2>2. \A m \in Settled' : color'[m] \in Machine
    <3>1. \A m \in Settled : m \in Node /\ color[m] \in Machine
      BY <1>1 DEF Inv, Colored, Settled
    <3> QED
      BY <1>3, <1>4, <1>8, <3>1
  <2>3. \A m \in graph.occur \cap Machine : color'[m] = m
    BY <1>1, <1>2, <1>8 DEF Inv, Colored
  <2>4. ASSUME NEW x \in graph.occur, NEW y \in graph.adj[x]
        PROVE  /\ alias[x] # alias[y]
               /\ alias[x] \in Settled /\ alias[y] \in Settled => color[alias[x]] # color[alias[y]]
               /\ \A i \in DOMAIN stack :
                    stack[i].node = alias[x] /\ (\A j \in 1 .. i : stack[j].node # alias[y])
                      => alias[y] \in {alias[m] : m \in stack[i].nbrs}
    BY <1>1 DEF Inv, Colored
  <2>5. ASSUME NEW x \in graph.occur, NEW y \in graph.adj[x], alias[x] = n, alias[y] \in Settled
        PROVE  color[alias[y]] # r
    <3>1. \A j \in 1 .. L : stack[j].node # alias[y]
      BY <1>4, <2>5 DEF Settled, OnStack
    <3>2. alias[y] \in {alias[m] : m \in stack[L].nbrs}
      BY <1>4, <2>4, <2>5, <3>1
    <3>3. color[alias[y]] \in Taken
      BY <1>4, <3>2 DEF Taken, Last
    <3> QED
      BY <1>3, <3>3
  <2> SUFFICES ASSUME NEW x \in graph.occur, NEW y \in graph.adj[x]
               PROVE  /\ alias[x] # alias[y]
                      /\ alias[x] \in Settled' /\ alias[y] \in Settled'
                           => color'[alias[x]] # color'[alias[y]]
                      /\ \A i \in DOMAIN stack' :
                           stack'[i].node = alias[x] /\ (\A j \in 1 .. i : stack'[j].node # alias[y])
                             => alias[y] \in {alias[m] : m \in stack'[i].nbrs}
    BY <1>1, <2>1, <2>2, <2>3 DEF Colored
  <2>6. x \in graph.occur /\ y \in graph.occur /\ x \in graph.adj[y]
        /\ alias[x] \in Node /\ alias[y] \in Node
    OBVIOUS
  <2>7. ASSUME alias[x] \in Settled', alias[y] \in Settled'
        PROVE  color'[alias[x]] # color'[alias[y]]
    <3>1. CASE alias[x] = n
      <4>1. alias[y] # n /\ alias[y] \in Settled
        BY <1>4, <2>4, <2>7, <3>1
      <4> QED
        BY <1>8, <2>5, <2>6, <3>1, <4>1
    <3>2. CASE alias[y] = n
      <4>1. alias[x] # n /\ alias[x] \in Settled
        BY <1>4, <2>4, <2>7, <3>2
      <4>2. color[alias[x]] # r
        BY <2>5, <2>6, <3>2, <4>1
      <4> QED
        BY <1>8, <2>6, <3>2, <4>1, <4>2
    <3>3. CASE alias[x] # n /\ alias[y] # n
      BY <1>4, <1>8, <2>4, <2>6, <2>7, <3>3
    <3> QED
      BY <3>1, <3>2, <3>3
  <2>8. ASSUME NEW i \in DOMAIN stack', stack'[i].node = alias[x],
               \A j \in 1 .. i : stack'[j].node # alias[y]
        PROVE  alias[y] \in {alias[m] : m \in stack'[i].nbrs}
    <3>1. i \in DOMAIN stack /\ stack'[i] = stack[i] /\ \A j \in 1 .. i : stack'[j] = stack[j]
      BY <1>4
    <3> QED
      BY <2>4, <2>8, <3>1
  <2> QED
    BY <2>4, <2>7, <2>8
<1> QED
  BY <1>9, <1>10, <1>11, <1>12, <1>13, <1>14, <1>15, <1>16, <1>17, <1>18, <1>19 DEF Inv


-------------------------------------------------------------------------------
(* Every node left is merged into a coloured one and takes its register.   *)
LEMMA EndColorInv ==
  ASSUME Inv, EndColor
  PROVE  Inv'
<1> USE Whereabouts
<1>1. /\ pc = "color" /\ stack = <<>> /\ pc' = "done"
      /\ color' = [n \in Node |-> IF n \in graph.occur THEN color[alias[n]] ELSE -1]
      /\ graph' = graph /\ adj' = adj /\ move' = move /\ remain' = remain /\ work' = work
      /\ stack' = stack /\ alias' = alias /\ todo' = todo /\ gain' = gain /\ frozen' = frozen
      /\ spilled' = spilled /\ used' = used
  BY DEF EndColor
<1>2. /\ Active' = Active /\ OnStack' = OnStack /\ Coalesced' = Coalesced /\ Settled' = Settled
      /\ ~Dismantling /\ ~Dismantling'
  BY <1>1 DEF Active, OnStack, Coalesced, Settled, Dismantling
<1>3. \A n \in graph.occur : alias[n] \in Settled /\ alias[n] \in Node
  <2>1. OnStack = {}
    BY <1>1 DEF OnStack
  <2> QED
    BY <2>1 DEF Settled
<1>4. /\ \A n \in Node : color[n] \in used \cup {-1}
      /\ \A n \in Settled : color[n] \in Machine
      /\ \A r \in graph.occur \cap Machine : color[r] = r
      /\ \A x \in graph.occur : \A y \in graph.adj[x] :
           /\ alias[x] # alias[y]
           /\ alias[x] \in Settled /\ alias[y] \in Settled => color[alias[x]] # color[alias[y]]
  BY <1>1 DEF Inv, Colored
<1>5. \A n \in graph.occur : color'[n] = color[alias[n]] /\ color'[n] \in Machine
  BY <1>1, <1>3, <1>4
<1>6. \A n \in Node : color'[n] \in used' \cup {-1}
  BY <1>1, <1>3, <1>4
<1>7. TypeOK'
  <2>1. color' \in [Node -> Machine \cup {-1}]
    BY <1>1, <1>5
  <2>2. pc' \in Location
    BY <1>1 DEF Location
  <2> QED
    BY <1>1, <2>1, <2>2 DEF Inv, TypeOK
<1>8. ListsTyped'
  BY <1>1, <1>2 DEF Inv, ListsTyped
<1>9. EdgesJoinActive' /\ Representatives' /\ Places'
  BY <1>1, <1>2 DEF Inv, EdgesJoinActive, Representatives, Places
<1>10. QueueRight'
  <2>1. work' = <<>>
    BY <1>1 DEF Inv, QueueRight
  <2> QED
    BY <1>1, <2>1 DEF QueueRight, Range, IsInjective
<1>11. EdgesKept' /\ ListsLater'
  BY <1>1, <1>2 DEF Inv, EdgesKept, ListsLater
<1>12. CalleeSavePrefix'
  BY <1>1 DEF Inv, CalleeSavePrefix
<1>13. Colored'
  BY <1>1, <1>6 DEF Colored
<1>14. ValidColoring'
  <2>1. ASSUME NEW x \in graph.occur, NEW y \in graph.adj[x] PROVE color'[x] # color'[y]
    <3>1. y \in graph.occur
      OBVIOUS
    <3> QED
      BY <1>3, <1>4, <1>5, <3>1
  <2>2. ASSUME NEW r \in graph.occur \cap Machine PROVE color'[r] = r
    <3>1. alias[r] = r
      BY DEF Active
    <3> QED
      BY <1>4, <1>5, <3>1
  <2> QED
    BY <1>1, <1>5, <2>1, <2>2 DEF ValidColoring
<1> QED
  BY <1>7, <1>8, <1>9, <1>10, <1>11, <1>12, <1>13, <1>14 DEF Inv

LEMMA InitInv ==
  ASSUME Init
  PROVE  Inv
BY GraphsAssumption, StartInv DEF Init

LEMMA UnchangedInv ==
  ASSUME Inv, UNCHANGED vars
  PROVE  Inv'
<1>1. /\ pc' = pc /\ graph' = graph /\ adj' = adj /\ move' = move /\ remain' = remain
      /\ work' = work /\ stack' = stack /\ alias' = alias /\ todo' = todo /\ gain' = gain
      /\ frozen' = frozen /\ spilled' = spilled /\ color' = color /\ used' = used
  BY DEF vars
<1>2. /\ Active' = Active /\ OnStack' = OnStack /\ Coalesced' = Coalesced /\ Settled' = Settled
      /\ Dismantling' = Dismantling
  BY <1>1 DEF Active, OnStack, Coalesced, Settled, Dismantling
<1>3. \A n \in Node : (Degree(n))' = Degree(n) /\ (EdgesAt(n))' = EdgesAt(n)
  BY <1>1 DEF Degree, EdgesAt
<1>4. TypeOK' /\ ListsTyped'
  BY <1>1, <1>2 DEF Inv, TypeOK, ListsTyped
<1>5. EdgesJoinActive' /\ Representatives' /\ Places'
  BY <1>1, <1>2 DEF Inv, EdgesJoinActive, Representatives, Places
<1>6. QueueRight'
  BY <1>1 DEF Inv, QueueRight, Free, Degree, EdgesAt
<1>7. EdgesKept' /\ ListsLater'
  BY <1>1, <1>2 DEF Inv, EdgesKept, ListsLater
<1>8. Colored' /\ ValidColoring' /\ CalleeSavePrefix'
  BY <1>1, <1>2 DEF Inv, Colored, ValidColoring, CalleeSavePrefix
<1> QED
  BY <1>4, <1>5, <1>6, <1>7, <1>8 DEF Inv

LEMMA NextInv ==
  ASSUME Inv, [Next]_vars
  PROVE  Inv'
<1>1. CASE UNCHANGED vars
  BY <1>1, UnchangedInv
<1>2. CASE Step
  BY <1>2, PrepareInv, SimplifyInv, StartCoalesceInv, CoalesceInv, EndCoalesceInv, FreezeInv,
     SpillInv, LeaveInv, ColorInv, EndColorInv DEF Step
<1> QED
  BY <1>1, <1>2 DEF Next, Finished

-------------------------------------------------------------------------------
(* The invariant holds in every state of the allocator.                    *)
THEOREM InvCorrect == Spec => []Inv
BY InitInv, NextInv, PTL DEF Spec

(* The allocator's data have their types.                                  *)
THEOREM TypeCorrect == Spec => []TypeOK
<1>1. Inv => TypeOK
  BY DEF Inv
<1> QED
  BY <1>1, InvCorrect, PTL

(* Every pseudo register is in the graph, on the select stack once, merged *)
(* or spilled, and in one of these places only.                            *)
THEOREM Accounted == Spec => []NodesAccounted
<1>1. ASSUME Inv, Dismantling, NEW n \in graph.occur \ Machine
      PROVE  Cardinality({p \in {"graph", "stack", "merged", "spilled"} :
                            \/ p = "graph" /\ n \in remain
                            \/ p = "stack" /\ n \in OnStack
                            \/ p = "merged" /\ n \in Coalesced
                            \/ p = "spilled" /\ n \in Range(spilled)}) = 1
  <2> DEFINE P == {p \in {"graph", "stack", "merged", "spilled"} :
                     \/ p = "graph" /\ n \in remain
                     \/ p = "stack" /\ n \in OnStack
                     \/ p = "merged" /\ n \in Coalesced
                     \/ p = "spilled" /\ n \in Range(spilled)}
  <2>1. n \in remain \cup OnStack \cup Coalesced \cup Range(spilled)
    BY <1>1 DEF Inv, Places
  <2>2. /\ remain \cap OnStack = {}
        /\ remain \cap Range(spilled) = {}
        /\ OnStack \cap Range(spilled) = {}
    BY <1>1 DEF Inv, Places
  <2>3. n \in Coalesced => n \notin remain /\ n \notin OnStack /\ n \notin Range(spilled)
    BY <1>1 DEF Inv, Representatives, Coalesced, Active
  <2>4. \E p : P = {p}
    <3>1. CASE n \in remain
      <4>1. P = {"graph"}
        BY <2>2, <2>3, <3>1
      <4> QED
        BY <4>1
    <3>2. CASE n \in OnStack
      <4>1. P = {"stack"}
        BY <2>2, <2>3, <3>2
      <4> QED
        BY <4>1
    <3>3. CASE n \in Coalesced
      <4>1. P = {"merged"}
        BY <2>3, <3>3
      <4> QED
        BY <4>1
    <3>4. CASE n \in Range(spilled)
      <4>1. P = {"spilled"}
        BY <2>2, <2>3, <3>4
      <4> QED
        BY <4>1
    <3> QED
      BY <2>1, <3>1, <3>2, <3>3, <3>4
  <2> HIDE DEF P
  <2>5. Cardinality(P) = 1
    BY <2>4, FS_Singleton
  <2> QED
    BY <2>5 DEF P
<1>2. ASSUME Inv
      PROVE  /\ \A i, j \in DOMAIN stack : stack[i].node = stack[j].node => i = j
             /\ \A n \in Active : \A m \in adj[n] : m \in Active /\ n \in adj[m] /\ m # n
             /\ \A e \in DOMAIN move : e \subseteq Active
  <2>1. Active \subseteq Node
    BY <1>2, Whereabouts
  <2>2. \A e \in Pairs(Active) : e \subseteq Active
    BY DEF Pairs
  <2> QED
    BY <1>2, <2>1, <2>2 DEF Inv, Places, EdgesJoinActive, ListsTyped
<1>3. Inv => NodesAccounted
  BY <1>1, <1>2 DEF NodesAccounted
<1> QED
  BY <1>3, InvCorrect, PTL

(* No interference is forgotten while the graph is taken apart.            *)
THEOREM InterferenceKept == Spec => []EdgesKept
<1>1. Inv => EdgesKept
  BY DEF Inv
<1> QED
  BY <1>1, InvCorrect, PTL

(* assign_colors finds a register for every node on the select stack.      *)
THEOREM Colorable == Spec => []AlwaysColorable
<1>1. ASSUME Inv PROVE AlwaysColorable
  <2>1. \A i \in DOMAIN stack : Cardinality(stack[i].nbrs) < K
    BY <1>1 DEF Inv, ListsLater
  <2>2. pc = "color" /\ stack # <<>> => Taken \subseteq Machine /\ Taken # Machine
    BY <1>1, TakenRegisters
  <2> QED
    BY <2>1, <2>2 DEF AlwaysColorable
<1> QED
  BY <1>1, InvCorrect, PTL

(* The registers run returns are a colouring of the interference graph.    *)
THEOREM ColoringCorrect == Spec => []ValidColoring
<1>1. Inv => ValidColoring
  BY DEF Inv
<1> QED
  BY <1>1, InvCorrect, PTL

(* Callee-saved registers are handed out in order.                         *)
THEOREM CalleeSaveInOrder == Spec => []CalleeSavePrefix
<1>1. Inv => CalleeSavePrefix
  BY DEF Inv
<1> QED
  BY <1>1, InvCorrect, PTL

(* A register is spilled only when every node left has K neighbours.       *)
THEOREM StuckBeforeSpill == Spec => SpillOnlyWhenStuck
<1>1. ASSUME Inv, [Next]_vars
      PROVE  [spilled' # spilled => \A n \in remain : Degree(n) >= K]_vars
  <2> SUFFICES ASSUME Next, spilled' # spilled
               PROVE  \A n \in remain : Degree(n) >= K
    BY <1>1 DEF vars
  <2>1. Spill
    BY DEF Next, Finished, vars, Step, Prepare, Simplify, StartCoalesce, Coalesce, EndCoalesce,
           Freeze, Leave, Color, EndColor
  <2> QED
    BY <1>1, <2>1, SpillStep DEF Spill
<1> QED
  BY <1>1, InvCorrect, PTL DEF Spec, SpillOnlyWhenStuck


-------------------------------------------------------------------------------
(* What Rank is made of.                                                   *)
LEMMA RankParts ==
  Inv => /\ IsFiniteSet(remain) /\ Cardinality(remain) \in Nat
         /\ IsFiniteSet(DOMAIN move) /\ Cardinality(DOMAIN move) \in Nat
         /\ IsFiniteSet(DOMAIN todo) /\ Cardinality(DOMAIN todo) \in Nat
         /\ Len(stack) \in Nat
         /\ gain \in Nat
         /\ Phase \in Nat
<1> SUFFICES ASSUME Inv
             PROVE  /\ IsFiniteSet(remain) /\ Cardinality(remain) \in Nat
                    /\ IsFiniteSet(DOMAIN move) /\ Cardinality(DOMAIN move) \in Nat
                    /\ IsFiniteSet(DOMAIN todo) /\ Cardinality(DOMAIN todo) \in Nat
                    /\ Len(stack) \in Nat
                    /\ gain \in Nat
                    /\ Phase \in Nat
  OBVIOUS
<1>1. /\ remain \in SUBSET Node /\ Len(stack) \in Nat
      /\ DOMAIN move \subseteq Pairs(Node) /\ DOMAIN todo \subseteq Pairs(Node)
      /\ gain \in Nat /\ pc \in Location
  BY Whereabouts DEF Inv, TypeOK
<1>2. IsFiniteSet(Pairs(Node))
  <2>1. IsFiniteSet(SUBSET Node)
    BY Registers, FS_SUBSET
  <2> QED
    BY <2>1, FS_Subset DEF Pairs
<1>3. IsFiniteSet(DOMAIN move) /\ IsFiniteSet(DOMAIN todo)
  BY <1>1, <1>2, FS_Subset
<1>4. Phase \in Nat
  BY <1>1 DEF Phase, Location
<1> QED
  BY <1>1, <1>3, <1>4, NodeSets, FS_CardinalityType

(* Rank consists of naturals, so it cannot descend for ever.               *)
THEOREM RankNatural == Spec => [](Rank \in Nat \X Nat \X Nat)
<1>1. ASSUME Inv PROVE Rank \in Nat \X Nat \X Nat
  BY <1>1, RankParts DEF Rank
<1> QED
  BY <1>1, InvCorrect, PTL

(* Moving the ends of edges makes no new edges.                            *)
LEMMA FewerMoves ==
  ASSUME IsFiniteSet(DOMAIN move), NEW u, NEW v, Combine(u, v)
  PROVE  Cardinality(DOMAIN move') <= Cardinality(DOMAIN move)
<1> DEFINE D == DOMAIN move \ {{u, v}}
           f == [e \in D |-> IF v \in e THEN (e \ {v}) \cup {u} ELSE e]
<1>1. DOMAIN move' = {f[e] : e \in DOMAIN f}
  BY DEF Combine, MergedMove
<1>2. IsFiniteSet(D) /\ Cardinality(D) <= Cardinality(DOMAIN move)
  BY FS_Subset
<1>3. DOMAIN f = D
  OBVIOUS
<1> HIDE DEF f, D
<1>4. Cardinality({f[e] : e \in DOMAIN f}) <= Cardinality(DOMAIN f) /\ IsFiniteSet(DOMAIN move')
  BY <1>1, <1>2, <1>3, ImageSize
<1>5. Cardinality(DOMAIN move') \in Nat /\ Cardinality(D) \in Nat /\ Cardinality(DOMAIN move) \in Nat
  BY <1>2, <1>4, FS_CardinalityType
<1> QED
  BY <1>1, <1>2, <1>3, <1>4, <1>5

(* Comparing ranks from what becomes of their parts.                       *)
LEMMA Descent ==
  ASSUME Inv, Inv',
         \/ /\ Cardinality(remain') + Cardinality(DOMAIN move')
                 < Cardinality(remain) + Cardinality(DOMAIN move)
         \/ /\ Cardinality(remain') + Cardinality(DOMAIN move')
                 <= Cardinality(remain) + Cardinality(DOMAIN move)
            /\ pc' = "coalesce" /\ gain' > 0 => pc = "coalesce" /\ gain > 0
            /\ \/ pc = "coalesce" /\ gain > 0 /\ ~(pc' = "coalesce" /\ gain' > 0)
               \/ Phase' < Phase
               \/ /\ Phase' = Phase
                  /\ Cardinality(DOMAIN todo') + Len(stack') < Cardinality(DOMAIN todo) + Len(stack)
  PROVE  Below(Rank', Rank)
<1> DEFINE a == Cardinality(remain) + Cardinality(DOMAIN move)
           b == Cardinality(remain') + Cardinality(DOMAIN move')
           s == IF pc = "coalesce" /\ gain > 0 THEN 1 ELSE 0
           t == IF pc' = "coalesce" /\ gain' > 0 THEN 1 ELSE 0
           c == Cardinality(DOMAIN todo) + Len(stack)
           d == Cardinality(DOMAIN todo') + Len(stack')
<1>1. a \in Nat /\ c \in Nat /\ Phase \in Nat
  BY RankParts
<1>2. b \in Nat /\ d \in Nat /\ Phase' \in Nat
  <2>1. Inv' => (/\ IsFiniteSet(remain) /\ Cardinality(remain) \in Nat
                 /\ IsFiniteSet(DOMAIN move) /\ Cardinality(DOMAIN move) \in Nat
                 /\ IsFiniteSet(DOMAIN todo) /\ Cardinality(DOMAIN todo) \in Nat
                 /\ Len(stack) \in Nat
                 /\ gain \in Nat
                 /\ Phase \in Nat)'
    BY RankParts, PTL
  <2> QED
    BY <2>1
<1>3. Rank = <<2 * a + s, Phase, c>> /\ Rank' = <<2 * b + t, Phase', d>>
  BY DEF Rank
<1>4. s \in {0, 1} /\ t \in {0, 1}
  OBVIOUS
<1>5. CASE b < a
  <2>1. 2 * b + t < 2 * a + s
    BY <1>1, <1>2, <1>4, <1>5
  <2> QED
    BY <1>3, <2>1 DEF Below
<1>6. CASE b <= a /\ t <= s /\ (t < s \/ Phase' < Phase \/ (Phase' = Phase /\ d < c))
  <2>1. \/ 2 * b + t < 2 * a + s
        \/ /\ 2 * b + t = 2 * a + s
           /\ Phase' < Phase \/ (Phase' = Phase /\ d < c)
    BY <1>1, <1>2, <1>4, <1>6
  <2> HIDE DEF a, b, c, d, s, t
  <2> QED
    BY <1>3, <2>1 DEF Below
<1> QED
  BY <1>5, <1>6


(* freeze takes one of the nodes it may take.                              *)
LEMMA FreezeMember ==
  ASSUME Inv, Freezable # {}
  PROVE  FreezeChoice \in Freezable
<1> DEFINE R == {p \in Freezable \X Freezable : Degree(p[2]) <= Degree(p[1])}
           Best == {n \in Freezable : \A m \in Freezable : Degree(m) <= Degree(n)}
<1>1. Freezable \in SUBSET Node /\ IsFiniteSet(Freezable) /\ Freezable \in SUBSET Nat
  BY Whereabouts, NodeSets DEF Freezable
<1>2. \A n \in Freezable : Degree(n) \in Nat
  BY <1>1, DegreeType DEF Inv
<1>3. \A n, m \in Freezable : <<n, m>> \in R <=> Degree(m) <= Degree(n)
  OBVIOUS
<1> HIDE DEF R
<1>4. \E n \in Freezable : \A m \in Freezable : <<n, m>> \in R
  <2>1. ASSUME NEW n \in Freezable, NEW m \in Freezable PROVE <<n, m>> \in R \/ <<m, n>> \in R
    <3>1. Degree(n) \in Nat /\ Degree(m) \in Nat
      BY <1>2
    <3>2. Degree(m) <= Degree(n) \/ Degree(n) <= Degree(m)
      BY <3>1
    <3> QED
      BY <1>3, <3>2
  <2>2. \A n, m, k \in Freezable : <<n, m>> \in R /\ <<m, k>> \in R => <<n, k>> \in R
    BY <1>2, <1>3
  <2> QED
    BY <1>1, <2>1, <2>2, MinimalElement
<1>5. Best # {} /\ Best \in SUBSET Nat
  BY <1>1, <1>3, <1>4
<1>6. FreezeChoice = Min(Best)
  BY DEF FreezeChoice
<1> HIDE DEF Best
<1>7. FreezeChoice \in Best
  BY <1>5, <1>6, MinNatural
<1> QED
  BY <1>7 DEF Best

(* Each step leaves less to do, for every graph: run comes to an end.      *)
THEOREM RunDescends == Spec => Descends
<1>1. ASSUME Inv, Inv', Step PROVE Below(Rank', Rank)
  <2> DEFINE left(r, m) == Cardinality(r) + Cardinality(DOMAIN m)
             more == pc = "coalesce" /\ gain > 0
             turns == Cardinality(DOMAIN todo) + Len(stack)
  <2>0. /\ IsFiniteSet(remain) /\ Cardinality(remain) \in Nat
        /\ IsFiniteSet(DOMAIN move) /\ Cardinality(DOMAIN move) \in Nat
        /\ IsFiniteSet(DOMAIN todo) /\ Cardinality(DOMAIN todo) \in Nat
        /\ Len(stack) \in Nat /\ gain \in Nat
    BY <1>1, RankParts
  <2>1. ASSUME NEW S, S \subseteq DOMAIN move, DOMAIN move' = S
        PROVE  /\ Cardinality(DOMAIN move') \in Nat
               /\ Cardinality(DOMAIN move') <= Cardinality(DOMAIN move)
               /\ S # DOMAIN move => Cardinality(DOMAIN move') < Cardinality(DOMAIN move)
    <3>1. IsFiniteSet(S) /\ Cardinality(S) <= Cardinality(DOMAIN move)
          /\ (S # DOMAIN move => Cardinality(S) # Cardinality(DOMAIN move))
      BY <2>0, <2>1, FS_Subset
    <3>2. Cardinality(S) \in Nat
      BY <3>1, FS_CardinalityType
    <3> QED
      BY <2>0, <2>1, <3>1, <3>2
  <2>2. ASSUME NEW n \in remain, remain' = remain \ {n}
        PROVE  Cardinality(remain') \in Nat /\ Cardinality(remain') = Cardinality(remain) - 1
    <3>1. IsFiniteSet(remain') /\ Cardinality(remain') = Cardinality(remain) - 1
      BY <2>0, <2>2, FS_RemoveElement
    <3> QED
      BY <3>1, FS_CardinalityType
  <2>3. CASE Prepare
    <3>1. /\ pc = "loop" /\ pc' = "simplify" /\ remain' = remain
          /\ DOMAIN move' = {e \in DOMAIN move : Useful(e)}
      BY <2>3 DEF Prepare, Restrict
    <3>2. Cardinality(DOMAIN move') \in Nat /\ Cardinality(DOMAIN move') <= Cardinality(DOMAIN move)
      BY <2>1, <3>1
    <3>3. Phase' < Phase
      BY <3>1 DEF Phase
    <3> QED
      BY <1>1, <2>0, <3>1, <3>2, <3>3, Descent
  <2>4. CASE Simplify
    <3>1. PICK n : n = Head(work)
      OBVIOUS
    <3>2. n \in remain /\ remain' = remain \ {n} /\ move' = move
      BY <1>1, <2>4, <3>1, SimplifyStep DEF Simplify
    <3>3. Cardinality(remain') = Cardinality(remain) - 1
      BY <2>2, <3>2
    <3> QED
      BY <1>1, <2>0, <3>2, <3>3, Descent
  <2>5. CASE StartCoalesce
    <3>1. /\ pc = "simplify" /\ pc' = "coalesce" /\ gain' = 0 /\ remain' = remain /\ move' = move
      BY <2>5 DEF StartCoalesce
    <3>2. Phase' < Phase
      BY <3>1 DEF Phase
    <3> QED
      BY <1>1, <2>0, <3>1, <3>2, Descent
  <2>6. CASE Coalesce
    <3>1. pc = "coalesce" /\ pc' = "coalesce" /\ stack' = stack
      BY <2>6 DEF Coalesce
    <3>2. PICK e \in DOMAIN todo :
            LET u == alias[Max(e)]
                v == alias[Min(e)]
            IN  /\ todo' = Restrict(todo, DOMAIN todo \ {e})
                /\ \/ /\ CanCombine(u, v)
                      /\ IF v \in Machine THEN Combine(v, u) ELSE Combine(u, v)
                   \/ /\ ~CanCombine(u, v)
                      /\ UNCHANGED <<adj, move, remain, alias, gain>>
      BY <2>6 DEF Coalesce
    <3> DEFINE u == alias[Max(e)]
               v == alias[Min(e)]
    <3>3. u \in Active /\ v \in Active
      <4>1. e \in Pairs(Node) /\ \A n \in e : alias[n] \in Active
        BY <1>1, <3>1, <3>2 DEF Inv, TypeOK, ListsTyped
      <4> QED
        BY <4>1, PairEnds
    <3>4. ASSUME NEW a, NEW b \in remain, Combine(a, b) PROVE Below(Rank', Rank)
      <4>1. remain' = remain \ {b} /\ Cardinality(DOMAIN move') <= Cardinality(DOMAIN move)
        BY <2>0, <3>4, FewerMoves DEF Combine
      <4>2. Cardinality(remain') = Cardinality(remain) - 1
        BY <2>2, <4>1
      <4>3. Cardinality(DOMAIN move') \in Nat
        <5>1. Inv' => (/\ IsFiniteSet(remain) /\ Cardinality(remain) \in Nat
                       /\ IsFiniteSet(DOMAIN move) /\ Cardinality(DOMAIN move) \in Nat
                       /\ IsFiniteSet(DOMAIN todo) /\ Cardinality(DOMAIN todo) \in Nat
                       /\ Len(stack) \in Nat
                       /\ gain \in Nat
                       /\ Phase \in Nat)'
          BY RankParts, PTL
        <5> QED
          BY <1>1, <5>1
      <4> QED
        BY <1>1, <2>0, <4>1, <4>2, <4>3, Descent
    <3>5. CASE CanCombine(u, v)
      <4>1. CASE v \in Machine
        <5>1. u \in remain /\ Combine(v, u)
          BY <3>2, <3>3, <3>5, <4>1 DEF CanCombine, Active
        <5> QED
          BY <3>4, <5>1
      <4>2. CASE v \notin Machine
        <5>1. v \in remain /\ Combine(u, v)
          BY <3>2, <3>3, <3>5, <4>2 DEF Active
        <5> QED
          BY <3>4, <5>1
      <4> QED
        BY <4>1, <4>2
    <3>6. CASE ~CanCombine(u, v)
      <4>1. move' = move /\ remain' = remain /\ gain' = gain /\ DOMAIN todo' = DOMAIN todo \ {e}
        BY <3>2, <3>6 DEF Restrict
      <4>2. Cardinality(DOMAIN todo') = Cardinality(DOMAIN todo) - 1
        BY <2>0, <4>1, FS_RemoveElement
      <4>3. Phase' = Phase
        BY <3>1 DEF Phase
      <4> QED
        BY <1>1, <2>0, <3>1, <4>1, <4>2, <4>3, Descent
    <3> QED
      BY <3>5, <3>6
  <2>7. CASE EndCoalesce
    <3>1. /\ pc = "coalesce" /\ pc' = IF gain > 0 THEN "loop" ELSE "freeze"
          /\ remain' = remain /\ move' = move
      BY <2>7 DEF EndCoalesce
    <3>2. ~(gain > 0) => Phase' < Phase
      BY <3>1 DEF Phase
    <3> QED
      BY <1>1, <2>0, <3>1, <3>2, Descent
  <2>8. CASE Freeze
    <3>1. /\ Freezable # {} /\ pc' = "loop" /\ remain' = remain
          /\ DOMAIN move' = DOMAIN move \ EdgesAt(FreezeChoice)
      BY <2>8 DEF Freeze, Restrict
    <3>2. EdgesAt(FreezeChoice) # {}
      <4>1. FreezeChoice \in Freezable
        BY <1>1, <3>1, FreezeMember
      <4> QED
        BY <1>1, <4>1, NoMoves, Whereabouts DEF Freezable, Inv, TypeOK
    <3>3. DOMAIN move \ EdgesAt(FreezeChoice) # DOMAIN move
      BY <3>2 DEF EdgesAt
    <3>4. Cardinality(DOMAIN move') \in Nat /\ Cardinality(DOMAIN move') < Cardinality(DOMAIN move)
      BY <2>1, <3>1, <3>3
    <3> QED
      BY <1>1, <2>0, <3>1, <3>4, Descent
  <2>9. CASE Spill
    <3>1. /\ pc = "freeze" /\ Freezable = {} /\ Spillable # {} /\ remain' = remain \ {SpillChoice}
          /\ DOMAIN move' = DOMAIN move \ EdgesAt(SpillChoice)
      BY <2>9 DEF Spill, Restrict
    <3>2. SpillChoice \in remain
      BY <1>1, <3>1, SpillStep
    <3>3. Cardinality(remain') \in Nat /\ Cardinality(remain') = Cardinality(remain) - 1
      BY <2>2, <3>1, <3>2
    <3>4. Cardinality(DOMAIN move') \in Nat /\ Cardinality(DOMAIN move') <= Cardinality(DOMAIN move)
      BY <2>1, <3>1
    <3> QED
      BY <1>1, <2>0, <3>3, <3>4, Descent
  <2>10. CASE Leave
    <3>1. /\ pc \in {"loop", "simplify"} /\ pc' \in {"rewrite", "color"}
          /\ remain' = remain /\ move' = move
      BY <2>10 DEF Leave
    <3>2. Phase' < Phase
      BY <3>1 DEF Phase
    <3> QED
      BY <1>1, <2>0, <3>1, <3>2, Descent
  <2>11. CASE Color
    <3>1. /\ pc = "color" /\ pc' = "color" /\ stack # <<>> /\ stack' = Front(stack)
          /\ remain' = remain /\ move' = move /\ todo' = todo /\ alias' = alias /\ graph' = graph
      BY <2>11 DEF Color
    <3>2. PICK n : n = Last(stack).node
      OBVIOUS
    <3>3. Len(stack') = Len(stack) - 1
      BY <1>1, <3>1, <3>2, PopStep
    <3>4. Phase' = Phase
      BY <3>1 DEF Phase
    <3> QED
      BY <1>1, <2>0, <3>1, <3>3, <3>4, Descent
  <2>12. CASE EndColor
    <3>1. pc = "color" /\ pc' = "done" /\ remain' = remain /\ move' = move
      BY <2>12 DEF EndColor
    <3>2. Phase' < Phase
      BY <3>1 DEF Phase
    <3> QED
      BY <1>1, <2>0, <3>1, <3>2, Descent
  <2> QED
    BY <1>1, <2>3, <2>4, <2>5, <2>6, <2>7, <2>8, <2>9, <2>10, <2>11, <2>12 DEF Step
<1> QED
  BY <1>1, InvCorrect, PTL DEF Descends
===============================================================================
