--------------------------- MODULE AnalysisProofs ---------------------------
(***************************************************************************)
(* Proofs about the two analyses of a window of evidence, which share      *)
(* Evidence and Order.  Localization, with Topology: the topology and its  *)
(* indices, the causal graph and its reconstruction, the walk from a       *)
(* symptom, and what localize concludes, for any objects, records, edges   *)
(* and limits.  Classifier: what an assertion of congestion rests on, what *)
(* history and time contribute to a verdict, and the agreement of sources, *)
(* for any records, policy and window.                                     *)
(***************************************************************************)
EXTENDS Classifier, Localization, SequenceTheorems, FiniteSetTheorems, WellFoundedInduction, TLAPS

-----------------------------------------------------------------------------
(***************************************************************************)
(* The inductive invariant of Localization.                                *)
(***************************************************************************)
\* The objects of a builder or of a topology.
ObjectsOK(o) ==
  /\ o = [k \in Kinds |-> o[k]]
  /\ \A k \in Kinds : Present(o, k) \subseteq Objects[k] /\ IsFiniteSet(Present(o, k))
  /\ \A k \in Kinds : \A id \in Present(o, k) : Known(o, k, o[k][id])
  /\ \A p \in Present(o, "path") : o["path"][p] \in Seq(Nat)

TopologyInv ==
  /\ ObjectsOK(builder)
  /\ \/ topology = NoTopology
     \/ /\ ObjectsOK(topology.objects)
        /\ topology = build(topology.objects)

\* The graph is finite, within its limits, and its edges join its nodes.
GraphOK(g) ==
  /\ g.nodes \subseteq Nat
  /\ IsFiniteSet(g.nodes) /\ Cardinality(g.nodes) <= max_graph_nodes
  /\ IsFiniteSet(g.edges) /\ Cardinality(g.edges) <= max_graph_edges
  /\ \A e \in g.edges : e.from \in g.nodes /\ e.to \in g.nodes

D == localization_policy.max_depth

\* A search of which every object reached has a depth.
SearchOK(s) ==
  /\ s = [symptom |-> s.symptom, reached |-> s.reached, depth_limited |-> s.depth_limited,
          queue |-> s.queue, window |-> s.window]
  /\ s.symptom \in Nat \ {0}
  /\ s.queue \in Seq([node : Nat, depth : Nat])
  /\ s.depth_limited \in BOOLEAN
  /\ s.symptom \notin DOMAIN s.reached
  /\ \A n \in DOMAIN s.reached : s.reached[n].depth \in 1..D

DepthOf(s, n) == IF n = s.symptom THEN 0 ELSE s.reached[n].depth

\* The object waits to be expanded.
Waits(s, n) == \E i \in 1..Len(s.queue) : s.queue[i].node = n

\* The queue holds visited objects, the nearest first, of at most two depths.
QueueInOrder(s) ==
  /\ \A i \in 1..Len(s.queue) :
       /\ s.queue[i].node \in Visited(s)
       /\ s.queue[i].depth = DepthOf(s, s.queue[i].node)
       /\ s.queue[i].depth <= s.queue[1].depth + 1
  /\ \A i, j \in 1..Len(s.queue) : i < j => s.queue[i].depth <= s.queue[j].depth
  /\ s.queue # <<>> => \A n \in Visited(s) : DepthOf(s, n) <= s.queue[1].depth + 1

\* Every object visited explains one that lies one edge nearer.
Descends(g, s) ==
  \A n \in Visited(s) \ {s.symptom} :
    \E m \in Visited(s) : DepthOf(s, n) = DepthOf(s, m) + 1 /\ n \in CausesOf(g, m)

\* The causes of an object that was expanded have been visited, at most one
\* edge further away.
Expanded(g, s) ==
  \A m \in Visited(s) : (~Waits(s, m) /\ DepthOf(s, m) < D) =>
    \A n \in CausesOf(g, m) : n \in Visited(s) /\ DepthOf(s, n) <= DepthOf(s, m) + 1

WalkInv(g, s) == SearchOK(s) /\ QueueInOrder(s) /\ Descends(g, s) /\ Expanded(g, s)

\* Every record is with its subject, once.
StoreOK ==
  /\ by_subject \in [Subjects -> Seq(Pool)]
  /\ \A s \in Subjects : \A i, j \in 1..Len(by_subject[s]) :
       by_subject[s][i].subject = s /\ (i # j => by_subject[s][i] # by_subject[s][j])
  /\ records \subseteq Pool /\ IsFiniteSet(records)
  /\ \A r \in records : r.subject \in Nat

\* What localize looks at are observed records of its window.
WindowSeen(s) == \A r \in s.window : r \in records /\ InWindow(r)

LocalizationInv ==
  /\ TopologyInv
  /\ StoreOK
  /\ claims \in 0..MaxClaims
  /\ GraphOK(graph)
  /\ StructureIsReported
  /\ search # Nothing => WalkInv(graph, search) /\ WindowSeen(search)

-----------------------------------------------------------------------------
(***************************************************************************)
(* Induction, and the arrangement of a finite set in a strict order.       *)
(***************************************************************************)
LEMMA Least ==
  ASSUME NEW S \in SUBSET Nat, S # {}
  PROVE  \E x \in S : \A y \in S : x <= y
<1> DEFINE less == {ss \in Nat \X Nat : ss[1] < ss[2]}
<1>1. IsWellFoundedOn(less, Nat)
  BY NatLessThanWellFounded DEF OpToRel
<1>2. \A x, y \in Nat : <<x, y>> \in less <=> x < y
  OBVIOUS
<1> HIDE DEF less
<1>3. PICK x \in S : \A y \in S : ~(<<y, x>> \in less)
  BY <1>1, WFMin
<1>4. ASSUME NEW y \in S PROVE x <= y
  <2>1. ~(y < x)
    BY <1>2, <1>3
  <2>2. QED
    BY <2>1
<1>5. QED
  BY <1>4

\* A set that holds 0 and with every number its successor holds all.
LEMMA Inductive ==
  ASSUME NEW S, 0 \in S, \A n \in Nat : n \in S => n + 1 \in S
  PROVE  \A n \in Nat : n \in S
<1> DEFINE out == {n \in Nat : n \notin S}
<1>1. SUFFICES ASSUME out # {} PROVE FALSE
  OBVIOUS
<1>2. PICK x \in out : \A y \in out : x <= y
  BY <1>1, Least
<1>3. x # 0 /\ x - 1 \in Nat
  BY <1>2
<1>4. x - 1 \notin out
  BY <1>2, <1>3
<1>5. (x - 1) + 1 \in S
  BY <1>3, <1>4
<1>6. QED
  BY <1>2, <1>5

StrictOrder(R, S) ==
  /\ \A x, y, z \in S : <<x, y>> \in R /\ <<y, z>> \in R => <<x, z>> \in R
  /\ \A x, y \in S : x # y => <<x, y>> \in R \/ <<y, x>> \in R
  /\ \A x, y \in S : <<x, y>> \in R => x # y

LEMMA LastInOrder ==
  ASSUME NEW S, NEW R, StrictOrder(R, S)
  PROVE  \A n \in Nat : \A T \in SUBSET S : (IsFiniteSet(T) /\ Cardinality(T) = n + 1) =>
           \E x \in T : \A y \in T \ {x} : <<y, x>> \in R
<1> DEFINE good(n) == \A T \in SUBSET S : (IsFiniteSet(T) /\ Cardinality(T) = n + 1) =>
                        \E x \in T : \A y \in T \ {x} : <<y, x>> \in R
           N == {n \in Nat : good(n)}
<1>1. good(0)
  <2> SUFFICES ASSUME NEW T \in SUBSET S, IsFiniteSet(T), Cardinality(T) = 1
               PROVE  \E x \in T : \A y \in T \ {x} : <<y, x>> \in R
    OBVIOUS
  <2>1. PICK x : T = {x}
    BY FS_Singleton
  <2>2. QED
    BY <2>1
<1>2. ASSUME NEW n \in Nat, good(n) PROVE good(n + 1)
  <2> SUFFICES ASSUME NEW T \in SUBSET S, IsFiniteSet(T), Cardinality(T) = n + 2
               PROVE  \E x \in T : \A y \in T \ {x} : <<y, x>> \in R
    OBVIOUS
  <2>1. PICK a \in T : TRUE
    BY FS_EmptySet
  <2>2. IsFiniteSet(T \ {a}) /\ Cardinality(T \ {a}) = n + 1
    BY <2>1, FS_RemoveElement
  <2>3. PICK b \in T \ {a} : \A y \in (T \ {a}) \ {b} : <<y, b>> \in R
    BY <1>2, <2>2
  <2>4. CASE <<a, b>> \in R
    BY <2>3, <2>4
  <2>5. CASE <<b, a>> \in R
    <3>1. ASSUME NEW y \in T \ {a} PROVE <<y, a>> \in R
      BY <2>1, <2>3, <2>5 DEF StrictOrder
    <3>2. QED
      BY <2>1, <3>1
  <2>6. QED
    BY <2>1, <2>3, <2>4, <2>5 DEF StrictOrder
<1>3. 0 \in N /\ \A n \in Nat : n \in N => n + 1 \in N
  BY <1>1, <1>2
<1> HIDE DEF N
<1>4. \A n \in Nat : n \in N
  BY <1>3, Inductive
<1>5. QED
  BY <1>4 DEF N

LEMMA Arrangement ==
  ASSUME NEW S, NEW R, StrictOrder(R, S), IsFiniteSet(S)
  PROVE  \E s \in [1..Cardinality(S) -> S] :
           \A i, j \in 1..Cardinality(S) : i < j => <<s[i], s[j]>> \in R
<1> DEFINE arranged(T, n, s) ==
             s \in [1..n -> T] /\ \A i, j \in 1..n : i < j => <<s[i], s[j]>> \in R
           good(n) == \A T \in SUBSET S :
                        (IsFiniteSet(T) /\ Cardinality(T) = n) => \E s : arranged(T, n, s)
           N == {n \in Nat : good(n)}
<1>1. good(0)
  <2> SUFFICES ASSUME NEW T \in SUBSET S
               PROVE  \E s : arranged(T, 0, s)
    OBVIOUS
  <2>1. arranged(T, 0, [i \in 1..0 |-> i])
    OBVIOUS
  <2>2. QED
    BY <2>1
<1>2. ASSUME NEW n \in Nat, good(n) PROVE good(n + 1)
  <2> SUFFICES ASSUME NEW T \in SUBSET S, IsFiniteSet(T), Cardinality(T) = n + 1
               PROVE  \E s : arranged(T, n + 1, s)
    OBVIOUS
  <2>1. PICK x \in T : \A y \in T \ {x} : <<y, x>> \in R
    BY LastInOrder
  <2>2. IsFiniteSet(T \ {x}) /\ Cardinality(T \ {x}) = n
    <3>1. IsFiniteSet(T \ {x}) /\ Cardinality(T \ {x}) = Cardinality(T) - 1
      BY <2>1, FS_RemoveElement
    <3>2. QED
      BY <3>1
  <2>3. PICK s : arranged(T \ {x}, n, s)
    BY <1>2, <2>2
  <2> DEFINE t == [i \in 1..(n + 1) |-> IF i = n + 1 THEN x ELSE s[i]]
  <2>4. \A i \in 1..n : t[i] = s[i] /\ s[i] \in T \ {x}
    BY <2>3
  <2>5. t[n + 1] = x /\ t \in [1..(n + 1) -> T]
    BY <2>1, <2>4
  <2> HIDE DEF t
  <2>6. ASSUME NEW i \in 1..(n + 1), NEW j \in 1..(n + 1), i < j
        PROVE  <<t[i], t[j]>> \in R
    <3>1. i \in 1..n
      BY <2>6
    <3>2. CASE j = n + 1
      BY <2>1, <2>4, <2>5, <3>1, <3>2
    <3>3. CASE j \in 1..n
      BY <2>3, <2>4, <2>6, <3>1, <3>3
    <3>4. QED
      BY <3>2, <3>3
  <2>7. QED
    BY <2>5, <2>6
<1>3. 0 \in N /\ \A n \in Nat : n \in N => n + 1 \in N
  BY <1>1, <1>2
<1> HIDE DEF N
<1>4. \A n \in Nat : n \in N
  BY <1>3, Inductive
<1>5. Cardinality(S) \in Nat
  BY FS_CardinalityType
<1>6. good(Cardinality(S))
  BY <1>4, <1>5 DEF N
<1>7. QED
  BY <1>6

\* A sequence of distinct elements that is as long as the set is large has them all.
LEMMA HoldsAll ==
  ASSUME NEW S, IsFiniteSet(S), NEW s \in [1..Cardinality(S) -> S],
         \A i, j \in 1..Cardinality(S) : i < j => s[i] # s[j]
  PROVE  \A x \in S : \E i \in 1..Cardinality(S) : s[i] = x
<1> DEFINE n == Cardinality(S)
<1>1. n \in Nat /\ IsFiniteSet(1..n) /\ Cardinality(1..n) = n
  BY FS_CardinalityType, FS_Interval
<1>2. \A i, j \in 1..n : s[i] = s[j] => i = j
  BY <1>1
<1>3. s \in Injection(1..n, S)
  BY <1>2 DEF Injection, IsInjective
<1>4. s \in Surjection(1..n, S)
  BY <1>1, <1>3, FS_Injection
<1>5. QED
  BY <1>4 DEF Surjection

LEMMA InOrderFacts ==
  ASSUME NEW S \in SUBSET Nat, IsFiniteSet(S)
  PROVE  /\ Cardinality(S) \in Nat
         /\ InOrder(S) \in [1..Cardinality(S) -> S]
         /\ \A i, j \in 1..Cardinality(S) : i < j => InOrder(S)[i] < InOrder(S)[j]
         /\ \A x \in S : \E i \in 1..Cardinality(S) : InOrder(S)[i] = x
<1> DEFINE R == {p \in S \X S : p[1] < p[2]}
           n == Cardinality(S)
<1>1. \A x, y \in S : <<x, y>> \in R <=> x < y
  OBVIOUS
<1> HIDE DEF R
<1>2. StrictOrder(R, S)
  BY <1>1 DEF StrictOrder
<1>3. n \in Nat
  BY FS_CardinalityType
<1>4. PICK s \in [1..n -> S] : \A i, j \in 1..n : i < j => <<s[i], s[j]>> \in R
  BY <1>2, Arrangement
<1>5. \A i, j \in DOMAIN s : i < j => s[i] < s[j]
  BY <1>1, <1>4
<1>6. /\ InOrder(S) \in [1..n -> S]
      /\ \A i, j \in DOMAIN InOrder(S) : i < j => InOrder(S)[i] < InOrder(S)[j]
  BY <1>5 DEF InOrder
<1> DEFINE t == InOrder(S)
<1> HIDE DEF t
<1>7. t \in [1..n -> S] /\ \A i, j \in 1..n : i < j => t[i] < t[j]
  BY <1>6 DEF t
<1>8. ASSUME NEW i \in 1..n, NEW j \in 1..n, i < j PROVE t[i] # t[j]
  <2>1. t[i] \in Nat /\ t[j] \in Nat /\ t[i] < t[j]
    BY <1>7, <1>8
  <2>2. QED
    BY <2>1
<1>9. \A x \in S : \E i \in 1..n : t[i] = x
  BY <1>7, <1>8, HoldsAll, ZenonT(40)
<1>10. QED
  BY <1>3, <1>7, <1>9 DEF t

LEMMA FunIsSeq ==
  ASSUME NEW n \in Nat, NEW S, NEW f \in [1..n -> S]
  PROVE  f \in Seq(S) /\ Len(f) = n
<1>1. f \in Seq(S)
  BY SeqDef
<1>2. Len(f) \in Nat /\ DOMAIN f = 1..Len(f) /\ DOMAIN f = 1..n
  BY <1>1, LenProperties
<1>3. QED
  BY <1>1, <1>2

\* t consists of the elements of s at the positions P, which order enumerates.
Picks(t, s, S, P, c, order) ==
  /\ c \in Nat /\ t \in [1..c -> S] /\ order \in [1..c -> P]
  /\ \A i \in 1..c : t[i] = s[order[i]]
  /\ \A i, j \in 1..c : i < j => order[i] < order[j]
  /\ \A p \in P : \E i \in 1..c : order[i] = p

LEMMA AtFacts ==
  ASSUME NEW S, NEW n \in Nat, NEW s \in [1..n -> S], NEW P \in SUBSET (1..n)
  PROVE  IsFiniteSet(P) /\ Picks(At(s, P), s, S, P, Cardinality(P), InOrder(P))
<1>1. IsFiniteSet(P) /\ P \in SUBSET Nat
  <2>1. IsFiniteSet(1..n)
    BY FS_Interval
  <2>2. IsFiniteSet(P)
    BY <2>1, FS_Subset
  <2>3. QED
    BY <2>2
<1> DEFINE order == InOrder(P)
           c == Cardinality(P)
<1>2. /\ c \in Nat /\ order \in [1..c -> P]
      /\ \A i, j \in 1..c : i < j => order[i] < order[j]
      /\ \A p \in P : \E i \in 1..c : order[i] = p
  BY <1>1, InOrderFacts
<1>3. At(s, P) = [i \in 1..c |-> s[order[i]]]
  BY DEF At
<1> HIDE DEF order, c
<1>4. At(s, P) \in [1..c -> S] /\ \A i \in 1..c : At(s, P)[i] = s[order[i]]
  BY <1>2, <1>3
<1>5. QED
  BY <1>1, <1>2, <1>4 DEF order, c, Picks

LEMMA DepthType == D \in Nat
BY LocalizationAssumption DEF D

-----------------------------------------------------------------------------
(***************************************************************************)
(* The walk.                                                               *)
(***************************************************************************)
\* Upstream does satisfy its recursive definition.
LEMMA Levels ==
  ASSUME NEW g, NEW symptom
  PROVE  /\ D \in Nat
         /\ DOMAIN Upstream(g, symptom) = 0..D
         /\ Upstream(g, symptom)[0] = {symptom}
         /\ \A k \in 1..D : Upstream(g, symptom)[k] = Widened(g, Upstream(g, symptom)[k - 1])
<1> DEFINE levels(n, f) ==
             f = [k \in 0..n |-> IF k = 0 THEN {symptom} ELSE Widened(g, f[k - 1])]
           N == {n \in Nat : \E f : levels(n, f)}
<1>1. 0 \in N
  <2>1. levels(0, [k \in 0..0 |-> {symptom}])
    OBVIOUS
  <2>2. QED
    BY <2>1
<1>2. ASSUME NEW n \in Nat, n \in N PROVE n + 1 \in N
  <2>1. PICK f : levels(n, f)
    BY <1>2
  <2> DEFINE h == [k \in 0..(n + 1) |-> IF k = n + 1 THEN Widened(g, f[n]) ELSE f[k]]
  <2>2. \A k \in 0..n : h[k] = f[k]
    OBVIOUS
  <2>3. ASSUME NEW k \in 0..(n + 1)
        PROVE  h[k] = IF k = 0 THEN {symptom} ELSE Widened(g, h[k - 1])
    <3>1. CASE k = n + 1
      BY <2>2, <3>1
    <3>2. CASE k = 0
      BY <2>1, <2>2, <3>2
    <3>3. CASE k \in 1..n
      <4>1. f[k] = Widened(g, f[k - 1])
        <5>1. k \in 0..n /\ k # 0
          BY <3>3
        <5>2. QED
          BY <2>1, <5>1
      <4>2. h[k] = f[k] /\ h[k - 1] = f[k - 1]
        BY <2>2, <3>3
      <4>3. QED
        BY <4>1, <4>2, <3>3
    <3>4. QED
      BY <3>1, <3>2, <3>3
  <2>4. h = [k \in 0..(n + 1) |-> h[k]]
    OBVIOUS
  <2> HIDE DEF h
  <2>5. levels(n + 1, h)
    BY <2>3, <2>4
  <2>6. QED
    BY <2>5
<1> HIDE DEF N
<1>3. \A n \in Nat : n \in N
  BY <1>1, <1>2, Inductive
<1>4. D \in Nat
  BY LocalizationAssumption DEF D
<1>5. \E f : levels(D, f)
  BY <1>3, <1>4 DEF N
<1> DEFINE F == CHOOSE f : levels(D, f)
<1>6. levels(D, F)
  BY <1>5, Zenon
<1>7. Upstream(g, symptom) = F
  BY DEF Upstream, D
<1> HIDE DEF F
<1>8. DOMAIN F = 0..D /\ F[0] = {symptom}
  BY <1>4, <1>6
<1>9. ASSUME NEW k \in 1..D PROVE F[k] = Widened(g, F[k - 1])
  <2>1. k \in 0..D /\ k # 0
    BY <1>4
  <2>2. QED
    BY <1>6, <2>1
<1>10. QED
  BY <1>4, <1>7, <1>8, <1>9

\* Whoever reached every cause of what is nearer than D has reached level after level.
LEMMA ReachesLevels ==
  ASSUME NEW g, NEW s, SearchOK(s), Expanded(g, s), s.queue = <<>>
  PROVE  \A k \in 0..D : \A n \in Upstream(g, s.symptom)[k] :
           n \in Visited(s) /\ DepthOf(s, n) <= k
<1> DEFINE level == Upstream(g, s.symptom)
           N == {k \in Nat : k <= D => \A n \in level[k] : n \in Visited(s) /\ DepthOf(s, n) <= k}
<1>0. /\ D \in Nat /\ level[0] = {s.symptom}
      /\ \A k \in 1..D : level[k] = Widened(g, level[k - 1])
  BY Levels
<1>1. \A m : ~Waits(s, m)
  BY DEF Waits
<1> HIDE DEF level
<1>2. 0 \in N
  BY <1>0 DEF Visited, DepthOf
<1>3. ASSUME NEW k \in Nat, k \in N PROVE k + 1 \in N
  <2>1. SUFFICES ASSUME k + 1 <= D, NEW n \in level[k + 1]
                 PROVE  n \in Visited(s) /\ DepthOf(s, n) <= k + 1
    OBVIOUS
  <2>2. \A m \in level[k] : m \in Visited(s) /\ DepthOf(s, m) <= k
    BY <1>0, <1>3, <2>1
  <2>3. \A m \in Visited(s) : DepthOf(s, m) \in Nat
    BY DEF SearchOK, Visited, DepthOf
  <2>4. CASE n \in level[k]
    BY <2>2, <2>3, <2>4
  <2>5. CASE n \notin level[k]
    <3>1. n \in Widened(g, level[k])
      <4>1. k + 1 \in 1..D /\ (k + 1) - 1 = k
        BY <1>0, <2>1
      <4>2. QED
        BY <1>0, <4>1
    <3>2. PICK e \in g.edges : e.to \in level[k] /\ n = e.from
      BY <2>5, <3>1 DEF Widened
    <3>3. n \in CausesOf(g, e.to)
      BY <3>2 DEF CausesOf
    <3>4. e.to \in Visited(s) /\ DepthOf(s, e.to) <= k /\ DepthOf(s, e.to) \in Nat
      BY <2>2, <2>3, <3>2
    <3>5. DepthOf(s, e.to) < D
      BY <1>0, <2>1, <3>4
    <3>6. n \in Visited(s) /\ DepthOf(s, n) <= DepthOf(s, e.to) + 1
      BY <1>1, <3>3, <3>4, <3>5 DEF Expanded
    <3>7. QED
      BY <2>3, <3>4, <3>6
  <2>6. QED
    BY <2>4, <2>5
<1>4. \A k \in Nat : k \in N
  <2> HIDE DEF N
  <2> QED
    BY <1>2, <1>3, Inductive
<1>5. QED
  BY <1>0, <1>4 DEF level

\* An object that was visited lies in the level of its depth and all later ones.
LEMMA LiesInLevel ==
  ASSUME NEW g, NEW s, SearchOK(s), Descends(g, s)
  PROVE  \A n \in Visited(s) : \A k \in 0..D :
           DepthOf(s, n) <= k => n \in Upstream(g, s.symptom)[k]
<1> DEFINE level == Upstream(g, s.symptom)
           N == {k \in Nat : k <= D => \A n \in Visited(s) : DepthOf(s, n) <= k => n \in level[k]}
<1>0. /\ D \in Nat /\ level[0] = {s.symptom}
      /\ \A k \in 1..D : level[k] = Widened(g, level[k - 1])
  BY Levels
<1>1. \A m \in Visited(s) : DepthOf(s, m) \in Nat /\ (DepthOf(s, m) = 0 => m = s.symptom)
  BY DEF SearchOK, Visited, DepthOf
<1> HIDE DEF level
<1>2. 0 \in N
  BY <1>0, <1>1
<1>3. ASSUME NEW k \in Nat, k \in N PROVE k + 1 \in N
  <2>1. SUFFICES ASSUME k + 1 <= D, NEW n \in Visited(s), DepthOf(s, n) <= k + 1
                 PROVE  n \in level[k + 1]
    OBVIOUS
  <2>2. \A m \in Visited(s) : DepthOf(s, m) <= k => m \in level[k]
    BY <1>0, <1>3, <2>1
  <2>3. level[k + 1] = Widened(g, level[k])
    <3>1. k + 1 \in 1..D /\ (k + 1) - 1 = k
      BY <1>0, <2>1
    <3>2. QED
      BY <1>0, <3>1
  <2>4. CASE DepthOf(s, n) <= k
    BY <2>2, <2>3, <2>4 DEF Widened
  <2>5. CASE DepthOf(s, n) = k + 1
    <3>1. n # s.symptom
      BY <2>5 DEF DepthOf
    <3>2. PICK m \in Visited(s) : DepthOf(s, n) = DepthOf(s, m) + 1 /\ n \in CausesOf(g, m)
      BY <2>1, <3>1 DEF Descends
    <3>3. m \in level[k]
      BY <1>1, <2>2, <2>5, <3>2
    <3>4. QED
      BY <2>3, <3>2, <3>3 DEF CausesOf, Widened
  <2>6. QED
    BY <1>1, <2>1, <2>4, <2>5
<1>4. \A k \in Nat : k \in N
  <2> HIDE DEF N
  <2> QED
    BY <1>2, <1>3, Inductive
<1>5. QED
  BY <1>0, <1>4 DEF level

\* At the end of the walk its invariant says where it has been.
LEMMA WalkEnds ==
  ASSUME NEW g, NEW s, WalkInv(g, s), s.queue = <<>>
  PROVE  LET level == Upstream(g, s.symptom)
         IN /\ DOMAIN s.reached = level[localization_policy.max_depth] \ {s.symptom}
            /\ \A n \in DOMAIN s.reached :
                 s.reached[n].depth = Min({k \in DOMAIN level : n \in level[k]})
<1> DEFINE level == Upstream(g, s.symptom)
<1>1. D \in Nat /\ DOMAIN level = 0..D
  BY Levels
<1>2. SearchOK(s) /\ Expanded(g, s) /\ Descends(g, s)
  BY DEF WalkInv
<1>3. \A k \in 0..D : \A n \in level[k] : n \in Visited(s) /\ DepthOf(s, n) <= k
  BY <1>2, ReachesLevels
<1>4. \A n \in Visited(s) : \A k \in 0..D : DepthOf(s, n) <= k => n \in level[k]
  BY <1>2, LiesInLevel
<1> HIDE DEF level
<1>5. \A n \in DOMAIN s.reached :
        n \in Visited(s) /\ n # s.symptom /\ DepthOf(s, n) = s.reached[n].depth /\ DepthOf(s, n) \in 1..D
  BY <1>2 DEF SearchOK, Visited, DepthOf
<1>6. DOMAIN s.reached = level[D] \ {s.symptom}
  <2>1. \A n \in level[D] : n \in Visited(s)
    BY <1>1, <1>3
  <2>2. \A n \in DOMAIN s.reached : n \in level[D]
    BY <1>1, <1>4, <1>5
  <2>3. QED
    BY <1>5, <2>1, <2>2 DEF Visited
<1>7. ASSUME NEW n \in DOMAIN s.reached
      PROVE  s.reached[n].depth = Min({k \in DOMAIN level : n \in level[k]})
  <2> DEFINE d == DepthOf(s, n)
             K == {k \in DOMAIN level : n \in level[k]}
  <2>1. d \in 1..D /\ d = s.reached[n].depth /\ n \in Visited(s)
    BY <1>5
  <2>2. d \in K
    BY <1>1, <1>4, <2>1
  <2>3. \A k \in K : k \in Nat /\ d <= k
    BY <1>1, <1>3, <2>1
  <2> HIDE DEF d, K
  <2>4. \A x \in K : (\A y \in K : x <= y) => x = d
    BY <2>1, <2>2, <2>3
  <2>5. Min(K) \in K /\ \A y \in K : Min(K) <= y
    BY <2>2, <2>3 DEF Min
  <2>6. Min(K) = d
    BY <2>4, <2>5
  <2>7. QED
    BY <2>1, <2>6 DEF K
<1>8. QED
  BY <1>6, <1>7 DEF level, D

LEMMA CausesFinite ==
  ASSUME NEW g, GraphOK(g), NEW n
  PROVE  CausesOf(g, n) \subseteq Nat /\ IsFiniteSet(CausesOf(g, n))
<1>1. CausesOf(g, n) \in SUBSET g.nodes
  BY DEF CausesOf, GraphOK
<1>2. g.nodes \subseteq Nat /\ IsFiniteSet(g.nodes)
  BY DEF GraphOK
<1>3. QED
  BY <1>1, <1>2, FS_Subset

\* The object in front is taken off the queue because it lies too deep.
LEMMA TooDeepTurn ==
  ASSUME NEW g, NEW s, WalkInv(g, s), s.queue # <<>>, TooDeep(Head(s.queue))
  PROVE  WalkInv(g, Turn(g, s))
<1> DEFINE t == Turn(g, s)
           q == s.queue
<1>1. SearchOK(s) /\ QueueInOrder(s) /\ Descends(g, s) /\ Expanded(g, s)
  BY DEF WalkInv
<1>2. q \in Seq([node : Nat, depth : Nat]) /\ s.depth_limited \in BOOLEAN
  BY <1>1 DEF SearchOK
<1>3. /\ t.queue = Tail(q) /\ t.symptom = s.symptom /\ t.reached = s.reached
      /\ t.depth_limited = (s.depth_limited \/ CausesOf(g, Head(q).node) # {})
      /\ t = [symptom |-> t.symptom, reached |-> t.reached, depth_limited |-> t.depth_limited,
              queue |-> t.queue, window |-> t.window]
  BY <1>1 DEF Turn, SearchOK
<1> HIDE DEF t, q
<1>4. Len(q) \in Nat \ {0} /\ Head(q) = q[1]
  BY <1>2, HeadTailProperties, LenProperties, EmptySeq DEF q
<1>5. /\ Tail(q) \in Seq([node : Nat, depth : Nat]) /\ Len(Tail(q)) = Len(q) - 1
      /\ \A i \in 1..(Len(q) - 1) : Tail(q)[i] = q[i + 1]
  BY <1>2, HeadTailProperties DEF q
<1>6. SearchOK(t)
  <2>1. t.depth_limited \in BOOLEAN
    BY <1>3, Zenon
  <2>2. QED
    BY <1>1, <1>3, <1>5, <2>1 DEF SearchOK
<1>7. Visited(t) = Visited(s) /\ \A n : DepthOf(t, n) = DepthOf(s, n)
  BY <1>3 DEF Visited, DepthOf
<1>8. /\ \A i \in 1..Len(q) : /\ q[i].node \in Visited(s) /\ q[i].depth = DepthOf(s, q[i].node)
                              /\ q[i].depth <= q[1].depth + 1 /\ q[i].depth \in Nat
      /\ \A i, j \in 1..Len(q) : i < j => q[i].depth <= q[j].depth
      /\ \A n \in Visited(s) : DepthOf(s, n) <= q[1].depth + 1
  <2>1. \A i \in 1..Len(q) : q[i] \in [node : Nat, depth : Nat]
    BY <1>2, ElementOfSeq
  <2>2. QED
    BY <1>1, <2>1 DEF QueueInOrder, q
<1>9. \A n \in Visited(s) : DepthOf(s, n) \in Nat
  BY <1>1 DEF SearchOK, Visited, DepthOf
<1>10. QueueInOrder(t)
  <2>1. ASSUME NEW i \in 1..Len(t.queue)
        PROVE  /\ t.queue[i] = q[i + 1] /\ i + 1 \in 1..Len(q) /\ 2 \in 1..Len(q)
               /\ t.queue[1] = q[2]
    BY <1>3, <1>4, <1>5
  <2>2. ASSUME NEW i \in 1..Len(t.queue)
        PROVE  /\ t.queue[i].node \in Visited(t)
               /\ t.queue[i].depth = DepthOf(t, t.queue[i].node)
               /\ t.queue[i].depth <= t.queue[1].depth + 1
    <3>1. q[1].depth <= q[2].depth /\ q[i + 1].depth <= q[1].depth + 1
      BY <1>4, <1>8, <2>1
    <3>2. q[1].depth \in Nat /\ q[2].depth \in Nat /\ q[i + 1].depth \in Nat
      BY <1>4, <1>8, <2>1
    <3>3. q[i + 1].depth <= q[2].depth + 1
      <4>1. \A a, b, c \in Nat : a <= b /\ c <= a + 1 => c <= b + 1
        OBVIOUS
      <4>2. QED
        BY <3>1, <3>2, <4>1, Zenon
    <3>4. /\ q[i + 1].node \in Visited(t)
          /\ q[i + 1].depth = DepthOf(t, q[i + 1].node)
      <4>1. i + 1 \in 1..Len(q)
        BY <2>1
      <4>2. q[i + 1].node \in Visited(s) /\ q[i + 1].depth = DepthOf(s, q[i + 1].node)
        BY <1>8, <4>1, Zenon
      <4>3. QED
        BY <1>7, <4>2, Zenon
    <3>5. t.queue[i] = q[i + 1] /\ t.queue[1] = q[2]
      BY <2>1
    <3>6. QED
      BY <3>3, <3>4, <3>5
  <2>3. ASSUME NEW i \in 1..Len(t.queue), NEW j \in 1..Len(t.queue), i < j
        PROVE  t.queue[i].depth <= t.queue[j].depth
    <3>1. i + 1 < j + 1
      BY <1>3, <1>4, <1>5, <2>3
    <3>2. QED
      BY <1>8, <2>1, <3>1
  <2>4. ASSUME t.queue # <<>>, NEW n \in Visited(t)
        PROVE  DepthOf(t, n) <= t.queue[1].depth + 1
    <3>1. 1 \in 1..Len(t.queue)
      BY <1>3, <1>4, <1>5, <2>4, EmptySeq
    <3>2. t.queue[1] = q[2] /\ 2 \in 1..Len(q)
      BY <2>1, <3>1
    <3>3. q[1].depth <= q[2].depth /\ q[1].depth \in Nat /\ q[2].depth \in Nat
      BY <1>4, <1>8, <3>2
    <3>4. QED
      BY <1>7, <1>8, <1>9, <3>2, <3>3
  <2>5. QED
    BY <2>2, <2>3, <2>4 DEF QueueInOrder
<1>11. Descends(g, t)
  BY <1>1, <1>3, <1>7 DEF Descends
<1>12. Expanded(g, t)
  <2>1. SUFFICES ASSUME NEW m \in Visited(s), ~Waits(t, m), DepthOf(s, m) < D
                 PROVE  ~Waits(s, m)
    BY <1>1, <1>7 DEF Expanded
  <2>2. SUFFICES ASSUME NEW i \in 1..Len(q), q[i].node = m PROVE FALSE
    BY DEF Waits, q
  <2>3. CASE i = 1
    <3>1. q[1].depth >= D /\ q[1].depth = DepthOf(s, m)
      BY <1>4, <1>8, <2>2, <2>3 DEF TooDeep, D, q
    <3>2. QED
      BY <1>9, <2>1, <3>1, DepthType
  <2>4. CASE i # 1
    <3>1. i - 1 \in 1..Len(t.queue) /\ t.queue[i - 1] = q[i]
      BY <1>3, <1>4, <1>5, <2>4
    <3>2. QED
      BY <2>1, <2>2, <3>1 DEF Waits
  <2>5. QED
    BY <2>3, <2>4
<1>13. QED
  BY <1>6, <1>10, <1>11, <1>12 DEF WalkInv, t

\* The object in front is expanded: the causes that are new join the end of the queue.
LEMMA ExpandingTurn ==
  ASSUME NEW g, GraphOK(g), NEW s, WalkInv(g, s), s.queue # <<>>, ~TooDeep(Head(s.queue))
  PROVE  WalkInv(g, Turn(g, s))
<1> DEFINE t == Turn(g, s)
           q == s.queue
           h == Head(q)
           causes == CausesOf(g, h.node)
           fresh == causes \ Visited(s)
           c == Cardinality(fresh)
           added == [i \in 1..c |-> [node |-> InOrder(fresh)[i], depth |-> h.depth + 1]]
<1>1. SearchOK(s) /\ QueueInOrder(s) /\ Descends(g, s) /\ Expanded(g, s)
  BY DEF WalkInv
<1>2. q \in Seq([node : Nat, depth : Nat])
  BY <1>1 DEF SearchOK
<1>3. fresh \in SUBSET Nat /\ IsFiniteSet(fresh)
  <2>1. fresh \in SUBSET CausesOf(g, h.node)
    OBVIOUS
  <2>2. QED
    BY <2>1, CausesFinite, FS_Subset
<1>4. /\ c \in Nat /\ InOrder(fresh) \in [1..c -> fresh]
      /\ \A x \in fresh : \E i \in 1..c : InOrder(fresh)[i] = x
  <2> HIDE DEF fresh
  <2> QED
    BY <1>3, InOrderFacts
<1>5. /\ t.queue = Tail(q) \o added /\ t.symptom = s.symptom
      /\ t.depth_limited = s.depth_limited
      /\ DOMAIN t.reached = DOMAIN s.reached \cup fresh
      /\ \A n \in DOMAIN s.reached : n \notin fresh => t.reached[n] = s.reached[n]
      /\ \A n \in fresh : t.reached[n].depth = h.depth + 1
      /\ t = [symptom |-> t.symptom, reached |-> t.reached, depth_limited |-> t.depth_limited,
              queue |-> t.queue, window |-> t.window]
  BY <1>1 DEF Turn, SearchOK
<1>6. \A n \in fresh : n \in causes /\ n \notin Visited(s)
  OBVIOUS
<1>7. \A n \in causes : n \in fresh \/ n \in Visited(s)
  OBVIOUS
<1> HIDE DEF t, q, h, causes, fresh, c
<1>8. /\ Len(q) \in Nat \ {0} /\ h = q[1] /\ h \in [node : Nat, depth : Nat]
      /\ \A i \in 1..Len(q) : q[i] \in [node : Nat, depth : Nat]
  <2>1. Len(q) \in Nat \ {0} /\ Head(q) = q[1]
    BY <1>2, HeadTailProperties, LenProperties, EmptySeq DEF q
  <2>2. \A i \in 1..Len(q) : q[i] \in [node : Nat, depth : Nat]
    BY <1>2, ElementOfSeq
  <2>3. QED
    BY <2>1, <2>2 DEF h
<1>9. /\ Tail(q) \in Seq([node : Nat, depth : Nat]) /\ Len(Tail(q)) = Len(q) - 1
      /\ \A i \in 1..(Len(q) - 1) : Tail(q)[i] = q[i + 1]
  BY <1>2, HeadTailProperties DEF q
<1>10. /\ added \in Seq([node : Nat, depth : Nat]) /\ Len(added) = c
       /\ \A i \in 1..c : added[i].node = InOrder(fresh)[i] /\ added[i].depth = h.depth + 1
  <2>1. added \in [1..c -> [node : Nat, depth : Nat]]
    <3>1. h.depth + 1 \in Nat
      BY <1>8
    <3>2. ASSUME NEW i \in 1..c PROVE InOrder(fresh)[i] \in Nat
      BY <1>3, <1>4
    <3>3. QED
      BY <3>1, <3>2
  <2>2. \A i \in 1..c : added[i].node = InOrder(fresh)[i] /\ added[i].depth = h.depth + 1
    OBVIOUS
  <2> HIDE DEF added
  <2>3. QED
    BY <1>4, <2>1, <2>2, FunIsSeq
<1> DEFINE n == Len(q) - 1
<1> HIDE DEF added
<1>11. /\ n \in Nat /\ n + 1 = Len(q)
       /\ t.queue \in Seq([node : Nat, depth : Nat]) /\ Len(t.queue) = n + c
       /\ \A i \in 1..n : t.queue[i] = q[i + 1]
       /\ \A i \in 1..c : t.queue[n + i] = added[i]
  <2>1. n \in Nat /\ n + 1 = Len(q)
    BY <1>8
  <2>2. /\ Tail(q) \o added \in Seq([node : Nat, depth : Nat])
        /\ Len(Tail(q) \o added) = Len(Tail(q)) + Len(added)
        /\ \A i \in 1..(Len(Tail(q)) + Len(added)) :
             (Tail(q) \o added)[i] = IF i <= Len(Tail(q)) THEN Tail(q)[i]
                                     ELSE added[i - Len(Tail(q))]
    BY <1>9, <1>10, ConcatProperties
  <2>3. /\ t.queue \in Seq([node : Nat, depth : Nat]) /\ Len(t.queue) = n + c
        /\ \A i \in 1..(n + c) : t.queue[i] = IF i <= n THEN Tail(q)[i] ELSE added[i - n]
    BY <1>5, <1>9, <1>10, <2>2
  <2> HIDE DEF n
  <2>4. ASSUME NEW i \in 1..n PROVE t.queue[i] = q[i + 1]
    <3>1. i \in 1..(n + c) /\ i <= n
      BY <1>4, <2>1
    <3>2. t.queue[i] = Tail(q)[i]
      BY <2>3, <3>1
    <3>3. QED
      BY <1>9, <3>2 DEF n
  <2>5. ASSUME NEW i \in 1..c PROVE t.queue[n + i] = added[i]
    <3>1. n + i \in 1..(n + c) /\ ~(n + i <= n) /\ (n + i) - n = i
      BY <1>4, <2>1
    <3>2. QED
      BY <2>3, <3>1
  <2>6. QED
    BY <2>1, <2>3, <2>4, <2>5
<1> HIDE DEF n
\* Every place of the new queue is an old one or holds a new object.
<1>12. ASSUME NEW i \in 1..Len(t.queue)
       PROVE  \/ i \in 1..n /\ i + 1 \in 1..Len(q) /\ t.queue[i] = q[i + 1]
              \/ i > n /\ t.queue[i].node \in fresh /\ t.queue[i].depth = h.depth + 1
  <2>1. CASE i <= n
    <3>1. i \in 1..n /\ i + 1 \in 1..Len(q)
      BY <1>8, <1>11, <2>1
    <3>2. QED
      BY <1>11, <3>1
  <2>2. CASE i > n
    <3>1. i - n \in 1..c /\ n + (i - n) = i
      <4>1. n \in Nat /\ c \in Nat /\ i \in 1..(n + c)
        BY <1>4, <1>11
      <4>2. QED
        BY <2>2, <4>1
    <3>2. t.queue[i] = added[i - n]
      BY <1>11, <3>1
    <3>3. QED
      BY <1>4, <1>10, <2>2, <3>1, <3>2
  <2>3. QED
    BY <1>11, <2>1, <2>2
<1>13. /\ Visited(t) = Visited(s) \cup fresh
       /\ \A x \in Visited(s) : DepthOf(t, x) = DepthOf(s, x)
       /\ \A x \in fresh : DepthOf(t, x) = h.depth + 1
  <2>1. s.symptom \notin fresh /\ \A x \in Visited(s) : x = s.symptom \/ x \in DOMAIN s.reached
    BY <1>6 DEF Visited
  <2>2. QED
    BY <1>5, <1>6, <2>1 DEF Visited, DepthOf
<1>14. h.depth \in Nat /\ h.depth + 1 \in 1..D /\ D \in Nat
  <2>1. ~(h.depth >= D)
    BY DEF TooDeep, D, h, q
  <2>2. h.depth \in Nat
    BY <1>8
  <2>3. QED
    BY <2>1, <2>2, DepthType
<1>15. SearchOK(t)
  <2>1. ASSUME NEW x \in DOMAIN t.reached PROVE t.reached[x].depth \in 1..D
    <3>1. CASE x \in fresh
      BY <1>5, <1>14, <3>1
    <3>2. CASE x \notin fresh
      <4>1. x \in DOMAIN s.reached /\ t.reached[x] = s.reached[x]
        BY <1>5, <3>2
      <4>2. QED
        BY <1>1, <4>1 DEF SearchOK
    <3>3. QED
      BY <3>1, <3>2
  <2>2. t.symptom \notin DOMAIN t.reached
    BY <1>1, <1>5, <1>6 DEF SearchOK, Visited
  <2>3. QED
    BY <1>1, <1>5, <1>11, <2>1, <2>2 DEF SearchOK
<1>16. /\ \A i \in 1..Len(q) : /\ q[i].node \in Visited(s) /\ q[i].depth = DepthOf(s, q[i].node)
                               /\ q[i].depth <= h.depth + 1 /\ q[i].depth \in Nat
       /\ \A i, j \in 1..Len(q) : i < j => q[i].depth <= q[j].depth
       /\ \A x \in Visited(s) : DepthOf(s, x) <= h.depth + 1
  BY <1>1, <1>8 DEF QueueInOrder, q
<1>17. \A x \in Visited(t) : DepthOf(t, x) \in Nat /\ DepthOf(t, x) <= h.depth + 1
  <2>1. \A x \in Visited(s) : DepthOf(s, x) \in Nat
    BY <1>1 DEF SearchOK, Visited, DepthOf
  <2>2. QED
    BY <1>13, <1>14, <1>16, <2>1
<1>18. \A i \in 1..Len(t.queue) :
         /\ t.queue[i].node \in Visited(t) /\ t.queue[i].depth = DepthOf(t, t.queue[i].node)
         /\ t.queue[i].depth \in Nat /\ h.depth <= t.queue[i].depth
         /\ t.queue[i].depth <= h.depth + 1
  <2>1. SUFFICES ASSUME NEW i \in 1..Len(t.queue)
                 PROVE  /\ t.queue[i].node \in Visited(t)
                        /\ t.queue[i].depth = DepthOf(t, t.queue[i].node)
                        /\ t.queue[i].depth \in Nat /\ h.depth <= t.queue[i].depth
                        /\ t.queue[i].depth <= h.depth + 1
    OBVIOUS
  <2>2. CASE i \in 1..n /\ i + 1 \in 1..Len(q) /\ t.queue[i] = q[i + 1]
    <3>1. h.depth <= q[i + 1].depth
      <4>1. 1 < i + 1 /\ 1 \in 1..Len(q)
        BY <1>8, <1>11, <2>2
      <4>2. QED
        BY <1>8, <1>16, <2>2, <4>1
    <3>2. QED
      BY <1>13, <1>16, <2>2, <3>1
  <2>3. CASE i > n /\ t.queue[i].node \in fresh /\ t.queue[i].depth = h.depth + 1
    BY <1>13, <1>14, <2>3
  <2>4. QED
    BY <1>12, <2>2, <2>3
<1>19. QueueInOrder(t)
  <2>1. ASSUME NEW i \in 1..Len(t.queue), NEW j \in 1..Len(t.queue), i < j
        PROVE  t.queue[i].depth <= t.queue[j].depth
    <3>1. CASE j > n /\ t.queue[j].depth = h.depth + 1
      BY <1>18, <3>1
    <3>2. CASE j \in 1..n /\ j + 1 \in 1..Len(q) /\ t.queue[j] = q[j + 1]
      <4>1. i \in 1..n /\ i + 1 < j + 1
        BY <1>11, <2>1, <3>2
      <4>2. t.queue[i] = q[i + 1] /\ i + 1 \in 1..Len(q)
        <5>1. i + 1 \in 1..Len(q)
          BY <1>11, <4>1
        <5>2. QED
          BY <1>11, <4>1, <5>1
      <4>3. QED
        BY <1>16, <3>2, <4>1, <4>2
    <3>3. QED
      BY <1>12, <3>1, <3>2
  <2>2. ASSUME NEW i \in 1..Len(t.queue) PROVE t.queue[i].depth <= t.queue[1].depth + 1
    <3>1. 1 \in 1..Len(t.queue)
      BY <1>4, <1>11
    <3>2. h.depth <= t.queue[1].depth /\ t.queue[1].depth \in Nat /\ t.queue[i].depth \in Nat
      BY <1>18, <3>1
    <3>3. QED
      BY <1>14, <1>18, <3>2
  <2>3. ASSUME t.queue # <<>>, NEW x \in Visited(t) PROVE DepthOf(t, x) <= t.queue[1].depth + 1
    <3>1. 1 \in 1..Len(t.queue)
      BY <1>4, <1>11, <2>3, EmptySeq
    <3>2. h.depth <= t.queue[1].depth /\ t.queue[1].depth \in Nat
      BY <1>18, <3>1
    <3>3. QED
      BY <1>14, <1>17, <3>2
  <2>4. QED
    BY <1>18, <2>1, <2>2, <2>3 DEF QueueInOrder
<1>20. h.node \in Visited(s) /\ DepthOf(s, h.node) = h.depth
  BY <1>8, <1>16
<1>21. Descends(g, t)
  <2>1. SUFFICES ASSUME NEW x \in Visited(t) \ {t.symptom}
                 PROVE  \E m \in Visited(t) : DepthOf(t, x) = DepthOf(t, m) + 1 /\ x \in CausesOf(g, m)
    BY DEF Descends
  <2>2. CASE x \in fresh
    <3>1. x \in CausesOf(g, h.node)
      BY <1>6, <2>2 DEF causes
    <3>2. QED
      BY <1>13, <1>20, <2>2, <3>1
  <2>3. CASE x \notin fresh
    <3>1. x \in Visited(s) \ {s.symptom}
      BY <1>5, <1>13, <2>3
    <3>2. PICK m \in Visited(s) : DepthOf(s, x) = DepthOf(s, m) + 1 /\ x \in CausesOf(g, m)
      BY <1>1, <3>1 DEF Descends
    <3>3. QED
      BY <1>13, <3>1, <3>2
  <2>4. QED
    BY <2>2, <2>3
<1>22. Expanded(g, t)
  <2>1. SUFFICES ASSUME NEW m \in Visited(t), ~Waits(t, m), DepthOf(t, m) < D, NEW x \in CausesOf(g, m)
                 PROVE  x \in Visited(t) /\ DepthOf(t, x) <= DepthOf(t, m) + 1
    BY DEF Expanded
  <2>2. m \notin fresh
    <3>1. SUFFICES ASSUME m \in fresh PROVE FALSE
      OBVIOUS
    <3>2. PICK i \in 1..c : InOrder(fresh)[i] = m
      BY <1>4, <3>1
    <3>3. n + i \in 1..Len(t.queue) /\ t.queue[n + i].node = m
      <4>1. n + i \in 1..(n + c)
        BY <1>4, <1>11
      <4>2. t.queue[n + i] = added[i] /\ added[i].node = m
        BY <1>10, <1>11, <3>2
      <4>3. QED
        BY <1>11, <4>1, <4>2
    <3>4. QED
      BY <2>1, <3>3 DEF Waits
  <2>3. m \in Visited(s) /\ DepthOf(t, m) = DepthOf(s, m)
    BY <1>13, <2>2
  <2>4. CASE m = h.node
    <3>1. x \in Visited(t)
      BY <1>7, <1>13, <2>1, <2>4 DEF causes
    <3>2. QED
      BY <1>17, <1>20, <2>3, <2>4, <3>1
  <2>5. CASE m # h.node
    <3>1. ~Waits(s, m)
      <4>1. SUFFICES ASSUME NEW i \in 1..Len(q), q[i].node = m PROVE FALSE
        BY DEF Waits, q
      <4>2. i # 1
        BY <1>8, <2>5, <4>1
      <4>3. i - 1 \in 1..n /\ (i - 1) + 1 = i
        BY <1>8, <4>2 DEF n
      <4>4. i - 1 \in 1..Len(t.queue) /\ t.queue[i - 1] = q[i]
        BY <1>4, <1>11, <4>3
      <4>5. QED
        BY <2>1, <4>1, <4>4 DEF Waits
    <3>2. x \in Visited(s) /\ DepthOf(s, x) <= DepthOf(s, m) + 1
      BY <1>1, <2>1, <2>3, <3>1 DEF Expanded
    <3>3. QED
      BY <1>13, <2>3, <3>2
  <2>6. QED
    BY <2>4, <2>5
<1>23. QED
  BY <1>15, <1>19, <1>21, <1>22 DEF WalkInv, t

LEMMA TurnKeeps ==
  ASSUME NEW g, GraphOK(g), NEW s, WalkInv(g, s), s.queue # <<>>
  PROVE  WalkInv(g, Turn(g, s))
BY TooDeepTurn, ExpandingTurn

\* A search begins with the symptom alone.
LEMMA WalkBegins ==
  ASSUME NEW g, NEW symptom \in Nat \ {0}, NEW w
  PROVE  WalkInv(g, [symptom |-> symptom, reached |-> <<>>, depth_limited |-> FALSE,
                     queue |-> <<[node |-> symptom, depth |-> 0]>>, window |-> w])
<1> DEFINE q == <<[node |-> symptom, depth |-> 0]>>
           s == [symptom |-> symptom, reached |-> <<>>, depth_limited |-> FALSE, queue |-> q,
                 window |-> w]
<1>1. q \in Seq([node : Nat, depth : Nat]) /\ Len(q) = 1 /\ q[1].node = symptom /\ q[1].depth = 0
  OBVIOUS
<1> HIDE DEF q
<1>2. DOMAIN s.reached = {}
  OBVIOUS
<1>3. /\ s.symptom = symptom /\ s.depth_limited = FALSE /\ s.queue = q
      /\ s = [symptom |-> s.symptom, reached |-> s.reached, depth_limited |-> s.depth_limited,
              queue |-> s.queue, window |-> s.window]
  OBVIOUS
<1> HIDE DEF s
<1>4. Visited(s) = {symptom} /\ DepthOf(s, symptom) = 0 /\ Waits(s, symptom)
  BY SMTT(30), <1>1, <1>2, <1>3 DEF Visited, DepthOf, Waits
<1>5. SearchOK(s)
  BY <1>1, <1>2, <1>3 DEF SearchOK
<1>6. QueueInOrder(s)
  <2>1. \A i \in 1..Len(q) : i = 1
    BY <1>1
  <2>2. \A i \in 1..Len(q) :
          q[i].node \in Visited(s) /\ q[i].depth = DepthOf(s, q[i].node) /\ q[i].depth = 0
    BY <1>1, <1>4, <2>1
  <2>3. /\ \A i \in 1..Len(q) : q[i].depth <= q[1].depth + 1
        /\ \A i, j \in 1..Len(q) : i < j => q[i].depth <= q[j].depth
    BY <1>1, <2>2
  <2>4. \A n \in Visited(s) : DepthOf(s, n) <= q[1].depth + 1
    BY <1>1, <1>4
  <2>5. QED
    BY <1>3, <2>2, <2>3, <2>4 DEF QueueInOrder
<1>7. Descends(g, s) /\ Expanded(g, s)
  BY <1>3, <1>4 DEF Descends, Expanded
<1>8. QED
  BY <1>5, <1>6, <1>7 DEF WalkInv, s, q

-----------------------------------------------------------------------------
(***************************************************************************)
(* The graph.                                                              *)
(***************************************************************************)
\* One node more, if it is not there and there is room.
LEMMA NodeAdded ==
  ASSUME NEW nodes \in SUBSET Nat, IsFiniteSet(nodes), Cardinality(nodes) <= max_graph_nodes,
         NEW n \in Nat, n \in nodes \/ Cardinality(nodes) < max_graph_nodes
  PROVE  /\ nodes \cup {n} \in SUBSET Nat
         /\ IsFiniteSet(nodes \cup {n}) /\ Cardinality(nodes \cup {n}) <= max_graph_nodes
<1>1. max_graph_nodes \in Nat /\ Cardinality(nodes) \in Nat
  BY LocalizationAssumption, FS_CardinalityType
<1>2. /\ IsFiniteSet(nodes \cup {n})
      /\ Cardinality(nodes \cup {n}) = IF n \in nodes THEN Cardinality(nodes) ELSE Cardinality(nodes) + 1
  BY FS_AddElement
<1>3. QED
  BY <1>1, <1>2

LEMMA NodesAdded ==
  ASSUME NEW g, GraphOK(g), NEW e, e.from \in Nat, e.to \in Nat
  PROVE  /\ WithNodes(g, e) \in SUBSET Nat /\ g.nodes \subseteq WithNodes(g, e)
         /\ IsFiniteSet(WithNodes(g, e)) /\ Cardinality(WithNodes(g, e)) <= max_graph_nodes
<1> DEFINE first == IF e.from \in g.nodes \/ Cardinality(g.nodes) < max_graph_nodes
                    THEN g.nodes \cup {e.from} ELSE g.nodes
           both == IF e.to \in first \/ Cardinality(first) < max_graph_nodes
                   THEN first \cup {e.to} ELSE first
<1>1. WithNodes(g, e) = IF e.from \in first THEN both ELSE first
  BY DEF WithNodes
<1>2. /\ g.nodes \in SUBSET Nat /\ IsFiniteSet(g.nodes)
      /\ Cardinality(g.nodes) <= max_graph_nodes
  BY DEF GraphOK
<1>3. /\ first \in SUBSET Nat /\ g.nodes \subseteq first
      /\ IsFiniteSet(first) /\ Cardinality(first) <= max_graph_nodes
  <2>1. CASE e.from \in g.nodes \/ Cardinality(g.nodes) < max_graph_nodes
    BY <1>2, <2>1, NodeAdded
  <2>2. CASE ~(e.from \in g.nodes \/ Cardinality(g.nodes) < max_graph_nodes)
    BY <1>2, <2>2
  <2>3. QED
    BY <2>1, <2>2
<1> HIDE DEF first
<1>4. /\ both \in SUBSET Nat /\ first \subseteq both
      /\ IsFiniteSet(both) /\ Cardinality(both) <= max_graph_nodes
  <2>1. CASE e.to \in first \/ Cardinality(first) < max_graph_nodes
    BY <1>3, <2>1, NodeAdded
  <2>2. CASE ~(e.to \in first \/ Cardinality(first) < max_graph_nodes)
    BY <1>3, <2>2
  <2>3. QED
    BY <2>1, <2>2
<1> HIDE DEF both
<1>5. QED
  BY <1>1, <1>3, <1>4

\* add_edge keeps the limits, loses no edge, and adds at most the one it is given.
LEMMA EdgeAdded ==
  ASSUME NEW g, GraphOK(g), NEW e, e.from \in Nat, e.to \in Nat
  PROVE  LET a == add_edge(g, e)
         IN /\ a.ok \in BOOLEAN
            /\ GraphOK(a.graph)
            /\ g.edges \subseteq a.graph.edges
            /\ \A d \in a.graph.edges : d \in g.edges \/ (d = e /\ e.citations # {})
            /\ a.ok => \E d \in a.graph.edges : SameKey(d, e)
<1> DEFINE a == add_edge(g, e)
           nodes == WithNodes(g, e)
           entered == {e.from, e.to} \subseteq nodes
           known == \E d \in g.edges : SameKey(d, e)
           edges == IF entered /\ ~known /\ Room(g) THEN g.edges \cup {e} ELSE g.edges
<1>1. CASE e.citations = {}
  <2>1. a.ok = FALSE /\ a.graph = g
    BY <1>1 DEF add_edge
  <2> HIDE DEF a
  <2>2. QED
    BY <2>1 DEF a
<1>2. CASE e.citations # {}
  <2>1. /\ a.ok = (entered /\ (known \/ Room(g)))
        /\ a.graph.nodes = nodes /\ a.graph.edges = edges
    BY <1>2 DEF add_edge
  <2>2. a.ok \in BOOLEAN
    BY <2>1, Zenon
  <2>3. /\ nodes \in SUBSET Nat /\ g.nodes \subseteq nodes
        /\ IsFiniteSet(nodes) /\ Cardinality(nodes) <= max_graph_nodes
    BY NodesAdded
  <2>4. /\ IsFiniteSet(g.edges) /\ Cardinality(g.edges) <= max_graph_edges
        /\ \A d \in g.edges : d.from \in g.nodes /\ d.to \in g.nodes
    BY DEF GraphOK
  <2> HIDE DEF a, nodes
  <2>5. IsFiniteSet(edges) /\ Cardinality(edges) <= max_graph_edges
    <3>1. CASE entered /\ ~known /\ Room(g)
      <4>1. Cardinality(g.edges) < max_graph_edges /\ max_graph_edges \in Nat /\ Cardinality(g.edges) \in Nat
        BY <2>4, <3>1, LocalizationAssumption, FS_CardinalityType DEF Room
      <4>2. /\ IsFiniteSet(g.edges \cup {e})
            /\ Cardinality(g.edges \cup {e}) =
                 IF e \in g.edges THEN Cardinality(g.edges) ELSE Cardinality(g.edges) + 1
        BY <2>4, FS_AddElement
      <4>3. QED
        BY <3>1, <4>1, <4>2
    <3>2. CASE ~(entered /\ ~known /\ Room(g))
      BY <2>4, <3>2
    <3>3. QED
      BY <3>1, <3>2
  <2>6. \A d \in edges : d.from \in nodes /\ d.to \in nodes
    BY <2>3, <2>4
  <2>7. GraphOK(a.graph)
    BY <2>1, <2>3, <2>5, <2>6 DEF GraphOK
  <2>8. SameKey(e, e)
    BY DEF SameKey
  <2>9. a.ok => \E d \in edges : SameKey(d, e)
    BY <2>1, <2>8
  <2>10. QED
    BY <1>2, <2>1, <2>2, <2>7, <2>9 DEF a
<1>3. QED
  BY <1>1, <1>2

\* The loop over the relations does satisfy its recursive definition.
LEMMA LoopUnfolds ==
  ASSUME NEW rels, Len(rels) \in Nat
  PROVE  \E f : /\ f[0].ok = TRUE /\ f[0].graph = EmptyGraph
                /\ \A i \in 1..Len(rels) : f[i] = LinkEdge(query(records), f[i - 1], rels[i])
                /\ LinkEdges(rels) = f[Len(rels)]
<1> DEFINE start == [ok |-> TRUE, graph |-> EmptyGraph]
           loop(n, f) == f = [i \in 0..n |-> IF i = 0 THEN start ELSE LinkEdge(query(records), f[i - 1], rels[i])]
           N == {n \in Nat : \E f : loop(n, f)}
<1>1. 0 \in N
  <2>1. loop(0, [i \in 0..0 |-> start])
    OBVIOUS
  <2>2. QED
    BY <2>1
<1>2. ASSUME NEW n \in Nat, n \in N PROVE n + 1 \in N
  <2>1. PICK f : loop(n, f)
    BY <1>2
  <2> DEFINE h == [i \in 0..(n + 1) |-> IF i = n + 1 THEN LinkEdge(query(records), f[n], rels[n + 1]) ELSE f[i]]
  <2>2. \A i \in 0..n : h[i] = f[i]
    OBVIOUS
  <2>3. ASSUME NEW i \in 0..(n + 1)
        PROVE  h[i] = IF i = 0 THEN start ELSE LinkEdge(query(records), h[i - 1], rels[i])
    <3>1. CASE i = n + 1
      BY <2>2, <3>1
    <3>2. CASE i = 0
      BY <2>1, <2>2, <3>2
    <3>3. CASE i \in 1..n
      <4>1. f[i] = LinkEdge(query(records), f[i - 1], rels[i])
        <5>1. i \in 0..n /\ i # 0
          BY <3>3
        <5> HIDE DEF start
        <5>2. QED
          BY <2>1, <5>1
      <4>2. h[i] = f[i] /\ h[i - 1] = f[i - 1]
        BY <2>2, <3>3
      <4>3. QED
        BY <4>1, <4>2, <3>3
    <3>4. QED
      BY <3>1, <3>2, <3>3
  <2>4. h = [i \in 0..(n + 1) |-> h[i]]
    OBVIOUS
  <2> HIDE DEF h
  <2>5. loop(n + 1, h)
    BY <2>3, <2>4
  <2>6. QED
    BY <2>5
<1> HIDE DEF N
<1>3. \A n \in Nat : n \in N
  BY <1>1, <1>2, Inductive
<1>4. \E f : loop(Len(rels), f)
  BY <1>3 DEF N
<1> DEFINE F == CHOOSE f : loop(Len(rels), f)
<1>5. loop(Len(rels), F)
  BY <1>4, Zenon
<1>6. LinkEdges(rels) = F[Len(rels)]
  BY DEF LinkEdges
<1> HIDE DEF F
<1>7. F[0] = start
  BY <1>5
<1>8. ASSUME NEW i \in 1..Len(rels) PROVE F[i] = LinkEdge(query(records), F[i - 1], rels[i])
  <2>1. i \in 0..Len(rels) /\ i # 0
    OBVIOUS
  <2>2. QED
    BY <1>5, <2>1
<1>9. F[0].ok = TRUE /\ F[0].graph = EmptyGraph
  BY <1>7
<1>10. QED
  BY <1>6, <1>8, <1>9

\* What the loop has built after i relations: within its limits, only edges
\* that a record reports, and, unless it failed, all of those.
Sound(rels, i, b) ==
  /\ b.ok \in BOOLEAN
  /\ GraphOK(b.graph)
  /\ \A e \in b.graph.edges : \E j \in 1..i :
       /\ SameKey(e, rels[j])
       /\ e.citations = citations_for(query(records), rels[j].from) /\ e.citations # {}
  /\ b.ok => \A j \in 1..i : citations_for(query(records), rels[j].from) # {} =>
                               \E e \in b.graph.edges : SameKey(e, rels[j])

LEMMA LinkEdgeSound ==
  ASSUME NEW rels, NEW i \in Nat, NEW b, Sound(rels, i, b),
         rels[i + 1].from \in Nat, rels[i + 1].to \in Nat
  PROVE  Sound(rels, i + 1, LinkEdge(query(records), b, rels[i + 1]))
<1> DEFINE r == rels[i + 1]
           cites == citations_for(query(records), r.from)
           e == [from |-> r.from, to |-> r.to, kind |-> r.kind, rule |-> r.rule, citations |-> cites]
           a == add_edge(b.graph, e)
<1>1. /\ b.ok \in BOOLEAN /\ GraphOK(b.graph)
      /\ \A d \in b.graph.edges : \E j \in 1..i :
           SameKey(d, rels[j]) /\ d.citations = citations_for(query(records), rels[j].from) /\ d.citations # {}
      /\ b.ok => \A j \in 1..i : citations_for(query(records), rels[j].from) # {} =>
                                   \E d \in b.graph.edges : SameKey(d, rels[j])
  BY DEF Sound
<1>2. i + 1 \in 1..(i + 1) /\ \A j \in 1..(i + 1) : j \in 1..i \/ j = i + 1
  OBVIOUS
<1>2a. \A j \in 1..i : j \in 1..(i + 1)
  OBVIOUS
<1>3. CASE ~b.ok \/ cites = {}
  <2>1. LinkEdge(query(records), b, r) = b
    BY <1>3 DEF LinkEdge
  <2>2. \A d \in b.graph.edges : \E j \in 1..(i + 1) :
          SameKey(d, rels[j]) /\ d.citations = citations_for(query(records), rels[j].from) /\ d.citations # {}
    BY <1>1, <1>2a
  <2>3. b.ok => \A j \in 1..(i + 1) : citations_for(query(records), rels[j].from) # {} =>
                                        \E d \in b.graph.edges : SameKey(d, rels[j])
    BY <1>1, <1>2, <1>3
  <2>4. QED
    BY <1>1, <2>1, <2>2, <2>3 DEF Sound
<1>4. CASE b.ok /\ cites # {}
  <2>1. LinkEdge(query(records), b, r) = a
    BY <1>4 DEF LinkEdge
  <2>2. /\ e.from = r.from /\ e.to = r.to /\ e.citations = cites /\ SameKey(e, r)
        /\ \A d : SameKey(d, e) => SameKey(d, r)
    BY DEF SameKey
  <2> HIDE DEF e, cites
  <2>3. /\ a.ok \in BOOLEAN /\ GraphOK(a.graph)
        /\ b.graph.edges \subseteq a.graph.edges
        /\ \A d \in a.graph.edges : d \in b.graph.edges \/ (d = e /\ e.citations # {})
        /\ a.ok => \E d \in a.graph.edges : SameKey(d, e)
    BY <1>1, <2>2, EdgeAdded
  <2> HIDE DEF a
  <2>4. ASSUME NEW d \in a.graph.edges
        PROVE  \E j \in 1..(i + 1) :
                 SameKey(d, rels[j]) /\ d.citations = citations_for(query(records), rels[j].from) /\ d.citations # {}
    <3>1. CASE d \in b.graph.edges
      BY <1>1, <1>2a, <3>1
    <3>2. CASE d = e
      BY <1>2, <1>4, <2>2, <3>2 DEF cites
    <3>3. QED
      BY <2>3, <3>1, <3>2
  <2>5. ASSUME a.ok, NEW j \in 1..(i + 1), citations_for(query(records), rels[j].from) # {}
        PROVE  \E d \in a.graph.edges : SameKey(d, rels[j])
    <3>1. CASE j \in 1..i
      BY <1>1, <1>4, <2>3, <2>5, <3>1
    <3>2. CASE j = i + 1
      BY <2>2, <2>3, <2>5, <3>2
    <3>3. QED
      BY <1>2, <3>1, <3>2
  <2>6. QED
    BY <2>1, <2>3, <2>4, <2>5 DEF Sound
<1>5. QED
  BY <1>1, <1>3, <1>4

LEMMA EmptyGraphOK == GraphOK(EmptyGraph)
BY FS_EmptySet, LocalizationAssumption DEF GraphOK, EmptyGraph

LEMMA LoopSound ==
  ASSUME NEW rels, Len(rels) \in Nat,
         \A i \in 1..Len(rels) : rels[i].from \in Nat /\ rels[i].to \in Nat
  PROVE  Sound(rels, Len(rels), LinkEdges(rels))
<1>1. PICK f : /\ f[0].ok = TRUE /\ f[0].graph = EmptyGraph
               /\ \A i \in 1..Len(rels) : f[i] = LinkEdge(query(records), f[i - 1], rels[i])
               /\ LinkEdges(rels) = f[Len(rels)]
  BY LoopUnfolds
<1> DEFINE N == {i \in Nat : i <= Len(rels) => Sound(rels, i, f[i])}
<1>2. 0 \in N
  <2>1. f[0].graph.edges = {}
    BY <1>1 DEF EmptyGraph
  <2>2. Sound(rels, 0, f[0])
    <3>1. f[0].ok \in BOOLEAN /\ GraphOK(f[0].graph)
      BY <1>1, EmptyGraphOK
    <3>2. \A j : j \notin 1..0
      OBVIOUS
    <3>3. QED
      BY <2>1, <3>1, <3>2 DEF Sound
  <2>3. QED
    BY <2>2
<1>3. ASSUME NEW i \in Nat, i \in N PROVE i + 1 \in N
  <2>1. SUFFICES ASSUME i + 1 <= Len(rels) PROVE Sound(rels, i + 1, f[i + 1])
    OBVIOUS
  <2>2. i + 1 \in 1..Len(rels) /\ (i + 1) - 1 = i /\ i <= Len(rels)
    BY <2>1
  <2>3. f[i + 1] = LinkEdge(query(records), f[i], rels[i + 1]) /\ Sound(rels, i, f[i])
    BY <1>1, <1>3, <2>2
  <2>4. QED
    BY <2>2, <2>3, LinkEdgeSound
<1> HIDE DEF N
<1>4. Len(rels) \in N
  BY <1>2, <1>3, Inductive
<1>5. QED
  BY <1>1, <1>4 DEF N

-----------------------------------------------------------------------------
(***************************************************************************)
(* The relations of a topology.                                            *)
(***************************************************************************)
LEMMA FlattenUnfolds ==
  ASSUME NEW ss, Len(ss) \in Nat \ {0}
  PROVE  \E f : /\ f[1] = ss[1]
                /\ \A i \in 2..Len(ss) : f[i] = f[i - 1] \o ss[i]
                /\ FlattenSeq(ss) = f[Len(ss)]
<1> DEFINE concat(n, f) == f = [i \in 1..n |-> IF i = 1 THEN ss[i] ELSE f[i - 1] \o ss[i]]
           N == {n \in Nat : \E f : concat(n, f)}
<1>1. 0 \in N
  <2>1. concat(0, [i \in 1..0 |-> ss[i]])
    OBVIOUS
  <2>2. QED
    BY <2>1
<1>2. ASSUME NEW n \in Nat, n \in N PROVE n + 1 \in N
  <2>1. PICK f : concat(n, f)
    BY <1>2
  <2> DEFINE new == IF n = 0 THEN ss[1] ELSE f[n] \o ss[n + 1]
             h == [i \in 1..(n + 1) |-> IF i = n + 1 THEN new ELSE f[i]]
  <2>2. (\A i \in 1..n : h[i] = f[i]) /\ h[n + 1] = new
    <3> HIDE DEF new
    <3>1. \A i \in 1..n : h[i] = f[i]
      OBVIOUS
    <3>2. n + 1 \in 1..(n + 1)
      OBVIOUS
    <3>3. QED
      BY <3>1, <3>2
  <2>3. h = [i \in 1..(n + 1) |-> h[i]]
    OBVIOUS
  <2> HIDE DEF h
  <2>4. ASSUME NEW i \in 1..(n + 1)
        PROVE  h[i] = IF i = 1 THEN ss[i] ELSE h[i - 1] \o ss[i]
    <3>1. CASE i = n + 1 /\ n = 0
      BY <2>2, <3>1
    <3>2. CASE i = n + 1 /\ n # 0
      <4>1. n \in 1..n /\ i - 1 = n /\ i # 1
        BY <3>2
      <4>2. QED
        BY <2>2, <3>2, <4>1
    <3>3. CASE i \in 1..n
      <4>1. f[i] = IF i = 1 THEN ss[i] ELSE f[i - 1] \o ss[i]
        BY <2>1, <3>3
      <4>2. i # 1 => i - 1 \in 1..n
        BY <3>3
      <4>3. QED
        BY <2>2, <3>3, <4>1, <4>2
    <3>4. QED
      BY <3>1, <3>2, <3>3
  <2>5. concat(n + 1, h)
    BY <2>3, <2>4
  <2>6. n + 1 \in Nat
    OBVIOUS
  <2>7. QED
    BY <2>5, <2>6, Zenon
<1> HIDE DEF N
<1>3. \A n \in Nat : n \in N
  BY <1>1, <1>2, Inductive
<1>4. \E f : concat(Len(ss), f)
  BY <1>3 DEF N
<1> DEFINE F == CHOOSE f : concat(Len(ss), f)
<1>5. concat(Len(ss), F)
  BY <1>4, Zenon
<1>6. FlattenSeq(ss) = F[Len(ss)]
  BY DEF FlattenSeq
<1> HIDE DEF F
<1>7. F[1] = ss[1]
  BY <1>5
<1>8. ASSUME NEW i \in 2..Len(ss) PROVE F[i] = F[i - 1] \o ss[i]
  <2>1. i \in 1..Len(ss) /\ i # 1
    OBVIOUS
  <2>2. QED
    BY <1>5, <2>1
<1>9. QED
  BY <1>6, <1>7, <1>8

LEMMA FlattenType ==
  ASSUME NEW S, NEW n \in Nat, NEW ss \in [1..n -> Seq(S)]
  PROVE  FlattenSeq(ss) \in Seq(S)
<1>1. ss \in Seq(Seq(S)) /\ Len(ss) = n
  BY FunIsSeq
<1>2. CASE n = 0
  <2>1. FlattenSeq(ss) = ss
    BY <1>1, <1>2 DEF FlattenSeq
  <2>2. ss = <<>>
    BY <1>1, <1>2, EmptySeq
  <2>3. QED
    BY <2>1, <2>2
<1>3. CASE n # 0
  <2>1. PICK f : /\ f[1] = ss[1]
                 /\ \A i \in 2..n : f[i] = f[i - 1] \o ss[i]
                 /\ FlattenSeq(ss) = f[n]
    BY <1>1, <1>3, FlattenUnfolds
  <2> DEFINE N == {i \in Nat : i + 1 <= n => f[i + 1] \in Seq(S)}
  <2>2. 0 \in N
    BY <1>3, <2>1
  <2>3. ASSUME NEW i \in Nat, i \in N PROVE i + 1 \in N
    <3>1. SUFFICES ASSUME (i + 1) + 1 <= n PROVE f[(i + 1) + 1] \in Seq(S)
      OBVIOUS
    <3>2. i + 2 \in 2..n /\ i + 2 \in 1..n /\ (i + 2) - 1 = i + 1 /\ (i + 1) + 1 = i + 2 /\ i + 1 <= n
      BY <3>1
    <3>3. f[i + 2] = f[i + 1] \o ss[i + 2] /\ f[i + 1] \in Seq(S) /\ ss[i + 2] \in Seq(S)
      BY <2>1, <2>3, <3>2
    <3>4. f[i + 2] \in Seq(S)
      BY <3>3, ConcatProperties
    <3>5. QED
      BY <3>2, <3>4
  <2> HIDE DEF N
  <2>4. n - 1 \in Nat /\ (n - 1) + 1 = n
    BY <1>3
  <2>5. n - 1 \in N
    BY <2>2, <2>3, <2>4, Inductive
  <2>6. QED
    BY <2>1, <2>4, <2>5 DEF N
<1>4. QED
  BY <1>2, <1>3

\* The objects of a topology, of whatever kind.
All(o) == UNION {Present(o, k) : k \in Kinds}

Relation(o) == [from : All(o), to : All(o), kind : DOMAIN KindRank,
                rule : {"member", "upstream", "queue", "buffer", "flow", "endpoint"}]

LEMMA Identities ==
  ASSUME NEW o, ObjectsOK(o)
  PROVE  /\ \A k \in Kinds : Present(o, k) \in SUBSET Nat /\ IsFiniteSet(Present(o, k))
         /\ All(o) \subseteq Nat
  BY TopologyAssumption DEF ObjectsOK, All

\* What an object refers to is an object.
LEMMA RefersToObjects ==
  ASSUME NEW o, ObjectsOK(o), NEW k \in Kinds, NEW id \in Present(o, k)
  PROVE  /\ id \in All(o)
         /\ k \in {"queue", "buffer", "flow"} => o[k][id] \in All(o)
         /\ k = "link" => o[k][id][1] \in All(o) /\ o[k][id][2] \in All(o)
         /\ k = "path" => /\ o[k][id] \in Seq(Nat)
                          /\ \A i \in 1..Len(o[k][id]) : o[k][id][i] \in All(o)
<1>1. id \in All(o)
  BY DEF All
<1>2. \A r \in References(k, o[k][id]) : r[2] \in Present(o, r[1])
  BY DEF ObjectsOK, Known
<1>3. "port" \in Kinds /\ "link" \in Kinds /\ "path" \in Kinds
  BY DEF Kinds
<1>4. CASE k = "queue"
  <2>1. <<"link", o[k][id]>> \in References(k, o[k][id])
    BY <1>4 DEF References
  <2>2. QED
    BY <1>1, <1>2, <1>3, <1>4, <2>1 DEF All
<1>5. CASE k = "buffer"
  <2>1. <<"port", o[k][id]>> \in References(k, o[k][id])
    BY <1>5 DEF References
  <2>2. QED
    BY <1>1, <1>2, <1>3, <1>5, <2>1 DEF All
<1>6. CASE k = "flow"
  <2>1. <<"path", o[k][id]>> \in References(k, o[k][id])
    BY <1>6 DEF References
  <2>2. QED
    BY <1>1, <1>2, <1>3, <1>6, <2>1 DEF All
<1>7. CASE k = "link"
  <2>1. /\ <<"port", o[k][id][1]>> \in References(k, o[k][id])
        /\ <<"port", o[k][id][2]>> \in References(k, o[k][id])
    BY <1>7 DEF References
  <2>2. QED
    BY <1>1, <1>2, <1>3, <1>7, <2>1 DEF All
<1>8. CASE k = "path"
  <2>1. o[k][id] \in Seq(Nat)
    BY <1>8 DEF ObjectsOK
  <2>2. DOMAIN o[k][id] = 1..Len(o[k][id])
    BY <2>1
  <2>3. \A i \in 1..Len(o[k][id]) : <<"link", o[k][id][i]>> \in References(k, o[k][id])
    BY <1>8, <2>2 DEF References, ToSet
  <2>4. QED
    BY <1>1, <1>2, <1>3, <1>8, <2>1, <2>3 DEF All
<1>9. QED
  BY <1>1, <1>4, <1>5, <1>6, <1>7, <1>8 DEF Kinds

LEMMA RelationsType ==
  ASSUME NEW o, ObjectsOK(o), NEW k \in {"path", "queue", "buffer", "flow", "link"},
         NEW id \in Present(o, k)
  PROVE  Relations(o, k, id) \in Seq(Relation(o))
<1> DEFINE ref == o[k][id]
           edge(f, t, kind, r) == [from |-> f, to |-> t, kind |-> kind, rule |-> r]
<1>0. k \in Kinds
  BY DEF Kinds
<1>1. /\ id \in All(o)
      /\ k \in {"queue", "buffer", "flow"} => ref \in All(o)
      /\ k = "link" => ref[1] \in All(o) /\ ref[2] \in All(o)
      /\ k = "path" => ref \in Seq(Nat) /\ \A i \in 1..Len(ref) : ref[i] \in All(o)
  BY <1>0, RefersToObjects
<1>2. {"path_membership", "queue_on_link", "buffer_on_port", "flow_on_path", "topology_adjacency"}
        \subseteq DOMAIN KindRank
  BY DEF KindRank
<1>3. CASE k = "path"
  <2> DEFINE n == Len(ref)
             members == [i \in DOMAIN ref |-> edge(id, ref[i], "path_membership", "member")]
             hops == [i \in 1..(n - 1) |-> edge(ref[i], ref[i + 1], "path_membership", "upstream")]
  <2>1. n \in Nat /\ DOMAIN ref = 1..n
    BY <1>1, <1>3, LenProperties
  <2>2. members \in [1..n -> Relation(o)]
    BY <1>1, <1>2, <1>3, <2>1 DEF Relation
  <2>3. members \in Seq(Relation(o))
    <3> HIDE DEF members
    <3> QED
      BY <2>1, <2>2, FunIsSeq
  <2>4. hops \in Seq(Relation(o))
    <3>1. CASE n = 0
      <4>1. hops = <<>>
        BY <3>1
      <4> HIDE DEF hops
      <4>2. QED
        BY <4>1, EmptySeq
    <3>2. CASE n # 0
      <4>1. n - 1 \in Nat /\ \A i \in 1..(n - 1) : i \in 1..n /\ i + 1 \in 1..n
        BY <2>1, <3>2
      <4>2. hops \in [1..(n - 1) -> Relation(o)]
        BY <1>1, <1>2, <1>3, <4>1 DEF Relation
      <4> HIDE DEF hops
      <4>3. QED
        BY <4>1, <4>2, FunIsSeq
    <3>3. QED
      BY <3>1, <3>2
  <2>5. Relations(o, k, id) = members \o hops
    BY <1>3 DEF Relations
  <2> HIDE DEF members, hops
  <2>6. QED
    BY <2>3, <2>4, <2>5, ConcatProperties
<1>4. CASE k = "queue"
  <2>1. edge(id, ref, "queue_on_link", "queue") \in Relation(o)
    BY <1>1, <1>2, <1>4 DEF Relation
  <2>2. Relations(o, k, id) = <<edge(id, ref, "queue_on_link", "queue")>>
    BY <1>4 DEF Relations
  <2>3. QED
    BY <2>1, <2>2
<1>5. CASE k = "buffer"
  <2>1. edge(id, ref, "buffer_on_port", "buffer") \in Relation(o)
    BY <1>1, <1>2, <1>5 DEF Relation
  <2>2. Relations(o, k, id) = <<edge(id, ref, "buffer_on_port", "buffer")>>
    BY <1>5 DEF Relations
  <2>3. QED
    BY <2>1, <2>2
<1>6. CASE k = "flow"
  <2>1. edge(id, ref, "flow_on_path", "flow") \in Relation(o)
    BY <1>1, <1>2, <1>6 DEF Relation
  <2>2. Relations(o, k, id) = <<edge(id, ref, "flow_on_path", "flow")>>
    BY <1>6 DEF Relations
  <2>3. QED
    BY <2>1, <2>2
<1>7. CASE k = "link"
  <2> DEFINE ends == [i \in 1..2 |-> edge(id, ref[i], "topology_adjacency", "endpoint")]
  <2>1. ends \in [1..2 -> Relation(o)]
    BY <1>1, <1>2, <1>7 DEF Relation
  <2>2. Relations(o, k, id) = ends
    BY <1>7 DEF Relations
  <2> HIDE DEF ends
  <2>3. QED
    BY <2>1, <2>2, FunIsSeq
<1>8. QED
  BY <1>3, <1>4, <1>5, <1>6, <1>7

LEMMA RelationsOfType ==
  ASSUME NEW o, ObjectsOK(o), NEW k \in {"path", "queue", "buffer", "flow", "link"}
  PROVE  RelationsOf(o, k) \in Seq(Relation(o))
<1> DEFINE S == Present(o, k)
           ids == InOrder(S)
           n == Cardinality(S)
           ss == [i \in DOMAIN ids |-> Relations(o, k, ids[i])]
<1>1. S \in SUBSET Nat /\ IsFiniteSet(S)
  BY Identities DEF Kinds
<1>2. n \in Nat /\ ids \in [1..n -> S]
  <2> HIDE DEF S
  <2> QED
    BY <1>1, InOrderFacts
<1>3. RelationsOf(o, k) = FlattenSeq(ss)
  BY DEF RelationsOf
<1> HIDE DEF ids
<1>4. ss \in [1..n -> Seq(Relation(o))]
  BY <1>2, RelationsType
<1> HIDE DEF ss, n
<1>5. QED
  BY <1>2, <1>3, <1>4, FlattenType

LEMMA StructureType ==
  ASSUME NEW o, ObjectsOK(o)
  PROVE  Structure(o) \in Seq(Relation(o))
<1>1. /\ RelationsOf(o, "path") \in Seq(Relation(o)) /\ RelationsOf(o, "queue") \in Seq(Relation(o))
      /\ RelationsOf(o, "buffer") \in Seq(Relation(o)) /\ RelationsOf(o, "flow") \in Seq(Relation(o))
      /\ RelationsOf(o, "link") \in Seq(Relation(o))
  BY RelationsOfType
<1>2. QED
  BY <1>1 DEF Structure

-----------------------------------------------------------------------------
(***************************************************************************)
(* The reverse indices.                                                    *)
(***************************************************************************)
Ascending(s) == \A i, j \in 1..Len(s) : i < j => s[i] < s[j]
NonDescending(s) == \A i, j \in 1..Len(s) : i < j => s[i] <= s[j]
Has(s, x) == \E i \in 1..Len(s) : s[i] = x

\* The objects with a key.
Owners(keys, key) == {id \in DOMAIN keys : \E j \in DOMAIN keys[id] : keys[id][j] = key}

\* A block of equal elements at the end of a sequence that has none greater.
LEMMA BlockAdded ==
  ASSUME NEW s \in Seq(Nat), NonDescending(s), NEW x \in Nat, NEW n \in Nat,
         \A i \in 1..Len(s) : s[i] <= x
  PROVE  LET t == s \o [j \in 1..n |-> x]
         IN /\ t \in Seq(Nat) /\ NonDescending(t)
            /\ \A y : Has(t, y) <=> Has(s, y) \/ (y = x /\ n > 0)
<1> DEFINE block == [j \in 1..n |-> x]
           t == s \o block
           m == Len(s)
<1>1. /\ block \in Seq(Nat) /\ Len(block) = n /\ \A j \in 1..n : block[j] = x
  <2>1. block \in [1..n -> Nat] /\ \A j \in 1..n : block[j] = x
    OBVIOUS
  <2> HIDE DEF block
  <2>2. QED
    BY <2>1, FunIsSeq
<1> HIDE DEF block
<1>2. m \in Nat /\ \A i \in 1..m : s[i] \in Nat
  BY LenProperties, ElementOfSeq
<1>3. /\ t \in Seq(Nat) /\ Len(t) = m + n
      /\ \A i \in 1..(m + n) : t[i] = IF i <= m THEN s[i] ELSE block[i - m]
  BY <1>1, ConcatProperties
<1> HIDE DEF t
<1>4. ASSUME NEW i \in 1..(m + n)
      PROVE  (i \in 1..m /\ t[i] = s[i]) \/ (i > m /\ n > 0 /\ t[i] = x)
  <2>1. CASE i <= m
    BY <1>2, <1>3, <2>1
  <2>2. CASE i > m
    <3>1. i - m \in 1..n /\ ~(i <= m) /\ n > 0
      BY <1>2, <2>2
    <3>2. QED
      BY <1>1, <1>3, <2>2, <3>1
  <2>3. QED
    BY <1>2, <2>1, <2>2
<1>5. NonDescending(t)
  <2>1. SUFFICES ASSUME NEW i \in 1..(m + n), NEW j \in 1..(m + n), i < j
                 PROVE  t[i] <= t[j]
    BY <1>3 DEF NonDescending
  <2>2. CASE j > m /\ t[j] = x
    BY <1>2, <1>4, <2>2
  <2>3. CASE j \in 1..m /\ t[j] = s[j]
    <3>1. i \in 1..m /\ ~(i > m)
      BY <1>2, <2>1, <2>3
    <3>2. t[i] = s[i]
      BY <1>4, <3>1
    <3>3. QED
      BY <2>1, <2>3, <3>1, <3>2 DEF NonDescending
  <2>4. QED
    BY <1>4, <2>2, <2>3
<1>6. ASSUME NEW y
      PROVE  Has(t, y) <=> Has(s, y) \/ (y = x /\ n > 0)
  <2>1. Has(t, y) => Has(s, y) \/ (y = x /\ n > 0)
    BY <1>3, <1>4 DEF Has
  <2>2. ASSUME Has(s, y) PROVE Has(t, y)
    <3>1. PICK i \in 1..m : s[i] = y
      BY <2>2 DEF Has
    <3>2. i \in 1..(m + n) /\ ~(i > m)
      BY <1>2
    <3>3. QED
      BY <1>3, <1>4, <3>1, <3>2 DEF Has
  <2>3. ASSUME y = x, n > 0 PROVE Has(t, y)
    <3>1. m + 1 \in 1..(m + n) /\ m + 1 \notin 1..m
      BY <1>2, <2>3
    <3>2. QED
      BY <1>3, <1>4, <2>3, <3>1 DEF Has
  <2>4. QED
    BY <2>1, <2>2, <2>3
<1>7. QED
  BY <1>3, <1>5, <1>6 DEF t, block

\* The pushes into one entry: in order, and of every object that has the key.
LEMMA PushedFacts ==
  ASSUME NEW keys, NEW key, DOMAIN keys \in SUBSET Nat, IsFiniteSet(DOMAIN keys),
         \A id \in DOMAIN keys : IsFiniteSet(DOMAIN keys[id])
  PROVE  /\ Pushed(keys, key) \in Seq(Nat) /\ NonDescending(Pushed(keys, key))
         /\ \A x : Has(Pushed(keys, key), x) <=> x \in Owners(keys, key)
<1> DEFINE ids == DOMAIN keys
           n == Cardinality(ids)
           order == InOrder(ids)
           times(id) == Cardinality({j \in DOMAIN keys[id] : keys[id][j] = key})
           ss == [i \in DOMAIN order |-> [j \in 1..times(order[i]) |-> order[i]]]
           P == Pushed(keys, key)
<1>1. /\ n \in Nat /\ order \in [1..n -> ids] /\ \A x \in ids : \E i \in 1..n : order[i] = x
      /\ \A i, j \in 1..n : i < j => order[i] < order[j]
  <2> HIDE DEF ids
  <2> QED
    BY InOrderFacts DEF ids
<1>2. P = FlattenSeq(ss)
  BY DEF Pushed
<1>3. ASSUME NEW id \in ids
      PROVE  times(id) \in Nat /\ (times(id) > 0 <=> id \in Owners(keys, key))
  <2> DEFINE J == {j \in DOMAIN keys[id] : keys[id][j] = key}
  <2>1. IsFiniteSet(J)
    <3>1. J \in SUBSET DOMAIN keys[id]
      OBVIOUS
    <3>2. QED
      BY <3>1, FS_Subset
  <2>2. J # {} <=> id \in Owners(keys, key)
    BY DEF Owners
  <2> HIDE DEF J
  <2>3. Cardinality(J) \in Nat /\ (Cardinality(J) = 0 <=> J = {})
    BY <2>1, FS_CardinalityType, FS_EmptySet
  <2>4. QED
    BY <2>2, <2>3 DEF J
<1> HIDE DEF times, order, n, P
<1>4. /\ Len(ss) = n /\ \A i \in 1..n : ss[i] = [j \in 1..times(order[i]) |-> order[i]]
  <2>1. DOMAIN ss = 1..n /\ \A i \in 1..n : ss[i] = [j \in 1..times(order[i]) |-> order[i]]
    BY <1>1
  <2>2. ss \in [1..n -> {ss[i] : i \in 1..n}]
    BY <1>1
  <2> HIDE DEF ss
  <2>3. QED
    BY <1>1, <2>1, <2>2, FunIsSeq
<1>5. CASE n = 0
  <2>1. P = ss
    BY <1>2, <1>4, <1>5 DEF FlattenSeq
  <2>2. ids = {} /\ ss = <<>>
    BY <1>1, <1>5
  <2> HIDE DEF ss
  <2>3. P \in Seq(Nat) /\ Len(P) = 0
    BY <2>1, <2>2
  <2>4. QED
    BY <2>2, <2>3 DEF NonDescending, Has, Owners, P
<1>6. CASE n # 0
  <2>1. PICK f : /\ f[1] = ss[1]
                 /\ \A i \in 2..n : f[i] = f[i - 1] \o ss[i]
                 /\ P = f[n]
    BY <1>1, <1>2, <1>4, <1>6, FlattenUnfolds
  <2> HIDE DEF ss
  <2> DEFINE good(i, s) ==
               /\ s \in Seq(Nat) /\ NonDescending(s)
               /\ \A x : Has(s, x) <=> \E k \in 1..i : x = order[k] /\ order[k] \in Owners(keys, key)
  <2>2. ASSUME NEW i \in Nat, i + 1 <= n, NEW s, good(i, s)
        PROVE  good(i + 1, s \o ss[i + 1])
    <3>1. i + 1 \in 1..n /\ \A k \in 1..i : k \in 1..n /\ k < i + 1
      BY <1>1, <2>2
    <3>2. /\ order[i + 1] \in ids /\ order[i + 1] \in Nat /\ times(order[i + 1]) \in Nat
          /\ times(order[i + 1]) > 0 <=> order[i + 1] \in Owners(keys, key)
      BY <1>1, <1>3, <3>1
    <3>3. ASSUME NEW p \in 1..Len(s) PROVE s[p] <= order[i + 1]
      <4>1. PICK k \in 1..i : s[p] = order[k]
        BY <2>2 DEF Has
      <4>2. order[k] < order[i + 1] /\ order[k] \in Nat
        BY <1>1, <3>1
      <4>3. QED
        BY <3>2, <4>1, <4>2
    <3>4. ss[i + 1] = [j \in 1..times(order[i + 1]) |-> order[i + 1]]
      BY <1>4, <3>1
    <3>5. /\ s \o ss[i + 1] \in Seq(Nat) /\ NonDescending(s \o ss[i + 1])
          /\ \A y : Has(s \o ss[i + 1], y) <=>
                      Has(s, y) \/ (y = order[i + 1] /\ times(order[i + 1]) > 0)
      <4> DEFINE x == order[i + 1]
                 c == times(order[i + 1])
      <4>1. s \in Seq(Nat) /\ NonDescending(s)
        BY <2>2
      <4>2. x \in Nat /\ c \in Nat /\ \A p \in 1..Len(s) : s[p] <= x
        BY <3>2, <3>3
      <4>3. ss[i + 1] = [j \in 1..c |-> x]
        BY <3>4
      <4> HIDE DEF x, c
      <4> DEFINE t == s \o [j \in 1..c |-> x]
      <4>4. /\ t \in Seq(Nat) /\ NonDescending(t)
            /\ \A y : Has(t, y) <=> Has(s, y) \/ (y = x /\ c > 0)
        BY <4>1, <4>2, BlockAdded, ZenonT(40)
      <4>5. t = s \o ss[i + 1]
        BY <4>3
      <4> HIDE DEF t
      <4>6. QED
        BY <4>4, <4>5 DEF x, c
    <3>6. /\ \A k \in 1..(i + 1) : k \in 1..i \/ k = i + 1
          /\ \A k \in 1..i : k \in 1..(i + 1)
          /\ i + 1 \in 1..(i + 1)
      BY <2>2
    <3>7. \A x : Has(s \o ss[i + 1], x) <=>
                   \E k \in 1..(i + 1) : x = order[k] /\ order[k] \in Owners(keys, key)
      BY <2>2, <3>2, <3>5, <3>6
    <3>8. QED
      BY <3>5, <3>7
  <2>3. good(0, <<>>)
    BY DEF NonDescending, Has
  <2> HIDE DEF good
  <2> DEFINE N == {i \in Nat : i + 1 <= n => good(i + 1, f[i + 1])}
  <2>4. 0 \in N
    <3>1. 1 \in 1..n /\ 0 + 1 <= n
      BY <1>1, <1>6
    <3>2. ss[1] \in Seq(Nat)
      <4>1. order[1] \in Nat /\ times(order[1]) \in Nat
        BY <1>1, <1>3, <3>1
      <4>2. [j \in 1..times(order[1]) |-> order[1]] \in [1..times(order[1]) -> Nat]
        BY <4>1
      <4>3. QED
        BY <1>4, <3>1, <4>1, <4>2, FunIsSeq
    <3>3. <<>> \o ss[1] = ss[1]
      BY <3>2, ConcatEmptySeq
    <3>4. good(0 + 1, <<>> \o ss[0 + 1])
      BY <2>2, <2>3, <3>1
    <3>5. QED
      BY <2>1, <3>3, <3>4
  <2>5. ASSUME NEW i \in Nat, i \in N PROVE i + 1 \in N
    <3>1. SUFFICES ASSUME (i + 1) + 1 <= n PROVE good((i + 1) + 1, f[(i + 1) + 1])
      OBVIOUS
    <3>2. /\ i + 1 \in Nat /\ i + 1 <= n /\ (i + 1) + 1 \in 2..n
          /\ ((i + 1) + 1) - 1 = i + 1
      BY <1>1, <3>1
    <3>3. good(i + 1, f[i + 1]) /\ f[(i + 1) + 1] = f[i + 1] \o ss[(i + 1) + 1]
      BY <2>1, <2>5, <3>2
    <3>4. QED
      BY <2>2, <3>1, <3>2, <3>3
  <2> HIDE DEF N
  <2>6. n - 1 \in Nat /\ (n - 1) + 1 = n
    BY <1>1, <1>6
  <2>7. n - 1 \in N
    BY <2>4, <2>5, <2>6, Inductive
  <2>8. good(n, P)
    BY <2>1, <2>6, <2>7 DEF N
  <2>9. \A x \in Owners(keys, key) : x \in ids
    BY DEF Owners
  <2>10. QED
    BY <1>1, <2>8, <2>9 DEF good, P
<1>7. QED
  BY <1>5, <1>6

\* Of a sequence in order std::unique keeps every value once.
LEMMA UniqueFacts ==
  ASSUME NEW s \in Seq(Nat), NonDescending(s)
  PROVE  /\ Unique(s) \in Seq(Nat) /\ Ascending(Unique(s))
         /\ \A x : Has(Unique(s), x) <=> Has(s, x)
<1> DEFINE n == Len(s)
           P == {i \in 1..n : i = 1 \/ s[i] # s[i - 1]}
           c == Cardinality(P)
           order == InOrder(P)
           u == Unique(s)
<1>1. n \in Nat /\ DOMAIN s = 1..n /\ s \in [1..n -> Nat]
  BY LenProperties, SeqDef, ElementOfSeq
<1>2. u = At(s, P)
  BY <1>1 DEF Unique
<1>3. P \in SUBSET (1..n) /\ \A i \in P : i = 1 \/ s[i] # s[i - 1]
  OBVIOUS
<1>4. ASSUME NEW i \in 1..n, i = 1 \/ s[i] # s[i - 1] PROVE i \in P
  BY <1>4
<1> HIDE DEF P, n, u
<1>5. /\ c \in Nat /\ u \in [1..c -> Nat] /\ order \in [1..c -> P]
      /\ \A i \in 1..c : u[i] = s[order[i]]
      /\ \A i, j \in 1..c : i < j => order[i] < order[j]
      /\ \A p \in P : \E i \in 1..c : order[i] = p
  <2>1. Picks(At(s, P), s, Nat, P, Cardinality(P), InOrder(P))
    BY <1>1, <1>3, AtFacts, Zenon
  <2>2. QED
    BY <1>2, <2>1, Zenon DEF Picks
<1> HIDE DEF order, c
<1>6. u \in Seq(Nat) /\ Len(u) = c
  BY <1>5, FunIsSeq
<1>7. ASSUME NEW i \in 1..c, NEW j \in 1..c, i < j PROVE u[i] < u[j]
  <2>1. /\ order[i] \in 1..n /\ order[j] \in 1..n /\ order[j] \in P /\ order[i] < order[j]
        /\ u[i] = s[order[i]] /\ u[j] = s[order[j]]
    BY <1>3, <1>5, <1>7
  <2> DEFINE p == order[i]
             q == order[j]
  <2> HIDE DEF p, q
  <2>2. p \in 1..n /\ q \in 1..n /\ q \in P /\ p < q
    BY <2>1 DEF p, q
  <2>3. q - 1 \in 1..n /\ q # 1 /\ (p = q - 1 \/ p < q - 1) /\ q - 1 < q
    BY <1>1, <2>2
  <2>4. s[p] \in Nat /\ s[q] \in Nat /\ s[q - 1] \in Nat
    BY <1>1, <2>2, <2>3
  <2>5. s[p] <= s[q - 1] /\ s[q - 1] <= s[q] /\ s[q] # s[q - 1]
    <3>1. s[q] # s[q - 1]
      BY <1>3, <2>2, <2>3
    <3>2. s[q - 1] <= s[q]
      BY <2>2, <2>3 DEF NonDescending, n
    <3>3. p < q - 1 => s[p] <= s[q - 1]
      BY <2>2, <2>3 DEF NonDescending, n
    <3>4. p = q - 1 => s[p] <= s[q - 1]
      BY <2>4
    <3>5. QED
      BY <2>3, <3>1, <3>2, <3>3, <3>4
  <2>6. s[p] < s[q]
    BY <2>4, <2>5
  <2>7. QED
    BY <2>1, <2>6 DEF p, q
<1>8. ASSUME NEW x PROVE Has(u, x) <=> Has(s, x)
  <2>1. ASSUME Has(u, x) PROVE Has(s, x)
    <3>1. PICK i \in 1..c : u[i] = x
      BY <1>6, <2>1 DEF Has
    <3>2. order[i] \in 1..n /\ s[order[i]] = x
      BY <1>3, <1>5, <3>1
    <3>3. QED
      BY <3>2 DEF Has, n
  <2>2. ASSUME Has(s, x) PROVE Has(u, x)
    <3> DEFINE X == {i \in 1..n : s[i] = x}
    <3>1. X # {} /\ X \in SUBSET Nat
      BY <2>2 DEF Has, n
    <3>2. PICK l \in X : \A y \in X : l <= y
      BY <3>1, Least
    <3>3. l \in 1..n /\ s[l] = x
      BY <3>2
    <3>4. l = 1 \/ s[l] # s[l - 1]
      <4>1. CASE l # 1
        <5>1. l - 1 \in 1..n /\ ~(l <= l - 1)
          BY <1>1, <3>3, <4>1
        <5>2. l - 1 \notin X
          BY <3>2, <5>1
        <5>3. QED
          BY <3>3, <5>1, <5>2
      <4>2. QED
        BY <4>1
    <3>5. l \in P
      BY <1>4, <3>3, <3>4
    <3>6. PICK i \in 1..c : order[i] = l
      BY <1>5, <3>5
    <3>7. QED
      BY <1>5, <1>6, <3>3, <3>6 DEF Has
  <2>3. QED
    BY <2>1, <2>2
<1>9. QED
  BY <1>6, <1>7, <1>8 DEF Ascending, u

\* A sequence in order that has no duplicates stays that under std::sort.
LEMMA SortedFacts ==
  ASSUME NEW s \in Seq(Nat), Ascending(s)
  PROVE  /\ Sorted(s) \in Seq(Nat) /\ Ascending(Sorted(s))
         /\ \A x : Has(Sorted(s), x) <=> Has(s, x)
<1> DEFINE n == Len(s)
           sorts(p) == \A i, j \in 1..n : i < j => s[p[i]] <= s[p[j]]
           order == CHOOSE p \in Bijection(1..n, 1..n) : sorts(p)
           t == Sorted(s)
           same == [i \in 1..n |-> i]
<1>1. n \in Nat /\ DOMAIN s = 1..n /\ s \in [1..n -> Nat]
  BY LenProperties, SeqDef, ElementOfSeq
<1>2. t = [i \in 1..n |-> s[order[i]]]
  BY <1>1 DEF Sorted
<1>3. same \in Bijection(1..n, 1..n)
  BY DEF Bijection, Injection, Surjection, IsInjective
<1>4. sorts(same)
  <2>1. SUFFICES ASSUME NEW i \in 1..n, NEW j \in 1..n, i < j PROVE s[i] <= s[j]
    OBVIOUS
  <2>2. s[i] \in Nat /\ s[j] \in Nat /\ s[i] < s[j]
    BY <1>1, <2>1 DEF Ascending
  <2>3. QED
    BY <2>2
<1> HIDE DEF same
<1>5. order \in Bijection(1..n, 1..n) /\ sorts(order)
  <2>1. \E p \in Bijection(1..n, 1..n) : sorts(p)
    BY <1>3, <1>4
  <2> HIDE DEF sorts
  <2>2. QED
    BY <2>1
<1> HIDE DEF order, n, t
<1>6. /\ order \in [1..n -> 1..n]
      /\ \A i, j \in 1..n : order[i] = order[j] => i = j
      /\ \A k \in 1..n : \E i \in 1..n : order[i] = k
  BY <1>5 DEF Bijection, Injection, Surjection, IsInjective
<1>7. t \in [1..n -> Nat] /\ \A i \in 1..n : t[i] = s[order[i]]
  BY <1>1, <1>2, <1>6
<1>8. t \in Seq(Nat) /\ Len(t) = n
  BY <1>1, <1>7, FunIsSeq
<1>9. ASSUME NEW i \in 1..n, NEW j \in 1..n, i < j PROVE t[i] < t[j]
  <2>1. order[i] \in 1..n /\ order[j] \in 1..n /\ s[order[i]] <= s[order[j]]
    BY <1>5, <1>6, <1>9
  <2>2. i # j
    BY <1>1, <1>9
  <2>3. order[i] < order[j] \/ order[j] < order[i]
    BY <1>1, <1>6, <2>1, <2>2
  <2>4. s[order[i]] \in Nat /\ s[order[j]] \in Nat
    BY <1>1, <2>1
  <2>5. s[order[i]] < s[order[j]] \/ s[order[j]] < s[order[i]]
    BY <2>1, <2>3 DEF Ascending, n
  <2>6. s[order[i]] < s[order[j]]
    BY <2>1, <2>4, <2>5
  <2>7. QED
    BY <1>7, <2>6
<1>10. ASSUME NEW x PROVE Has(t, x) <=> Has(s, x)
  <2>1. Has(t, x) <=> \E i \in 1..n : s[order[i]] = x
    BY <1>7, <1>8 DEF Has
  <2>2. Has(s, x) <=> \E k \in 1..n : s[k] = x
    BY DEF Has, n
  <2>3. QED
    BY <1>6, <2>1, <2>2
<1>11. QED
  BY <1>8, <1>9, <1>10 DEF Ascending, t

\* An entry of a reverse index lists the objects with its key.
LEMMA IndexedLists ==
  ASSUME NEW keys, NEW key, DOMAIN keys \in SUBSET Nat, IsFiniteSet(DOMAIN keys),
         \A id \in DOMAIN keys : IsFiniteSet(DOMAIN keys[id])
  PROVE  Lists(Indexed(keys, key), Owners(keys, key))
<1> DEFINE p == Pushed(keys, key)
           u == Unique(p)
           t == Sorted(u)
<1>1. p \in Seq(Nat) /\ NonDescending(p) /\ \A x : Has(p, x) <=> x \in Owners(keys, key)
  BY PushedFacts
<1> HIDE DEF p
<1>2. u \in Seq(Nat) /\ Ascending(u) /\ \A x : Has(u, x) <=> Has(p, x)
  BY <1>1, UniqueFacts
<1> HIDE DEF u
<1>3. t \in Seq(Nat) /\ Ascending(t) /\ \A x : Has(t, x) <=> Has(u, x)
  BY <1>2, SortedFacts
<1>4. Indexed(keys, key) = t
  BY DEF Indexed, t, u, p
<1> HIDE DEF t
<1>5. DOMAIN t = 1..Len(t)
  BY <1>3, LenProperties
<1>6. \A i, j \in DOMAIN t : i < j => t[i] < t[j]
  BY <1>3, <1>5 DEF Ascending
<1>7. \A x : x \in ToSet(t) <=> Has(t, x)
  BY <1>5 DEF ToSet, Has
<1>8. ToSet(t) = Owners(keys, key)
  BY <1>1, <1>2, <1>3, <1>7
<1>9. QED
  BY <1>4, <1>6, <1>8 DEF Lists

-----------------------------------------------------------------------------
\* The hypothesis of IndexedLists, from the keys of every object.
LEMMA Entry ==
  ASSUME NEW o, ObjectsOK(o), NEW k \in Kinds, NEW keys, DOMAIN keys = Present(o, k),
         \A id \in Present(o, k) : \E m \in Nat : DOMAIN keys[id] = 1..m,
         NEW key
  PROVE  Lists(Indexed(keys, key), Owners(keys, key))
<1>1. DOMAIN keys \in SUBSET Nat /\ IsFiniteSet(DOMAIN keys)
  BY Identities
<1>2. \A m \in Nat : IsFiniteSet(1..m)
  BY FS_Interval
<1>3. \A id \in DOMAIN keys : IsFiniteSet(DOMAIN keys[id])
  BY <1>2
<1>4. QED
  BY <1>1, <1>3, IndexedLists

\* The keys of one object each.
LEMMA SingleEntry ==
  ASSUME NEW o, ObjectsOK(o), NEW k \in Kinds, NEW key
  PROVE  Lists(Indexed([id \in Present(o, k) |-> <<o[k][id]>>], key),
               {id \in Present(o, k) : o[k][id] = key})
<1> DEFINE S == Present(o, k)
           keys == [id \in S |-> <<o[k][id]>>]
<1>1. DOMAIN keys = S /\ \A id \in S : DOMAIN keys[id] = 1..1 /\ keys[id][1] = o[k][id]
  OBVIOUS
<1> HIDE DEF keys
<1>2. Owners(keys, key) = {id \in S : o[k][id] = key}
  <2>1. \A j : j \in 1..1 <=> j = 1
    OBVIOUS
  <2> HIDE DEF S
  <2>2. QED
    BY <1>1, <2>1 DEF Owners
<1>3. \A id \in S : \E m \in Nat : DOMAIN keys[id] = 1..m
  BY <1>1
<1>4. Lists(Indexed(keys, key), Owners(keys, key))
  BY <1>1, <1>3, Entry
<1>5. QED
  BY <1>2, <1>4 DEF keys

LEMMA LinksOfNode ==
  ASSUME NEW o, ObjectsOK(o), NEW n
  PROVE  Lists(Indexed([l \in Present(o, "link") |-> LinkNodes(o, l)], n),
               {l \in Present(o, "link") : \E i \in 1..2 : o["port"][o["link"][l][i]] = n})
<1> DEFINE S == Present(o, "link")
           keys == [l \in S |-> LinkNodes(o, l)]
           owners == {l \in S : \E i \in 1..2 : o["port"][o["link"][l][i]] = n}
<1>1. ASSUME NEW l \in S
      PROVE  /\ DOMAIN keys[l] = 1..2
             /\ \A i \in 1..2 : keys[l][i] = o["port"][o["link"][l][i]]
  BY DEF LinkNodes, NodeOf
<1>2. DOMAIN keys = S
  OBVIOUS
<1> HIDE DEF keys, S
<1>3. Owners(keys, n) = owners
  BY <1>1, <1>2 DEF Owners
<1>4. \A l \in S : \E m \in Nat : DOMAIN keys[l] = 1..m
  BY <1>1
<1>5. "link" \in Kinds
  BY DEF Kinds
<1>6. Lists(Indexed(keys, n), Owners(keys, n))
  BY <1>2, <1>4, <1>5, Entry DEF S
<1>7. QED
  BY <1>3, <1>6 DEF keys, S

LEMMA PathsOfLink ==
  ASSUME NEW o, ObjectsOK(o), NEW l
  PROVE  Lists(Indexed([p \in Present(o, "path") |-> o["path"][p]], l),
               {p \in Present(o, "path") : l \in ToSet(o["path"][p])})
<1> DEFINE S == Present(o, "path")
           keys == [p \in S |-> o["path"][p]]
           owners == {p \in S : l \in ToSet(o["path"][p])}
<1>1. \A p \in S : keys[p] = o["path"][p] /\ keys[p] \in Seq(Nat)
  BY DEF ObjectsOK
<1>2. DOMAIN keys = S
  OBVIOUS
<1> HIDE DEF keys, S
<1>3. Owners(keys, l) = owners
  BY <1>1, <1>2 DEF Owners, ToSet
<1>4. \A p \in S : \E m \in Nat : DOMAIN keys[p] = 1..m
  BY <1>1, LenProperties
<1>5. "path" \in Kinds
  BY DEF Kinds
<1>6. Lists(Indexed(keys, l), Owners(keys, l))
  BY <1>2, <1>4, <1>5, Entry DEF S
<1>7. QED
  BY <1>3, <1>6 DEF keys, S

LEMMA IndicesAreExact ==
  ASSUME ObjectsOK(topology.objects), topology = build(topology.objects)
  PROVE  IndicesExact
<1> DEFINE o == topology.objects
           x == topology.index
<1>1. x = Indices(o)
  BY DEF build
<1> HIDE DEF o, x
<1>2. /\ \A n \in Present(o, "node") : x.links_of_node[n] =
           Indexed([l \in Present(o, "link") |-> LinkNodes(o, l)], n)
      /\ \A l \in Present(o, "link") : x.paths_of_link[l] =
           Indexed([p \in Present(o, "path") |-> o["path"][p]], l)
      /\ \A l \in Present(o, "link") : x.queues_of_link[l] =
           Indexed([q \in Present(o, "queue") |-> <<o["queue"][q]>>], l)
      /\ \A p \in Present(o, "path") : x.flows_of_path[p] =
           Indexed([f \in Present(o, "flow") |-> <<o["flow"][f]>>], p)
      /\ \A p \in Present(o, "port") : x.buffers_of_port[p] =
           Indexed([b \in Present(o, "buffer") |-> <<o["buffer"][b]>>], p)
  BY <1>1 DEF Indices
<1>3. "queue" \in Kinds /\ "flow" \in Kinds /\ "buffer" \in Kinds /\ ObjectsOK(o)
  BY DEF Kinds, o
<1>4. ASSUME NEW n \in Present(o, "node")
      PROVE  Lists(x.links_of_node[n],
               {l \in Present(o, "link") : \E i \in 1..2 : o["port"][o["link"][l][i]] = n})
  <2>1. x.links_of_node[n] = Indexed([l \in Present(o, "link") |-> LinkNodes(o, l)], n)
    BY <1>2
  <2>2. Lists(Indexed([l \in Present(o, "link") |-> LinkNodes(o, l)], n),
              {l \in Present(o, "link") : \E i \in 1..2 : o["port"][o["link"][l][i]] = n})
    BY <1>3, LinksOfNode
  <2>3. QED
    BY <2>1, <2>2
<1>5. ASSUME NEW l \in Present(o, "link")
      PROVE  Lists(x.paths_of_link[l], {p \in Present(o, "path") : l \in ToSet(o["path"][p])})
  <2>1. x.paths_of_link[l] = Indexed([p \in Present(o, "path") |-> o["path"][p]], l)
    BY <1>2
  <2>2. QED
    BY <1>3, <2>1, PathsOfLink, Zenon
<1>6. ASSUME NEW l \in Present(o, "link")
      PROVE  Lists(x.queues_of_link[l], {q \in Present(o, "queue") : o["queue"][q] = l})
  <2>1. x.queues_of_link[l] = Indexed([q \in Present(o, "queue") |-> <<o["queue"][q]>>], l)
    BY <1>2
  <2>2. Lists(Indexed([q \in Present(o, "queue") |-> <<o["queue"][q]>>], l),
              {q \in Present(o, "queue") : o["queue"][q] = l})
    BY <1>3, SingleEntry
  <2>3. QED
    BY <2>1, <2>2
<1>7. ASSUME NEW p \in Present(o, "path")
      PROVE  Lists(x.flows_of_path[p], {f \in Present(o, "flow") : o["flow"][f] = p})
  <2>1. x.flows_of_path[p] = Indexed([f \in Present(o, "flow") |-> <<o["flow"][f]>>], p)
    BY <1>2
  <2>2. Lists(Indexed([f \in Present(o, "flow") |-> <<o["flow"][f]>>], p),
              {f \in Present(o, "flow") : o["flow"][f] = p})
    BY <1>3, SingleEntry
  <2>3. QED
    BY <2>1, <2>2
<1>8. ASSUME NEW p \in Present(o, "port")
      PROVE  Lists(x.buffers_of_port[p], {b \in Present(o, "buffer") : o["buffer"][b] = p})
  <2>1. x.buffers_of_port[p] = Indexed([b \in Present(o, "buffer") |-> <<o["buffer"][b]>>], p)
    BY <1>2
  <2>2. Lists(Indexed([b \in Present(o, "buffer") |-> <<o["buffer"][b]>>], p),
              {b \in Present(o, "buffer") : o["buffer"][b] = p})
    BY <1>3, SingleEntry
  <2>3. QED
    BY <2>1, <2>2
<1>9. QED
  BY <1>4, <1>5, <1>6, <1>7, <1>8, Zenon DEF IndicesExact, o, x

-----------------------------------------------------------------------------
(***************************************************************************)
(* The builder.                                                            *)
(***************************************************************************)
LEMMA ReferencesKinds ==
  ASSUME NEW k \in Kinds, NEW ref, NEW r \in References(k, ref)
  PROVE  r[1] \in Kinds
<1>1. {"node", "port", "link", "path"} \subseteq Kinds
  BY DEF Kinds
<1>2. CASE k = "node"
  BY <1>2 DEF References
<1>3. CASE k = "port"
  <2>1. r = <<"node", ref>>
    BY <1>3 DEF References
  <2>2. QED
    BY <1>1, <2>1
<1>4. CASE k = "link"
  <2>1. r = <<"port", ref[1]>> \/ r = <<"port", ref[2]>>
    BY <1>4 DEF References
  <2>2. QED
    BY <1>1, <2>1
<1>5. CASE k = "queue"
  <2>1. r = <<"link", ref>>
    BY <1>5 DEF References
  <2>2. QED
    BY <1>1, <2>1
<1>6. CASE k = "buffer"
  <2>1. r = <<"port", ref>>
    BY <1>6 DEF References
  <2>2. QED
    BY <1>1, <2>1
<1>7. CASE k = "path"
  <2>1. \E l \in ToSet(ref) : r = <<"link", l>>
    BY <1>7 DEF References
  <2>2. QED
    BY <1>1, <2>1
<1>8. CASE k = "flow"
  <2>1. r = <<"path", ref>>
    BY <1>8 DEF References
  <2>2. QED
    BY <1>1, <2>1
<1>9. QED
  BY <1>2, <1>3, <1>4, <1>5, <1>6, <1>7, <1>8 DEF Kinds

\* What is known stays known while objects are added.
LEMMA StaysKnown ==
  ASSUME NEW o, NEW p, \A k \in Kinds : Present(o, k) \subseteq Present(p, k),
         NEW k \in Kinds, NEW ref, Known(o, k, ref)
  PROVE  Known(p, k, ref)
<1>1. SUFFICES ASSUME NEW r \in References(k, ref) PROVE r[2] \in Present(p, r[1])
  BY DEF Known
<1>2. r[1] \in Kinds /\ r[2] \in Present(o, r[1])
  BY ReferencesKinds DEF Known
<1>3. QED
  BY <1>2

LEMMA AddKeeps ==
  ASSUME ObjectsOK(builder), NEW kind \in Kinds, NEW id \in Objects[kind], NEW ref,
         kind = "path" => ref \in Seq(Nat),
         Add(kind, id, ref)
  PROVE  ObjectsOK(builder') /\ UNCHANGED topology
<1> DEFINE old == builder[kind]
           new == [x \in DOMAIN old \cup {id} |-> IF x = id THEN ref ELSE old[x]]
<1>1. /\ builder = [k \in Kinds |-> builder[k]]
      /\ builder' = [builder EXCEPT ![kind] = new]
      /\ Known(builder, kind, ref)
  BY DEF Add, ObjectsOK
<1>2. /\ builder' = [k \in Kinds |-> builder'[k]]
      /\ builder'[kind] = new
      /\ \A k \in Kinds \ {kind} : builder'[k] = builder[k]
  <2> HIDE DEF new
  <2> QED
    BY <1>1
<1>3. DOMAIN new = DOMAIN old \cup {id} /\ new[id] = ref /\ \A x \in DOMAIN old : x = id \/ new[x] = old[x]
  OBVIOUS
<1> HIDE DEF new
<1>4. \A k \in Kinds : Present(builder, k) \subseteq Present(builder', k)
  BY <1>2, <1>3 DEF Present
<1>5. ASSUME NEW k \in Kinds
      PROVE  Present(builder', k) \subseteq Objects[k] /\ IsFiniteSet(Present(builder', k))
  <2>1. Present(builder, k) \subseteq Objects[k] /\ IsFiniteSet(Present(builder, k))
    BY DEF ObjectsOK
  <2>2. CASE k = kind
    <3>1. Present(builder', k) = Present(builder, k) \cup {id}
      BY <1>2, <1>3, <2>2 DEF Present
    <3>2. IsFiniteSet(Present(builder, k) \cup {id})
      BY <2>1, FS_AddElement
    <3>3. QED
      BY <2>1, <2>2, <3>1, <3>2
  <2>3. CASE k # kind
    BY <1>2, <2>1, <2>3 DEF Present
  <2>4. QED
    BY <2>2, <2>3
<1>6. ASSUME NEW k \in Kinds, NEW x \in Present(builder', k)
      PROVE  (k = kind /\ builder'[k][x] = ref) \/ (x \in Present(builder, k) /\ builder'[k][x] = builder[k][x])
  BY <1>2, <1>3 DEF Present
<1>7. ASSUME NEW k \in Kinds, NEW x \in Present(builder', k)
      PROVE  Known(builder', k, builder'[k][x])
  <2>1. CASE k = kind /\ builder'[k][x] = ref
    BY <1>1, <1>4, <2>1, StaysKnown
  <2>2. CASE x \in Present(builder, k) /\ builder'[k][x] = builder[k][x]
    <3>1. Known(builder, k, builder[k][x])
      BY <2>2 DEF ObjectsOK
    <3>2. QED
      BY <1>4, <2>2, <3>1, StaysKnown
  <2>3. QED
    BY <1>6, <2>1, <2>2
<1>8. ASSUME NEW p \in Present(builder', "path") PROVE builder'["path"][p] \in Seq(Nat)
  <2>1. "path" \in Kinds
    BY DEF Kinds
  <2>2. QED
    BY <1>6, <2>1 DEF ObjectsOK
<1>9. QED
  BY <1>2, <1>5, <1>7, <1>8 DEF ObjectsOK, Add

\* One call of the builder.
LEMMA TopologyNextKeeps ==
  ASSUME ObjectsOK(builder), TopologyNext
  PROVE  ObjectsOK(builder') /\ UNCHANGED topology
<1> DEFINE goal == ObjectsOK(builder') /\ UNCHANGED topology
<1>1. {"node", "port", "link", "queue", "buffer", "path", "flow"} \subseteq Kinds
  BY DEF Kinds
<1>2. ASSUME NEW id \in Objects["node"], NEW n \in Labels, add_node(id, n) PROVE goal
  BY <1>1, <1>2, AddKeeps DEF add_node
<1>3. ASSUME NEW id \in Objects["port"], NEW n \in Objects["node"], add_port(id, n) PROVE goal
  BY <1>1, <1>3, AddKeeps DEF add_port
<1>4. ASSUME NEW id \in Objects["link"], NEW e \in Endpoints, add_link(id, e[1], e[2]) PROVE goal
  BY <1>1, <1>4, AddKeeps DEF add_link
<1>5. ASSUME NEW id \in Objects["queue"], NEW l \in Objects["link"], NEW s \in Shares,
             add_queue(id, l, s)
      PROVE  goal
  BY <1>1, <1>5, AddKeeps DEF add_queue
<1>6. ASSUME NEW id \in Objects["buffer"], NEW p \in Objects["port"], add_buffer(id, p) PROVE goal
  BY <1>1, <1>6, AddKeeps DEF add_buffer
<1>7. ASSUME NEW id \in Objects["path"], NEW h \in Hops, add_path(id, h) PROVE goal
  <2>1. h \in Seq(Nat)
    BY TopologyAssumption
  <2>2. QED
    BY <1>1, <1>7, <2>1, AddKeeps DEF add_path
<1>8. ASSUME NEW id \in Objects["flow"], NEW p \in Objects["path"], add_flow(id, p) PROVE goal
  BY <1>1, <1>8, AddKeeps DEF add_flow
<1> HIDE DEF goal
<1>9. goal
  BY <1>2, <1>3, <1>4, <1>5, <1>6, <1>7, <1>8 DEF TopologyNext
<1>10. QED
  BY <1>9 DEF goal

LEMMA NoObjects ==
  ASSUME NEW o, o = [k \in Kinds |-> <<>>]
  PROVE  ObjectsOK(o) /\ \A k \in Kinds : Present(o, k) = {}
<1>1. \A k \in Kinds : o[k] = <<>>
  OBVIOUS
<1>2. DOMAIN <<>> = {}
  OBVIOUS
<1>3. \A k \in Kinds : Present(o, k) = {}
  BY <1>1, <1>2 DEF Present
<1>4. "path" \in Kinds
  BY DEF Kinds
<1>5. o = [k \in Kinds |-> o[k]]
  OBVIOUS
<1>6. QED
  BY <1>3, <1>4, <1>5, FS_EmptySet DEF ObjectsOK

-----------------------------------------------------------------------------
(***************************************************************************)
(* The invariant is kept.                                                  *)
(***************************************************************************)
\* What a rebuild yields: a graph that is whole, unless it failed.
LEMMA RebuiltFacts ==
  ASSUME NEW o, ObjectsOK(o)
  PROVE  /\ Structure(o) \in Seq(Relation(o))
         /\ Sound(Structure(o), Len(Structure(o)), Rebuilt(o))
<1> DEFINE rels == Structure(o)
           b == LinkEdges(rels)
<1>1. rels \in Seq(Relation(o))
  BY StructureType
<1>2. Rebuilt(o) = b
  BY DEF Rebuilt
<1> HIDE DEF rels, b
<1>3. Len(rels) \in Nat /\ \A i \in 1..Len(rels) : rels[i] \in Relation(o)
  BY <1>1, LenProperties, ElementOfSeq
<1>4. \A i \in 1..Len(rels) : rels[i].from \in Nat /\ rels[i].to \in Nat
  BY <1>3, Identities DEF Relation
<1>5. Sound(rels, Len(rels), b)
  BY <1>3, <1>4, LoopSound DEF b
<1>6. QED
  BY <1>1, <1>2, <1>5 DEF rels

\* A query returns some of the records that match.
LEMMA QueryFacts ==
  ASSUME NEW matching
  PROVE  \A r \in query(matching) : r \in matching
BY DEF query

\* An edge cites records that report its cause.
Reported(e, o) ==
  /\ \E relation \in ToSet(Structure(o)) : SameKey(e, relation)
  /\ e.citations # {}
  /\ \A id \in e.citations :
       \E r \in records : r.id = id /\ Advertises(r) /\ r.subject = e.from

LEMMA ReportedOnly ==
  StructureIsReported <=> \A e \in graph.edges : e.rule # "claim" => Reported(e, built_from)
BY DEF StructureIsReported, Reported

LEMMA RebuiltReported ==
  ASSUME NEW o, ObjectsOK(o)
  PROVE  /\ GraphOK(Rebuilt(o).graph)
         /\ \A e \in Rebuilt(o).graph.edges : Reported(e, o)
<1> DEFINE rels == Structure(o)
           b == Rebuilt(o)
<1>1. rels \in Seq(Relation(o)) /\ Sound(rels, Len(rels), b)
  BY RebuiltFacts
<1>2. DOMAIN rels = 1..Len(rels)
  <2> HIDE DEF rels
  <2> QED
    BY <1>1, LenProperties
<1> HIDE DEF b
<1>3. ASSUME NEW e \in b.graph.edges PROVE Reported(e, o)
  <2> HIDE DEF rels
  <2>1. PICK j \in 1..Len(rels) : /\ SameKey(e, rels[j])
                                  /\ e.citations = citations_for(query(records), rels[j].from)
                                  /\ e.citations # {}
    BY <1>1 DEF Sound
  <2>2. rels[j] \in ToSet(rels) /\ e.from = rels[j].from
    BY <1>2, <2>1 DEF ToSet, SameKey
  <2>3. \A id \in e.citations :
          \E r \in query(records) : r.id = id /\ Advertises(r) /\ r.subject = e.from
    BY <2>1, <2>2 DEF citations_for
  <2>4. QED
    BY <2>1, <2>2, <2>3, QueryFacts DEF Reported, rels
<1>4. QED
  BY <1>1, <1>3 DEF Sound, b

\* The records stay what they are.
LEMMA SameRecords ==
  ASSUME by_subject' = by_subject
  PROVE  records' = records /\ (StoreOK => StoreOK')
<1>1. records' = records
  BY DEF records
<1>2. QED
  BY <1>1 DEF StoreOK

\* A rebuild keeps the graph, with the topology it was made of, or replaces both.
LEMMA RebuildsKeeps ==
  ASSUME NEW o, ObjectsOK(o), Rebuilds(o), by_subject' = by_subject,
         GraphOK(graph), StructureIsReported
  PROVE  GraphOK(graph') /\ StructureIsReported'
<1> DEFINE b == Rebuilt(o)
<1>1. /\ graph' = IF b.ok THEN b.graph ELSE graph
      /\ built_from' = IF b.ok THEN o ELSE built_from
  BY DEF Rebuilds
<1>2. records' = records
  BY SameRecords
<1>3. \A e, x : Reported(e, x)' <=> Reported(e, x)
  BY <1>2 DEF Reported
<1>4. GraphOK(b.graph) /\ \A e \in b.graph.edges : Reported(e, o)
  BY RebuiltReported
<1>5. \A e \in graph.edges : e.rule # "claim" => Reported(e, built_from)
  BY ReportedOnly
<1> HIDE DEF b
<1>6. \A e \in graph'.edges : e.rule # "claim" => Reported(e, built_from')
  <2>1. CASE b.ok
    BY <1>1, <1>4, <2>1
  <2>2. CASE ~b.ok
    BY <1>1, <1>5, <2>2
  <2>3. QED
    BY <2>1, <2>2
<1>7. StructureIsReported'
  <2>1. \A e \in graph'.edges : e.rule # "claim" =>
          /\ \E relation \in ToSet(Structure(built_from')) : SameKey(e, relation)
          /\ e.citations # {}
          /\ \A id \in e.citations :
               \E r \in records' : r.id = id /\ Advertises(r) /\ r.subject = e.from
    BY <1>2, <1>6 DEF Reported
  <2>2. QED
    BY <2>1 DEF StructureIsReported
<1>8. QED
  BY <1>1, <1>4, <1>7

\* Steps that leave the graph alone and lose no record.
LEMMA StaysReported ==
  ASSUME StructureIsReported, UNCHANGED <<graph, built_from>>, records \subseteq records'
  PROVE  StructureIsReported'
<1>1. \A e \in graph.edges : e.rule # "claim" => Reported(e, built_from)
  BY ReportedOnly
<1>2. \A e \in graph'.edges : e.rule # "claim" =>
        /\ \E relation \in ToSet(Structure(built_from')) : SameKey(e, relation)
        /\ e.citations # {}
        /\ \A id \in e.citations :
             \E r \in records' : r.id = id /\ Advertises(r) /\ r.subject = e.from
  BY <1>1 DEF Reported
<1>3. QED
  BY <1>2 DEF StructureIsReported

LEMMA InitInv == Init => LocalizationInv
<1>1. SUFFICES ASSUME Init PROVE LocalizationInv
  OBVIOUS
<1>2. ObjectsOK(builder) /\ topology = NoTopology
  BY <1>1, NoObjects DEF Init, TopologyInit
<1>3. /\ graph = EmptyGraph /\ by_subject = [s \in Subjects |-> <<>>] /\ search = Nothing
      /\ claims = 0
  BY <1>1 DEF Init
<1>4. graph.edges = {} /\ GraphOK(graph)
  BY <1>3, EmptyGraphOK DEF EmptyGraph
<1>5. claims \in 0..MaxClaims
  BY <1>3, LocalizationAssumption
<1>6. StoreOK
  <2>1. \A s \in Subjects : by_subject[s] = <<>>
    BY <1>3
  <2>2. ToSet(<<>>) = {} /\ <<>> \in Seq(Pool) /\ Len(<<>>) = 0
    BY DEF ToSet
  <2>3. by_subject \in [Subjects -> Seq(Pool)]
    BY <1>3, <2>2
  <2>4. records = {}
    BY <2>1, <2>2 DEF records
  <2>5. \A s \in Subjects : \A i : i \notin 1..Len(by_subject[s])
    BY <2>1, <2>2
  <2>6. QED
    BY <2>3, <2>4, <2>5, FS_EmptySet DEF StoreOK
<1>7. QED
  BY <1>2, <1>3, <1>4, <1>5, <1>6 DEF LocalizationInv, TopologyInv, StructureIsReported

\* The objects of a topology that may be admitted, and of the one that is.
LEMMA AdmissibleOK ==
  ASSUME LocalizationInv, NEW o \in {builder} \cup Replacements
  PROVE  ObjectsOK(o)
<1>1. CASE o = builder
  BY <1>1 DEF LocalizationInv, TopologyInv
<1>2. CASE o \in Replacements
  BY <1>2, LocalizationAssumption DEF Holdable, ObjectsOK
<1>3. QED
  BY <1>1, <1>2

LEMMA AdmittedOK == ASSUME TopologyInv PROVE ObjectsOK(topology.objects)
<1>1. CASE topology = NoTopology
  BY <1>1, NoObjects DEF NoTopology
<1>2. CASE topology # NoTopology
  BY <1>2 DEF TopologyInv
<1>3. QED
  BY <1>1, <1>2

LEMMA AdmitKeeps ==
  ASSUME LocalizationInv, NEW o \in {builder} \cup Replacements, admit_topology(o)
  PROVE  LocalizationInv'
<1>1. /\ search = Nothing /\ topology' = build(o) /\ builder' = NoTopology.objects
      /\ Rebuilds(o) /\ UNCHANGED <<by_subject, claims, search>>
  BY DEF admit_topology
<1>2. /\ StoreOK /\ claims \in 0..MaxClaims /\ GraphOK(graph) /\ StructureIsReported
  BY DEF LocalizationInv
<1>3. ObjectsOK(o)
  BY AdmissibleOK
<1>4. topology'.objects = o /\ topology' = build(topology'.objects)
  BY <1>1 DEF build
<1>5. ObjectsOK(builder')
  BY <1>1, NoObjects DEF NoTopology
<1>6. TopologyInv'
  BY <1>3, <1>4, <1>5 DEF TopologyInv
<1>7. GraphOK(graph') /\ StructureIsReported'
  BY <1>1, <1>2, <1>3, RebuildsKeeps
<1>8. StoreOK'
  BY <1>1, <1>2, SameRecords
<1>9. QED
  BY <1>1, <1>2, <1>6, <1>7, <1>8 DEF LocalizationInv

LEMMA RebuildKeeps == LocalizationInv /\ rebuild_causal_graph => LocalizationInv'
<1>1. SUFFICES ASSUME LocalizationInv, rebuild_causal_graph PROVE LocalizationInv'
  OBVIOUS
<1>2. /\ search = Nothing /\ Rebuilds(topology.objects)
      /\ UNCHANGED <<builder, topology, by_subject, claims, search>>
  BY <1>1 DEF rebuild_causal_graph
<1>3. /\ TopologyInv /\ StoreOK /\ claims \in 0..MaxClaims
      /\ GraphOK(graph) /\ StructureIsReported
  BY <1>1 DEF LocalizationInv
<1>4. ObjectsOK(topology.objects)
  BY <1>3, AdmittedOK
<1>5. GraphOK(graph') /\ StructureIsReported'
  BY <1>2, <1>3, <1>4, RebuildsKeeps
<1>6. StoreOK'
  BY <1>2, <1>3, SameRecords
<1>7. TopologyInv'
  BY <1>2, <1>3 DEF TopologyInv
<1>8. QED
  BY <1>2, <1>3, <1>5, <1>6, <1>7 DEF LocalizationInv

LEMMA OnePlaceElse ==
  ASSUME NEW S, NEW T, NEW f \in [S -> T], NEW s \in S, NEW v \in T, NEW g,
         g = [f EXCEPT ![s] = v]
  PROVE  g \in [S -> T]
  OBVIOUS

LEMMA OneMoreAtTheEnd ==
  ASSUME NEW A, NEW old \in Seq(A), NEW v \in A
  PROVE  /\ Append(old, v) \in Seq(A) /\ Len(Append(old, v)) = Len(old) + 1
         /\ \A i \in 1..Len(old) : Append(old, v)[i] = old[i]
         /\ Append(old, v)[Len(old) + 1] = v
  BY AppendProperties

LEMMA SetGrows ==
  ASSUME NEW A, NEW old \in Seq(A), NEW v \in A
  PROVE  ToSet(Append(old, v)) = ToSet(old) \cup {v}
<1>1. /\ Append(old, v) \in Seq(A) /\ Len(Append(old, v)) = Len(old) + 1
      /\ \A i \in 1..Len(old) : Append(old, v)[i] = old[i]
      /\ Append(old, v)[Len(old) + 1] = v
  BY OneMoreAtTheEnd
<1>2. DOMAIN Append(old, v) = 1..(Len(old) + 1) /\ DOMAIN old = 1..Len(old) /\ Len(old) \in Nat
  BY <1>1, LenProperties
<1>3. ToSet(Append(old, v)) \subseteq ToSet(old) \cup {v}
  BY <1>1, <1>2 DEF ToSet
<1>4. ToSet(old) \subseteq ToSet(Append(old, v))
  BY <1>1, <1>2 DEF ToSet
<1>5. v \in ToSet(Append(old, v))
  BY <1>1, <1>2 DEF ToSet
<1>6. QED
  BY <1>3, <1>4, <1>5

\* A record more, at the end of those of its subject.
LEMMA StoreGrows ==
  ASSUME StoreOK, NEW r \in Pool, r \notin records, r.subject \in Subjects,
         by_subject' = [by_subject EXCEPT ![r.subject] = Append(@, r)]
  PROVE  StoreOK' /\ records \subseteq records'
<1> DEFINE x == r.subject
           held == by_subject[x]
           n == Len(held)
<1>1. by_subject \in [Subjects -> Seq(Pool)] /\ held \in Seq(Pool) /\ x \in Subjects
  BY DEF StoreOK
<1>2. /\ by_subject'[x] = Append(held, r)
      /\ \A s \in Subjects : s # x => by_subject'[s] = by_subject[s]
      /\ DOMAIN by_subject' = Subjects
  BY <1>1
<1>3. n \in Nat /\ DOMAIN held = 1..n
  <2> HIDE DEF held
  <2> QED
    BY <1>1, LenProperties
<1>4. /\ by_subject' = [by_subject EXCEPT ![x] = Append(held, r)]
      /\ Append(held, r) \in Seq(Pool) /\ Len(Append(held, r)) = n + 1
      /\ \A i \in 1..n : Append(held, r)[i] = held[i]
      /\ Append(held, r)[n + 1] = r
  <2>1. by_subject' = [by_subject EXCEPT ![x] = Append(held, r)]
    OBVIOUS
  <2> HIDE DEF held, n
  <2>2. /\ Append(held, r) \in Seq(Pool) /\ Len(Append(held, r)) = Len(held) + 1
        /\ \A i \in 1..Len(held) : Append(held, r)[i] = held[i]
        /\ Append(held, r)[Len(held) + 1] = r
    BY <1>1, OneMoreAtTheEnd
  <2>3. n = Len(held)
    BY DEF n
  <2>4. QED
    BY <2>1, <2>2, <2>3, Zenon
<1>5. by_subject' \in [Subjects -> Seq(Pool)]
  <2> DEFINE more == Append(held, r)
  <2>1. by_subject' = [by_subject EXCEPT ![x] = more] /\ more \in Seq(Pool)
    BY <1>4
  <2> HIDE DEF more, x, held
  <2>2. QED
    BY <1>1, <2>1, OnePlaceElse
<1>6. /\ \A i, j \in 1..n : held[i].subject = x /\ (i # j => held[i] # held[j])
      /\ \A s \in Subjects : \A i, j \in 1..Len(by_subject[s]) :
           by_subject[s][i].subject = s /\ (i # j => by_subject[s][i] # by_subject[s][j])
  BY DEF StoreOK
<1>7. \A i \in 1..n : held[i] # r
  <2>1. ToSet(held) \subseteq records
    BY <1>1 DEF records
  <2> HIDE DEF held
  <2>2. \A i \in 1..n : held[i] \in ToSet(held)
    BY <1>3 DEF ToSet
  <2>3. QED
    BY <2>1, <2>2
<1>8. ToSet(by_subject'[x]) = ToSet(held) \cup {r}
  <2>1. by_subject'[x] = Append(held, r)
    BY <1>2
  <2> HIDE DEF held, x
  <2>2. ToSet(Append(held, r)) = ToSet(held) \cup {r}
    BY <1>1, SetGrows
  <2>3. QED
    BY <2>1, <2>2, Zenon
<1>9. records' = records \cup {r}
  <2> DEFINE H(s) == ToSet(by_subject[s])
             K(s) == ToSet(by_subject'[s])
  <2>1. records = UNION {H(s) : s \in Subjects} /\ records' = UNION {K(s) : s \in Subjects}
    BY DEF records, Subjects
  <2>2. K(x) = H(x) \cup {r} /\ \A s \in Subjects : s # x => K(s) = H(s)
    BY <1>2, <1>8
  <2> HIDE DEF H, K, x
  <2>3. \A y \in records' : y \in records \cup {r}
    BY <1>1, <2>1, <2>2
  <2>4. \A y \in records \cup {r} : y \in records'
    BY <1>1, <2>1, <2>2
  <2>5. QED
    BY <2>3, <2>4
<1>10. x \in Nat
  BY <1>1, TopologyAssumption DEF Subjects
<1>11. ASSUME NEW s \in Subjects, NEW i \in 1..Len(by_subject'[s]), NEW j \in 1..Len(by_subject'[s])
       PROVE  by_subject'[s][i].subject = s /\ (i # j => by_subject'[s][i] # by_subject'[s][j])
  <2>1. CASE s # x
    BY <1>2, <1>6, <2>1
  <2>2. CASE s = x
    <3> DEFINE more == Append(held, r)
    <3>1. by_subject'[s] = more /\ Len(more) = n + 1
          /\ (\A k \in 1..n : more[k] = held[k]) /\ more[n + 1] = r /\ r.subject = x
      BY <1>2, <1>4, <2>2
    <3>2. (i \in 1..n \/ i = n + 1) /\ (j \in 1..n \/ j = n + 1)
      BY <1>3, <3>1
    <3> HIDE DEF more, held, x, n
    <3>3. more[i].subject = x
      BY <1>6, <3>1, <3>2
    <3>4. i # j => more[i] # more[j]
      BY <1>6, <1>7, <3>1, <3>2
    <3>5. QED
      BY <2>2, <3>1, <3>3, <3>4
  <2>3. QED
    BY <2>1, <2>2
<1>12. records' \subseteq Pool /\ IsFiniteSet(records') /\ \A y \in records' : y.subject \in Nat
  BY <1>9, <1>10, FS_AddElement DEF StoreOK
<1>13. QED
  BY <1>5, <1>9, <1>11, <1>12 DEF StoreOK

LEMMA ObserveKeeps ==
  ASSUME LocalizationInv, NEW r \in Pool, observe(r)
  PROVE  LocalizationInv'
<1>1. /\ search = Nothing /\ r \notin records /\ contains(topology, r.subject)
      /\ by_subject' = [by_subject EXCEPT ![r.subject] = Append(@, r)]
      /\ UNCHANGED <<builder, topology, graph, built_from, claims, search>>
  BY DEF observe
<1>2. /\ TopologyInv /\ StoreOK /\ claims \in 0..MaxClaims
      /\ GraphOK(graph) /\ StructureIsReported
  BY DEF LocalizationInv
<1>3. r.subject \in Subjects
  <2>1. ObjectsOK(topology.objects)
    BY <1>2, AdmittedOK
  <2>2. PICK k \in Kinds : r.subject \in Present(topology.objects, k)
    BY <1>1 DEF contains
  <2>3. QED
    BY <2>1, <2>2 DEF ObjectsOK, Subjects
<1>4. StoreOK' /\ records \subseteq records'
  BY <1>1, <1>2, <1>3, StoreGrows
<1>5. StructureIsReported'
  BY <1>1, <1>2, <1>4, StaysReported
<1>6. TopologyInv'
  BY <1>1, <1>2 DEF TopologyInv
<1>7. QED
  BY <1>1, <1>2, <1>4, <1>5, <1>6 DEF LocalizationInv

LEMMA ClaimKeeps ==
  ASSUME LocalizationInv, NEW e \in Claims, add_causal_edge(e)
  PROVE  LocalizationInv'
<1>1. /\ search = Nothing /\ claims < MaxClaims
      /\ claims' = claims \/ claims' = claims + 1
      /\ graph' = add_edge(graph, e).graph
      /\ UNCHANGED <<builder, topology, by_subject, built_from, search>>
  BY DEF add_causal_edge
<1>2. /\ TopologyInv /\ StoreOK /\ claims \in 0..MaxClaims
      /\ GraphOK(graph) /\ StructureIsReported
  BY DEF LocalizationInv
<1>3. e.from \in Nat /\ e.to \in Nat /\ e.rule = "claim" /\ MaxClaims \in Nat
  BY LocalizationAssumption
<1>4. GraphOK(graph') /\ \A d \in graph'.edges : d \in graph.edges \/ d = e
  BY <1>1, <1>2, <1>3, EdgeAdded
<1>5. StructureIsReported' /\ StoreOK'
  <2>1. records' = records /\ StoreOK'
    BY <1>1, <1>2, SameRecords
  <2>2. \A d \in graph'.edges : d.rule # "claim" => Reported(d, built_from)
    BY <1>2, <1>3, <1>4, ReportedOnly
  <2>3. \A d \in graph'.edges : d.rule # "claim" =>
          /\ \E relation \in ToSet(Structure(built_from')) : SameKey(d, relation)
          /\ d.citations # {}
          /\ \A id \in d.citations :
               \E r \in records' : r.id = id /\ Advertises(r) /\ r.subject = d.from
    BY <1>1, <2>1, <2>2 DEF Reported
  <2>4. QED
    BY <2>1, <2>3 DEF StructureIsReported
<1>6. TopologyInv'
  BY <1>1, <1>2 DEF TopologyInv
<1>7. claims' \in 0..MaxClaims
  BY <1>1, <1>2, <1>3
<1>8. QED
  BY <1>1, <1>2, <1>4, <1>5, <1>6, <1>7 DEF LocalizationInv

\* Steps that change neither topology nor graph.
LEMMA SearchKeeps ==
  ASSUME LocalizationInv,
         UNCHANGED <<builder, topology, by_subject, graph, built_from, claims>>,
         search' # Nothing => WalkInv(graph, search') /\ WindowSeen(search')
  PROVE  LocalizationInv'
<1>1. records' = records /\ StoreOK'
  BY SameRecords DEF LocalizationInv
<1>2. StructureIsReported'
  BY <1>1, StaysReported DEF LocalizationInv
<1>3. TopologyInv'
  BY DEF LocalizationInv, TopologyInv
<1>4. search' # Nothing => WindowSeen(search)'
  BY <1>1 DEF WindowSeen
<1>5. QED
  BY <1>1, <1>2, <1>3, <1>4 DEF LocalizationInv

LEMMA LocalizeKeeps ==
  ASSUME LocalizationInv, NEW symptom \in Symptoms, NEW asserted \in BOOLEAN,
         localize(symptom, asserted)
  PROVE  LocalizationInv'
<1> DEFINE w == query({r \in records : InWindow(r)})
           begun == [symptom |-> symptom, reached |-> <<>>, depth_limited |-> FALSE,
                     queue |-> <<[node |-> symptom, depth |-> 0]>>, window |-> w]
<1>1. search = Nothing /\ UNCHANGED <<builder, topology, by_subject, graph, built_from, claims>>
  BY DEF localize
<1>2. search' = begun \/ search' = search
  BY DEF localize
<1>3. \A r \in w : r \in records /\ InWindow(r)
  BY QueryFacts
<1> HIDE DEF w
<1>4. WalkInv(graph, begun)
  BY LocalizationAssumption, WalkBegins
<1>5. WindowSeen(begun)
  BY <1>3 DEF WindowSeen
<1> HIDE DEF begun
<1>6. QED
  BY <1>1, <1>2, <1>4, <1>5, SearchKeeps

LEMMA WalkKeeps == LocalizationInv /\ Walk => LocalizationInv'
<1>1. SUFFICES ASSUME LocalizationInv, Walk PROVE LocalizationInv'
  OBVIOUS
<1>2. /\ search # Nothing /\ search.queue # <<>> /\ search' = Turn(graph, search)
      /\ UNCHANGED <<builder, topology, by_subject, graph, built_from, claims>>
  BY <1>1 DEF Walk
<1>3. WalkInv(graph, search) /\ WindowSeen(search)
  BY <1>1, <1>2 DEF LocalizationInv
<1>4. WalkInv(graph, search')
  BY <1>1, <1>2, TurnKeeps DEF LocalizationInv
<1>5. search'.window = search.window
  BY <1>2, <1>3 DEF WalkInv, SearchOK, Turn
<1>6. WindowSeen(search')
  BY <1>3, <1>5 DEF WindowSeen
<1>7. QED
  BY <1>1, <1>2, <1>4, <1>6, SearchKeeps

LEMMA NextKeeps == LocalizationInv /\ [Next]_vars => LocalizationInv'
<1>1. SUFFICES ASSUME LocalizationInv, [Next]_vars PROVE LocalizationInv'
  OBVIOUS
<1>2. ASSUME TopologyNext, UNCHANGED <<by_subject, graph, built_from, claims, search, result>>,
             topology = NoTopology
      PROVE  LocalizationInv'
  <2>1. ObjectsOK(builder') /\ topology' = topology
    BY <1>1, <1>2, TopologyNextKeeps DEF LocalizationInv, TopologyInv
  <2>2. TopologyInv'
    BY <1>2, <2>1 DEF TopologyInv
  <2>3. records' = records /\ StoreOK'
    BY <1>1, <1>2, SameRecords DEF LocalizationInv
  <2>4. StructureIsReported'
    BY <1>1, <1>2, <2>3, StaysReported DEF LocalizationInv
  <2>5. search' # Nothing => WalkInv(graph', search') /\ WindowSeen(search)'
    BY <1>1, <1>2, <2>3 DEF LocalizationInv, WindowSeen
  <2>6. QED
    BY <1>1, <1>2, <2>2, <2>3, <2>4, <2>5 DEF LocalizationInv
<1>3. CASE Conclude
  <2>1. search' = Nothing /\ UNCHANGED <<builder, topology, by_subject, graph, built_from, claims>>
    BY <1>3 DEF Conclude
  <2>2. QED
    BY <1>1, <2>1, SearchKeeps
<1>4. CASE UNCHANGED vars
  <2>1. UNCHANGED <<builder, topology, by_subject, graph, built_from, claims>> /\ search' = search
    BY <1>4 DEF vars
  <2>2. QED
    BY <1>1, <2>1, SearchKeeps DEF LocalizationInv
<1>5. QED
  BY <1>1, <1>2, <1>3, <1>4, AdmitKeeps, RebuildKeeps, ObserveKeeps, ClaimKeeps, LocalizeKeeps,
     WalkKeeps DEF Next

\* What the invariant says of the topology, the graph and a finished walk.
LEMMA InvImplies == LocalizationInv => StructureInv /\ WalkIsExact
<1>1. SUFFICES ASSUME LocalizationInv PROVE StructureInv /\ WalkIsExact
  OBVIOUS
<1>2. TypeOK
  BY <1>1 DEF LocalizationInv, StoreOK, TopologyInv, ObjectsOK, GraphOK, TypeOK
<1>3. NothingDangles
  BY <1>1 DEF LocalizationInv, TopologyInv, ObjectsOK, Known, NothingDangles
<1>4. IndicesExact
  <2>1. CASE topology = NoTopology
    BY <2>1 DEF IndicesExact
  <2>2. CASE topology # NoTopology
    BY <1>1, <2>2, IndicesAreExact DEF LocalizationInv, TopologyInv
  <2>3. QED
    BY <2>1, <2>2
<1>5. StructureIsReported
  BY <1>1 DEF LocalizationInv
<1>6. WalkIsExact
  <2>1. SUFFICES ASSUME search # Nothing, search.queue = <<>>
                 PROVE  LET level == Upstream(graph, search.symptom)
                        IN /\ DOMAIN search.reached = level[localization_policy.max_depth] \ {search.symptom}
                           /\ \A n \in DOMAIN search.reached :
                                search.reached[n].depth = Min({k \in DOMAIN level : n \in level[k]})
    BY DEF WalkIsExact
  <2>2. WalkInv(graph, search)
    BY <1>1, <2>1 DEF LocalizationInv
  <2>3. QED
    BY <2>1, <2>2, WalkEnds
<1>7. QED
  BY <1>2, <1>3, <1>4, <1>5, <1>6 DEF StructureInv

LEMMA AlwaysInv == Spec => []LocalizationInv
<1>1. QED
  BY InitInv, NextKeeps, PTL DEF Spec

(***************************************************************************)
(* For every fabric and every order of calls, replaced topologies and      *)
(* rebuilds that fail included: references never dangle, the reverse       *)
(* indices are exact, the graph stays within its limits, and its           *)
(* structural edges are relations of the topology it was built from that   *)
(* a record reports.                                                       *)
(***************************************************************************)
THEOREM StructureHolds == Spec => []StructureInv
BY AlwaysInv, InvImplies, PTL

(***************************************************************************)
(* For every graph, cycles included, and every max_depth, the walk from a  *)
(* symptom reaches exactly the objects within that distance, at their      *)
(* distance.                                                               *)
(***************************************************************************)
THEOREM WalkReachesAll == Spec => []WalkIsExact
BY AlwaysInv, InvImplies, PTL

\* Where the records up to a subject are within the limit, the query returns
\* those about it.
LEMMA WithinTheLimit ==
  ASSUME StoreOK, NEW r \in records, Cardinality(UpTo(r.subject)) <= max_window_records
  PROVE  r \in query(records)
<1> DEFINE before == {s \in records : StoredBefore(s, r)}
           upto == UpTo(r.subject)
<1>1. PICK x \in Subjects : r \in ToSet(by_subject[x])
  BY DEF records
<1>2. /\ by_subject[x] \in Seq(Pool) /\ r.subject \in Nat
      /\ \A i, j \in 1..Len(by_subject[x]) :
           by_subject[x][i].subject = x /\ (i # j => by_subject[x][i] # by_subject[x][j])
  BY DEF StoreOK
<1>3. Len(by_subject[x]) \in Nat /\ DOMAIN by_subject[x] = 1..Len(by_subject[x])
  BY <1>2, LenProperties
<1>4. r.subject = x
  BY <1>1, <1>2, <1>3 DEF ToSet
<1>5. ~StoredBefore(r, r)
  <2>1. ~(r.subject < r.subject)
    BY <1>2
  <2>2. \A i, j \in DOMAIN by_subject[r.subject] :
          ~(i < j /\ by_subject[r.subject][i] = r /\ by_subject[r.subject][j] = r)
    BY <1>2, <1>3, <1>4
  <2>3. QED
    BY <2>1, <2>2 DEF StoredBefore
<1>6. ASSUME NEW s \in records, StoredBefore(s, r) PROVE s.subject <= r.subject
  <2>1. s.subject < r.subject \/ s.subject = r.subject
    BY <1>6 DEF StoredBefore
  <2>2. s.subject \in Nat
    BY DEF StoreOK
  <2>3. QED
    BY <1>2, <2>1, <2>2
<1>7. before \in SUBSET (upto \ {r}) /\ r \in upto
  BY <1>2, <1>5, <1>6 DEF UpTo
<1>8. IsFiniteSet(upto)
  <2>1. upto \in SUBSET records /\ IsFiniteSet(records)
    BY DEF UpTo, StoreOK
  <2>2. QED
    BY <2>1, FS_Subset
<1> HIDE DEF before, upto
<1>9. IsFiniteSet(upto \ {r}) /\ Cardinality(upto \ {r}) = Cardinality(upto) - 1
  BY <1>7, <1>8, FS_RemoveElement
<1>10. Cardinality(before) <= Cardinality(upto \ {r}) /\ IsFiniteSet(before)
  BY <1>7, <1>9, FS_Subset
<1>11. Cardinality(before) \in Nat /\ Cardinality(upto) \in Nat /\ max_window_records \in Nat
  BY <1>8, <1>10, FS_CardinalityType, LocalizationAssumption
<1>12. Cardinality(upto) <= max_window_records
  BY DEF upto
<1>13. Cardinality(before) < max_window_records
  BY <1>9, <1>10, <1>11, <1>12
<1>14. QED
  BY <1>13 DEF query, before

\* What a step does to the graph.
LEMMA WholeOrNotAtAll ==
  ASSUME LocalizationInv, [Next]_vars, graph' # graph, claims' = claims
  PROVE  /\ built_from' = topology'.objects
         /\ \A relation \in ToSet(Structure(topology'.objects)) :
              (/\ \E r \in records : Advertises(r) /\ r.subject = relation.from
               /\ Cardinality(UpTo(relation.from)) <= max_window_records)
              => \E e \in graph'.edges : SameKey(e, relation)
<1> DEFINE o == topology'.objects
<1>1. ObjectsOK(o) /\ Rebuilds(o)
  <2>1. ASSUME NEW x \in {builder} \cup Replacements, admit_topology(x)
        PROVE  ObjectsOK(o) /\ Rebuilds(o)
    <3>1. o = x
      BY <2>1 DEF admit_topology, build
    <3>2. Rebuilds(x) /\ ObjectsOK(x)
      BY <2>1, AdmissibleOK DEF admit_topology
    <3> HIDE DEF o
    <3>3. QED
      BY <3>1, <3>2
  <2>2. CASE rebuild_causal_graph
    <3>1. topology' = topology /\ Rebuilds(topology.objects)
      BY <2>2 DEF rebuild_causal_graph
    <3>2. ObjectsOK(topology.objects)
      BY AdmittedOK DEF LocalizationInv
    <3>3. QED
      BY <3>1, <3>2
  <2>3. ASSUME NEW e \in Claims, add_causal_edge(e) PROVE FALSE
    <3>1. claims' = claims + 1 /\ claims \in Nat
      BY <2>3, LocalizationAssumption DEF add_causal_edge, LocalizationInv
    <3>2. QED
      BY <3>1
  <2>4. QED
    BY <2>1, <2>2, <2>3 DEF Next, vars, observe, localize, Walk, Conclude
<1> DEFINE b == Rebuilt(o)
           rels == Structure(o)
<1>2. b.ok /\ graph' = b.graph /\ built_from' = o
  BY <1>1 DEF Rebuilds
<1>3. rels \in Seq(Relation(o)) /\ Sound(rels, Len(rels), b)
  BY <1>1, RebuiltFacts
<1> HIDE DEF o, rels, b
<1>4. ASSUME NEW relation \in ToSet(rels), NEW r \in records, Advertises(r),
             r.subject = relation.from, Cardinality(UpTo(relation.from)) <= max_window_records
      PROVE  \E e \in graph'.edges : SameKey(e, relation)
  <2>1. PICK j \in 1..Len(rels) : relation = rels[j]
    BY <1>3, LenProperties DEF ToSet
  <2>2. r \in query(records)
    BY <1>4, WithinTheLimit DEF LocalizationInv
  <2>3. r.id \in citations_for(query(records), relation.from)
    BY <1>4, <2>2 DEF citations_for
  <2>4. QED
    BY <1>2, <1>3, <2>1, <2>3 DEF Sound
<1>5. QED
  BY <1>2, <1>4 DEF rels, o

(***************************************************************************)
(* A rebuild that does not fit the limits leaves the graph alone: whenever *)
(* the graph was replaced it has every relation that a record reports, as  *)
(* long as the records up to its cause are within max_window_records.      *)
(***************************************************************************)
THEOREM RebuildIsWhole == Spec => NeverHalfBuilt
<1>1. LocalizationInv /\ [Next]_vars =>
        [(graph' # graph /\ claims' = claims) =>
           /\ built_from' = topology'.objects
           /\ \A relation \in ToSet(Structure(topology'.objects)) :
                (/\ \E r \in records : Advertises(r) /\ r.subject = relation.from
                 /\ Cardinality(UpTo(relation.from)) <= max_window_records)
                => \E e \in graph'.edges : SameKey(e, relation)]_vars
  BY WholeOrNotAtAll
<1>2. QED
  BY <1>1, AlwaysInv, PTL DEF Spec, NeverHalfBuilt

-----------------------------------------------------------------------------
(***************************************************************************)
(* The conclusion.                                                         *)
(***************************************************************************)
BackedNodes == {n \in DOMAIN search.reached : Backed(n)}

Candidates == {Candidate(n) : n \in BackedNodes}

LEMMA MinOfTwo ==
  ASSUME NEW a \in Nat, NEW b \in Nat
  PROVE  Min({a, b}) \in Nat
<1>1. \E x \in {a, b} : \A y \in {a, b} : x =< y
  OBVIOUS
<1>2. Min({a, b}) \in {a, b}
  BY <1>1 DEF Min
<1>3. QED
  BY <1>2

\* Every object reached is a node of the graph.
LEMMA ReachedFacts ==
  ASSUME LocalizationInv, search # Nothing
  PROVE  /\ DOMAIN search.reached \subseteq Nat /\ IsFiniteSet(DOMAIN search.reached)
         /\ \A n \in DOMAIN search.reached : search.reached[n].depth \in Nat
<1>1. WalkInv(graph, search) /\ GraphOK(graph)
  BY DEF LocalizationInv
<1>2. ASSUME NEW n \in DOMAIN search.reached PROVE n \in graph.nodes
  <2>1. n \in Visited(search) \ {search.symptom}
    BY <1>1 DEF WalkInv, SearchOK, Visited
  <2>2. PICK m : n \in CausesOf(graph, m)
    BY <1>1, <2>1 DEF WalkInv, Descends
  <2>3. QED
    BY <1>1, <2>2 DEF CausesOf, GraphOK
<1>3. DOMAIN search.reached \in SUBSET graph.nodes
  BY <1>2
<1>4. IsFiniteSet(DOMAIN search.reached)
  BY <1>1, <1>3, FS_Subset DEF GraphOK
<1>5. \A n \in DOMAIN search.reached : search.reached[n].depth \in Nat
  BY <1>1, DepthType DEF WalkInv, SearchOK
<1>6. QED
  BY <1>1, <1>3, <1>4, <1>5 DEF GraphOK

LEMMA ScoreType ==
  ASSUME LocalizationInv, search # Nothing, NEW n \in DOMAIN search.reached
  PROVE  Score(n) \in Nat
<1>1. search.reached[n].depth \in Nat
  BY ReachedFacts
<1>2. Points(n) \in Nat
  BY <1>1 DEF Points
<1>3. QED
  BY <1>2, MinOfTwo DEF Score

LEMMA CandidateFacts ==
  ASSUME LocalizationInv, search # Nothing
  PROVE  /\ BackedNodes \subseteq Nat /\ IsFiniteSet(BackedNodes)
         /\ IsFiniteSet(Candidates) /\ Cardinality(Candidates) <= Cardinality(BackedNodes)
         /\ \A n \in BackedNodes : /\ Candidate(n) \in Candidates
                                   /\ Candidate(n).subject = n /\ Candidate(n).score = Score(n)
                                   /\ Score(n) \in Nat
         /\ \A c \in Candidates : \E n \in BackedNodes : c = Candidate(n)
<1>1. BackedNodes \in SUBSET DOMAIN search.reached
  BY DEF BackedNodes
<1>2. BackedNodes \subseteq Nat /\ IsFiniteSet(BackedNodes)
  BY <1>1, ReachedFacts, FS_Subset
<1>3. IsFiniteSet(Candidates) /\ Cardinality(Candidates) <= Cardinality(BackedNodes)
  <2> DEFINE f == [n \in BackedNodes |-> Candidate(n)]
  <2>1. f \in Surjection(BackedNodes, Candidates)
    BY DEF Surjection, Candidates
  <2> HIDE DEF f
  <2>2. QED
    BY <1>2, <2>1, FS_Surjection
<1>4. ASSUME NEW n \in BackedNodes
      PROVE  /\ Candidate(n) \in Candidates
             /\ Candidate(n).subject = n /\ Candidate(n).score = Score(n)
             /\ Score(n) \in Nat
  <2>1. Candidate(n) \in Candidates
    BY DEF Candidates
  <2>2. Candidate(n).subject = n /\ Candidate(n).score = Score(n)
    BY DEF Candidate
  <2>3. Score(n) \in Nat
    BY <1>1, ScoreType
  <2>4. QED
    BY <2>1, <2>2, <2>3
<1>5. \A c \in Candidates : \E n \in BackedNodes : c = Candidate(n)
  BY DEF Candidates
<1>6. QED
  BY <1>2, <1>3, <1>4, <1>5

LEMMA RankedFacts ==
  ASSUME LocalizationInv, search # Nothing
  PROVE  LET k == Cardinality(Candidates)
             ranked == Ranked(Candidates)
         IN /\ k \in Nat /\ ranked \in [1..k -> Candidates]
            /\ \A i, j \in 1..k : i < j => Better(ranked[i], ranked[j])
            /\ \A c \in Candidates : \E i \in 1..k : ranked[i] = c
<1> DEFINE R == {p \in Candidates \X Candidates : Better(p[1], p[2])}
           k == Cardinality(Candidates)
           ranked == Ranked(Candidates)
<1>1. \A c, d \in Candidates : <<c, d>> \in R <=> Better(c, d)
  OBVIOUS
<1> HIDE DEF R
<1>2. \A c \in Candidates : c.subject \in Nat /\ c.score \in Nat /\ c = Candidate(c.subject)
  BY CandidateFacts
<1>3. StrictOrder(R, Candidates)
  <2>1. ASSUME NEW x \in Candidates, NEW y \in Candidates, NEW z \in Candidates,
               Better(x, y), Better(y, z)
        PROVE  Better(x, z)
    BY <1>2, <2>1 DEF Better
  <2>2. ASSUME NEW x \in Candidates, NEW y \in Candidates, x # y
        PROVE  Better(x, y) \/ Better(y, x)
    <3>1. x.subject # y.subject
      BY <1>2, <2>2
    <3>2. QED
      BY <1>2, <3>1 DEF Better
  <2>3. ASSUME NEW x \in Candidates, NEW y \in Candidates, Better(x, y)
        PROVE  x # y
    BY <1>2, <2>3 DEF Better
  <2>4. QED
    BY <1>1, <2>1, <2>2, <2>3 DEF StrictOrder
<1>4. IsFiniteSet(Candidates)
  BY CandidateFacts
<1>5. k \in Nat
  BY <1>4, FS_CardinalityType
<1>6. PICK s \in [1..k -> Candidates] : \A i, j \in 1..k : i < j => <<s[i], s[j]>> \in R
  BY <1>3, <1>4, Arrangement
<1>7. \A i, j \in DOMAIN s : i < j => Better(s[i], s[j])
  BY <1>1, <1>6
<1>8. /\ ranked \in [1..k -> Candidates]
      /\ \A i, j \in DOMAIN ranked : i < j => Better(ranked[i], ranked[j])
  BY <1>7 DEF Ranked
<1> HIDE DEF ranked
<1>9. \A i, j \in 1..k : i < j => Better(ranked[i], ranked[j])
  BY <1>8
<1>10. ASSUME NEW i \in 1..k, NEW j \in 1..k, i < j PROVE ranked[i] # ranked[j]
  <2>1. ranked[i] \in Candidates /\ ranked[j] \in Candidates /\ Better(ranked[i], ranked[j])
    BY <1>8, <1>9, <1>10
  <2>2. QED
    BY <1>2, <2>1 DEF Better
<1>11. \A c \in Candidates : \E i \in 1..k : ranked[i] = c
  BY <1>4, <1>8, <1>10, HoldsAll
<1>12. QED
  BY <1>5, <1>8, <1>9, <1>11 DEF ranked

\* The candidates localize goes by are ranked and have enough points, and one
\* with enough points that is not among them comes after max_candidates others.
LEMMA QualifyingFacts ==
  ASSUME LocalizationInv, search # Nothing
  PROVE  /\ Qualifying \in Seq(Candidates)
         /\ \A i, j \in 1..Len(Qualifying) : i < j => Better(Qualifying[i], Qualifying[j])
         /\ \A i \in 1..Len(Qualifying) : Qualifies(Qualifying[i].score)
         /\ Len(Qualifying) <= localization_policy.max_candidates
         /\ \A c \in Candidates : Qualifies(c.score) =>
              \/ \E i \in 1..Len(Qualifying) : Qualifying[i] = c
              \/ /\ Len(Qualifying) = localization_policy.max_candidates
                 /\ \A i \in 1..Len(Qualifying) : Better(Qualifying[i], c)
<1> DEFINE k == Cardinality(Candidates)
           ranked == Ranked(Candidates)
           m == localization_policy.max_candidates
           P == {i \in 1..k : i <= m /\ Qualifies(ranked[i].score)}
           c == Cardinality(P)
           order == InOrder(P)
           q == Qualifying
<1>1. /\ k \in Nat /\ ranked \in [1..k -> Candidates]
      /\ \A i, j \in 1..k : i < j => Better(ranked[i], ranked[j])
      /\ \A x \in Candidates : \E i \in 1..k : ranked[i] = x
  BY RankedFacts
<1>2. q = At(ranked, P)
  <2>1. DOMAIN ranked = 1..k
    BY <1>1
  <2>2. QED
    BY <2>1 DEF Qualifying, Candidates, BackedNodes
<1>3. /\ P \in SUBSET (1..k) /\ \A i \in P : Qualifies(ranked[i].score)
      /\ \A i \in 1..k : i <= m /\ Qualifies(ranked[i].score) => i \in P
  OBVIOUS
<1> HIDE DEF k, ranked, P, q
<1>4. Picks(q, ranked, Candidates, P, c, order)
  BY <1>1, <1>2, <1>3, AtFacts, Zenon
<1> HIDE DEF c, order
<1>5. /\ c \in Nat /\ q \in [1..c -> Candidates] /\ order \in [1..c -> P]
      /\ \A i \in 1..c : q[i] = ranked[order[i]]
      /\ \A i, j \in 1..c : i < j => order[i] < order[j]
      /\ \A p \in P : \E i \in 1..c : order[i] = p
  BY <1>4, Zenon DEF Picks
<1>6. q \in Seq(Candidates) /\ Len(q) = c
  BY <1>5, FunIsSeq
<1>7. ASSUME NEW i \in 1..c, NEW j \in 1..c, i < j PROVE Better(q[i], q[j])
  <2>1. order[i] \in 1..k /\ order[j] \in 1..k /\ order[i] < order[j]
    BY <1>3, <1>5, <1>7
  <2>2. Better(ranked[order[i]], ranked[order[j]])
    BY <1>1, <2>1
  <2>3. QED
    BY <1>5, <2>2
<1>8. \A i \in 1..c : Qualifies(q[i].score)
  BY <1>3, <1>5
<1>9. m \in Nat /\ IsFiniteSet(1..m) /\ Cardinality(1..m) = m
  <2>1. m \in Nat
    BY LocalizationAssumption DEF m
  <2>2. QED
    BY SMTT(30), <2>1, FS_Interval
<1>10. P \in SUBSET (1..m)
  <2>1. \A i \in P : i \in 1..k /\ i <= m
    BY DEF P
  <2>2. QED
    BY <1>1, <1>9, <2>1
<1>11. c <= m
  BY <1>9, <1>10, FS_Subset DEF c
<1>12. ASSUME NEW x \in Candidates, Qualifies(x.score), ~\E i \in 1..c : q[i] = x
       PROVE  c = m /\ \A i \in 1..c : Better(q[i], x)
  <2>1. PICK p \in 1..k : ranked[p] = x
    BY <1>1
  <2>2. p \notin P
    BY <1>5, <1>12, <2>1
  <2>3. m < p
    BY <1>1, <1>3, <1>9, <1>12, <2>1, <2>2
  <2>4. ASSUME NEW i \in 1..m PROVE i \in P /\ Better(ranked[i], x)
    <3>1. i \in 1..k /\ i < p /\ i <= m
      BY <1>1, <1>9, <2>1, <2>3
    <3>2. Better(ranked[i], ranked[p]) /\ ranked[i] \in Candidates
      BY <1>1, <3>1
    <3>3. ranked[i].score \in Nat /\ x.score \in Nat
      BY <3>2, CandidateFacts
    <3>4. ranked[i].score >= x.score
      BY <2>1, <3>2, <3>3 DEF Better
    <3>5. Qualifies(ranked[i].score)
      BY <1>12, <3>3, <3>4, LocalizationAssumption DEF Qualifies
    <3>6. QED
      BY <1>3, <2>1, <3>1, <3>2, <3>5
  <2>5. P = 1..m
    BY <1>10, <2>4
  <2>6. c = m
    BY <1>9, <2>5 DEF c
  <2>7. ASSUME NEW i \in 1..c PROVE Better(q[i], x)
    <3>1. order[i] \in 1..m /\ q[i] = ranked[order[i]]
      BY <1>5, <2>5
    <3>2. QED
      BY <2>4, <3>1
  <2>8. QED
    BY <2>6, <2>7
<1>13. QED
  <2>1. q \in Seq(Candidates) /\ Len(q) = c
    BY <1>6
  <2>2. \A i, j \in 1..Len(q) : i < j => Better(q[i], q[j])
    BY <1>6, <1>7
  <2>3. \A i \in 1..Len(q) : Qualifies(q[i].score)
    BY <1>6, <1>8
  <2>4. Len(q) <= m
    BY <1>6, <1>11
  <2>5. \A x \in Candidates : Qualifies(x.score) =>
          \/ \E i \in 1..Len(q) : q[i] = x
          \/ Len(q) = m /\ \A i \in 1..Len(q) : Better(q[i], x)
    BY <1>6, <1>12
  <2>6. QED
    BY <2>1, <2>2, <2>3, <2>4, <2>5 DEF q, m

\* Only Conclude ends a localization.
LEMMA EndsByConclude ==
  ASSUME LocalizationInv, [Next]_vars, Concludes
  PROVE  Conclude
<1>1. search # Nothing /\ search' = Nothing
  BY DEF Concludes
<1>2. ASSUME Walk PROVE FALSE
  <2>1. search.queue # <<>> /\ search' = Turn(graph, search)
    BY <1>2 DEF Walk
  <2>2. WalkInv(graph, search')
    BY <1>1, <2>1, TurnKeeps DEF LocalizationInv
  <2>3. search'.symptom # 0
    BY <2>2 DEF WalkInv, SearchOK
  <2>4. QED
    BY <1>1, <2>3 DEF Nothing
<1>3. QED
  BY <1>1, <1>2 DEF Next, vars, admit_topology, rebuild_causal_graph, observe, add_causal_edge,
     localize

\* The positions of the candidates within the margin of the best.
CloseOnes == {i \in DOMAIN Qualifying : Close(Qualifying[1], Qualifying[i])}

LEMMA ConcludeOutcome ==
  ASSUME Conclude
  PROVE  \/ result'.candidates = <<>>
         \/ /\ Qualifying # <<>> /\ result'.outcome = "ambiguous"
            /\ Len(Qualifying) >= 2 /\ Close(Qualifying[1], Qualifying[2])
            /\ result'.candidates = At(Qualifying, CloseOnes)
         \/ /\ Qualifying # <<>> /\ result'.outcome = "localized"
            /\ ~(Len(Qualifying) >= 2 /\ Close(Qualifying[1], Qualifying[2]))
            /\ result'.candidates = Qualifying
<1> DEFINE q == Qualifying
           limited == IF search.depth_limited THEN {"depth_limited"} ELSE {}
<1>1. result' = IF q = <<>>
                THEN Outcome(search.symptom, "unlocalized", <<>>, {"no_evidence_backed_path"},
                             search.depth_limited)
                ELSE IF Len(q) >= 2 /\ Close(q[1], q[2])
                THEN Outcome(search.symptom, "ambiguous", At(q, CloseOnes),
                             {"ambiguous_candidates"} \cup limited, search.depth_limited)
                ELSE Outcome(search.symptom, "localized", q, limited, search.depth_limited)
  BY DEF Conclude, CloseOnes
<1>2. \A s, o, c, b, l : Outcome(s, o, c, b, l).outcome = o /\ Outcome(s, o, c, b, l).candidates = c
  BY DEF Outcome
<1> HIDE DEF q, limited
<1>3. CASE q = <<>>
  BY <1>1, <1>2, <1>3
<1>4. CASE q # <<>> /\ Len(q) >= 2 /\ Close(q[1], q[2])
  <2>1. result' = Outcome(search.symptom, "ambiguous", At(q, CloseOnes),
                          {"ambiguous_candidates"} \cup limited, search.depth_limited)
    BY <1>1, <1>4, Zenon
  <2>2. result'.outcome = "ambiguous" /\ result'.candidates = At(q, CloseOnes)
    BY <2>1 DEF Outcome
  <2>3. QED
    BY <1>4, <2>2, Zenon DEF q
<1>5. CASE q # <<>> /\ ~(Len(q) >= 2 /\ Close(q[1], q[2]))
  <2>1. result' = Outcome(search.symptom, "localized", q, limited, search.depth_limited)
    BY <1>1, <1>5, Zenon
  <2>2. result'.outcome = "localized" /\ result'.candidates = q
    BY <2>1 DEF Outcome
  <2>3. QED
    BY <1>5, <2>2, Zenon DEF q
<1>6. QED
  BY <1>3, <1>4, <1>5, Zenon

\* The candidates within the margin, as a sequence.
LEMMA CloseFacts ==
  ASSUME LocalizationInv, search # Nothing
  PROVE  /\ ToSet(At(Qualifying, CloseOnes)) = {Qualifying[i] : i \in CloseOnes}
         /\ CloseOnes \subseteq 1..Len(Qualifying)
         /\ Len(At(Qualifying, CloseOnes)) = Cardinality(CloseOnes)
<1> DEFINE q == Qualifying
           n == Len(q)
           P == CloseOnes
           t == At(q, P)
           c == Cardinality(P)
           order == InOrder(P)
<1>1. q \in Seq(Candidates)
  BY QualifyingFacts
<1>2. n \in Nat /\ DOMAIN q = 1..n /\ q \in [1..n -> Candidates]
  <2> HIDE DEF q
  <2> QED
    BY <1>1, LenProperties, SeqDef, ElementOfSeq
<1>3. P \in SUBSET (1..n)
  BY <1>2 DEF CloseOnes
<1> HIDE DEF q, n, P
<1>4. Picks(t, q, Candidates, P, c, order)
  BY <1>2, <1>3, AtFacts, Zenon
<1> HIDE DEF t, c, order
<1>5. /\ t \in [1..c -> Candidates] /\ order \in [1..c -> P]
      /\ \A i \in 1..c : t[i] = q[order[i]]
      /\ \A p \in P : \E i \in 1..c : order[i] = p
  BY <1>4, Zenon DEF Picks
<1>6. ToSet(t) = {q[i] : i \in P}
  BY <1>5 DEF ToSet
<1>7. Len(t) = c
  <2>1. c \in Nat
    BY <1>4, Zenon DEF Picks
  <2>2. QED
    BY <1>5, <2>1, FunIsSeq
<1>8. QED
  BY <1>3, <1>6, <1>7 DEF t, P, q, n, c

\* Whoever is named was a candidate.
LEMMA NamedAreCandidates ==
  ASSUME LocalizationInv, search # Nothing, Conclude
  PROVE  ToSet(result'.candidates) \subseteq Candidates
<1> DEFINE q == Qualifying
<1>1. q \in Seq(Candidates)
  BY QualifyingFacts
<1>2. DOMAIN q = 1..Len(q) /\ \A i \in 1..Len(q) : q[i] \in Candidates
  <2> HIDE DEF q
  <2> QED
    BY <1>1, LenProperties, ElementOfSeq
<1>3. CASE result'.candidates = <<>>
  BY <1>3 DEF ToSet
<1>4. CASE result'.candidates = q
  <2> HIDE DEF q
  <2> QED
    BY <1>2, <1>4 DEF ToSet
<1>5. CASE result'.candidates = At(q, CloseOnes)
  BY <1>2, <1>5, CloseFacts
<1>6. QED
  BY <1>3, <1>4, <1>5, ConcludeOutcome

\* What a record that speaks for an object is.
LEMMA SpeaksFacts ==
  ASSUME LocalizationInv, search # Nothing, NEW node, NEW r \in AtNode(node)
  PROVE  /\ r \in records /\ r.subject = node
         /\ ~r.recovered_from_snapshot /\ ~r.retired /\ r.support # "unsupported"
         /\ now - r.observed_at <= r.validity
         /\ r.observed_at >= window_start /\ r.observed_at <= now
<1>1. r \in search.window /\ Speaks(r, node)
  BY DEF AtNode
<1>1a. r \in records /\ InWindow(r)
  BY <1>1 DEF LocalizationInv, WindowSeen
<1>2. r.observed_at \in Int /\ r.validity \in Int /\ now \in Int
  BY <1>1a, LocalizationAssumption, PolicyAssumption DEF LocalizationInv, StoreOK
<1>3. assess_freshness(r, now) = "fresh"
  BY <1>1 DEF Speaks, usable_as_deciding_evidence
<1>4. ~(now - r.observed_at > r.validity)
  BY <1>3 DEF assess_freshness
<1>5. now - r.observed_at <= r.validity
  BY <1>2, <1>4
<1>6. QED
  BY <1>1, <1>1a, <1>5 DEF Speaks, InWindow

LEMMA CulpritsProved ==
  ASSUME LocalizationInv, [Next]_vars, Concludes, localization_policy.require_decisive_evidence
  PROVE  \A c \in ToSet(result'.candidates) : \E r \in records :
           /\ r.subject = c.subject
           /\ role_of(r.kind) \in {"demand", "pressure", "contention", "impairment"}
           /\ ~r.recovered_from_snapshot /\ ~r.retired /\ r.support # "unsupported"
           /\ now - r.observed_at <= r.validity
           /\ r.observed_at >= window_start /\ r.observed_at <= now
<1>1. search # Nothing /\ Conclude
  BY EndsByConclude DEF Concludes
<1>2. SUFFICES ASSUME NEW c \in ToSet(result'.candidates)
               PROVE  \E r \in records :
                        /\ r.subject = c.subject
                        /\ role_of(r.kind) \in {"demand", "pressure", "contention", "impairment"}
                        /\ ~r.recovered_from_snapshot /\ ~r.retired /\ r.support # "unsupported"
                        /\ now - r.observed_at <= r.validity
                        /\ r.observed_at >= window_start /\ r.observed_at <= now
  OBVIOUS
<1>3. PICK n \in BackedNodes : c = Candidate(n)
  BY <1>1, NamedAreCandidates, CandidateFacts
<1>4. c.subject = n /\ Decisive(n)
  BY <1>1, <1>3, CandidateFacts DEF BackedNodes, Backed
<1>5. PICK r \in AtNode(n) : role_of(r.kind) \in DecisiveRoles
  BY <1>4 DEF Decisive, RolesAt
<1>6. QED
  BY <1>1, <1>4, <1>5, SpeaksFacts DEF DecisiveRoles

\* The best candidate has no fewer points than any other.
LEMMA FirstIsBest ==
  ASSUME LocalizationInv, search # Nothing, NEW i \in 1..Len(Qualifying), NEW j \in 1..Len(Qualifying),
         i <= j
  PROVE  /\ Qualifying[i] \in Candidates /\ Qualifying[j] \in Candidates
         /\ Qualifying[i].score \in Nat /\ Qualifying[j].score \in Nat
         /\ Qualifying[i].score >= Qualifying[j].score
         /\ i < j => Qualifying[i] # Qualifying[j]
<1> DEFINE q == Qualifying
<1>1. /\ q \in Seq(Candidates)
      /\ \A a, b \in 1..Len(q) : a < b => Better(q[a], q[b])
  BY QualifyingFacts
<1>2. \A c \in Candidates : c.subject \in Nat /\ c.score \in Nat
  BY CandidateFacts
<1> HIDE DEF q
<1>3. q[i] \in Candidates /\ q[j] \in Candidates /\ i \in Nat /\ j \in Nat
  BY <1>1, ElementOfSeq, LenProperties DEF q
<1>4. CASE i = j
  BY <1>2, <1>3, <1>4 DEF q
<1>5. CASE i < j
  <2>1. Better(q[i], q[j])
    BY <1>1, <1>5 DEF q
  <2>2. q[i].score \in Nat /\ q[j].score \in Nat /\ q[i].subject \in Nat /\ q[j].subject \in Nat
    BY <1>2, <1>3
  <2>3. q[i].score >= q[j].score
    BY <2>1, <2>2 DEF Better
  <2>4. q[i] # q[j]
    BY <2>1, <2>2 DEF Better
  <2>5. QED
    BY <1>3, <2>2, <2>3, <2>4 DEF q
<1>6. QED
  BY <1>3, <1>4, <1>5

\* The objects that LeadersToldApart speaks of.
Qualified == {n \in BackedNodes : Qualifies(Score(n))}

Leaders == {n \in Qualified : \A m \in Qualified :
              Score(m) - Score(n) < localization_policy.ambiguity_margin}

\* The objects within the margin of the best are leaders, and a leader that is
\* not among them comes after max_candidates of them.
LEMMA LeadersAreClose ==
  ASSUME LocalizationInv, search # Nothing, Qualifying # <<>>
  PROVE  /\ \A i \in CloseOnes : Qualifying[i].subject \in Leaders
         /\ \A i \in 1..Len(Qualifying) : Score(Qualifying[i].subject) = Qualifying[i].score
         /\ \A m \in Leaders :
              \/ \E i \in CloseOnes : Qualifying[i].subject = m
              \/ /\ Len(Qualifying) = localization_policy.max_candidates
                 /\ CloseOnes = 1..Len(Qualifying)
                 /\ \A i \in 1..Len(Qualifying) : Qualifying[i].score >= Score(m)
<1> DEFINE q == Qualifying
           n == Len(q)
           margin == localization_policy.ambiguity_margin
           most == localization_policy.max_candidates
<1>1. /\ q \in Seq(Candidates)
      /\ \A i \in 1..n : Qualifies(q[i].score)
      /\ \A c \in Candidates : Qualifies(c.score) =>
           (\E i \in 1..n : q[i] = c) \/ (n = most /\ \A i \in 1..n : Better(q[i], c))
  BY QualifyingFacts
<1>2. n \in Nat /\ DOMAIN q = 1..n /\ 1 \in 1..n /\ q # <<>>
  <2>1. n \in Nat /\ DOMAIN q = 1..n
    <3> HIDE DEF q
    <3> QED
      BY <1>1, LenProperties
  <2>2. n # 0
    <3> HIDE DEF q
    <3>1. q # <<>>
      BY DEF q
    <3>2. QED
      BY <1>1, <3>1, EmptySeq
  <2>3. QED
    BY <2>1, <2>2
<1>3. \A i \in CloseOnes : i \in 1..n /\ Close(q[1], q[i])
  BY <1>2 DEF CloseOnes
<1>4. \A i \in 1..n : Close(q[1], q[i]) => i \in CloseOnes
  BY <1>2 DEF CloseOnes
<1>5. ASSUME NEW i \in 1..n
      PROVE  /\ q[i] \in Candidates /\ q[i].score \in Nat /\ q[1].score \in Nat /\ q[1].score >= q[i].score
  BY <1>2, FirstIsBest
<1>6. margin \in Nat
  BY LocalizationAssumption
<1> HIDE DEF q, n, margin, most
<1>7. ASSUME NEW i \in 1..n
      PROVE  q[i].subject \in Qualified /\ Score(q[i].subject) = q[i].score
  BY <1>1, <1>5, CandidateFacts DEF Qualified
<1>8. ASSUME NEW m \in Qualified
      PROVE  /\ Score(m) \in Nat
             /\ \/ \E i \in 1..n : q[i].subject = m /\ Score(m) = q[i].score
                \/ n = most /\ \A i \in 1..n : q[i].score >= Score(m)
  <2>1. m \in BackedNodes /\ Qualifies(Score(m))
    BY DEF Qualified
  <2>2. /\ Candidate(m) \in Candidates /\ Candidate(m).subject = m /\ Candidate(m).score = Score(m)
        /\ Score(m) \in Nat
    BY <2>1, CandidateFacts
  <2>3. CASE \E i \in 1..n : q[i] = Candidate(m)
    BY <2>2, <2>3
  <2>4. CASE n = most /\ \A i \in 1..n : Better(q[i], Candidate(m))
    <3>1. ASSUME NEW i \in 1..n PROVE q[i].score >= Score(m)
      <4>1. Better(q[i], Candidate(m)) /\ q[i].score \in Nat
        BY <1>5, <2>4
      <4>2. QED
        BY <2>2, <4>1 DEF Better
    <3>2. QED
      BY <2>2, <2>4, <3>1
  <2>5. QED
    BY <1>1, <2>1, <2>2, <2>3, <2>4
<1>9. ASSUME NEW m \in Qualified PROVE Score(m) \in Nat /\ q[1].score >= Score(m)
  BY <1>2, <1>5, <1>8
<1>10. ASSUME NEW m \in Leaders
       PROVE  \/ \E i \in CloseOnes : q[i].subject = m
              \/ n = most /\ CloseOnes = 1..n /\ \A i \in 1..n : q[i].score >= Score(m)
  <2>1. /\ m \in Qualified
        /\ \A x \in Qualified : Score(x) - Score(m) < margin
    BY DEF Leaders, margin
  <2>2. q[1].score - Score(m) < margin /\ Score(m) \in Nat
    BY <1>2, <1>7, <1>9, <2>1
  <2>3. CASE \E i \in 1..n : q[i].subject = m /\ Score(m) = q[i].score
    <3>1. PICK i \in 1..n : q[i].subject = m /\ Score(m) = q[i].score
      BY <2>3
    <3>2. i \in CloseOnes
      BY <1>4, <2>2, <3>1 DEF Close, margin
    <3>3. QED
      BY <3>1, <3>2
  <2>4. CASE n = most /\ \A i \in 1..n : q[i].score >= Score(m)
    <3>1. ASSUME NEW i \in 1..n PROVE i \in CloseOnes
      <4>1. q[i].score >= Score(m) /\ q[i].score \in Nat /\ q[1].score \in Nat
        BY <1>5, <2>4
      <4>2. q[1].score - q[i].score < margin
        BY <1>6, <2>2, <4>1
      <4>3. QED
        BY <1>4, <4>2 DEF Close, margin
    <3>2. CloseOnes = 1..n
      BY <1>3, <3>1
    <3>3. QED
      BY <2>4, <3>2
  <2>5. QED
    BY <1>8, <2>1, <2>3, <2>4
<1>11. ASSUME NEW i \in CloseOnes PROVE q[i].subject \in Leaders
  <2>1. i \in 1..n /\ q[1].score - q[i].score < margin
    BY <1>3 DEF Close, margin
  <2>2. q[i].subject \in Qualified /\ Score(q[i].subject) = q[i].score
    BY <1>7, <2>1
  <2>3. ASSUME NEW x \in Qualified PROVE Score(x) - Score(q[i].subject) < margin
    <3>1. Score(x) \in Nat /\ q[1].score >= Score(x) /\ q[1].score \in Nat /\ q[i].score \in Nat
      BY <1>5, <1>9, <2>1
    <3>2. Score(x) - q[i].score < margin
      BY <1>6, <2>1, <3>1
    <3>3. QED
      BY <2>2, <3>2
  <2>4. QED
    BY <2>2, <2>3 DEF Leaders, margin
<1>12. QED
  BY <1>7, <1>10, <1>11 DEF q, n, most

LEMMA TwoElements ==
  ASSUME NEW S, IsFiniteSet(S)
  PROVE  Cardinality(S) >= 2 <=> \E x, y \in S : x # y
<1>1. Cardinality(S) \in Nat
  BY FS_CardinalityType
<1>2. ASSUME Cardinality(S) >= 2 PROVE \E x, y \in S : x # y
  <2>1. PICK x \in S : TRUE
    BY <1>2, FS_EmptySet
  <2>2. Cardinality(S \ {x}) = Cardinality(S) - 1 /\ IsFiniteSet(S \ {x})
    BY <2>1, FS_RemoveElement
  <2>3. S \ {x} # {}
    BY <1>1, <1>2, <2>2, FS_EmptySet
  <2>4. QED
    BY <2>1, <2>3
<1>3. ASSUME NEW x \in S, NEW y \in S, x # y PROVE Cardinality(S) >= 2
  <2>1. Cardinality(S \ {x}) = Cardinality(S) - 1 /\ IsFiniteSet(S \ {x})
    BY FS_RemoveElement
  <2>2. Cardinality(S \ {x}) # 0 /\ Cardinality(S \ {x}) \in Nat
    BY <1>3, <2>1, FS_EmptySet, FS_CardinalityType
  <2>3. QED
    BY <1>1, <2>1, <2>2
<1>4. QED
  BY <1>2, <1>3

LEMMA LeadersFinite ==
  ASSUME LocalizationInv, search # Nothing
  PROVE  IsFiniteSet(Leaders) /\ Leaders \subseteq Nat
<1>1. Leaders \in SUBSET BackedNodes
  BY DEF Leaders, Qualified
<1>2. QED
  BY <1>1, CandidateFacts, FS_Subset

LEMMA LeadersApart ==
  ASSUME LocalizationInv, [Next]_vars, Concludes, result'.candidates # <<>>
  PROVE  LET named == {c.subject : c \in ToSet(result'.candidates)}
             most == localization_policy.max_candidates
         IN /\ result'.outcome = "localized" <=> (Cardinality(Leaders) <= 1 \/ most = 1)
            /\ result'.outcome = "ambiguous" => named \subseteq Leaders
            /\ \A m \in Leaders \ named :
                 /\ Len(result'.candidates) = most
                 /\ \A x \in named : Score(m) <= Score(x)
<1> DEFINE q == Qualifying
           n == Len(q)
           most == localization_policy.max_candidates
           named == {c.subject : c \in ToSet(result'.candidates)}
<1>1. search # Nothing /\ Conclude
  BY EndsByConclude DEF Concludes
<1>2. \/ /\ q # <<>> /\ result'.outcome = "ambiguous" /\ n >= 2 /\ Close(q[1], q[2])
         /\ result'.candidates = At(q, CloseOnes)
      \/ /\ q # <<>> /\ result'.outcome = "localized" /\ ~(n >= 2 /\ Close(q[1], q[2]))
         /\ result'.candidates = q
  BY <1>1, ConcludeOutcome
<1>3. /\ \A i \in CloseOnes : q[i].subject \in Leaders
      /\ \A i \in 1..n : Score(q[i].subject) = q[i].score
      /\ \A m \in Leaders :
           \/ \E i \in CloseOnes : q[i].subject = m
           \/ n = most /\ CloseOnes = 1..n /\ \A i \in 1..n : q[i].score >= Score(m)
  BY <1>1, <1>2, LeadersAreClose
<1>4. IsFiniteSet(Leaders) /\ Cardinality(Leaders) \in Nat
  BY <1>1, LeadersFinite, FS_CardinalityType
<1>5. n \in Nat /\ DOMAIN q = 1..n /\ n <= most /\ most \in Nat
  <2>1. q \in Seq(Candidates) /\ Len(q) <= most /\ most \in Nat
    BY <1>1, QualifyingFacts, LocalizationAssumption
  <2> HIDE DEF q, most
  <2>2. QED
    BY <2>1, LenProperties
<1>6. \A i \in CloseOnes : i \in 1..n /\ q[1].score - q[i].score < localization_policy.ambiguity_margin
  BY <1>5 DEF CloseOnes, Close
<1>6a. \A i \in 1..n : q[1].score - q[i].score < localization_policy.ambiguity_margin => i \in CloseOnes
  BY <1>5 DEF CloseOnes, Close
<1>7. localization_policy.ambiguity_margin \in Nat
  BY LocalizationAssumption
<1>7a. \A i \in 1..n : q[i].score \in Nat
  BY <1>1, <1>5, FirstIsBest
<1>7b. \A m \in Leaders : Score(m) \in Nat
  BY <1>1, CandidateFacts DEF Leaders, Qualified
<1>8. CASE result'.outcome = "ambiguous" /\ n >= 2 /\ Close(q[1], q[2]) /\ result'.candidates = At(q, CloseOnes)
  <2>1. ToSet(result'.candidates) = {q[i] : i \in CloseOnes}
    BY <1>1, <1>8, CloseFacts
  <2>2. named = {q[i].subject : i \in CloseOnes}
    BY <2>1
  <2>3. 1 \in 1..n /\ 2 \in 1..n
    BY <1>5, <1>8
  <2>4. /\ q[1].score \in Nat /\ q[2].score \in Nat /\ q[1].score >= q[2].score
        /\ q[1] \in Candidates /\ q[2] \in Candidates /\ q[1] # q[2]
    BY <1>1, <2>3, FirstIsBest
  <2>5. q[1].score - q[2].score < localization_policy.ambiguity_margin
    BY <1>8 DEF Close
  <2>5a. Len(result'.candidates) = Cardinality(CloseOnes)
    BY <1>1, <1>8, CloseFacts
  <2> HIDE DEF q, n, named, most
  <2>6. 1 \in CloseOnes /\ 2 \in CloseOnes
    BY <1>6a, <1>7, <2>3, <2>4, <2>5
  <2>7. q[1].subject \in Leaders /\ q[2].subject \in Leaders
    BY <1>3, <2>6
  <2>8. q[1].subject # q[2].subject
    BY <1>1, <2>4, CandidateFacts
  <2>9. ~(Cardinality(Leaders) <= 1) /\ most # 1
    <3>1. Cardinality(Leaders) >= 2
      BY <1>4, <2>7, <2>8, TwoElements
    <3>2. QED
      BY <1>4, <1>5, <1>8, <3>1
  <2>10. result'.outcome # "localized"
    BY <1>8
  <2>11. named \subseteq Leaders
    BY <1>3, <2>2
  <2>12. ASSUME NEW m \in Leaders \ named
         PROVE  Len(result'.candidates) = most /\ \A x \in named : Score(m) <= Score(x)
    <3>1. n = most /\ CloseOnes = 1..n /\ \A i \in 1..n : q[i].score >= Score(m)
      BY <1>3, <2>2, <2>12
    <3>2. Cardinality(1..n) = n
      BY <1>5, FS_Interval
    <3>3. Len(result'.candidates) = most
      BY <2>5a, <3>1, <3>2
    <3>4. ASSUME NEW x \in named PROVE Score(m) <= Score(x)
      <4>1. PICK i \in 1..n : x = q[i].subject
        BY <2>2, <3>1
      <4>2. Score(x) = q[i].score /\ q[i].score \in Nat /\ q[i].score >= Score(m)
        BY <1>3, <1>7a, <3>1, <4>1
      <4>3. QED
        BY <1>7b, <2>12, <4>2
    <3>5. QED
      BY <3>3, <3>4
  <2>13. QED
    BY <2>9, <2>10, <2>11, <2>12 DEF named, most
<1>9. CASE q # <<>> /\ result'.outcome = "localized" /\ ~(n >= 2 /\ Close(q[1], q[2])) /\ result'.candidates = q
  <2>1. named = {q[i].subject : i \in 1..n} /\ Len(result'.candidates) = n
    <3>1. ToSet(q) = {q[i] : i \in 1..n}
      <4> HIDE DEF q
      <4> QED
        BY <1>5 DEF ToSet
    <3>2. QED
      BY <1>9, <3>1
  <2>2. ASSUME NEW i \in CloseOnes PROVE i = 1
    <3>1. i \in 1..n /\ q[1].score - q[i].score < localization_policy.ambiguity_margin
      BY <1>6
    <3>2. SUFFICES ASSUME i # 1 PROVE FALSE
      OBVIOUS
    <3>3. 2 \in 1..n /\ 1 \in 1..n /\ 2 <= i /\ n >= 2 /\ 1 <= 2
      BY <1>5, <3>1, <3>2
    <3>4. q[2].score \in Nat /\ q[i].score \in Nat /\ q[2].score >= q[i].score
      BY <1>1, <3>1, <3>3, FirstIsBest
    <3>5. q[1].score \in Nat
      BY <1>1, <3>3, FirstIsBest
    <3> HIDE DEF q, n
    <3>6. q[1].score - q[2].score < localization_policy.ambiguity_margin
      BY <1>7, <3>1, <3>4, <3>5
    <3>7. Close(q[1], q[2])
      BY <3>6 DEF Close
    <3>8. QED
      BY <1>9, <3>3, <3>7
  <2>3. ASSUME most # 1 PROVE Cardinality(Leaders) <= 1
    <3>1. ASSUME NEW m \in Leaders PROVE m = q[1].subject
      <4>1. CASE \E i \in CloseOnes : q[i].subject = m
        BY <2>2, <4>1
      <4>2. CASE n = most /\ CloseOnes = 1..n
        <5>1. n # 0
          <6>1. q \in Seq(Candidates) /\ q # <<>>
            BY <1>1, <1>9, QualifyingFacts
          <6> HIDE DEF q
          <6>2. QED
            BY <6>1, EmptySeq
        <5> HIDE DEF n, q, most
        <5>2. 2 \in 1..n
          BY <1>5, <2>3, <4>2, <5>1
        <5>3. QED
          BY <2>2, <4>2, <5>2
      <4>3. QED
        BY <1>3, <4>1, <4>2
    <3>2. Leaders \in SUBSET {q[1].subject}
      <4> HIDE DEF q
      <4> QED
        BY <3>1
    <3>3. IsFiniteSet({q[1].subject}) /\ Cardinality({q[1].subject}) = 1
      BY FS_Singleton
    <3>4. QED
      BY <3>2, <3>3, FS_Subset
  <2>4. result'.outcome # "ambiguous"
    BY <1>9
  <2>5. ASSUME NEW m \in Leaders \ named
        PROVE  Len(result'.candidates) = most /\ \A x \in named : Score(m) <= Score(x)
    <3>1. ~\E i \in CloseOnes : q[i].subject = m
      BY <1>6, <2>1, <2>5
    <3>2. n = most /\ \A i \in 1..n : q[i].score >= Score(m)
      BY <1>3, <2>5, <3>1
    <3>3. ASSUME NEW x \in named PROVE Score(m) <= Score(x)
      <4>1. PICK i \in 1..n : x = q[i].subject
        BY <2>1
      <4>2. Score(x) = q[i].score /\ q[i].score \in Nat /\ q[i].score >= Score(m)
        BY <1>3, <1>7a, <3>2, <4>1
      <4>3. QED
        BY <1>7b, <2>5, <4>2
    <3>4. QED
      BY <2>1, <3>2, <3>3
  <2>6. QED
    BY <1>9, <2>3, <2>4, <2>5
<1>10. QED
  BY <1>2, <1>8, <1>9

(***************************************************************************)
(* For every graph, record set and policy: where decisive evidence is      *)
(* required nobody is named without it.  A single origin is named exactly  *)
(* when no rival is within the margin of the best or max_candidates is 1,  *)
(* and a leader goes unnamed only behind max_candidates others that are    *)
(* no weaker.                                                              *)
(***************************************************************************)
THEOREM OnlyProvedAreNamed == Spec => NamedWithProof
<1>1. LocalizationInv /\ [Next]_vars =>
        [(Concludes /\ localization_policy.require_decisive_evidence) =>
           \A c \in ToSet(result'.candidates) : \E r \in records :
             /\ r.subject = c.subject
             /\ role_of(r.kind) \in {"demand", "pressure", "contention", "impairment"}
             /\ ~r.recovered_from_snapshot /\ ~r.retired /\ r.support # "unsupported"
             /\ now - r.observed_at <= r.validity
             /\ r.observed_at >= window_start /\ r.observed_at <= now]_vars
  BY CulpritsProved
<1>2. LocalizationInv /\ [Next]_vars =>
        [(Concludes /\ result'.candidates # <<>>) =>
           LET backed == {n \in DOMAIN search.reached : Backed(n)}
               qualified == {n \in backed : Qualifies(Score(n))}
               leaders == {n \in qualified : \A m \in qualified :
                             Score(m) - Score(n) < localization_policy.ambiguity_margin}
               named == {c.subject : c \in ToSet(result'.candidates)}
               most == localization_policy.max_candidates
           IN /\ result'.outcome = "localized" <=> (Cardinality(leaders) <= 1 \/ most = 1)
              /\ result'.outcome = "ambiguous" => named \subseteq leaders
              /\ \A n \in leaders \ named :
                   /\ Len(result'.candidates) = most
                   /\ \A m \in named : Score(n) <= Score(m)]_vars
  BY LeadersApart DEF BackedNodes, Qualified, Leaders
<1>3. Spec => CulpritsAreProved
  BY <1>1, AlwaysInv, PTL DEF Spec, CulpritsAreProved
<1>4. Spec => LeadersToldApart
  BY <1>2, AlwaysInv, PTL DEF Spec, LeadersToldApart
<1>5. QED
  BY <1>3, <1>4, PTL DEF NamedWithProof

-----------------------------------------------------------------------------
(***************************************************************************)
(* The greatest and the least of a finite set of numbers.                  *)
(***************************************************************************)
LEMMA MaxFacts ==
  ASSUME NEW S \in SUBSET Int, IsFiniteSet(S), S # {}
  PROVE  Max(S) \in S /\ Max(S) \in Int /\ \A y \in S : Max(S) >= y
<1> DEFINE R == {p \in S \X S : p[1] < p[2]}
           n == Cardinality(S) - 1
<1>1. \A x, y \in S : <<x, y>> \in R <=> x < y
  OBVIOUS
<1> HIDE DEF R
<1>2. StrictOrder(R, S)
  BY <1>1 DEF StrictOrder
<1>3. n \in Nat /\ Cardinality(S) = n + 1
  BY FS_CardinalityType, FS_EmptySet
<1> HIDE DEF n
<1>4. PICK x \in S : \A y \in S \ {x} : <<y, x>> \in R
  <2>1. \A m \in Nat : \A T \in SUBSET S : (IsFiniteSet(T) /\ Cardinality(T) = m + 1) =>
          \E x \in T : \A y \in T \ {x} : <<y, x>> \in R
    BY <1>2, LastInOrder
  <2>2. S \in SUBSET S
    OBVIOUS
  <2>3. QED
    BY <1>3, <2>1, <2>2
<1>5. x \in Int /\ \A y \in S : x >= y
  <2>1. ASSUME NEW y \in S, y # x PROVE y < x
    BY <1>1, <1>4, <2>1
  <2>2. QED
    BY <2>1
<1>6. Max(S) \in S /\ \A y \in S : Max(S) >= y
  BY <1>5 DEF Max
<1>7. QED
  BY <1>6

LEMMA MinFacts ==
  ASSUME NEW S \in SUBSET Int, IsFiniteSet(S), S # {}
  PROVE  Min(S) \in S /\ Min(S) \in Int /\ \A y \in S : Min(S) <= y
<1> DEFINE R == {p \in S \X S : p[1] > p[2]}
           n == Cardinality(S) - 1
<1>1. \A x, y \in S : <<x, y>> \in R <=> x > y
  OBVIOUS
<1> HIDE DEF R
<1>2. StrictOrder(R, S)
  BY <1>1 DEF StrictOrder
<1>3. n \in Nat /\ Cardinality(S) = n + 1
  BY FS_CardinalityType, FS_EmptySet
<1> HIDE DEF n
<1>4. PICK x \in S : \A y \in S \ {x} : <<y, x>> \in R
  <2>1. \A m \in Nat : \A T \in SUBSET S : (IsFiniteSet(T) /\ Cardinality(T) = m + 1) =>
          \E x \in T : \A y \in T \ {x} : <<y, x>> \in R
    BY <1>2, LastInOrder
  <2>2. S \in SUBSET S
    OBVIOUS
  <2>3. QED
    BY <1>3, <2>1, <2>2
<1>5. x \in Int /\ \A y \in S : x <= y
  <2>1. ASSUME NEW y \in S, y # x PROVE y > x
    BY <1>1, <1>4, <2>1
  <2>2. QED
    BY <2>1
<1>6. Min(S) \in S /\ \A y \in S : Min(S) <= y
  BY <1>5 DEF Min
<1>7. QED
  BY <1>6

-----------------------------------------------------------------------------
(***************************************************************************)
(* Windows, and what the buckets of a window hold.                         *)
(***************************************************************************)
\* A window of records that differ from each other.
WindowOK(w) ==
  /\ w \in Seq(Pool)
  /\ \A i, j \in 1..Len(w) : w[i] = w[j] => i = j

\* The records of a role that may decide at time t.
Found(reports, t, role) == {r \in reports : Decides(r, t) /\ role_of(r.kind) = role}

LEMMA WindowFacts ==
  ASSUME NEW w, WindowOK(w)
  PROVE  /\ Len(w) \in Nat /\ DOMAIN w = 1..Len(w) /\ w \in [1..Len(w) -> Pool]
         /\ ToSet(w) \subseteq Pool /\ IsFiniteSet(ToSet(w))
         /\ \A r : r \in ToSet(w) <=> \E i \in 1..Len(w) : w[i] = r
<1>1. w \in Seq(Pool)
  BY DEF WindowOK
<1>2. Len(w) \in Nat /\ DOMAIN w = 1..Len(w) /\ w \in [1..Len(w) -> Pool]
  BY <1>1, LenProperties
<1>3. \A r : r \in ToSet(w) <=> \E i \in 1..Len(w) : w[i] = r
  BY <1>2 DEF ToSet
<1>4. ToSet(w) \subseteq Pool
  BY <1>2, <1>3
<1>5. IsFiniteSet(ToSet(w))
  <2>1. IsFiniteSet(1..Len(w))
    BY <1>2, FS_Interval
  <2>2. w \in Surjection(1..Len(w), ToSet(w))
    BY <1>2, <1>3 DEF Surjection
  <2>3. QED
    BY <2>1, <2>2, FS_Surjection
<1>6. QED
  BY <1>2, <1>3, <1>4, <1>5

LEMMA AtWindow ==
  ASSUME NEW w, WindowOK(w), NEW P \in SUBSET (1..Len(w))
  PROVE  WindowOK(At(w, P)) /\ \A r : r \in ToSet(At(w, P)) <=> \E i \in P : w[i] = r
<1> DEFINE v == At(w, P)
           c == Cardinality(P)
           order == InOrder(P)
<1>1. Len(w) \in Nat /\ w \in [1..Len(w) -> Pool]
  BY WindowFacts
<1>2. Picks(v, w, Pool, P, c, order)
  BY <1>1, AtFacts
<1> HIDE DEF v, c, order
<1>3. /\ c \in Nat /\ v \in [1..c -> Pool] /\ order \in [1..c -> P]
      /\ \A i \in 1..c : v[i] = w[order[i]]
      /\ \A i, j \in 1..c : i < j => order[i] < order[j]
      /\ \A p \in P : \E i \in 1..c : order[i] = p
  BY <1>2 DEF Picks
<1>4. v \in Seq(Pool) /\ Len(v) = c
  BY <1>3, FunIsSeq
<1>5. ASSUME NEW i \in 1..c, NEW j \in 1..c, v[i] = v[j] PROVE i = j
  <2>1. order[i] = order[j]
    BY <1>3, <1>5 DEF WindowOK
  <2>2. order[i] \in Nat /\ order[j] \in Nat
    BY <1>1, <1>3
  <2>3. ~(i < j) /\ ~(j < i)
    BY <1>3, <2>1, <2>2
  <2>4. QED
    BY <1>3, <2>3
<1>6. WindowOK(v)
  BY <1>4, <1>5 DEF WindowOK
<1>7. \A r : r \in ToSet(v) <=> \E i \in P : w[i] = r
  <2>1. \A r : r \in ToSet(v) <=> \E i \in 1..c : v[i] = r
    BY <1>4, <1>6, WindowFacts
  <2>2. ASSUME NEW r, NEW i \in P, w[i] = r PROVE \E j \in 1..c : v[j] = r
    BY <1>3, <2>2
  <2>3. ASSUME NEW r, NEW j \in 1..c, v[j] = r PROVE \E i \in P : w[i] = r
    BY <1>3, <2>3
  <2>4. QED
    BY <2>1, <2>2, <2>3
<1>8. QED
  BY <1>6, <1>7 DEF v

LEMMA BucketFacts ==
  ASSUME NEW w, WindowOK(w), NEW t, NEW role
  PROVE  /\ WindowOK(Bucket(w, t, role))
         /\ ToSet(Bucket(w, t, role)) = Found(ToSet(w), t, role)
<1> DEFINE P == {i \in DOMAIN w : role_of(w[i].kind) = role /\ Decides(w[i], t)}
<1>1. DOMAIN w = 1..Len(w)
  BY WindowFacts
<1>2. P \in SUBSET (1..Len(w)) /\ Bucket(w, t, role) = At(w, P)
  BY <1>1 DEF Bucket
<1>3. WindowOK(At(w, P)) /\ \A r : r \in ToSet(At(w, P)) <=> \E i \in P : w[i] = r
  BY <1>2, AtWindow
<1>4. \A r : r \in ToSet(At(w, P)) <=> r \in Found(ToSet(w), t, role)
  <2>1. \A r : r \in ToSet(w) <=> \E i \in 1..Len(w) : w[i] = r
    BY WindowFacts
  <2>2. \A r : (\E i \in P : w[i] = r) <=> r \in Found(ToSet(w), t, role)
    BY <1>1, <2>1 DEF Found
  <2>3. QED
    BY <1>3, <2>2
<1>5. QED
  BY <1>2, <1>3, <1>4

-----------------------------------------------------------------------------
(***************************************************************************)
(* What shows harm: one record, or two latency samples.                    *)
(***************************************************************************)
\* A rate at its threshold, or a count that is not a lifetime total.
Harms(r) ==
  \E k \in RateKinds :
    /\ r.kind = k
    /\ r.scalar > 0
    /\ IF r.unit = "ratio" THEN r.scalar >= policy.threshold[k]
       ELSE ~(r.unit \in CountingUnits /\ r.semantics = "cumulative_counter")

\* A latency sample a factor above another.
Inflates(r, s) ==
  /\ r.kind = "latency_sample" /\ s.kind = "latency_sample"
  /\ r.scalar > 0 /\ s.scalar > 0
  /\ 100 * r.scalar >= policy.latency_inflation_factor * s.scalar

ShowsHarm(reports, t) ==
  \/ \E r \in reports : Decides(r, t) /\ Harms(r)
  \/ \E r, s \in reports : r # s /\ Decides(r, t) /\ Decides(s, t) /\ Inflates(r, s)

LEMMA PoolTypes ==
  /\ \A r \in Pool : /\ r.observed_at \in Int /\ r.received_at \in Int /\ r.validity \in Int
                     /\ r.scalar \in Int /\ r.id \in Nat /\ r.source \in Nat
  /\ policy.latency_inflation_factor \in Nat
  /\ policy.conflict_relative_tolerance \in Nat /\ policy.conflict_relative_tolerance <= 100
  /\ policy.max_future_skew \in Int /\ policy.fresh_within \in Int
  /\ policy.aging_within \in Int /\ policy.stale_within \in Int
  /\ \A k \in RateKinds : policy.threshold[k] \in Int
BY PolicyAssumption, ClassifierAssumption DEF validate

LEMMA LatencyFacts ==
  ASSUME NEW b, WindowOK(b)
  PROVE  LatencyInflated(b) <=> \E r, s \in ToSet(b) : r # s /\ Inflates(r, s)
<1> DEFINE positive == {i \in DOMAIN b : b[i].kind = "latency_sample" /\ b[i].scalar > 0}
           values == {b[i].scalar : i \in positive}
           factor == policy.latency_inflation_factor
<1>1. /\ Len(b) \in Nat /\ DOMAIN b = 1..Len(b) /\ b \in [1..Len(b) -> Pool]
      /\ \A r : r \in ToSet(b) <=> \E i \in 1..Len(b) : b[i] = r
  BY WindowFacts
<1>2. IsFiniteSet(positive)
  <2>1. IsFiniteSet(1..Len(b))
    BY <1>1, FS_Interval
  <2>2. QED
    BY <1>1, <2>1, FS_Subset
<1>3. values \in SUBSET Int /\ IsFiniteSet(values)
  <2>1. \A i \in positive : b[i].scalar \in Int
    BY <1>1, PoolTypes
  <2>2. IsFiniteSet(values)
    <3> DEFINE f == [i \in positive |-> b[i].scalar]
    <3>1. f \in Surjection(positive, values)
      BY DEF Surjection
    <3>2. QED
      BY <1>2, <3>1, FS_Surjection
  <2>3. QED
    BY <2>1, <2>2
<1>4. LatencyInflated(b) <=>
        Cardinality(positive) >= 2 /\ 100 * Max(values) >= factor * Min(values)
  BY DEF LatencyInflated
<1>5. Cardinality(positive) >= 2 <=> \E i, j \in positive : i # j
  BY <1>2, TwoElements
<1>6. \A i \in positive : /\ b[i] \in ToSet(b) /\ b[i].scalar \in Int /\ b[i].scalar \in values
                          /\ b[i].kind = "latency_sample" /\ b[i].scalar > 0
  BY <1>1, PoolTypes
<1>7. \A i, j \in positive : i # j => b[i] # b[j]
  BY <1>1 DEF WindowOK
<1>8. \A v \in values : \E i \in positive : b[i].scalar = v
  OBVIOUS
<1>9. factor \in Nat
  BY PoolTypes
<1>10. \A r, s \in ToSet(b) : r # s /\ Inflates(r, s) =>
         \E i, j \in positive : i # j /\ b[i] = r /\ b[j] = s
  BY <1>1 DEF Inflates
<1> HIDE DEF positive, values, factor
<1>11. ASSUME LatencyInflated(b)
       PROVE  \E r, s \in ToSet(b) : r # s /\ Inflates(r, s)
  <2>1. PICK i \in positive, j \in positive : i # j
    BY <1>4, <1>5, <1>11
  <2>2. values # {}
    BY <1>6, <2>1
  <2>3. /\ Max(values) \in values /\ \A v \in values : Max(values) >= v
        /\ Min(values) \in values /\ \A v \in values : Min(values) <= v
        /\ Max(values) \in Int /\ Min(values) \in Int
    BY <1>3, <2>2, MaxFacts, MinFacts
  <2>4. PICK k \in positive : b[k].scalar = Max(values)
    BY <1>8, <2>3
  <2>5. PICK l \in positive : b[l].scalar = Min(values)
    BY <1>8, <2>3
  <2>6. 100 * b[k].scalar >= factor * b[l].scalar
    BY <1>4, <1>11, <2>4, <2>5
  <2>7. CASE k # l
    BY <1>6, <1>7, <2>6, <2>7 DEF Inflates, factor
  <2>8. CASE k = l
    <3>1. Max(values) = Min(values)
      BY <2>4, <2>5, <2>8
    <3>2. \A v \in values : v = Max(values)
      BY <1>3, <2>3, <3>1
    <3>3. b[i].scalar = b[k].scalar /\ b[j].scalar = b[l].scalar
      BY <1>6, <2>4, <2>5, <3>1, <3>2
    <3>4. 100 * b[i].scalar >= factor * b[j].scalar
      BY <2>6, <3>3
    <3>5. QED
      BY <1>6, <1>7, <2>1, <3>4 DEF Inflates, factor
  <2>9. QED
    BY <2>7, <2>8
<1>12. ASSUME NEW r \in ToSet(b), NEW s \in ToSet(b), r # s, Inflates(r, s)
       PROVE  LatencyInflated(b)
  <2>1. PICK i \in positive, j \in positive : i # j /\ b[i] = r /\ b[j] = s
    BY <1>10, <1>12
  <2>2. 100 * b[i].scalar >= factor * b[j].scalar
    BY <1>12, <2>1 DEF Inflates, factor
  <2>3. /\ \A v \in values : Max(values) >= v
        /\ \A v \in values : Min(values) <= v
        /\ Max(values) \in Int /\ Min(values) \in Int
    BY <1>3, <1>6, <2>1, MaxFacts, MinFacts
  <2>4. 100 * Max(values) >= 100 * b[i].scalar
    BY <1>6, <2>1, <2>3
  <2>5. factor * b[j].scalar >= factor * Min(values)
    <3>1. b[j].scalar >= Min(values) /\ b[j].scalar \in Int
      BY <1>6, <2>1, <2>3
    <3>2. \A x, y, n \in Int : n >= 0 /\ x >= y => n * x >= n * y
      OBVIOUS
    <3>3. QED
      BY <1>9, <2>3, <3>1, <3>2
  <2>6. 100 * Max(values) >= factor * Min(values)
    <3>1. factor * b[j].scalar \in Int /\ factor * Min(values) \in Int
      BY <1>6, <1>9, <2>3
    <3>2. QED
      BY <1>6, <2>2, <2>3, <2>4, <2>5, <3>1
  <2>7. QED
    BY <1>4, <1>5, <2>1, <2>6
<1>13. QED
  BY <1>11, <1>12

LEMMA ScalarsFinite ==
  ASSUME NEW R \in SUBSET Pool, IsFiniteSet(R)
  PROVE  Scalars(R) \in SUBSET Int /\ IsFiniteSet(Scalars(R))
<1> DEFINE f == [r \in R |-> r.scalar]
<1>1. f \in Surjection(R, Scalars(R))
  BY DEF Surjection, Scalars
<1>2. Scalars(R) \in SUBSET Int
  BY PoolTypes DEF Scalars
<1>3. QED
  BY <1>1, <1>2, FS_Surjection

LEMMA GreatestFacts ==
  ASSUME NEW V \in SUBSET Int, IsFiniteSet(V)
  PROVE  /\ Greatest({0} \cup V) \in {0} \cup V /\ Greatest({0} \cup V) \in Nat
         /\ \A v \in V : Greatest({0} \cup V) >= v
<1> DEFINE W == {0} \cup V
<1>1. IsFiniteSet(W) /\ W \in SUBSET Int /\ W # {} /\ 0 \in W
  <2>1. IsFiniteSet(V \cup {0})
    BY FS_AddElement
  <2>2. W = V \cup {0}
    OBVIOUS
  <2>3. QED
    BY <2>1, <2>2
<1> HIDE DEF W
<1>2. Max(W) \in W /\ Max(W) \in Int /\ \A y \in W : Max(W) >= y
  BY <1>1, MaxFacts
<1>3. Greatest(W) = Max(W)
  BY <1>1 DEF Greatest
<1>4. QED
  BY <1>1, <1>2, <1>3 DEF W

\* What observe_rate says of the records of a kind.
LEMMA RateFacts ==
  ASSUME NEW R \in SUBSET Pool, IsFiniteSet(R), NEW k \in RateKinds
  PROVE  LET o == observe_rate(R, k)
         IN /\ o.rate \in Nat
            /\ (o.rate >= policy.threshold[k] /\ o.rate > 0) <=>
                 \E r \in R : /\ r.kind = k /\ r.scalar > 0 /\ r.unit = "ratio"
                              /\ r.scalar >= policy.threshold[k]
            /\ o.unquantified <=>
                 \E r \in R : /\ r.kind = k /\ r.scalar > 0 /\ r.unit # "ratio"
                              /\ ~(r.unit \in CountingUnits /\ r.semantics = "cumulative_counter")
            /\ o.rate > 0 => o.observed
            /\ o.unquantified => o.observed
<1> DEFINE of == {r \in R : r.kind = k}
           ratios == {r \in of : r.unit = "ratio"}
           totals == {r \in of : r.unit \in CountingUnits /\ r.semantics = "cumulative_counter"}
           counts == {r \in of \ (ratios \cup totals) : r.scalar > 0}
           o == observe_rate(R, k)
           rate == Greatest({0} \cup Scalars(ratios))
<1>1. /\ o.rate = rate
      /\ o.unquantified <=> counts # {}
      /\ o.observed <=> counts # {} \/ \E r \in ratios : r.scalar > 0
  BY DEF observe_rate
<1>2. /\ ratios \in SUBSET Pool /\ IsFiniteSet(ratios)
  BY FS_Subset
<1>3. \A r \in ratios : r.scalar \in Int /\ r.scalar \in Scalars(ratios)
  BY <1>2, PoolTypes DEF Scalars
<1>4. /\ rate \in {0} \cup Scalars(ratios) /\ rate \in Nat
      /\ \A v \in Scalars(ratios) : rate >= v
  <2>1. Scalars(ratios) \in SUBSET Int /\ IsFiniteSet(Scalars(ratios))
    BY <1>2, ScalarsFinite
  <2> HIDE DEF ratios
  <2>2. QED
    BY <2>1, GreatestFacts
<1>5. \A v \in Scalars(ratios) : \E r \in ratios : r.scalar = v
  BY DEF Scalars
<1>6. policy.threshold[k] \in Int
  BY PoolTypes
<1>7. (rate >= policy.threshold[k] /\ rate > 0) <=>
        \E r \in ratios : r.scalar > 0 /\ r.scalar >= policy.threshold[k]
  <2> HIDE DEF ratios, rate
  <2>1. ASSUME rate >= policy.threshold[k], rate > 0
        PROVE  \E r \in ratios : r.scalar > 0 /\ r.scalar >= policy.threshold[k]
    <3>1. PICK r \in ratios : r.scalar = rate
      BY <1>4, <1>5, <2>1
    <3>2. QED
      BY <2>1, <3>1
  <2>2. ASSUME NEW r \in ratios, r.scalar > 0, r.scalar >= policy.threshold[k]
        PROVE  rate >= policy.threshold[k] /\ rate > 0
    <3>1. rate >= r.scalar /\ r.scalar \in Int
      BY <1>3, <1>4
    <3>2. QED
      BY <1>4, <1>6, <2>2, <3>1
  <2>3. QED
    BY <2>1, <2>2
<1>8. rate > 0 => \E r \in ratios : r.scalar > 0
  <2> HIDE DEF ratios, rate
  <2> QED
    BY <1>4, <1>5
<1>9. \A r : r \in ratios <=> r \in R /\ r.kind = k /\ r.unit = "ratio"
  OBVIOUS
<1>10. counts # {} <=>
         \E r \in R : /\ r.kind = k /\ r.scalar > 0 /\ r.unit # "ratio"
                      /\ ~(r.unit \in CountingUnits /\ r.semantics = "cumulative_counter")
  OBVIOUS
<1> HIDE DEF ratios, counts, rate, o
<1>11. QED
  BY <1>1, <1>4, <1>7, <1>8, <1>9, <1>10 DEF o

-----------------------------------------------------------------------------
(***************************************************************************)
(* The features of a window.                                               *)
(***************************************************************************)
Mine(w) == {i \in DOMAIN w : w[i].subject = subject}

LEMMA Counted ==
  ASSUME NEW w, NEW t
  PROVE  LET f == extract_features(w, t)
         IN /\ f.records_in_window = Cardinality(Mine(w))
            /\ f.generation_mismatch = Cardinality({i \in Mine(w) : ~generation_matches(w[i])})
            /\ f.unsupported = Cardinality({i \in Mine(w) : w[i].support = "unsupported"})
            /\ f.any_fresh_deciding <=> \E i \in Mine(w) : Decides(w[i], t)
BY DEF extract_features, Mine

LEMMA Shown ==
  ASSUME NEW w, NEW t
  PROVE  LET f == extract_features(w, t)
             found(role) == ToSet(Bucket(w, t, role))
         IN /\ \A role \in Roles : role \in f.present <=> Bucket(w, t, role) # <<>>
            /\ f.latency_inflation <=> LatencyInflated(Bucket(w, t, "impairment"))
            /\ f.rates = [k \in RateKinds |-> observe_rate(found("impairment"), k)]
            /\ f.unquantified <=> \E k \in RateKinds : f.rates[k].unquantified
            /\ f.mechanisms = ObservedMechanisms(f.rates, f.latency_inflation)
BY DEF extract_features, Roles

LEMMA Measured ==
  ASSUME NEW w, NEW t
  PROVE  LET f == extract_features(w, t)
             found(role) == ToSet(Bucket(w, t, role))
             ratios == {r \in found("pressure") : r.unit = "ratio"}
             offered == Greatest({0} \cup Scalars({r \in found("demand") : r.kind = "offered_demand"}))
             capacity == Greatest(Scalars(found("capacity")))
         IN /\ f.utilization = Greatest(Scalars(found("utilization")))
            /\ f.pressure_ratio_available <=> ratios # {}
            /\ f.pressure_exceeds_ratio <=>
                 ratios # {} /\ Greatest({0} \cup Scalars(ratios)) >= policy.pressure_occupancy_ratio
            /\ f.demand_exceeds_capacity <=>
                 /\ capacity > 0
                 /\ offered > 0
                 /\ 100 * offered >= policy.demand_capacity_ratio * capacity
BY DEF extract_features, Roles

LEMMA Agreed ==
  ASSUME NEW w, NEW t
  PROVE  extract_features(w, t).agreement =
           [role \in ComparedRoles |-> assess_agreement(Bucket(w, t, role))]
BY DEF extract_features, Roles, ComparedRoles

LEMMA CountedFacts ==
  ASSUME NEW w, WindowOK(w), NEW t
  PROVE  LET f == extract_features(w, t)
         IN /\ f.records_in_window = 0 <=> ~\E r \in ToSet(w) : r.subject = subject
            /\ f.any_fresh_deciding <=> \E r \in ToSet(w) : Decides(r, t)
            /\ f.any_fresh_deciding => /\ f.records_in_window # 0
                                       /\ f.generation_mismatch # f.records_in_window
                                       /\ f.unsupported # f.records_in_window
            /\ f.records_in_window \in Nat
<1> DEFINE f == extract_features(w, t)
           other == {i \in Mine(w) : ~generation_matches(w[i])}
           unsupported == {i \in Mine(w) : w[i].support = "unsupported"}
<1>1. /\ f.records_in_window = Cardinality(Mine(w))
      /\ f.generation_mismatch = Cardinality(other)
      /\ f.unsupported = Cardinality(unsupported)
      /\ f.any_fresh_deciding <=> \E i \in Mine(w) : Decides(w[i], t)
  BY Counted
<1>2. /\ Len(w) \in Nat /\ DOMAIN w = 1..Len(w)
      /\ \A r : r \in ToSet(w) <=> \E i \in 1..Len(w) : w[i] = r
  BY WindowFacts
<1>3. IsFiniteSet(Mine(w)) /\ Cardinality(Mine(w)) \in Nat
  <2>1. IsFiniteSet(1..Len(w)) /\ Mine(w) \in SUBSET (1..Len(w))
    BY <1>2, FS_Interval DEF Mine
  <2>2. QED
    BY <2>1, FS_Subset, FS_CardinalityType
<1>4. other \in SUBSET Mine(w) /\ unsupported \in SUBSET Mine(w)
  OBVIOUS
<1>5. (\E i \in Mine(w) : Decides(w[i], t)) <=> \E r \in ToSet(w) : Decides(r, t)
  BY <1>2 DEF Mine, Decides
<1>6. Mine(w) = {} <=> ~\E r \in ToSet(w) : r.subject = subject
  BY <1>2 DEF Mine
<1>7. Cardinality(Mine(w)) = 0 <=> Mine(w) = {}
  BY <1>3, FS_EmptySet
<1>8. ASSUME NEW i \in Mine(w), Decides(w[i], t)
      PROVE  /\ Cardinality(other) # Cardinality(Mine(w))
             /\ Cardinality(unsupported) # Cardinality(Mine(w))
  <2>1. i \notin other /\ i \notin unsupported
    BY <1>8 DEF Decides
  <2> HIDE DEF other, unsupported
  <2>2. Cardinality(Mine(w)) = Cardinality(other) => Mine(w) = other
    BY <1>3, <1>4, FS_Subset
  <2>3. Cardinality(Mine(w)) = Cardinality(unsupported) => Mine(w) = unsupported
    BY <1>3, <1>4, FS_Subset
  <2>4. QED
    BY <1>8, <2>1, <2>2, <2>3
<1> HIDE DEF other, unsupported, f
<1>9. f.any_fresh_deciding => /\ f.records_in_window # 0
                              /\ f.generation_mismatch # f.records_in_window
                              /\ f.unsupported # f.records_in_window
  BY <1>1, <1>7, <1>8
<1>10. QED
  BY <1>1, <1>3, <1>5, <1>6, <1>7, <1>9 DEF f

\* The roles of what can show harm.
LEMMA HarmfulRoles ==
  /\ \A k \in RateKinds \cup {"latency_sample"} : role_of(k) = "impairment"
  /\ "latency_sample" \notin RateKinds
BY DEF role_of, RoleOf, RateKinds

\* R04 applies exactly if a record, or a pair of latency samples, shows harm.
LEMMA DecisiveFacts ==
  ASSUME NEW w, WindowOK(w), NEW t
  PROVE  /\ impairment_is_decisive(extract_features(w, t)) <=> ShowsHarm(ToSet(w), t)
         /\ impairment_is_decisive(extract_features(w, t)) =>
              extract_features(w, t).mechanisms # {}
<1> DEFINE f == extract_features(w, t)
           b == Bucket(w, t, "impairment")
           R == Found(ToSet(w), t, "impairment")
<1>1. WindowOK(b) /\ ToSet(b) = R
  BY BucketFacts
<1>2. R \in SUBSET Pool /\ IsFiniteSet(R)
  BY <1>1, WindowFacts
<1>3. /\ "impairment" \in f.present <=> b # <<>>
      /\ f.latency_inflation <=> LatencyInflated(b)
      /\ f.rates = [k \in RateKinds |-> observe_rate(R, k)]
      /\ f.unquantified <=> \E k \in RateKinds : f.rates[k].unquantified
      /\ f.mechanisms = ObservedMechanisms(f.rates, f.latency_inflation)
  BY <1>1, Shown DEF Roles
<1>4. b # <<>> <=> R # {}
  <2>1. Len(b) \in Nat /\ \A r : r \in R <=> \E i \in 1..Len(b) : b[i] = r
    BY <1>1, WindowFacts
  <2>2. Len(b) = 0 <=> b = <<>>
    BY <1>1, EmptySeq DEF WindowOK
  <2>3. R # {} <=> Len(b) # 0
    <3>1. Len(b) # 0 => 1 \in 1..Len(b)
      BY <2>1
    <3>2. ASSUME R # {} PROVE Len(b) # 0
      BY <2>1, <3>2
    <3>3. ASSUME Len(b) # 0 PROVE R # {}
      BY <2>1, <3>1, <3>3
    <3>4. QED
      BY <3>2, <3>3
  <2>4. QED
    BY <2>2, <2>3
<1>5. \A r : r \in R <=> r \in ToSet(w) /\ Decides(r, t) /\ role_of(r.kind) = "impairment"
  BY DEF Found
<1>6. f.latency_inflation <=> \E r, s \in R : r # s /\ Inflates(r, s)
  BY <1>1, <1>3, LatencyFacts
<1> HIDE DEF f, b, R
<1>7. \A k \in RateKinds :
        /\ RateAbove(f, k) <=>
             \E r \in R : /\ r.kind = k /\ r.scalar > 0 /\ r.unit = "ratio"
                          /\ r.scalar >= policy.threshold[k]
        /\ f.rates[k].unquantified <=>
             \E r \in R : /\ r.kind = k /\ r.scalar > 0 /\ r.unit # "ratio"
                          /\ ~(r.unit \in CountingUnits /\ r.semantics = "cumulative_counter")
        /\ RateAbove(f, k) \/ f.rates[k].unquantified => f.rates[k].observed
  <2> SUFFICES ASSUME NEW k \in RateKinds
               PROVE
        /\ RateAbove(f, k) <=>
             \E r \in R : /\ r.kind = k /\ r.scalar > 0 /\ r.unit = "ratio"
                          /\ r.scalar >= policy.threshold[k]
        /\ f.rates[k].unquantified <=>
             \E r \in R : /\ r.kind = k /\ r.scalar > 0 /\ r.unit # "ratio"
                          /\ ~(r.unit \in CountingUnits /\ r.semantics = "cumulative_counter")
        /\ RateAbove(f, k) \/ f.rates[k].unquantified => f.rates[k].observed
    OBVIOUS
  <2> DEFINE o == observe_rate(R, k)
  <2>1. f.rates[k] = o
    BY <1>3
  <2>2. /\ (o.rate >= policy.threshold[k] /\ o.rate > 0) <=>
             \E r \in R : /\ r.kind = k /\ r.scalar > 0 /\ r.unit = "ratio"
                          /\ r.scalar >= policy.threshold[k]
        /\ o.unquantified <=>
             \E r \in R : /\ r.kind = k /\ r.scalar > 0 /\ r.unit # "ratio"
                          /\ ~(r.unit \in CountingUnits /\ r.semantics = "cumulative_counter")
        /\ o.rate > 0 => o.observed
        /\ o.unquantified => o.observed
    BY <1>2, RateFacts
  <2> HIDE DEF o
  <2>3. RateAbove(f, k) <=> (o.rate >= policy.threshold[k] /\ o.rate > 0)
    BY <2>1 DEF RateAbove
  <2>4. QED
    BY <2>1, <2>2, <2>3
<1>8. (\E k \in RateKinds : RateAbove(f, k) \/ f.rates[k].unquantified) <=> \E r \in R : Harms(r)
  <2>1. ASSUME NEW k \in RateKinds, RateAbove(f, k) \/ f.rates[k].unquantified
        PROVE  \E r \in R : Harms(r)
    BY <1>7, <2>1 DEF Harms
  <2>2. ASSUME NEW r \in R, Harms(r)
        PROVE  \E k \in RateKinds : RateAbove(f, k) \/ f.rates[k].unquantified
    <3>1. PICK k \in RateKinds : /\ r.kind = k
                                 /\ r.scalar > 0
                                 /\ IF r.unit = "ratio" THEN r.scalar >= policy.threshold[k]
                                    ELSE ~(r.unit \in CountingUnits /\ r.semantics = "cumulative_counter")
      BY <2>2 DEF Harms
    <3>2. QED
      BY <1>7, <3>1
  <2>3. QED
    BY <2>1, <2>2
<1>9. impairment_is_decisive(f) <=>
        (\E r \in R : Harms(r)) \/ (\E r, s \in R : r # s /\ Inflates(r, s))
  BY <1>3, <1>4, <1>6, <1>8 DEF impairment_is_decisive
<1>10. \A r : Harms(r) => role_of(r.kind) = "impairment"
  BY HarmfulRoles DEF Harms
<1>11. \A r, s : Inflates(r, s) => role_of(r.kind) = "impairment" /\ role_of(s.kind) = "impairment"
  BY HarmfulRoles DEF Inflates
<1>12. impairment_is_decisive(f) <=> ShowsHarm(ToSet(w), t)
  BY <1>5, <1>9, <1>10, <1>11 DEF ShowsHarm
<1>13. ASSUME impairment_is_decisive(f) PROVE f.mechanisms # {}
  <2>1. CASE f.latency_inflation
    BY <1>3, <2>1 DEF ObservedMechanisms
  <2>2. CASE ~f.latency_inflation
    <3>1. PICK k \in RateKinds : f.rates[k].observed
      BY <1>3, <1>7, <1>13, <2>2 DEF impairment_is_decisive
    <3>2. MechanismOf[k] \in ObservedMechanisms(f.rates, f.latency_inflation)
      BY <3>1 DEF ObservedMechanisms
    <3>3. QED
      BY <1>3, <3>2
  <2>3. QED
    BY <2>1, <2>2
<1>14. QED
  BY <1>12, <1>13 DEF f

-----------------------------------------------------------------------------
(***************************************************************************)
(* The verdict: the first rule that applies.                               *)
(***************************************************************************)
\* The rule that decides.
Deciding(f) == Min({i \in DOMAIN Rules(f) : Rules(f)[i].applies})

\* One of the rules that refuse to decide applies.
Undecided(f) ==
  \/ f.records_in_window = 0
  \/ f.generation_mismatch = f.records_in_window
  \/ f.unsupported = f.records_in_window
  \/ ~f.any_fresh_deciding

LEMMA RulesApply ==
  ASSUME NEW f
  PROVE  /\ DOMAIN Rules(f) = 1..10
         /\ Rules(f)[1].applies <=> f.records_in_window = 0
         /\ Rules(f)[2].applies <=> f.generation_mismatch = f.records_in_window
         /\ Rules(f)[3].applies <=> f.unsupported = f.records_in_window
         /\ Rules(f)[4].applies <=> ~f.any_fresh_deciding
         /\ Rules(f)[5].applies <=> impairment_is_decisive(f)
         /\ Rules(f)[6].applies <=> f.demand_exceeds_capacity /\ "demand" \in f.present
         /\ Rules(f)[7].applies <=> backlog_meaningful(f)
         /\ Rules(f)[8].applies <=> /\ "contention" \in f.present
                                    /\ UtilizationAbove(f, policy.utilization_attention)
         /\ Rules(f)[9].applies <=> UtilizationAbove(f, policy.utilization_attention)
         /\ Rules(f)[10].applies
<1>0. DOMAIN Rules(f) = 1..10
  BY DEF Rules
<1>1. Rules(f)[1].applies <=> f.records_in_window = 0
  BY Zenon DEF Rules
<1>2. Rules(f)[2].applies <=> f.generation_mismatch = f.records_in_window
  BY Zenon DEF Rules
<1>3. Rules(f)[3].applies <=> f.unsupported = f.records_in_window
  BY Zenon DEF Rules
<1>4. Rules(f)[4].applies <=> ~f.any_fresh_deciding
  BY Zenon DEF Rules
<1>5. Rules(f)[5].applies <=> impairment_is_decisive(f)
  BY Zenon DEF Rules
<1>6. Rules(f)[6].applies <=> f.demand_exceeds_capacity /\ "demand" \in f.present
  BY Zenon DEF Rules
<1>7. Rules(f)[7].applies <=> backlog_meaningful(f)
  BY Zenon DEF Rules
<1>8. Rules(f)[8].applies <=> "contention" \in f.present /\ UtilizationAbove(f, policy.utilization_attention)
  BY Zenon DEF Rules
<1>9. Rules(f)[9].applies <=> UtilizationAbove(f, policy.utilization_attention)
  BY Zenon DEF Rules
<1>10. Rules(f)[10].applies
  BY Zenon DEF Rules
<1>11. QED
  BY <1>0, <1>1, <1>2, <1>3, <1>4, <1>5, <1>6, <1>7, <1>8, <1>9, <1>10, Zenon

LEMMA RulesSay ==
  ASSUME NEW f
  PROVE  /\ Rules(f)[1].verdict = "no_evidence"
         /\ Rules(f)[2].verdict = "indeterminate"
         /\ Rules(f)[3].verdict = "indeterminate"
         /\ Rules(f)[4].verdict = "indeterminate"
         /\ Rules(f)[5].verdict = "congestion_confirmed"
         /\ Rules(f)[6].verdict = "saturated"
         /\ Rules(f)[7].verdict = "pressure_observed"
         /\ Rules(f)[8].verdict = "contention_observed"
         /\ Rules(f)[9].verdict = "utilized_healthy"
         /\ Rules(f)[10].verdict = "idle"
BY DEF Rules

LEMMA DecidingFacts ==
  ASSUME NEW f
  PROVE  /\ Deciding(f) \in 1..10 /\ Rules(f)[Deciding(f)].applies
         /\ \A m \in 1..10 : m < Deciding(f) => ~Rules(f)[m].applies
<1> DEFINE S == {i \in DOMAIN Rules(f) : Rules(f)[i].applies}
<1>1. DOMAIN Rules(f) = 1..10 /\ Rules(f)[10].applies
  BY RulesApply
<1>2. S \in SUBSET (1..10) /\ 10 \in S
  BY <1>1
<1>3. IsFiniteSet(S) /\ S \in SUBSET Int /\ S # {}
  <2>1. 1 \in Int /\ 10 \in Int
    OBVIOUS
  <2>2. IsFiniteSet(1..10)
    BY <2>1, FS_Interval
  <2>3. QED
    BY <1>2, <2>2, FS_Subset
<1>4. \A i \in 1..10 : i \in S <=> Rules(f)[i].applies
  BY <1>1
<1>5. Deciding(f) = Min(S)
  BY DEF Deciding
<1> HIDE DEF S
<1>6. Min(S) \in S /\ \A y \in S : Min(S) <= y
  BY <1>3, MinFacts
<1>7. Min(S) \in 1..10 /\ \A m \in 1..10 : m < Min(S) => m \notin S
  <2>1. Min(S) \in 1..10
    BY <1>2, <1>6
  <2>2. ASSUME NEW m \in 1..10, m < Min(S), m \in S PROVE FALSE
    BY <1>6, <2>1, <2>2
  <2>3. QED
    BY <2>1, <2>2
<1>8. QED
  BY <1>4, <1>5, <1>6, <1>7

\* What an assessment says, from the features of the window.
Says(a, f, citations) ==
  /\ a.verdict = Rules(f)[Deciding(f)].verdict
  /\ a.congestion_asserted <=> a.verdict = "congestion_confirmed"
  /\ a.mechanisms = IF a.verdict = "congestion_confirmed" THEN f.mechanisms ELSE {}
  /\ a.confidence = compute_confidence(f, a.verdict)
  /\ a.agreement = f.agreement
  /\ a.citations = citations
  /\ collect_conflict_blockers(f) \subseteq a.blockers

LEMMA Concluded ==
  ASSUME NEW f, NEW citations
  PROVE  Says(Conclusion(f, citations), f, citations)
BY DEF Says, Conclusion, Deciding

LEMMA Classified ==
  ASSUME NEW w, NEW t
  PROVE  LET f == extract_features(w, t)
             a == classify_subject(w, t)
         IN /\ a.verdict = Rules(f)[Deciding(f)].verdict
            /\ a.congestion_asserted <=> a.verdict = "congestion_confirmed"
            /\ a.mechanisms = IF a.verdict = "congestion_confirmed" THEN f.mechanisms ELSE {}
            /\ a.confidence = compute_confidence(f, a.verdict)
            /\ a.agreement = f.agreement
            /\ a.citations = collect_citations(w, t)
            /\ collect_conflict_blockers(f) \subseteq a.blockers
<1>1. Says(classify_subject(w, t), extract_features(w, t), collect_citations(w, t))
  BY Concluded DEF classify_subject
<1>2. QED
  BY <1>1 DEF Says

\* What the verdict follows from.
VerdictOn(f, verdict) ==
  IF Undecided(f) THEN verdict = IF f.records_in_window = 0 THEN "no_evidence" ELSE "indeterminate"
  ELSE IF impairment_is_decisive(f) THEN verdict = "congestion_confirmed"
  ELSE IF f.demand_exceeds_capacity /\ "demand" \in f.present THEN verdict = "saturated"
  ELSE IF backlog_meaningful(f) THEN verdict = "pressure_observed"
  ELSE IF UtilizationAbove(f, policy.utilization_attention)
       THEN verdict = IF "contention" \in f.present THEN "contention_observed" ELSE "utilized_healthy"
  ELSE verdict = "idle"

LEMMA VerdictFacts ==
  ASSUME NEW w, NEW t
  PROVE  VerdictOn(extract_features(w, t), classify_subject(w, t).verdict)
<1> DEFINE f == extract_features(w, t)
           v == classify_subject(w, t).verdict
           n == Deciding(f)
           A(i) == Rules(f)[i].applies
<1>1. v = Rules(f)[n].verdict
  BY Classified
<1>2. n \in 1..10 /\ A(n) /\ \A m \in 1..10 : m < n => ~A(m)
  BY DecidingFacts
<1>3. n = 1 \/ n = 2 \/ n = 3 \/ n = 4 \/ n = 5 \/ n = 6 \/ n = 7 \/ n = 8 \/ n = 9 \/ n = 10
  BY <1>2
<1>4. \A m \in 1..9 : m < n => ~A(m)
  BY <1>2
<1> SUFFICES VerdictOn(f, v)
  OBVIOUS
<1> HIDE DEF f, v, n
<1>5. CASE n \in 1..4
  <2>1. v = IF n = 1 THEN "no_evidence" ELSE "indeterminate"
    BY <1>1, <1>3, <1>5, RulesSay
  <2>2. Undecided(f)
    <3>1. A(1) \/ A(2) \/ A(3) \/ A(4)
      BY <1>2, <1>3, <1>5
    <3>2. QED
      BY <3>1, RulesApply, Zenon DEF Undecided
  <2>3. n = 1 <=> f.records_in_window = 0
    <3>1. n = 1 <=> A(1)
      BY <1>2, <1>5
    <3>2. QED
      BY <3>1, RulesApply, Zenon
  <2>4. QED
    BY <2>1, <2>2, <2>3, Zenon DEF VerdictOn
<1>6. CASE n \in 5..10
  <2>1. ~A(1) /\ ~A(2) /\ ~A(3) /\ ~A(4)
    BY <1>4, <1>6
  <2>2. ~Undecided(f)
    BY <2>1, RulesApply, Zenon DEF Undecided
  <2>3. CASE n = 5
    <3>1. A(5)
      BY <1>2, <1>4, <2>3
    <3>2. /\ impairment_is_decisive(f)
      BY <3>1, RulesApply, Zenon
    <3>3. v = "congestion_confirmed"
      BY <1>1, <2>3, RulesSay
    <3>4. QED
      BY <2>2, <3>2, <3>3, Zenon DEF VerdictOn
  <2>4. CASE n = 6
    <3>1. ~A(5) /\ A(6)
      BY <1>2, <1>4, <2>4
    <3>2. /\ ~impairment_is_decisive(f)
          /\ (f.demand_exceeds_capacity /\ "demand" \in f.present)
      BY <3>1, RulesApply, Zenon
    <3>3. v = "saturated"
      BY <1>1, <2>4, RulesSay
    <3>4. QED
      BY <2>2, <3>2, <3>3, Zenon DEF VerdictOn
  <2>5. CASE n = 7
    <3>1. ~A(5) /\ ~A(6) /\ A(7)
      BY <1>2, <1>4, <2>5
    <3>2. /\ ~impairment_is_decisive(f)
          /\ ~(f.demand_exceeds_capacity /\ "demand" \in f.present)
          /\ backlog_meaningful(f)
      BY <3>1, RulesApply, Zenon
    <3>3. v = "pressure_observed"
      BY <1>1, <2>5, RulesSay
    <3>4. QED
      BY <2>2, <3>2, <3>3, Zenon DEF VerdictOn
  <2>6. CASE n = 8
    <3>1. ~A(5) /\ ~A(6) /\ ~A(7) /\ A(8)
      BY <1>2, <1>4, <2>6
    <3>2. /\ ~impairment_is_decisive(f)
          /\ ~(f.demand_exceeds_capacity /\ "demand" \in f.present)
          /\ ~backlog_meaningful(f)
          /\ ("contention" \in f.present /\ UtilizationAbove(f, policy.utilization_attention))
      BY <3>1, RulesApply, Zenon
    <3>3. v = "contention_observed"
      BY <1>1, <2>6, RulesSay
    <3>4. QED
      BY <2>2, <3>2, <3>3, Zenon DEF VerdictOn
  <2>7. CASE n = 9
    <3>1. ~A(5) /\ ~A(6) /\ ~A(7) /\ ~A(8) /\ A(9)
      BY <1>2, <1>4, <2>7
    <3>2. /\ ~impairment_is_decisive(f)
          /\ ~(f.demand_exceeds_capacity /\ "demand" \in f.present)
          /\ ~backlog_meaningful(f)
          /\ ~("contention" \in f.present /\ UtilizationAbove(f, policy.utilization_attention))
          /\ UtilizationAbove(f, policy.utilization_attention)
      BY <3>1, RulesApply, Zenon
    <3>3. v = "utilized_healthy"
      BY <1>1, <2>7, RulesSay
    <3>4. QED
      BY <2>2, <3>2, <3>3, Zenon DEF VerdictOn
  <2>8. CASE n = 10
    <3>1. ~A(5) /\ ~A(6) /\ ~A(7) /\ ~A(8) /\ ~A(9)
      BY <1>2, <1>4, <2>8
    <3>2. /\ ~impairment_is_decisive(f)
          /\ ~(f.demand_exceeds_capacity /\ "demand" \in f.present)
          /\ ~backlog_meaningful(f)
          /\ ~("contention" \in f.present /\ UtilizationAbove(f, policy.utilization_attention))
          /\ ~UtilizationAbove(f, policy.utilization_attention)
      BY <3>1, RulesApply, Zenon
    <3>3. v = "idle"
      BY <1>1, <2>8, RulesSay
    <3>4. QED
      BY <2>2, <3>2, <3>3, Zenon DEF VerdictOn
  <2>9. QED
    BY <1>6, <2>3, <2>4, <2>5, <2>6, <2>7, <2>8
<1>7. QED
  BY <1>2, <1>5, <1>6

\* Congestion is asserted exactly if a deciding record, or pair, shows harm.
LEMMA Asserted ==
  ASSUME NEW w, WindowOK(w), NEW t
  PROVE  LET a == classify_subject(w, t)
         IN /\ a.congestion_asserted <=> ShowsHarm(ToSet(w), t)
            /\ a.congestion_asserted <=> a.mechanisms # {}
            /\ a.congestion_asserted <=> a.verdict = "congestion_confirmed"
<1> DEFINE f == extract_features(w, t)
           a == classify_subject(w, t)
<1>1. /\ a.congestion_asserted <=> a.verdict = "congestion_confirmed"
      /\ a.mechanisms = IF a.verdict = "congestion_confirmed" THEN f.mechanisms ELSE {}
  BY Classified
<1>2. VerdictOn(f, a.verdict)
  BY VerdictFacts
<1>3. /\ impairment_is_decisive(f) <=> ShowsHarm(ToSet(w), t)
      /\ impairment_is_decisive(f) => f.mechanisms # {}
  BY DecisiveFacts
<1>4. /\ f.any_fresh_deciding <=> \E r \in ToSet(w) : Decides(r, t)
      /\ f.any_fresh_deciding => /\ f.records_in_window # 0
                                 /\ f.generation_mismatch # f.records_in_window
                                 /\ f.unsupported # f.records_in_window
  BY CountedFacts
<1>5. ShowsHarm(ToSet(w), t) => \E r \in ToSet(w) : Decides(r, t)
  BY DEF ShowsHarm
<1> HIDE DEF f, a
<1>6. ShowsHarm(ToSet(w), t) => ~Undecided(f)
  BY <1>4, <1>5 DEF Undecided
<1>7. a.verdict = "congestion_confirmed" <=> ShowsHarm(ToSet(w), t)
  BY <1>2, <1>3, <1>6 DEF VerdictOn
<1>8. QED
  BY <1>1, <1>3, <1>7 DEF a

-----------------------------------------------------------------------------
(***************************************************************************)
(* The inductive invariant of Classifier: the records of the window        *)
(* differ, and the assessment is the one of the window at the time of the  *)
(* request.                                                                *)
(***************************************************************************)
ClassifierInv ==
  /\ evaluated_at \in 1..MaxTime
  /\ WindowOK(window)
  /\ assessment = classify_subject(window, evaluated_at)

LEMMA ClassifierInitInv == ClassifierInit => ClassifierInv
<1> SUFFICES ASSUME ClassifierInit PROVE ClassifierInv
  OBVIOUS
<1>1. WindowOK(<<>>)
  BY DEF WindowOK
<1>2. 1 \in 1..MaxTime
  BY ClassifierAssumption
<1>3. QED
  BY <1>1, <1>2 DEF ClassifierInit, ClassifierInv

LEMMA ArriveKeeps ==
  ASSUME ClassifierInv, NEW r \in Pool, Arrive(r)
  PROVE  ClassifierInv' /\ window' # window
<1>1. WindowOK(window) /\ r \notin ToSet(window) /\ window' = Append(window, r)
  BY DEF ClassifierInv, Arrive
<1>2. window \in Seq(Pool) /\ Len(window) \in Nat
      /\ \A x : x \in ToSet(window) <=> \E i \in 1..Len(window) : window[i] = x
  BY <1>1, WindowFacts DEF WindowOK
<1>3. /\ window' \in Seq(Pool) /\ Len(window') = Len(window) + 1
      /\ \A i \in 1..Len(window) : window'[i] = window[i]
      /\ window'[Len(window) + 1] = r
  BY <1>1, <1>2, AppendProperties
<1>4. \A i \in 1..Len(window) : window[i] # r
  BY <1>1, <1>2
<1>5. ASSUME NEW i \in 1..(Len(window) + 1), NEW j \in 1..(Len(window) + 1),
             window'[i] = window'[j]
      PROVE  i = j
  <2>1. CASE i = Len(window) + 1 /\ j = Len(window) + 1
    BY <2>1
  <2>2. CASE i \in 1..Len(window) /\ j = Len(window) + 1
    BY <1>3, <1>4, <1>5, <2>2
  <2>3. CASE j \in 1..Len(window) /\ i = Len(window) + 1
    BY <1>3, <1>4, <1>5, <2>3
  <2>4. CASE i \in 1..Len(window) /\ j \in 1..Len(window)
    BY <1>1, <1>3, <1>5, <2>4 DEF WindowOK
  <2>5. QED
    BY <1>2, <2>1, <2>2, <2>3, <2>4
<1>6. WindowOK(window')
  BY <1>3, <1>5 DEF WindowOK
<1>7. Len(window') # Len(window)
  BY <1>2, <1>3
<1>8. window' # window
  BY <1>7
<1>9. evaluated_at' = evaluated_at /\ assessment' = classify_subject(window', evaluated_at)
  BY DEF Arrive
<1>10. QED
  BY <1>6, <1>8, <1>9 DEF ClassifierInv

LEMMA TickKeeps ==
  ASSUME ClassifierInv, Tick
  PROVE  ClassifierInv'
<1>1. evaluated_at + 1 \in 1..MaxTime
  BY ClassifierAssumption DEF ClassifierInv, Tick
<1>2. QED
  BY <1>1 DEF ClassifierInv, Tick

LEMMA ClassifierNextKeeps ==
  ClassifierInv /\ [ClassifierNext]_classifier_vars => ClassifierInv'
<1> SUFFICES ASSUME ClassifierInv, [ClassifierNext]_classifier_vars
             PROVE  ClassifierInv'
  OBVIOUS
<1>1. CASE Tick
  BY <1>1, TickKeeps
<1>2. ASSUME NEW r \in Pool, Arrive(r) PROVE ClassifierInv'
  BY <1>2, ArriveKeeps
<1>3. CASE UNCHANGED classifier_vars
  BY <1>3 DEF ClassifierInv, classifier_vars
<1>4. QED
  BY <1>1, <1>2, <1>3 DEF ClassifierNext

LEMMA ClassifierAlways == ClassifierSpec => []ClassifierInv
<1>1. QED
  BY ClassifierInitInv, ClassifierNextKeeps, PTL DEF ClassifierSpec

-----------------------------------------------------------------------------
(***************************************************************************)
(* Harm is witnessed.                                                      *)
(***************************************************************************)
LEMMA OneRecord ==
  ASSUME NEW r \in Pool, NEW t
  PROVE  classify_subject(<<r>>, t).congestion_asserted <=> Decides(r, t) /\ Harms(r)
<1>1. WindowOK(<<r>>)
  BY DEF WindowOK
<1>2. ToSet(<<r>>) = {r}
  BY DEF ToSet
<1>3. classify_subject(<<r>>, t).congestion_asserted <=> ShowsHarm({r}, t)
  BY <1>1, <1>2, Asserted
<1>4. QED
  BY <1>3 DEF ShowsHarm

LEMMA TwoRecords ==
  ASSUME NEW r \in Pool, NEW s \in Pool, NEW t, r # s,
         r.kind = "latency_sample", s.kind = "latency_sample"
  PROVE  classify_subject(<<r, s>>, t).congestion_asserted <=>
           Decides(r, t) /\ Decides(s, t) /\ (Inflates(r, s) \/ Inflates(s, r))
<1>1. WindowOK(<<r, s>>)
  <2>1. /\ <<r, s>> \in Seq(Pool) /\ Len(<<r, s>>) = 2
        /\ <<r, s>>[1] = r /\ <<r, s>>[2] = s
    OBVIOUS
  <2>2. \A i, j \in 1..2 : <<r, s>>[i] = <<r, s>>[j] => i = j
    BY <2>1
  <2>3. QED
    BY <2>1, <2>2 DEF WindowOK
<1>2. ToSet(<<r, s>>) = {r, s}
  BY DEF ToSet
<1>3. classify_subject(<<r, s>>, t).congestion_asserted <=> ShowsHarm({r, s}, t)
  BY <1>1, <1>2, Asserted
<1>4. ~Harms(r) /\ ~Harms(s)
  BY HarmfulRoles DEF Harms
<1>5. QED
  BY <1>3, <1>4 DEF ShowsHarm

LEMMA WitnessedByInv == ClassifierInv => HarmIsWitnessed
<1> SUFFICES ASSUME ClassifierInv PROVE HarmIsWitnessed
  OBVIOUS
<1> DEFINE t == evaluated_at
           R == ToSet(window)
           proves(reports) == classify_subject(reports, t).congestion_asserted
           latency == {r \in R : r.kind = "latency_sample"}
<1>1. R \subseteq Pool
  BY WindowFacts DEF ClassifierInv
<1>2. assessment.congestion_asserted <=> ShowsHarm(R, t)
  BY Asserted DEF ClassifierInv
<1>3. \A r \in R : proves(<<r>>) <=> Decides(r, t) /\ Harms(r)
  BY <1>1, OneRecord
<1>4. \A r, s \in latency : r # s =>
        (proves(<<r, s>>) <=> Decides(r, t) /\ Decides(s, t) /\ (Inflates(r, s) \/ Inflates(s, r)))
  BY <1>1, TwoRecords
<1>5. \A r, s \in R : Inflates(r, s) => r \in latency /\ s \in latency
  BY DEF Inflates
<1>6. latency \subseteq R
  OBVIOUS
<1>7. HarmIsWitnessed <=>
        (assessment.congestion_asserted <=>
           \/ \E r \in R : proves(<<r>>)
           \/ \E r, s \in latency : r # s /\ proves(<<r, s>>))
  BY DEF HarmIsWitnessed
<1> HIDE DEF t, R, proves, latency
<1>8. (\E r \in R : proves(<<r>>)) <=> \E r \in R : Decides(r, t) /\ Harms(r)
  BY <1>3
<1>9. (\E r, s \in latency : r # s /\ proves(<<r, s>>)) <=>
        \E r, s \in R : r # s /\ Decides(r, t) /\ Decides(s, t) /\ Inflates(r, s)
  BY <1>4, <1>5, <1>6
<1>10. QED
  BY <1>2, <1>7, <1>8, <1>9 DEF ShowsHarm

(***************************************************************************)
(* Congestion is asserted on the word of one record or of two latency      *)
(* samples, and nothing in the window outvotes them (classify.cpp, rule    *)
(* R04), for every window, policy and time.                                *)
(***************************************************************************)
THEOREM HarmHasWitness == ClassifierSpec => []HarmIsWitnessed
<1>1. QED
  BY ClassifierAlways, WitnessedByInv, PTL

-----------------------------------------------------------------------------
(***************************************************************************)
(* Waiting proves nothing.                                                 *)
(***************************************************************************)
\* A record that decides a step later and is plausible now decides now.
LEMMA DecidesBefore ==
  ASSUME NEW r \in Pool, NEW t \in Int, Decides(r, t + 1), ~Implausible(r, t)
  PROVE  Decides(r, t)
<1>1. /\ r.observed_at \in Int /\ r.received_at \in Int /\ r.validity \in Int
      /\ policy.fresh_within \in Int /\ policy.aging_within \in Int /\ policy.stale_within \in Int
  BY PoolTypes
<1>2. assess_freshness(r, t + 1) = "fresh"
  BY DEF Decides, usable_as_deciding_evidence
<1>3. /\ ~r.recovered_from_snapshot /\ ~r.retired /\ r.clock # "unknown"
      /\ r.observed_at # 0 /\ r.received_at # 0
  BY <1>2 DEF assess_freshness
<1>4. /\ ~((t + 1) - r.observed_at > policy.stale_within)
      /\ ~((t + 1) - r.observed_at > r.validity)
      /\ ~((t + 1) - r.observed_at > policy.aging_within)
      /\ ~((t + 1) - r.observed_at > policy.fresh_within)
  BY <1>2 DEF assess_freshness
<1>5. /\ ~(t - r.observed_at > policy.stale_within)
      /\ ~(t - r.observed_at > r.validity)
      /\ ~(t - r.observed_at > policy.aging_within)
      /\ ~(t - r.observed_at > policy.fresh_within)
  BY <1>1, <1>4
<1>6. assess_freshness(r, t) = "fresh"
  BY <1>3, <1>5 DEF assess_freshness
<1>7. QED
  BY <1>6 DEF Decides, usable_as_deciding_evidence

LEMMA StepWaits ==
  ASSUME ClassifierInv, ClassifierInv', [ClassifierNext]_classifier_vars,
         window' = window, ~assessment.congestion_asserted, assessment'.congestion_asserted
  PROVE  \E r \in ToSet(window) : Implausible(r, evaluated_at)
<1> DEFINE t == evaluated_at
           R == ToSet(window)
<1>1. Tick
  <2>1. ~(\E r \in Pool : Arrive(r))
    BY ArriveKeeps
  <2>2. ~UNCHANGED classifier_vars
    BY DEF classifier_vars
  <2>3. QED
    BY <2>1, <2>2 DEF ClassifierNext
<1>2. assessment' = classify_subject(window, t + 1) /\ t \in Int
  BY <1>1 DEF Tick, ClassifierInv
<1>3. WindowOK(window) /\ R \subseteq Pool
  BY WindowFacts DEF ClassifierInv
<1>4. ~ShowsHarm(R, t)
  BY <1>3, Asserted DEF ClassifierInv
<1>5. ShowsHarm(R, t + 1)
  BY <1>2, <1>3, Asserted
<1>6. SUFFICES ASSUME \A r \in R : ~Implausible(r, t) PROVE FALSE
  OBVIOUS
<1> HIDE DEF t, R
<1>7. \A r \in R : Decides(r, t + 1) => Decides(r, t)
  BY <1>2, <1>3, <1>6, DecidesBefore
<1>8. QED
  BY <1>4, <1>5, <1>7 DEF ShowsHarm

(***************************************************************************)
(* A step of the clock turns a verdict into an assertion only if a         *)
(* record's timestamps were ahead of the clock (evidence.cpp,              *)
(* assess_freshness).                                                      *)
(***************************************************************************)
THEOREM TimeProvesNothing == ClassifierSpec => WaitingProvesNothing
<1>1. ClassifierInv /\ ClassifierInv' /\ [ClassifierNext]_classifier_vars =>
        [(/\ window' = window
          /\ ~assessment.congestion_asserted
          /\ assessment'.congestion_asserted)
            => \E r \in ToSet(window) : Implausible(r, evaluated_at)]_classifier_vars
  BY StepWaits
<1>2. QED
  BY <1>1, ClassifierAlways, PTL DEF ClassifierSpec, WaitingProvesNothing

-----------------------------------------------------------------------------
(***************************************************************************)
(* History decides nothing.                                                *)
(***************************************************************************)
LEMMA PresentFacts ==
  ASSUME NEW w, WindowOK(w), NEW t, NEW role \in Roles
  PROVE  role \in extract_features(w, t).present <=> Found(ToSet(w), t, role) # {}
<1> DEFINE b == Bucket(w, t, role)
<1>1. WindowOK(b) /\ ToSet(b) = Found(ToSet(w), t, role)
  BY BucketFacts
<1>2. Len(b) \in Nat /\ \A r : r \in ToSet(b) <=> \E i \in 1..Len(b) : b[i] = r
  BY <1>1, WindowFacts
<1>3. Len(b) = 0 <=> b = <<>>
  BY <1>1, EmptySeq DEF WindowOK
<1>4. role \in extract_features(w, t).present <=> b # <<>>
  BY Shown
<1> HIDE DEF b
<1>5. ASSUME ToSet(b) # {} PROVE Len(b) # 0
  BY <1>2, <1>5
<1>6. ASSUME Len(b) # 0 PROVE ToSet(b) # {}
  <2>1. 1 \in 1..Len(b)
    BY <1>2, <1>6
  <2>2. QED
    BY <1>2, <2>1
<1>7. QED
  BY <1>1, <1>3, <1>4, <1>5, <1>6

\* What the rules from R04 on look at.
SameGrounds(f, g) ==
  /\ impairment_is_decisive(f) <=> impairment_is_decisive(g)
  /\ f.demand_exceeds_capacity <=> g.demand_exceeds_capacity
  /\ backlog_meaningful(f) <=> backlog_meaningful(g)
  /\ UtilizationAbove(f, policy.utilization_attention) <=>
       UtilizationAbove(g, policy.utilization_attention)
  /\ "demand" \in f.present <=> "demand" \in g.present
  /\ "contention" \in f.present <=> "contention" \in g.present

\* Windows with the same deciding records are judged alike by them.
LEMMA SameDeciders ==
  ASSUME NEW v, WindowOK(v), NEW w, WindowOK(w), NEW t,
         \A r : r \in ToSet(v) /\ Decides(r, t) <=> r \in ToSet(w) /\ Decides(r, t)
  PROVE  SameGrounds(extract_features(v, t), extract_features(w, t))
<1> DEFINE f == extract_features(v, t)
           g == extract_features(w, t)
           found(role) == Found(ToSet(v), t, role)
<1>1. \A role : Found(ToSet(w), t, role) = found(role)
  BY DEF Found
<1>2. \A role \in Roles : /\ role \in f.present <=> found(role) # {}
                          /\ role \in g.present <=> found(role) # {}
  <2>1. \A role \in Roles : /\ role \in f.present <=> Found(ToSet(v), t, role) # {}
                            /\ role \in g.present <=> Found(ToSet(w), t, role) # {}
    BY PresentFacts
  <2>2. QED
    BY <1>1, <2>1
<1>3. \A role : ToSet(Bucket(v, t, role)) = found(role) /\ ToSet(Bucket(w, t, role)) = found(role)
  BY <1>1, BucketFacts
<1>4. impairment_is_decisive(f) <=> impairment_is_decisive(g)
  <2>1. ShowsHarm(ToSet(v), t) <=> ShowsHarm(ToSet(w), t)
    BY DEF ShowsHarm
  <2>2. QED
    BY <2>1, DecisiveFacts
<1> DEFINE ratios == {r \in found("pressure") : r.unit = "ratio"}
           offered == Greatest({0} \cup Scalars({r \in found("demand") : r.kind = "offered_demand"}))
           capacity == Greatest(Scalars(found("capacity")))
           saturated == /\ capacity > 0
                        /\ offered > 0
                        /\ 100 * offered >= policy.demand_capacity_ratio * capacity
           full == /\ ratios # {}
                   /\ Greatest({0} \cup Scalars(ratios)) >= policy.pressure_occupancy_ratio
<1>5. /\ f.utilization = Greatest(Scalars(found("utilization")))
      /\ f.pressure_ratio_available <=> ratios # {}
      /\ f.pressure_exceeds_ratio <=> full
      /\ f.demand_exceeds_capacity <=> saturated
  <2> HIDE DEF found
  <2> QED
    BY <1>3, Measured
<1>6. /\ g.utilization = Greatest(Scalars(found("utilization")))
      /\ g.pressure_ratio_available <=> ratios # {}
      /\ g.pressure_exceeds_ratio <=> full
      /\ g.demand_exceeds_capacity <=> saturated
  <2> HIDE DEF found
  <2> QED
    BY <1>3, Measured
<1>7. /\ "demand" \in f.present <=> "demand" \in g.present
      /\ "contention" \in f.present <=> "contention" \in g.present
      /\ "pressure" \in f.present <=> "pressure" \in g.present
      /\ "utilization" \in f.present <=> "utilization" \in g.present
  BY <1>2 DEF Roles
<1> HIDE DEF found, ratios, offered, capacity, saturated, full
<1>8. f.demand_exceeds_capacity <=> g.demand_exceeds_capacity
  BY <1>5, <1>6
<1>9. backlog_meaningful(f) <=> backlog_meaningful(g)
  BY <1>5, <1>6, <1>7, Zenon DEF backlog_meaningful
<1>10. UtilizationAbove(f, policy.utilization_attention) <=>
         UtilizationAbove(g, policy.utilization_attention)
  BY <1>5, <1>6, <1>7 DEF UtilizationAbove
<1>11. QED
  BY <1>4, <1>7, <1>8, <1>9, <1>10 DEF SameGrounds

\* A record that decides is not history.
LEMMA DecidersArePresent ==
  ASSUME NEW r \in Pool, evaluated_at \in Int, Decides(r, evaluated_at)
  PROVE  ~History(r)
<1>1. assess_freshness(r, evaluated_at) = "fresh"
  BY DEF Decides, usable_as_deciding_evidence
<1>2. ~r.recovered_from_snapshot /\ ~r.retired /\ ~(evaluated_at - r.observed_at > r.validity)
  BY <1>1 DEF assess_freshness
<1>3. generation_matches(r) /\ r.support # "unsupported"
  BY DEF Decides
<1>4. QED
  BY <1>2, <1>3 DEF History, generation_matches

LEMMA HistoryByInv == ClassifierInv => HistoryDecidesNothing
<1> SUFFICES ASSUME ClassifierInv PROVE HistoryDecidesNothing
  OBVIOUS
<1> DEFINE t == evaluated_at
           P == {i \in DOMAIN window : ~History(window[i])}
           v == At(window, P)
           f == extract_features(v, t)
           g == extract_features(window, t)
           x == classify_subject(v, t).verdict
           y == assessment.verdict
<1>1. /\ WindowOK(window) /\ DOMAIN window = 1..Len(window) /\ ToSet(window) \subseteq Pool
      /\ \A r : r \in ToSet(window) <=> \E i \in 1..Len(window) : window[i] = r
      /\ t \in Int
  BY WindowFacts DEF ClassifierInv
<1>2. WindowOK(v) /\ \A r : r \in ToSet(v) <=> \E i \in P : window[i] = r
  <2>1. P \in SUBSET (1..Len(window))
    BY <1>1
  <2>2. QED
    BY <1>1, <2>1, AtWindow
<1>3. \A r : r \in ToSet(v) <=> r \in ToSet(window) /\ ~History(r)
  BY <1>1, <1>2
<1>4. \A r \in ToSet(window) : Decides(r, t) => ~History(r)
  BY <1>1, DecidersArePresent
<1>5. \A r : r \in ToSet(v) /\ Decides(r, t) <=> r \in ToSet(window) /\ Decides(r, t)
  BY <1>3, <1>4
<1>6. SameGrounds(f, g)
  BY <1>1, <1>2, <1>5, SameDeciders
<1>7. VerdictOn(f, x) /\ VerdictOn(g, y)
  BY VerdictFacts DEF ClassifierInv
<1>8. /\ f.records_in_window = 0 <=> ~\E r \in ToSet(v) : r.subject = subject
      /\ f.any_fresh_deciding <=> \E r \in ToSet(v) : Decides(r, t)
      /\ f.any_fresh_deciding => ~Undecided(f)
  BY <1>2, CountedFacts DEF Undecided
<1>9. /\ g.records_in_window = 0 <=> ~\E r \in ToSet(window) : r.subject = subject
      /\ g.any_fresh_deciding <=> \E r \in ToSet(window) : Decides(r, t)
      /\ g.any_fresh_deciding => ~Undecided(g)
  BY <1>1, CountedFacts DEF Undecided
<1>10. HistoryDecidesNothing <=>
         IF x = "no_evidence" THEN y \in {"no_evidence", "indeterminate"} ELSE y = x
  BY DEF HistoryDecidesNothing
<1> HIDE DEF t, P, v, f, g, x, y
<1>11. f.any_fresh_deciding <=> g.any_fresh_deciding
  BY <1>5, <1>8, <1>9
<1>12. CASE f.any_fresh_deciding
  <2>1. ~Undecided(f) /\ ~Undecided(g)
    BY <1>8, <1>9, <1>11, <1>12
  <2>2. y = x
    BY <1>6, <1>7, <2>1 DEF VerdictOn, SameGrounds
  <2>3. x # "no_evidence"
    BY <1>7, <2>1 DEF VerdictOn
  <2>4. QED
    BY <1>10, <2>2, <2>3
<1>13. CASE ~f.any_fresh_deciding
  <2>1. Undecided(f) /\ Undecided(g)
    BY <1>11, <1>13 DEF Undecided
  <2>2. /\ x = IF f.records_in_window = 0 THEN "no_evidence" ELSE "indeterminate"
        /\ y = IF g.records_in_window = 0 THEN "no_evidence" ELSE "indeterminate"
    BY <1>7, <2>1 DEF VerdictOn
  <2>3. g.records_in_window = 0 => f.records_in_window = 0
    BY <1>3, <1>8, <1>9
  <2>4. QED
    BY <1>10, <2>2, <2>3
<1>14. QED
  BY <1>12, <1>13

(***************************************************************************)
(* Recovered, retired, expired and unsupported records and those of        *)
(* another generation do not change the verdict (classify.cpp,             *)
(* extract_features and the rules R00 to R09).                             *)
(***************************************************************************)
THEOREM HistoryIsMute == ClassifierSpec => []HistoryDecidesNothing
<1>1. QED
  BY ClassifierAlways, HistoryByInv, PTL

-----------------------------------------------------------------------------
(***************************************************************************)
(* The assessment is well formed.                                          *)
(***************************************************************************)
LEMMA ConfidenceType ==
  ASSUME NEW f, NEW v \in Verdicts
  PROVE  compute_confidence(f, v) \in 0..100
<1>1. CASE v = "no_evidence"
  BY <1>1 DEF compute_confidence
<1>2. CASE v = "idle"
  BY <1>2 DEF compute_confidence
<1>3. CASE v = "utilized_healthy"
  BY <1>3 DEF compute_confidence
<1>4. CASE v \in {"contention_observed", "pressure_observed"}
  BY <1>4 DEF compute_confidence
<1>5. CASE v = "saturated"
  BY <1>5 DEF compute_confidence
<1>6. CASE v = "congestion_confirmed"
  BY <1>6 DEF compute_confidence
<1>7. CASE v = "indeterminate"
  BY <1>7 DEF compute_confidence
<1>8. QED
  BY <1>1, <1>2, <1>3, <1>4, <1>5, <1>6, <1>7 DEF Verdicts

LEMMA CitationsFacts ==
  ASSUME NEW w, WindowOK(w), NEW t
  PROVE  LET c == collect_citations(w, t)
         IN /\ Len(c) <= max_citations
            /\ \A i, j \in DOMAIN c : i < j => c[i] < c[j]
<1> DEFINE all == UNION {ToSet(Bucket(w, t, role)) : role \in Roles}
           ids == {r.id : r \in all}
           sorted == InOrder(ids)
           n == Cardinality(ids)
           m == Min({Len(sorted), max_citations})
           c == collect_citations(w, t)
<1>1. all \subseteq ToSet(w)
  <2>1. \A role \in Roles : ToSet(Bucket(w, t, role)) \subseteq ToSet(w)
    BY BucketFacts DEF Found
  <2>2. QED
    BY <2>1
<1>2. ToSet(w) \subseteq Pool /\ IsFiniteSet(ToSet(w))
  BY WindowFacts
<1>3. IsFiniteSet(all) /\ all \subseteq Pool
  BY <1>1, <1>2, FS_Subset
<1> HIDE DEF all
<1>4. IsFiniteSet(ids) /\ ids \in SUBSET Nat
  <2> DEFINE g == [r \in all |-> r.id]
  <2>1. g \in Surjection(all, ids)
    BY DEF Surjection
  <2>2. IsFiniteSet(ids)
    BY <1>3, <2>1, FS_Surjection
  <2>3. QED
    BY <1>3, <2>2, PoolTypes
<1> HIDE DEF ids
<1>5. /\ n \in Nat /\ sorted \in [1..n -> ids]
      /\ \A i, j \in 1..n : i < j => sorted[i] < sorted[j]
  BY <1>4, InOrderFacts
<1> HIDE DEF n, sorted
<1>6. sorted \in Seq(ids) /\ Len(sorted) = n
  BY <1>5, FunIsSeq
<1>7. m \in Nat /\ m <= n /\ m <= max_citations
  <2>1. max_citations \in Nat
    BY ClassifierAssumption
  <2>2. \E x \in {n, max_citations} : \A y \in {n, max_citations} : x =< y
    BY <1>5, <2>1
  <2>3. m \in {n, max_citations} /\ \A y \in {n, max_citations} : m =< y
    BY <1>6, <2>2 DEF Min
  <2>4. QED
    BY <1>5, <2>1, <2>3
<1>8. c = SubSeq(sorted, 1, m)
  BY DEF collect_citations, all, ids, sorted
<1> HIDE DEF m, c
<1>9. c = [i \in 1..m |-> sorted[i]] /\ Len(c) = m
  BY <1>5, <1>6, <1>7, <1>8
<1>10. \A i, j \in DOMAIN c : i < j => c[i] < c[j]
  BY <1>5, <1>7, <1>9
<1>11. QED
  BY <1>7, <1>9, <1>10 DEF c

LEMMA WellFormed ==
  ASSUME ClassifierInv
  PROVE  AssessmentOK /\ HarmIsNamed
<1> DEFINE t == evaluated_at
           f == extract_features(window, t)
           v == assessment.verdict
<1>1. WindowOK(window) /\ assessment = classify_subject(window, t) /\ t \in 1..MaxTime
  BY DEF ClassifierInv
<1>2. v \in Verdicts
  <2>1. VerdictOn(f, v)
    BY <1>1, VerdictFacts
  <2> HIDE DEF f, v
  <2>2. QED
    BY <2>1 DEF VerdictOn, Verdicts
<1>3. assessment.confidence \in 0..100
  <2>1. assessment.confidence = compute_confidence(f, v)
    BY <1>1, Classified
  <2>2. QED
    BY <1>2, <2>1, ConfidenceType
<1>4. /\ Len(assessment.citations) <= max_citations
      /\ \A i, j \in DOMAIN assessment.citations :
           i < j => assessment.citations[i] < assessment.citations[j]
  <2>1. assessment.citations = collect_citations(window, t)
    BY <1>1, Classified
  <2>2. QED
    BY <1>1, <2>1, CitationsFacts
<1>5. ToSet(window) \subseteq Pool
  BY <1>1, WindowFacts
<1>6. HarmIsNamed
  BY <1>1, Asserted DEF HarmIsNamed
<1>7. QED
  BY <1>1, <1>2, <1>3, <1>4, <1>5, <1>6 DEF AssessmentOK

-----------------------------------------------------------------------------
(***************************************************************************)
(* The agreement of sources: std::sort, and the greedy clustering.         *)
(***************************************************************************)
LEMMA PrecedesOrder ==
  /\ \A x, y, z \in Pool : Precedes(x, y) /\ Precedes(y, z) => Precedes(x, z)
  /\ \A x, y, z \in Pool : ~Precedes(y, x) /\ ~Precedes(z, y) => ~Precedes(z, x)
  /\ \A x, y \in Pool : Precedes(x, y) => ~Precedes(y, x)
  /\ \A x, y \in Pool : ~Precedes(y, x) => x.scalar <= y.scalar
<1>1. \A x \in Pool : x.scalar \in Int /\ x.source \in Nat /\ x.id \in Nat
  BY PoolTypes
<1>2. ASSUME NEW x \in Pool, NEW y \in Pool, NEW z \in Pool, Precedes(x, y), Precedes(y, z)
      PROVE  Precedes(x, z)
  BY <1>1, <1>2 DEF Precedes
<1>3. ASSUME NEW x \in Pool, NEW y \in Pool, NEW z \in Pool, ~Precedes(y, x), ~Precedes(z, y)
      PROVE  ~Precedes(z, x)
  BY <1>1, <1>3 DEF Precedes
<1>4. ASSUME NEW x \in Pool, NEW y \in Pool, Precedes(x, y)
      PROVE  ~Precedes(y, x)
  BY <1>1, <1>4 DEF Precedes
<1>5. ASSUME NEW x \in Pool, NEW y \in Pool, ~Precedes(y, x)
      PROVE  x.scalar <= y.scalar
  BY <1>1, <1>5 DEF Precedes
<1>6. QED
  BY <1>2, <1>3, <1>4, <1>5

\* The records can be put in order.
LEMMA SortExists ==
  ASSUME NEW n \in Nat, NEW b \in [1..n -> Pool]
  PROVE  \E p \in Bijection(1..n, 1..n) :
           \A i, j \in 1..n : i < j => ~Precedes(b[p[j]], b[p[i]])
<1> DEFINE S == 1..n
           before(i, j) == Precedes(b[i], b[j]) \/ (~Precedes(b[j], b[i]) /\ i < j)
           R == {ij \in S \X S : before(ij[1], ij[2])}
<1>1. \A i, j \in S : <<i, j>> \in R <=> before(i, j)
  OBVIOUS
<1> HIDE DEF R
<1>2. StrictOrder(R, S)
  <2>1. ASSUME NEW i \in S, NEW j \in S, NEW k \in S, before(i, j), before(j, k)
        PROVE  before(i, k)
    <3> DEFINE x == b[i]
               y == b[j]
               z == b[k]
    <3>1. x \in Pool /\ y \in Pool /\ z \in Pool
      OBVIOUS
    <3>2. /\ Precedes(x, y) \/ (~Precedes(y, x) /\ i < j)
          /\ Precedes(y, z) \/ (~Precedes(z, y) /\ j < k)
      BY <2>1
    <3> HIDE DEF x, y, z
    <3>3. ~Precedes(y, x) /\ ~Precedes(z, y)
      BY <3>1, <3>2, PrecedesOrder
    <3>4. ~Precedes(z, x)
      BY <3>1, <3>3, PrecedesOrder
    <3>5. CASE i < j /\ j < k
      <4>1. i < k
        BY <3>5
      <4>2. QED
        BY <3>4, <4>1 DEF x, z
    <3>6. CASE Precedes(x, y) \/ Precedes(y, z)
      <4>1. Precedes(x, z)
        <5>1. SUFFICES ASSUME ~Precedes(x, z) PROVE FALSE
          OBVIOUS
        <5>2. CASE Precedes(x, y)
          \* z does not precede y and x does not precede z
          BY <3>1, <3>3, <5>1, <5>2, PrecedesOrder
        <5>3. CASE Precedes(y, z)
          BY <3>1, <3>3, <5>1, <5>3, PrecedesOrder
        <5>4. QED
          BY <3>6, <5>2, <5>3
      <4>2. QED
        BY <4>1 DEF x, z
    <3>7. QED
      BY <3>2, <3>5, <3>6
  <2>2. ASSUME NEW i \in S, NEW j \in S, i # j
        PROVE  before(i, j) \/ before(j, i)
    <3>1. i < j \/ j < i
      BY <2>2
    <3>2. QED
      BY <3>1
  <2>3. ASSUME NEW i \in S, before(i, i)
        PROVE  FALSE
    <3>1. ~Precedes(b[i], b[i])
      BY PrecedesOrder
    <3>2. QED
      BY <2>3, <3>1
  <2> HIDE DEF before, S
  <2>4. QED
    BY <1>1, <2>1, <2>2, <2>3 DEF StrictOrder
<1>3. IsFiniteSet(S) /\ Cardinality(S) = n
  BY FS_Interval
<1> HIDE DEF S
<1>4. PICK p \in [1..Cardinality(S) -> S] :
        \A i, j \in 1..Cardinality(S) : i < j => <<p[i], p[j]>> \in R
  BY <1>2, <1>3, Arrangement
<1>5. p \in [1..n -> S] /\ \A i, j \in 1..n : i < j => <<p[i], p[j]>> \in R
  BY <1>3, <1>4
<1>6. ASSUME NEW i \in 1..n, NEW j \in 1..n, i < j PROVE p[i] # p[j]
  BY <1>2, <1>5, <1>6 DEF StrictOrder
<1>7. \A x \in S : \E i \in 1..n : p[i] = x
  <2>1. \A i, j \in 1..Cardinality(S) : i < j => p[i] # p[j]
    BY <1>3, <1>6
  <2>2. \A x \in S : \E i \in 1..Cardinality(S) : p[i] = x
    BY <1>3, <1>4, <2>1, HoldsAll
  <2>3. QED
    BY <1>3, <2>2
<1>8. \A i, j \in 1..n : p[i] = p[j] => i = j
  BY <1>6
<1>9. p \in Bijection(1..n, 1..n)
  BY <1>5, <1>7, <1>8 DEF S, Bijection, Injection, IsInjective, Surjection
<1>10. ASSUME NEW i \in 1..n, NEW j \in 1..n, i < j PROVE ~Precedes(b[p[j]], b[p[i]])
  <2>1. p[i] \in 1..n /\ p[j] \in 1..n
    BY <1>5 DEF S
  <2>2. before(p[i], p[j])
    BY <1>1, <1>5, <1>10
  <2>3. b[p[i]] \in Pool /\ b[p[j]] \in Pool
    BY <2>1
  <2>4. QED
    BY <2>2, <2>3, PrecedesOrder
<1>11. QED
  BY <1>9, <1>10

LEMMA OrderedFacts ==
  ASSUME NEW b, WindowOK(b)
  PROVE  /\ WindowOK(Ordered(b)) /\ Len(Ordered(b)) = Len(b)
         /\ ToSet(Ordered(b)) = ToSet(b)
         /\ \A i, j \in 1..Len(b) : i < j => Ordered(b)[i].scalar <= Ordered(b)[j].scalar
<1> DEFINE n == Len(b)
           sorts(p) == \A i, j \in DOMAIN b : i < j => ~Precedes(b[p[j]], b[p[i]])
           p == CHOOSE q \in Bijection(DOMAIN b, DOMAIN b) : sorts(q)
           o == Ordered(b)
<1>1. /\ n \in Nat /\ DOMAIN b = 1..n /\ b \in [1..n -> Pool]
      /\ \A r : r \in ToSet(b) <=> \E i \in 1..n : b[i] = r
      /\ \A i, j \in 1..n : b[i] = b[j] => i = j
  BY WindowFacts DEF WindowOK
<1>2. \E q \in Bijection(DOMAIN b, DOMAIN b) : sorts(q)
  BY <1>1, SortExists
<1>3. p \in Bijection(DOMAIN b, DOMAIN b) /\ sorts(p)
  BY <1>2, Zenon
<1>4. o = [i \in DOMAIN b |-> b[p[i]]]
  BY DEF Ordered
<1> HIDE DEF n, p, o
<1>5. /\ p \in [1..n -> 1..n]
      /\ \A i, j \in 1..n : p[i] = p[j] => i = j
      /\ \A x \in 1..n : \E i \in 1..n : p[i] = x
  BY <1>1, <1>3 DEF Bijection, Injection, IsInjective, Surjection
<1>6. o \in [1..n -> Pool] /\ \A i \in 1..n : o[i] = b[p[i]]
  BY <1>1, <1>4, <1>5
<1>7. o \in Seq(Pool) /\ Len(o) = n
  BY <1>1, <1>6, FunIsSeq
<1>8. \A i, j \in 1..n : o[i] = o[j] => i = j
  BY <1>1, <1>5, <1>6
<1>9. WindowOK(o)
  BY <1>7, <1>8 DEF WindowOK
<1>10. \A r : r \in ToSet(o) <=> \E i \in 1..n : o[i] = r
  BY <1>7, <1>9, WindowFacts
<1>11. \A r : r \in ToSet(o) <=> r \in ToSet(b)
  <2>1. ASSUME NEW r, NEW i \in 1..n, b[i] = r PROVE \E j \in 1..n : o[j] = r
    BY <1>5, <1>6, <2>1
  <2>2. ASSUME NEW r, NEW j \in 1..n, o[j] = r PROVE \E i \in 1..n : b[i] = r
    BY <1>5, <1>6, <2>2
  <2>3. QED
    BY <1>1, <1>10, <2>1, <2>2
<1>12. ASSUME NEW i \in 1..n, NEW j \in 1..n, i < j PROVE o[i].scalar <= o[j].scalar
  <2>1. ~Precedes(o[j], o[i])
    BY <1>1, <1>3, <1>6, <1>12
  <2>2. QED
    BY <1>6, <2>1, PrecedesOrder
<1>13. QED
  BY <1>7, <1>9, <1>11, <1>12 DEF o, n

\* Every cluster has a first member, which all of its members agree with.
ClustersOK(cs, R) ==
  /\ cs \in Seq(Seq(R))
  /\ \A c \in 1..Len(cs) :
       /\ Len(cs[c]) >= 1
       /\ \A m \in 1..Len(cs[c]) : Within(cs[c][1].scalar, cs[c][m].scalar)

\* The record is in some cluster.
Placed(cs, r) == \E c \in 1..Len(cs) : Contains(cs[c], r)

LEMMA WithinItself ==
  ASSUME NEW x \in Int
  PROVE  Within(x, x)
<1>1. AbsOf(x - x) = 0 /\ AbsOf(x) \in Nat
  BY DEF AbsOf
<1>2. policy.conflict_relative_tolerance * AbsOf(x) >= 0
  <2>1. \A a, c \in Nat : a * c >= 0
    OBVIOUS
  <2>2. QED
    BY <1>1, <2>1, PoolTypes
<1>3. QED
  BY <1>1, <1>2 DEF Within

\* ds is cs with the record placed.
Grows(cs, ds, R, r) ==
  /\ ClustersOK(ds, R)
  /\ Placed(ds, r)
  /\ \A x : Placed(cs, x) => Placed(ds, x)
  /\ Len(ds) >= 1
  /\ cs = <<>> => ds[1][1] = r
  /\ Len(cs) >= 1 => ds[1][1] = cs[1][1]

LEMMA PlaceKeeps ==
  ASSUME NEW R \in SUBSET Pool, NEW cs, ClustersOK(cs, R), NEW r \in R
  PROVE  Grows(cs, Place(cs, r), R, r)
<1> DEFINE fits == {i \in DOMAIN cs : Within(cs[i][1].scalar, r.scalar)}
           ds == Place(cs, r)
<1>1. cs \in Seq(Seq(R)) /\ Len(cs) \in Nat /\ DOMAIN cs = 1..Len(cs)
  BY LenProperties DEF ClustersOK
<1>2. \A c \in 1..Len(cs) : cs[c] \in Seq(R) /\ Len(cs[c]) \in Nat /\ Len(cs[c]) >= 1
  BY <1>1, ElementOfSeq, LenProperties DEF ClustersOK
<1>3. r.scalar \in Int
  BY PoolTypes
<1>4. ds = IF fits = {} THEN Append(cs, <<r>>) ELSE [cs EXCEPT ![Min(fits)] = Append(@, r)]
  BY DEF Place
<1> SUFFICES /\ ClustersOK(ds, R)
             /\ Placed(ds, r)
             /\ \A x : Placed(cs, x) => Placed(ds, x)
             /\ Len(ds) >= 1
             /\ cs = <<>> => ds[1][1] = r
             /\ Len(cs) >= 1 => ds[1][1] = cs[1][1]
  BY DEF Grows
<1> HIDE DEF ds
<1>5. CASE fits = {}
  <2>1. <<r>> \in Seq(R) /\ Len(<<r>>) = 1 /\ <<r>>[1] = r
    OBVIOUS
  <2> DEFINE new == <<r>>
  <2> HIDE DEF new
  <2>2. ds = Append(cs, new)
    BY <1>4, <1>5 DEF new
  <2>3. new \in Seq(R) /\ Len(new) = 1 /\ new[1] = r
    BY <2>1 DEF new
  <2>4. /\ ds \in Seq(Seq(R)) /\ Len(ds) = Len(cs) + 1
        /\ \A c \in 1..Len(cs) : ds[c] = cs[c]
        /\ ds[Len(cs) + 1] = new
    BY <1>1, <2>2, <2>3, AppendProperties
  <2>5. ASSUME NEW c \in 1..Len(ds)
        PROVE  /\ Len(ds[c]) >= 1
               /\ \A m \in 1..Len(ds[c]) : Within(ds[c][1].scalar, ds[c][m].scalar)
    <3>1. CASE c \in 1..Len(cs)
      BY <2>4, <3>1 DEF ClustersOK
    <3>2. CASE c = Len(cs) + 1
      <4>1. Len(ds[c]) = 1 /\ ds[c][1] = r
        BY <2>3, <2>4, <3>2
      <4>2. Within(r.scalar, r.scalar)
        BY <1>3, WithinItself
      <4>3. QED
        BY <4>1, <4>2
    <3>3. QED
      BY <1>1, <2>4, <3>1, <3>2
  <2>6. ClustersOK(ds, R)
    BY <2>4, <2>5 DEF ClustersOK
  <2>7. Placed(ds, r)
    <3>1. Len(cs) + 1 \in 1..Len(ds)
      BY <1>1, <2>4
    <3>2. Contains(ds[Len(cs) + 1], r)
      <4>1. 1 \in 1..Len(new)
        BY <2>3
      <4>2. Contains(new, r)
        BY <2>3, <4>1 DEF Contains
      <4>3. QED
        BY <2>4, <4>2
    <3>3. QED
      BY <3>1, <3>2 DEF Placed
  <2>8. \A x : Placed(cs, x) => Placed(ds, x)
    <3>1. \A c \in 1..Len(cs) : c \in 1..Len(ds) /\ ds[c] = cs[c]
      BY <1>1, <2>4
    <3>2. QED
      BY <3>1 DEF Placed
  <2>9. cs = <<>> => ds[1][1] = r
    <3>1. cs = <<>> => Len(cs) + 1 = 1
      OBVIOUS
    <3>2. QED
      BY <2>3, <2>4, <3>1
  <2>10. Len(cs) >= 1 => ds[1][1] = cs[1][1]
    <3>1. Len(cs) >= 1 => 1 \in 1..Len(cs)
      BY <1>1
    <3>2. QED
      BY <2>4, <3>1
  <2>11. Len(ds) >= 1
    BY <1>1, <2>4
  <2>12. QED
    BY <2>6, <2>7, <2>8, <2>9, <2>10, <2>11
<1>6. CASE fits # {}
  <2> DEFINE k == Min(fits)
  <2>1. k \in 1..Len(cs) /\ Within(cs[k][1].scalar, r.scalar)
    <3>1. IsFiniteSet(1..Len(cs)) /\ fits \in SUBSET (1..Len(cs))
      BY <1>1, FS_Interval
    <3>2. IsFiniteSet(fits) /\ fits \in SUBSET Int
      BY <3>1, FS_Subset
    <3>3. k \in fits
      BY <1>6, <3>2, MinFacts
    <3>4. QED
      BY <3>1, <3>3
  <2> DEFINE grown == Append(cs[k], r)
  <2> HIDE DEF k
  <2>2. ds = [cs EXCEPT ![k] = grown]
    BY <1>4, <1>6 DEF k
  <2>3. /\ grown \in Seq(R) /\ Len(grown) = Len(cs[k]) + 1
        /\ \A m \in 1..Len(cs[k]) : grown[m] = cs[k][m]
        /\ grown[Len(cs[k]) + 1] = r
    <3>1. cs[k] \in Seq(R)
      BY <1>2, <2>1
    <3>2. QED
      BY <3>1, AppendProperties
  <2> HIDE DEF grown
  <2>4. /\ ds \in Seq(Seq(R)) /\ Len(ds) = Len(cs)
        /\ \A c \in 1..Len(cs) : ds[c] = IF c = k THEN grown ELSE cs[c]
    <3>1. ds \in [1..Len(cs) -> Seq(R)] /\ \A c \in 1..Len(cs) : ds[c] = IF c = k THEN grown ELSE cs[c]
      BY <1>1, <1>2, <2>1, <2>2, <2>3
    <3>2. QED
      BY <1>1, <3>1, FunIsSeq
  <2>5. Len(cs[k]) \in Nat /\ Len(cs[k]) >= 1 /\ grown[1] = cs[k][1]
    BY <1>2, <2>1, <2>3
  <2>6. ASSUME NEW c \in 1..Len(cs)
        PROVE  /\ Len(ds[c]) >= 1
               /\ \A m \in 1..Len(ds[c]) : Within(ds[c][1].scalar, ds[c][m].scalar)
               /\ ds[c][1] = cs[c][1]
               /\ \A x : Contains(cs[c], x) => Contains(ds[c], x)
    <3>1. CASE c # k
      BY <2>4, <3>1 DEF ClustersOK
    <3>2. CASE c = k
      <4>1. ds[c] = grown
        BY <2>1, <2>4, <3>2
      <4>2. ASSUME NEW m \in 1..(Len(cs[k]) + 1)
            PROVE  Within(grown[1].scalar, grown[m].scalar)
        <5>1. CASE m \in 1..Len(cs[k])
          BY <2>1, <2>3, <2>5, <5>1 DEF ClustersOK
        <5>2. CASE m = Len(cs[k]) + 1
          BY <2>1, <2>3, <2>5, <5>2
        <5>3. QED
          BY <2>5, <5>1, <5>2
      <4>3. \A x : Contains(cs[k], x) => Contains(grown, x)
        <5>1. \A m \in 1..Len(cs[k]) : m \in 1..Len(grown) /\ grown[m] = cs[k][m]
          BY <2>3, <2>5
        <5>2. QED
          BY <5>1 DEF Contains
      <4>4. Len(grown) >= 1
        BY <2>3, <2>5
      <4>5. QED
        BY <2>3, <2>5, <3>2, <4>1, <4>2, <4>3, <4>4
    <3>3. QED
      BY <3>1, <3>2
  <2>7. ClustersOK(ds, R)
    BY <2>4, <2>6 DEF ClustersOK
  <2>8. Placed(ds, r)
    <3>1. Contains(grown, r)
      BY <2>3, <2>5 DEF Contains
    <3>2. QED
      BY <2>1, <2>4, <3>1 DEF Placed
  <2>9. \A x : Placed(cs, x) => Placed(ds, x)
    BY <2>4, <2>6 DEF Placed
  <2>10. Len(ds) >= 1 /\ 1 \in 1..Len(cs)
    BY <1>1, <2>1, <2>4
  <2>11. cs # <<>>
    BY <2>10
  <2>12. QED
    BY <2>6, <2>7, <2>8, <2>9, <2>10, <2>11
<1>7. QED
  BY <1>5, <1>6

\* The loop over the ordered records does satisfy its recursive definition.
LEMMA ClustersUnfold ==
  ASSUME NEW o, Len(o) \in Nat
  PROVE  \E h : /\ h[0] = <<>>
                /\ \A i \in 1..Len(o) : h[i] = Place(h[i - 1], o[i])
                /\ Clusters(o) = h[Len(o)]
<1> DEFINE L == Len(o)
           loop(n, f) == f = [i \in 0..n |-> IF i = 0 THEN <<>> ELSE Place(f[i - 1], o[i])]
           N == {n \in Nat : \E f : loop(n, f)}
<1>1. 0 \in N
  <2>1. loop(0, [i \in 0..0 |-> <<>>])
    OBVIOUS
  <2>2. QED
    BY <2>1
<1>2. ASSUME NEW n \in Nat, n \in N PROVE n + 1 \in N
  <2>1. PICK f : loop(n, f)
    BY <1>2
  <2> DEFINE h == [i \in 0..(n + 1) |-> IF i = n + 1 THEN Place(f[n], o[n + 1]) ELSE f[i]]
  <2>2. \A i \in 0..n : h[i] = f[i]
    OBVIOUS
  <2>3. ASSUME NEW i \in 0..(n + 1)
        PROVE  h[i] = IF i = 0 THEN <<>> ELSE Place(h[i - 1], o[i])
    <3>1. CASE i = n + 1
      <4>1. h[i] = Place(f[n], o[n + 1]) /\ i # 0 /\ i - 1 = n
        BY <3>1
      <4>2. h[n] = f[n]
        BY <2>2
      <4>3. QED
        BY <3>1, <4>1, <4>2
    <3>2. CASE i = 0
      BY <2>1, <2>2, <3>2
    <3>3. CASE i \in 1..n
      <4>1. f[i] = Place(f[i - 1], o[i])
        <5>1. i \in 0..n /\ i # 0
          BY <3>3
        <5>2. QED
          BY <2>1, <5>1
      <4>2. h[i] = f[i] /\ h[i - 1] = f[i - 1]
        BY <2>2, <3>3
      <4>3. QED
        BY <4>1, <4>2, <3>3
    <3>4. QED
      BY <3>1, <3>2, <3>3
  <2>4. h = [i \in 0..(n + 1) |-> h[i]]
    OBVIOUS
  <2> HIDE DEF h
  <2>5. loop(n + 1, h)
    BY <2>3, <2>4
  <2>6. QED
    BY <2>5
<1> HIDE DEF N
<1>3. \A n \in Nat : n \in N
  BY <1>1, <1>2, Inductive
<1>4. \E f : loop(L, f)
  BY <1>3 DEF N
<1> DEFINE F == CHOOSE f : loop(L, f)
<1>5. loop(L, F)
  BY <1>4, Zenon
<1>6. Clusters(o) = F[L]
  BY DEF Clusters
<1> HIDE DEF F
<1>7. F[0] = <<>>
  BY <1>5
<1>8. ASSUME NEW i \in 1..L PROVE F[i] = Place(F[i - 1], o[i])
  <2>1. i \in 0..L /\ i # 0
    OBVIOUS
  <2>2. QED
    BY <1>5, <2>1
<1>9. QED
  BY <1>6, <1>7, <1>8

\* Every record is in a cluster of records, and the first cluster began with
\* the first record.
LEMMA ClustersFacts ==
  ASSUME NEW o, WindowOK(o)
  PROVE  /\ ClustersOK(Clusters(o), ToSet(o))
         /\ \A i \in 1..Len(o) : Placed(Clusters(o), o[i])
         /\ Len(o) >= 1 => Len(Clusters(o)) >= 1 /\ Clusters(o)[1][1] = o[1]
<1> DEFINE n == Len(o)
           R == ToSet(o)
<1>1. n \in Nat /\ R \in SUBSET Pool /\ \A i \in 1..n : o[i] \in R
  BY WindowFacts
<1>2. PICK h : /\ h[0] = <<>>
               /\ \A i \in 1..n : h[i] = Place(h[i - 1], o[i])
               /\ Clusters(o) = h[n]
  BY <1>1, ClustersUnfold
<1> DEFINE good(i) == /\ ClustersOK(h[i], R)
                      /\ \A j \in 1..i : Placed(h[i], o[j])
                      /\ i >= 1 => Len(h[i]) >= 1 /\ h[i][1][1] = o[1]
           N == {i \in Nat : i <= n => good(i)}
<1>3. 0 \in N
  <2>1. ClustersOK(<<>>, R)
    BY DEF ClustersOK
  <2>2. QED
    BY <1>2, <2>1
<1>4. ASSUME NEW i \in Nat, i \in N PROVE i + 1 \in N
  <2>1. SUFFICES ASSUME i + 1 <= n PROVE good(i + 1)
    OBVIOUS
  <2>2. good(i)
    BY <1>1, <1>4, <2>1
  <2>3. i + 1 \in 1..n /\ h[i + 1] = Place(h[i], o[i + 1])
    <3>1. i + 1 \in 1..n /\ (i + 1) - 1 = i
      BY <1>1, <2>1
    <3>2. QED
      BY <1>2, <3>1
  <2>4. o[i + 1] \in R
    BY <1>1, <2>3
  <2> DEFINE cs == h[i]
             ds == h[i + 1]
             r == o[i + 1]
  <2>5. /\ ClustersOK(ds, R)
        /\ Placed(ds, r)
        /\ \A x : Placed(cs, x) => Placed(ds, x)
        /\ Len(ds) >= 1
        /\ cs = <<>> => ds[1][1] = r
        /\ Len(cs) >= 1 => ds[1][1] = cs[1][1]
    <3>1. R \in SUBSET Pool /\ ClustersOK(cs, R) /\ r \in R /\ ds = Place(cs, r)
      BY <1>1, <2>2, <2>3, <2>4
    <3> HIDE DEF R, cs, ds, r
    <3>2. Grows(cs, ds, R, r)
      BY <3>1, PlaceKeeps
    <3>3. QED
      BY <3>2 DEF Grows
  <2>6. ASSUME NEW j \in 1..(i + 1) PROVE Placed(ds, o[j])
    <3>1. CASE j = i + 1
      BY <2>5, <3>1
    <3>2. CASE j \in 1..i
      BY <2>2, <2>5, <3>2
    <3>3. QED
      BY <3>1, <3>2
  <2>7. ds[1][1] = o[1]
    <3>1. CASE i = 0
      BY <1>2, <2>5, <3>1
    <3>2. CASE i # 0
      BY <2>2, <2>5, <3>2
    <3>3. QED
      BY <3>1, <3>2
  <2>8. QED
    BY <2>5, <2>6, <2>7
<1>5. \A i \in Nat : i \in N
  <2> HIDE DEF N
  <2> QED
    BY <1>3, <1>4, Inductive
<1>6. good(n)
  BY <1>1, <1>5
<1>7. QED
  BY <1>2, <1>6

\* With a tolerance of at most the whole, what agrees with a lower value
\* agrees with every value between the two.
LEMMA WithinBetween ==
  ASSUME NEW m \in Int, NEW r \in Int, NEW s \in Int, m <= r, r < s, Within(m, s)
  PROVE  Within(r, s)
<1> DEFINE T == policy.conflict_relative_tolerance
<1>1. T \in Nat /\ T <= 100
  BY PoolTypes
<1>2. 100 * AbsOf(s - m) <= T * AbsOf(m) /\ (Within(r, s) <=> 100 * AbsOf(s - r) <= T * AbsOf(r))
  BY DEF Within
<1>3. AbsOf(s - m) = s - m /\ AbsOf(s - r) = s - r
  BY DEF AbsOf
<1> HIDE DEF T
<1>4. \A d \in Nat : T * d \in Nat /\ T * d <= 100 * d
  <2>1. \A c, d \in Nat : c * d \in Nat
    OBVIOUS
  <2>2. 100 - T \in Nat
    BY <1>1
  <2>3. \A d \in Nat : (100 - T) * d = 100 * d - T * d
    BY <1>1
  <2>4. QED
    BY <1>1, <2>1, <2>2, <2>3
<1>5. \A x, y \in Int : T * (x - y) = T * x - T * y /\ T * x \in Int
  BY <1>1
<1>6. r - m \in Nat
  OBVIOUS
<1>7. T * (r - m) = T * r - T * m /\ T * (r - m) >= 0 /\ T * (r - m) <= 100 * (r - m)
      /\ T * r \in Int /\ T * m \in Int
  <2>1. T * (r - m) = T * r - T * m /\ T * r \in Int /\ T * m \in Int
    BY <1>5
  <2>2. T * (r - m) \in Nat /\ T * (r - m) <= 100 * (r - m)
    BY <1>4, <1>6
  <2>3. T * (r - m) >= 0
    BY <2>2
  <2>4. QED
    BY <2>1, <2>2, <2>3
<1>8. CASE m >= 0
  <2>1. AbsOf(m) = m /\ AbsOf(r) = r
    BY <1>8 DEF AbsOf
  <2>2. 100 * (s - m) <= T * m
    BY <1>2, <1>3, <2>1
  <2>3. 100 * (s - r) <= T * r
    BY <1>7, <2>2
  <2>4. QED
    BY <1>2, <1>3, <2>1, <2>3
<1>9. CASE m < 0
  <2>1. AbsOf(m) = 0 - m /\ 0 - m \in Nat
    BY <1>9 DEF AbsOf
  <2>2. 100 * (s - m) <= T * (0 - m)
    BY <1>2, <1>3, <2>1
  <2>3. T * (0 - m) <= 100 * (0 - m) /\ T * (0 - m) = 0 - T * m
    <3>1. T * (0 - m) = T * 0 - T * m /\ T * 0 = 0
      BY <1>1, <1>5
    <3>2. QED
      BY <1>4, <2>1, <3>1
  <2>4. T * (0 - m) \in Int
    BY <1>4, <2>1
  <2>5. r < 0
    BY <2>2, <2>3, <2>4
  <2>6. AbsOf(r) = 0 - r
    BY <2>5 DEF AbsOf
  <2>7. T * (0 - r) = 0 - T * r
    <3>1. T * (0 - r) = T * 0 - T * r /\ T * 0 = 0
      BY <1>1, <1>5
    <3>2. QED
      BY <1>7, <3>1
  <2>8. 100 * (s - r) <= 0 - T * r
    BY <1>7, <2>2, <2>3
  <2>9. QED
    BY <1>2, <1>3, <2>6, <2>7, <2>8
<1>10. QED
  BY <1>8, <1>9

SourcesOf(b) == {b[i].source : i \in DOMAIN b}

\* What assess_agreement says, read off its branches.
LEMMA AgreementBranches ==
  ASSUME NEW b, b # <<>>
  PROVE  LET o == Ordered(b)
             cs == Clusters(o)
             majority == Max({Votes(o, cs[i]) : i \in DOMAIN cs})
         IN /\ (Comparable(b) /\ ~(Cardinality(SourcesOf(b)) <= 1) /\ Len(cs) # 1)
                 => agreement_is_conflict(assess_agreement(b))
            /\ assess_agreement(b) = "minority" => 2 * majority > Cardinality(SourcesOf(b))
BY DEF assess_agreement, agreement_is_conflict, SourcesOf

LEMMA SourcesFacts ==
  ASSUME NEW b, WindowOK(b)
  PROVE  /\ IsFiniteSet(SourcesOf(b)) /\ Cardinality(SourcesOf(b)) \in Nat
         /\ SourcesOf(b) = {r.source : r \in ToSet(b)}
<1>1. /\ Len(b) \in Nat /\ DOMAIN b = 1..Len(b)
      /\ \A r : r \in ToSet(b) <=> \E i \in 1..Len(b) : b[i] = r
  BY WindowFacts
<1>2. IsFiniteSet(1..Len(b))
  BY <1>1, FS_Interval
<1> DEFINE f == [i \in 1..Len(b) |-> b[i].source]
<1>3. f \in Surjection(1..Len(b), SourcesOf(b))
  BY <1>1 DEF Surjection, SourcesOf
<1>4. IsFiniteSet(SourcesOf(b))
  BY <1>2, <1>3, FS_Surjection
<1>5. SourcesOf(b) = {r.source : r \in ToSet(b)}
  BY <1>1 DEF SourcesOf
<1>6. QED
  BY <1>4, <1>5, FS_CardinalityType

\* Values of two sources that are too far apart are a conflict.
LEMMA ConflictFound ==
  ASSUME NEW b, WindowOK(b), Comparable(b), NEW r \in ToSet(b), NEW s \in ToSet(b),
         r.source # s.source, r.scalar < s.scalar, ~Within(r.scalar, s.scalar)
  PROVE  agreement_is_conflict(assess_agreement(b))
<1> DEFINE o == Ordered(b)
           cs == Clusters(o)
           n == Len(b)
<1>1. /\ n \in Nat
      /\ \A x : x \in ToSet(b) <=> \E i \in 1..n : b[i] = x
      /\ ToSet(b) \subseteq Pool
  BY WindowFacts
<1>2. b # <<>> /\ n >= 1
  <2>1. PICK i \in 1..n : b[i] = r
    BY <1>1
  <2>2. n >= 1
    BY <1>1, <2>1
  <2>3. QED
    BY <2>2
<1>3. ~(Cardinality(SourcesOf(b)) <= 1)
  <2>1. r.source \in SourcesOf(b) /\ s.source \in SourcesOf(b)
    BY SourcesFacts
  <2>2. Cardinality(SourcesOf(b)) >= 2 /\ Cardinality(SourcesOf(b)) \in Nat
    BY <2>1, SourcesFacts, TwoElements
  <2>3. QED
    BY <2>2
<1>4. /\ WindowOK(o) /\ Len(o) = n /\ ToSet(o) = ToSet(b)
      /\ \A i, j \in 1..n : i < j => o[i].scalar <= o[j].scalar
  BY OrderedFacts
<1>5. /\ ClustersOK(cs, ToSet(o))
      /\ \A i \in 1..Len(o) : Placed(cs, o[i])
      /\ Len(o) >= 1 => Len(cs) >= 1 /\ cs[1][1] = o[1]
  BY <1>4, ClustersFacts
<1>6. \A x : x \in ToSet(o) <=> \E i \in 1..Len(o) : o[i] = x
  BY <1>4, WindowFacts
<1> HIDE DEF o, cs
<1>7. ASSUME Len(cs) = 1 PROVE FALSE
  <2>1. ASSUME NEW x \in ToSet(b) PROVE Within(o[1].scalar, x.scalar) /\ o[1].scalar <= x.scalar
    <3>1. PICK i \in 1..n : o[i] = x
      BY <1>4, <1>6
    <3>2. Placed(cs, x)
      BY <1>4, <1>5, <3>1
    <3>3. PICK m \in 1..Len(cs[1]) : cs[1][m] = x
      BY <1>7, <3>2 DEF Placed, Contains
    <3>4. 1 \in 1..Len(cs)
      BY <1>7
    <3>5. Within(o[1].scalar, x.scalar)
      BY <1>2, <1>4, <1>5, <3>3, <3>4 DEF ClustersOK
    <3>6. CASE i = 1
      <4>1. x.scalar \in Int
        BY <1>1, PoolTypes
      <4>2. QED
        BY <3>1, <3>5, <3>6, <4>1
    <3>7. CASE i # 1
      <4>1. 1 \in 1..n /\ 1 < i
        BY <1>1, <1>2, <3>7
      <4>2. QED
        BY <1>4, <3>1, <3>5, <4>1
    <3>8. QED
      BY <3>6, <3>7
  <2>2. o[1] \in Pool
    <3>1. 1 \in 1..Len(o)
      BY <1>1, <1>2, <1>4
    <3>2. QED
      BY <1>1, <1>4, <1>6, <3>1
  <2>3. o[1].scalar \in Int /\ r.scalar \in Int /\ s.scalar \in Int
    BY <1>1, <2>2, PoolTypes
  <2>4. Within(r.scalar, s.scalar)
    BY <2>1, <2>3, WithinBetween
  <2>5. QED
    BY <2>4
<1>8. QED
  BY <1>2, <1>3, <1>7, AgreementBranches DEF o, cs

\* A majority is one of sources whose lowest values agree with a common one.
LEMMA MajorityFound ==
  ASSUME NEW b, WindowOK(b), assess_agreement(b) = "minority"
  PROVE  LET reports == ToSet(b)
             sources == {r.source : r \in reports}
             lowest(s) == Min({r.scalar : r \in {r \in reports : r.source = s}})
         IN \E r \in reports :
              2 * Cardinality({s \in sources : Within(r.scalar, lowest(s))}) > Cardinality(sources)
<1> DEFINE reports == ToSet(b)
           sources == {r.source : r \in reports}
           values(s) == {r.scalar : r \in {r \in reports : r.source = s}}
           o == Ordered(b)
           cs == Clusters(o)
           n == Len(b)
           votes == {Votes(o, cs[i]) : i \in DOMAIN cs}
<1>1. /\ n \in Nat /\ reports \subseteq Pool /\ IsFiniteSet(reports)
  BY WindowFacts
<1>2. b # <<>>
  BY DEF assess_agreement
<1>3. sources = SourcesOf(b) /\ IsFiniteSet(sources) /\ Cardinality(sources) \in Nat
  BY SourcesFacts
<1>4. 2 * Max(votes) > Cardinality(sources)
  BY <1>2, <1>3, AgreementBranches
<1>5. n >= 1
  BY <1>1, <1>2, EmptySeq DEF WindowOK
<1>6. /\ WindowOK(o) /\ Len(o) = n /\ ToSet(o) = reports
      /\ \A i, j \in 1..n : i < j => o[i].scalar <= o[j].scalar
  BY OrderedFacts
<1>7. ClustersOK(cs, reports) /\ Len(cs) >= 1
  BY <1>5, <1>6, ClustersFacts
<1>8. /\ DOMAIN o = 1..n
      /\ \A x : x \in reports <=> \E i \in 1..n : o[i] = x
  BY <1>6, WindowFacts
<1> HIDE DEF o, cs, n
<1>9. cs \in Seq(Seq(reports)) /\ Len(cs) \in Nat /\ DOMAIN cs = 1..Len(cs)
  BY <1>7, LenProperties DEF ClustersOK
<1> DEFINE first(c) == {i \in 1..n : /\ Contains(c, o[i])
                                     /\ \A j \in 1..(i - 1) : o[j].source # o[i].source}
<1>10. \A c : Votes(o, c) = Cardinality(first(c)) /\ IsFiniteSet(first(c)) /\ Votes(o, c) \in Nat
  <2>1. IsFiniteSet(1..n)
    BY <1>1, FS_Interval
  <2>2. \A c : IsFiniteSet(first(c))
    BY <2>1, FS_Subset
  <2>3. \A c : Votes(o, c) = Cardinality(first(c))
    BY <1>8 DEF Votes
  <2>4. QED
    BY <2>2, <2>3, FS_CardinalityType
<1>11. PICK c \in 1..Len(cs) : Votes(o, cs[c]) = Max(votes)
  <2>1. votes \in SUBSET Int
    <3>1. ASSUME NEW d PROVE Votes(o, d) \in Int
      <4>1. Votes(o, d) \in Nat
        BY <1>10, Zenon
      <4>2. QED
        BY <4>1
    <3>2. QED
      BY <3>1
  <2>2. IsFiniteSet(votes)
    <3> DEFINE f == [i \in 1..Len(cs) |-> Votes(o, cs[i])]
    <3>1. IsFiniteSet(1..Len(cs))
      BY <1>9, FS_Interval
    <3>2. f \in Surjection(1..Len(cs), votes)
      BY <1>9 DEF Surjection
    <3>3. QED
      BY <3>1, <3>2, FS_Surjection
  <2>3. votes # {}
    <3>1. 1 \in 1..Len(cs)
      BY <1>7, <1>9
    <3>2. QED
      BY <1>9, <3>1
  <2>4. Max(votes) \in votes
    BY <2>1, <2>2, <2>3, MaxFacts
  <2>5. QED
    BY <1>9, <2>4
<1> DEFINE cluster == cs[c]
           r == cluster[1]
           V == first(cluster)
           T == {s \in sources : Within(r.scalar, Min(values(s)))}
<1>12. /\ cluster \in Seq(reports) /\ Len(cluster) \in Nat /\ Len(cluster) >= 1
       /\ \A m \in 1..Len(cluster) : Within(r.scalar, cluster[m].scalar)
  <2>1. cs[c] \in Seq(reports)
    BY <1>9, <1>11, ElementOfSeq
  <2>2. QED
    BY <1>7, <1>11, <2>1, LenProperties DEF ClustersOK
<1>13. r \in reports
  <2>1. 1 \in 1..Len(cluster)
    BY <1>12
  <2>2. QED
    BY <1>12, <2>1, ElementOfSeq
<1>14. ASSUME NEW i \in V PROVE o[i].source \in T
  <2>1. /\ i \in 1..n /\ o[i] \in reports
        /\ \A j \in 1..(i - 1) : o[j].source # o[i].source
        /\ Contains(cluster, o[i])
    BY <1>8
  <2> DEFINE s == o[i].source
             W == values(s)
  <2>2. Within(r.scalar, o[i].scalar)
    BY <1>12, <2>1 DEF Contains
  <2>3. o[i].scalar \in W /\ o[i].scalar \in Int
    BY <1>1, <2>1, PoolTypes
  <2>4. ASSUME NEW v \in W PROVE o[i].scalar <= v
    <3>1. PICK x \in reports : x.source = s /\ v = x.scalar
      OBVIOUS
    <3>2. PICK j \in 1..n : o[j] = x
      BY <1>8
    <3>3. j >= i
      <4>1. ~(j \in 1..(i - 1))
        BY <2>1, <3>1, <3>2
      <4>2. QED
        BY <1>1, <2>1, <4>1
    <3>4. CASE j = i
      BY <2>3, <3>1, <3>2, <3>4
    <3>5. CASE j > i
      BY <1>6, <2>1, <3>1, <3>2, <3>5
    <3>6. QED
      BY <1>1, <2>1, <3>3, <3>4, <3>5
  <2>5. W \in SUBSET Int
    BY <1>1, PoolTypes
  <2>6. Min(W) \in W /\ \A y \in W : Min(W) <= y
    <3>1. \E x \in W : \A y \in W : x =< y
      BY <2>3, <2>4
    <3> HIDE DEF W
    <3>2. QED
      BY <3>1 DEF Min
  <2>7. Min(W) = o[i].scalar
    <3> HIDE DEF W
    <3>1. Min(W) <= o[i].scalar /\ o[i].scalar <= Min(W) /\ Min(W) \in Int
      BY <2>3, <2>4, <2>5, <2>6
    <3>2. QED
      BY <2>3, <3>1
  <2>8. s \in sources
    BY <2>1
  <2>9. QED
    BY <2>2, <2>7, <2>8
<1>15. ASSUME NEW i \in V, NEW j \in V, o[i].source = o[j].source PROVE i = j
  <2>1. i \in 1..n /\ j \in 1..n
    OBVIOUS
  <2>2. ~(i \in 1..(j - 1)) /\ ~(j \in 1..(i - 1))
    BY <1>15
  <2>3. QED
    BY <1>1, <2>1, <2>2
<1>16. IsFiniteSet(T)
  BY <1>3, FS_Subset
<1>17. Cardinality(V) <= Cardinality(T)
  <2> DEFINE f == [i \in V |-> o[i].source]
  <2>1. f \in [V -> T] /\ \A i, j \in V : f[i] = f[j] => i = j
    BY <1>14, <1>15
  <2> HIDE DEF V, T, f
  <2>2. f \in Injection(V, T)
    BY <2>1 DEF Injection, IsInjective
  <2>3. QED
    BY <1>16, <2>2, FS_Injection
<1>18. Cardinality(V) = Max(votes) /\ Cardinality(V) \in Nat
  BY <1>10, <1>11
<1>19. Cardinality(T) \in Nat
  BY <1>16, FS_CardinalityType
<1>20. 2 * Cardinality(T) > Cardinality(sources)
  <2> HIDE DEF V, T, sources, votes
  <2> QED
    BY <1>3, <1>4, <1>17, <1>18, <1>19
<1>21. QED
  BY <1>13, <1>20

LEMMA ConflictsByInv == ClassifierInv => ConflictsReported
<1> SUFFICES ASSUME ClassifierInv, NEW role \in ComparedRoles,
                    NEW r \in Positions(role), NEW s \in Positions(role),
                    r.source # s.source, r.scalar < s.scalar, ~Within(r.scalar, s.scalar)
             PROVE  "conflicting_sources" \in assessment.blockers
  BY DEF ConflictsReported
<1> DEFINE t == evaluated_at
           b == Bucket(window, t, role)
           f == extract_features(window, t)
<1>1. WindowOK(b)
  BY BucketFacts DEF ClassifierInv
<1>2. /\ r \in ToSet(b) /\ s \in ToSet(b)
      /\ \A i, j \in DOMAIN b : b[i].unit = b[j].unit /\ b[i].semantics # "cumulative_counter"
  BY DEF Positions
<1>3. Comparable(b)
  <2>1. Len(b) \in Nat /\ DOMAIN b = 1..Len(b)
        /\ \A x : x \in ToSet(b) <=> \E i \in 1..Len(b) : b[i] = x
    BY <1>1, WindowFacts
  <2>2. PICK i \in 1..Len(b) : b[i] = r
    BY <1>2, <2>1
  <2>3. 1 \in DOMAIN b
    BY <2>1, <2>2
  <2>4. QED
    BY <1>2, <2>3 DEF Comparable
<1>4. agreement_is_conflict(assess_agreement(b))
  BY <1>1, <1>2, <1>3, ConflictFound
<1>5. f.agreement[role] = assess_agreement(b)
  <2>1. f.agreement = [x \in ComparedRoles |-> assess_agreement(Bucket(window, t, x))]
    BY Agreed
  <2> HIDE DEF f
  <2>2. QED
    BY <2>1
<1>6. role \in ConflictingRoles(f)
  BY <1>4, <1>5 DEF ConflictingRoles
<1>7. "conflicting_sources" \in collect_conflict_blockers(f)
  <2> HIDE DEF f
  <2> QED
    BY <1>6 DEF collect_conflict_blockers
<1>8. collect_conflict_blockers(f) \subseteq assessment.blockers
  BY Classified DEF ClassifierInv
<1>9. QED
  BY <1>7, <1>8

LEMMA MajorityByInv == ClassifierInv => MajorityIsOfSources
<1> SUFFICES ASSUME ClassifierInv, NEW role \in ComparedRoles,
                    assessment.agreement[role] = "minority"
             PROVE  LET reports == ToSet(Bucket(window, evaluated_at, role))
                        sources == {r.source : r \in reports}
                        lowest(s) == Min({r.scalar : r \in {r \in reports : r.source = s}})
                    IN \E r \in reports :
                         2 * Cardinality({s \in sources : Within(r.scalar, lowest(s))})
                           > Cardinality(sources)
  BY DEF MajorityIsOfSources
<1> DEFINE b == Bucket(window, evaluated_at, role)
<1>1. WindowOK(b)
  BY BucketFacts DEF ClassifierInv
<1>2. assess_agreement(b) = "minority"
  <2>1. assessment.agreement = extract_features(window, evaluated_at).agreement
    BY Classified DEF ClassifierInv
  <2>2. extract_features(window, evaluated_at).agreement =
          [x \in ComparedRoles |-> assess_agreement(Bucket(window, evaluated_at, x))]
    BY Agreed
  <2>3. QED
    BY <2>1, <2>2
<1> HIDE DEF b
<1>3. LET reports == ToSet(b)
          sources == {r.source : r \in reports}
          lowest(s) == Min({r.scalar : r \in {r \in reports : r.source = s}})
      IN \E r \in reports :
           2 * Cardinality({s \in sources : Within(r.scalar, lowest(s))}) > Cardinality(sources)
  BY <1>1, <1>2, MajorityFound
<1>4. QED
  BY <1>3 DEF b

(***************************************************************************)
(* What an assessment says of the window is complete and consistent: its   *)
(* confidence and citations are in range, an asserted congestion names a   *)
(* mechanism, every conflict of sources is reported, and a majority is     *)
(* one of sources (classify.cpp, and assess_agreement of evidence.cpp).    *)
(***************************************************************************)
THEOREM AssessmentHolds == ClassifierSpec => []AssessmentInv
<1>1. ClassifierInv => AssessmentInv
  BY WellFormed, ConflictsByInv, MajorityByInv DEF AssessmentInv
<1>2. QED
  BY <1>1, ClassifierAlways, PTL
=============================================================================
