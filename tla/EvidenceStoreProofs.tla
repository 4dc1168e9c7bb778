------------------------ MODULE EvidenceStoreProofs ------------------------
(***************************************************************************)
(* Proofs about EvidenceStore: its two structures agree, its limits hold   *)
(* and its counters balance; then what fencing promises.                   *)
(***************************************************************************)
EXTENDS EvidenceStore, FiniteSetTheorems, TLAPS

LEMMA LeastExists ==
  ASSUME NEW S, S \subseteq Nat, S # {}
  PROVE  Least(S) \in S /\ \A j \in S : Least(S) <= j
<1> DEFINE R == {ss \in Nat \X Nat : ss[1] < ss[2]}
<1>1. IsWellFoundedOn(R, Nat)
  BY NatLessThanWellFounded, Zenon DEF OpToRel
<1>2. PICK x \in S : \A y \in S : ~(<<y, x>> \in R)
  <2> HIDE DEF R
  <2> QED BY <1>1, WFMin
<1>3. ASSUME NEW y \in S PROVE x <= y
  <2>1. x \in Nat /\ y \in Nat
    OBVIOUS
  <2>2. ~(<<y, x>> \in R)
    BY <1>2
  <2>3. ~(y < x)
    BY <2>1, <2>2
  <2>4. QED
    BY <2>1, <2>3
<1>4. QED
  BY <1>3 DEF Least

-----------------------------------------------------------------------------
(***************************************************************************)
(* Content of the store.                                                   *)
(***************************************************************************)
\* Record i of subject s leaves both structures and is counted as evicted.
Remove(c, s, i) ==
  [by_subject |-> [t \in Subjects |-> IF t = s THEN Without(c.by_subject[s], {i})
                                              ELSE c.by_subject[t]],
   insertion_order |-> Without(c.insertion_order, {i}),
   retained |-> c.retained - 1,
   next |-> c.next,
   evicted |-> c.evicted + 1]

\* d holds only records of c, as they were.
Keeps(d, c) ==
  \A t \in Subjects : \A i \in DOMAIN d.by_subject[t] :
     i \in DOMAIN c.by_subject[t] /\ d.by_subject[t][i] = c.by_subject[t][i]

\* What c held and d does not is older than what d holds of the same subject.
DropsOldest(d, c) ==
  \A t \in Subjects : \A i \in DOMAIN c.by_subject[t] \ DOMAIN d.by_subject[t],
                        j \in DOMAIN d.by_subject[t] : i < j

LEMMA CoherentRetained ==
  ASSUME NEW c, StoreOK(c), Coherent(c), DOMAIN c.insertion_order # {}
  PROVE  c.retained > 0
BY FS_EmptySet, FS_CardinalityType DEF StoreOK, Coherent

LEMMA EraseFrontVector ==
  ASSUME NEW b, IsVector(b), DOMAIN b # {}
  PROVE  /\ Least(DOMAIN b) \in DOMAIN b
         /\ \A j \in DOMAIN b : Least(DOMAIN b) <= j
         /\ EraseFront(b) = Without(b, {Least(DOMAIN b)})
<1>1. DOMAIN b \subseteq Nat
  BY DEF IsVector
<1>2. QED
  BY <1>1, LeastExists DEF EraseFront

LEMMA EvictFrontIsRemove ==
  ASSUME NEW c, StoreOK(c), Coherent(c), NEW s \in Subjects,
         DOMAIN c.by_subject[s] # {}
  PROVE  LET front == Least(DOMAIN c.by_subject[s])
         IN  /\ front \in DOMAIN c.by_subject[s]
             /\ \A j \in DOMAIN c.by_subject[s] : front <= j
             /\ EvictFront(c, s) = Remove(c, s, front)
<1> DEFINE front == Least(DOMAIN c.by_subject[s])
<1>1. IsVector(c.by_subject[s])
  BY DEF StoreOK
<1>2. /\ front \in DOMAIN c.by_subject[s]
      /\ \A j \in DOMAIN c.by_subject[s] : front <= j
      /\ EraseFront(c.by_subject[s]) = Without(c.by_subject[s], {front})
  BY <1>1, EraseFrontVector
<1>3. DOMAIN c.insertion_order # {}
  BY <1>2 DEF Coherent
<1>4. Drop(c.retained, 1) = c.retained - 1
  BY <1>3, CoherentRetained DEF Drop, StoreOK
<1>5. EvictFront(c, s) = Remove(c, s, front)
  BY <1>2, <1>4 DEF EvictFront, Remove, StoreOK
<1>6. QED
  BY <1>2, <1>5

LEMMA EvictOldestIsRemove ==
  ASSUME NEW c, StoreOK(c), Coherent(c), DOMAIN c.insertion_order # {}
  PROVE  LET oldest == Least(DOMAIN c.insertion_order)
             s == c.insertion_order[oldest]
         IN  /\ s \in Subjects
             /\ oldest \in DOMAIN c.by_subject[s]
             /\ \A j \in DOMAIN c.by_subject[s] : oldest <= j
             /\ EvictOldest(c) = Remove(c, s, oldest)
<1> DEFINE oldest == Least(DOMAIN c.insertion_order)
           s == c.insertion_order[oldest]
<1>1. DOMAIN c.insertion_order \subseteq Nat
  BY DEF StoreOK
<1>2. oldest \in DOMAIN c.insertion_order /\ \A j \in DOMAIN c.insertion_order : oldest <= j
  BY <1>1, LeastExists
<1>3. s \in Subjects /\ oldest \in DOMAIN c.by_subject[s] /\ IsVector(c.by_subject[s])
  BY <1>2 DEF StoreOK, Coherent
<1>4. \A j \in DOMAIN c.by_subject[s] : oldest <= j
  BY <1>2, <1>3 DEF Coherent
<1>5. /\ Least(DOMAIN c.by_subject[s]) \in DOMAIN c.by_subject[s]
      /\ \A j \in DOMAIN c.by_subject[s] : Least(DOMAIN c.by_subject[s]) <= j
      /\ EraseFront(c.by_subject[s]) = Without(c.by_subject[s], {Least(DOMAIN c.by_subject[s])})
  BY <1>3, EraseFrontVector
<1>6. DOMAIN c.by_subject[s] \subseteq Nat
  BY <1>3 DEF IsVector
<1>7. Least(DOMAIN c.by_subject[s]) = oldest
  <2>1. Least(DOMAIN c.by_subject[s]) <= oldest /\ oldest <= Least(DOMAIN c.by_subject[s])
    BY <1>3, <1>4, <1>5
  <2>2. Least(DOMAIN c.by_subject[s]) \in Nat /\ oldest \in Nat
    BY <1>3, <1>5, <1>6
  <2>3. QED
    BY <2>1, <2>2
<1>8. Drop(c.retained, 1) = c.retained - 1
  BY CoherentRetained DEF Drop, StoreOK
<1>9. EvictOldest(c) = Remove(c, s, oldest)
  BY <1>3, <1>5, <1>7, <1>8 DEF EvictOldest, Remove, StoreOK
<1>10. QED
  BY <1>3, <1>4, <1>9

LEMMA RemoveOK ==
  ASSUME NEW c, StoreOK(c), Coherent(c), NEW s \in Subjects,
         NEW i \in DOMAIN c.by_subject[s],
         \A j \in DOMAIN c.by_subject[s] : i <= j
  PROVE  LET d == Remove(c, s, i)
         IN  /\ StoreOK(d)
             /\ Coherent(d)
             /\ Keeps(d, c)
             /\ DropsOldest(d, c)
             /\ d.retained = c.retained - 1
             /\ Cardinality(DOMAIN d.by_subject[s]) = Cardinality(DOMAIN c.by_subject[s]) - 1
             /\ \A t \in Subjects : Cardinality(DOMAIN d.by_subject[t])
                                      <= Cardinality(DOMAIN c.by_subject[t])
<1> DEFINE d == Remove(c, s, i)
<1>1. /\ i \in DOMAIN c.insertion_order /\ c.insertion_order[i] = s
      /\ i \in Nat
      /\ c.retained > 0 /\ c.retained \in Nat /\ c.evicted \in Nat
  BY CoherentRetained DEF StoreOK, Coherent, IsVector
<1>2. /\ d.by_subject = [t \in Subjects |-> IF t = s THEN Without(c.by_subject[s], {i})
                                                    ELSE c.by_subject[t]]
      /\ d.insertion_order = Without(c.insertion_order, {i})
      /\ d.retained = c.retained - 1 /\ d.next = c.next /\ d.evicted = c.evicted + 1
  BY DEF Remove
<1>3. \A t \in Subjects : /\ DOMAIN d.by_subject[t] = DOMAIN c.by_subject[t] \ (IF t = s THEN {i} ELSE {})
                          /\ \A j \in DOMAIN d.by_subject[t] : d.by_subject[t][j] = c.by_subject[t][j]
  BY <1>2 DEF Without
<1>4. /\ DOMAIN d.insertion_order = DOMAIN c.insertion_order \ {i}
      /\ \A j \in DOMAIN d.insertion_order : d.insertion_order[j] = c.insertion_order[j]
  BY <1>2 DEF Without
<1>0. d = [by_subject |-> d.by_subject, insertion_order |-> d.insertion_order,
           retained |-> d.retained, next |-> d.next, evicted |-> d.evicted]
  BY DEF Remove
<1> HIDE DEF d
<1>5. Keeps(d, c)
  BY <1>3 DEF Keeps
<1>6. DropsOldest(d, c)
  <2> SUFFICES ASSUME NEW t \in Subjects, NEW k \in DOMAIN c.by_subject[t] \ DOMAIN d.by_subject[t],
                      NEW j \in DOMAIN d.by_subject[t]
               PROVE  k < j
    BY DEF DropsOldest
  <2>1. t = s /\ k = i /\ j # i /\ j \in DOMAIN c.by_subject[s]
    BY <1>3
  <2>2. i <= j /\ j \in Nat
    BY <2>1 DEF StoreOK, IsVector
  <2>3. QED
    BY <1>1, <2>1, <2>2
<1>7. \A t \in Subjects : IsFiniteSet(DOMAIN c.by_subject[t])
  BY DEF StoreOK, IsVector
<1>8. /\ IsFiniteSet(DOMAIN c.by_subject[s] \ {i})
      /\ Cardinality(DOMAIN c.by_subject[s] \ {i}) = Cardinality(DOMAIN c.by_subject[s]) - 1
      /\ Cardinality(DOMAIN c.by_subject[s]) \in Nat
  BY <1>7, FS_RemoveElement, FS_CardinalityType
<1>9. /\ IsFiniteSet(DOMAIN c.insertion_order \ {i})
      /\ Cardinality(DOMAIN c.insertion_order \ {i}) = Cardinality(DOMAIN c.insertion_order) - 1
  BY <1>1, FS_RemoveElement DEF StoreOK
<1>10. \A t \in Subjects : Cardinality(DOMAIN d.by_subject[t]) <= Cardinality(DOMAIN c.by_subject[t])
  <2> TAKE t \in Subjects
  <2>1. CASE t = s
    <3>1. DOMAIN d.by_subject[t] = DOMAIN c.by_subject[s] \ {i}
      BY <1>3, <2>1
    <3>2. QED
      BY <1>8, <2>1, <3>1
  <2>2. CASE t # s
    <3>1. DOMAIN d.by_subject[t] = DOMAIN c.by_subject[t]
      BY <1>3, <2>2
    <3>2. Cardinality(DOMAIN c.by_subject[t]) \in Nat
      BY <1>7, FS_CardinalityType
    <3>3. QED
      BY <3>1, <3>2
  <2>3. QED
    BY <2>1, <2>2
<1>11. Cardinality(DOMAIN d.by_subject[s]) = Cardinality(DOMAIN c.by_subject[s]) - 1
  BY <1>3, <1>8
<1>12. Coherent(d)
  <2>1. \A t \in Subjects : \A j \in DOMAIN d.by_subject[t] :
           j \in DOMAIN d.insertion_order /\ d.insertion_order[j] = t
    BY <1>1, <1>3, <1>4 DEF Coherent
  <2>2. ASSUME NEW j \in DOMAIN d.insertion_order
        PROVE  j \in DOMAIN d.by_subject[d.insertion_order[j]] /\ j < d.next
    <3>1. j \in DOMAIN c.insertion_order /\ j # i /\ d.insertion_order[j] = c.insertion_order[j]
      BY <1>4
    <3>2. c.insertion_order[j] \in Subjects
      BY <3>1 DEF StoreOK
    <3>3. j \in DOMAIN c.by_subject[c.insertion_order[j]] /\ j < c.next
      BY <3>1 DEF Coherent
    <3>4. j \in DOMAIN d.by_subject[c.insertion_order[j]]
      BY <1>3, <3>1, <3>2, <3>3
    <3>5. QED
      BY <1>2, <3>1, <3>3, <3>4
  <2>3. d.retained = Cardinality(DOMAIN d.insertion_order)
    BY <1>2, <1>4, <1>9 DEF Coherent
  <2>4. QED
    BY <2>1, <2>2, <2>3 DEF Coherent
<1>13. StoreOK(d)
  <2>1. \A t \in Subjects : IsVector(d.by_subject[t])
    <3> TAKE t \in Subjects
    <3>1. IsVector(c.by_subject[t])
      BY DEF StoreOK
    <3>2. CASE t # s
      <4>1. d.by_subject[t] = c.by_subject[t]
        BY <1>2, <3>2
      <4>2. QED
        BY <3>1, <4>1
    <3>3. CASE t = s
      <4>1. d.by_subject[t] = Without(c.by_subject[t], {i})
        BY <1>2, <3>3
      <4>2. QED
        BY <3>1, <3>3, <4>1, <1>8 DEF IsVector, Without
    <3>4. QED
      BY <3>2, <3>3
  <2>2. d.insertion_order \in [DOMAIN d.insertion_order -> Subjects]
    BY <1>2 DEF StoreOK, Without
  <2>3. /\ IsFiniteSet(DOMAIN d.insertion_order) /\ DOMAIN d.insertion_order \subseteq Nat \ {0}
        /\ d.retained \in Nat /\ d.next \in Nat \ {0} /\ d.evicted \in Nat
    <3>1. IsFiniteSet(DOMAIN d.insertion_order)
      BY <1>4, <1>9
    <3>2. DOMAIN d.insertion_order \subseteq Nat \ {0}
      BY <1>4 DEF StoreOK
    <3>3. c.next \in Nat \ {0}
      BY DEF StoreOK
    <3>4. d.retained = c.retained - 1 /\ d.next = c.next /\ d.evicted = c.evicted + 1
      BY <1>2
    <3>5. d.retained \in Nat /\ d.next \in Nat \ {0} /\ d.evicted \in Nat
      BY <1>1, <3>3, <3>4
    <3>6. QED
      BY <3>1, <3>2, <3>5
  <2>4. d.by_subject = [t \in Subjects |-> d.by_subject[t]]
    BY <1>2
  <2>5. QED
    BY <1>0, <2>1, <2>2, <2>3, <2>4 DEF StoreOK
<1>14. QED
  BY <1>2, <1>5, <1>6, <1>10, <1>11, <1>12, <1>13 DEF d

LEMMA PushBackOK ==
  ASSUME NEW c, StoreOK(c), Coherent(c), NEW s \in Subjects, NEW r \in Record
  PROVE  LET d == PushBack(c, s, r)
         IN  /\ StoreOK(d)
             /\ Coherent(d)
             /\ \A t \in Subjects :
                  /\ DOMAIN d.by_subject[t] = DOMAIN c.by_subject[t]
                                               \cup (IF t = s THEN {c.next} ELSE {})
                  /\ \A i \in DOMAIN c.by_subject[t] :
                       i < c.next /\ d.by_subject[t][i] = c.by_subject[t][i]
             /\ d.by_subject[s][c.next] = r
             /\ d.retained = c.retained + 1 /\ d.next = c.next + 1
             /\ d.evicted = c.evicted
             /\ \A t \in Subjects : Cardinality(DOMAIN d.by_subject[t])
                  = Cardinality(DOMAIN c.by_subject[t]) + (IF t = s THEN 1 ELSE 0)
<1> DEFINE d == PushBack(c, s, r)
<1>1. /\ d.by_subject = [t \in Subjects |-> IF t = s THEN Put(c.by_subject[s], c.next, r)
                                                    ELSE c.by_subject[t]]
      /\ d.insertion_order = Put(c.insertion_order, c.next, s)
  BY DEF PushBack, StoreOK
<1>2. d.retained = c.retained + 1 /\ d.next = c.next + 1 /\ d.evicted = c.evicted
  BY DEF PushBack
<1>3. d = [by_subject |-> d.by_subject, insertion_order |-> d.insertion_order,
           retained |-> d.retained, next |-> d.next, evicted |-> d.evicted]
  BY DEF PushBack
<1> HIDE DEF d
<1>4. c.next \in Nat \ {0} /\ c.retained \in Nat /\ c.evicted \in Nat
  BY DEF StoreOK
<1>5. \A t \in Subjects : \A i \in DOMAIN c.by_subject[t] : i < c.next
  BY DEF Coherent
<1>6. c.next \notin DOMAIN c.insertion_order
  BY <1>4 DEF Coherent
<1>7. /\ DOMAIN d.insertion_order = DOMAIN c.insertion_order \cup {c.next}
      /\ d.insertion_order[c.next] = s
      /\ \A j \in DOMAIN c.insertion_order : d.insertion_order[j] = c.insertion_order[j]
  BY <1>1, <1>6 DEF Put
<1>8. \A t \in Subjects : c.next \notin DOMAIN c.by_subject[t]
  BY <1>4, <1>5
<1>9. \A t \in Subjects :
        /\ DOMAIN d.by_subject[t] = DOMAIN c.by_subject[t] \cup (IF t = s THEN {c.next} ELSE {})
        /\ \A i \in DOMAIN c.by_subject[t] : d.by_subject[t][i] = c.by_subject[t][i]
  BY <1>1, <1>8 DEF Put
<1>10. d.by_subject[s][c.next] = r
  BY <1>1 DEF Put
<1>11. \A t \in Subjects : IsFiniteSet(DOMAIN c.by_subject[t])
  BY DEF StoreOK, IsVector
<1>12. \A t \in Subjects :
          /\ IsFiniteSet(DOMAIN d.by_subject[t])
          /\ Cardinality(DOMAIN d.by_subject[t])
               = Cardinality(DOMAIN c.by_subject[t]) + (IF t = s THEN 1 ELSE 0)
  <2> TAKE t \in Subjects
  <2>1. CASE t = s
    <3>1. DOMAIN d.by_subject[t] = DOMAIN c.by_subject[t] \cup {c.next}
      BY <1>9, <2>1
    <3>2. /\ IsFiniteSet(DOMAIN c.by_subject[t] \cup {c.next})
          /\ Cardinality(DOMAIN c.by_subject[t] \cup {c.next})
               = Cardinality(DOMAIN c.by_subject[t]) + 1
      BY <1>8, <1>11, FS_AddElement
    <3>3. QED
      BY <2>1, <3>1, <3>2
  <2>2. CASE t # s
    <3>1. DOMAIN d.by_subject[t] = DOMAIN c.by_subject[t]
      BY <1>9, <2>2
    <3>2. Cardinality(DOMAIN c.by_subject[t]) \in Nat
      BY <1>11, FS_CardinalityType
    <3>3. QED
      BY <1>11, <2>2, <3>1, <3>2
  <2>3. QED
    BY <2>1, <2>2
<1>13. /\ IsFiniteSet(DOMAIN d.insertion_order)
       /\ Cardinality(DOMAIN d.insertion_order) = Cardinality(DOMAIN c.insertion_order) + 1
  <2>1. IsFiniteSet(DOMAIN c.insertion_order)
    BY DEF StoreOK
  <2>2. QED
    BY <1>6, <1>7, <2>1, FS_AddElement
<1>14. Coherent(d)
  <2>1. ASSUME NEW t \in Subjects, NEW j \in DOMAIN d.by_subject[t]
        PROVE  j \in DOMAIN d.insertion_order /\ d.insertion_order[j] = t
    <3>1. CASE j = c.next
      BY <1>7, <1>8, <1>9, <3>1
    <3>2. CASE j # c.next
      BY <1>7, <1>9, <3>2 DEF Coherent
    <3>3. QED
      BY <3>1, <3>2
  <2>2. ASSUME NEW j \in DOMAIN d.insertion_order
        PROVE  j \in DOMAIN d.by_subject[d.insertion_order[j]] /\ j < d.next
    <3>1. CASE j = c.next
      BY <1>2, <1>4, <1>7, <1>9, <3>1
    <3>2. CASE j # c.next
      <4>1. j \in DOMAIN c.insertion_order /\ d.insertion_order[j] = c.insertion_order[j]
        BY <1>7, <3>2
      <4>2. c.insertion_order[j] \in Subjects /\ j \in Nat
        BY <4>1 DEF StoreOK
      <4>3. j \in DOMAIN c.by_subject[c.insertion_order[j]] /\ j < c.next
        BY <4>1 DEF Coherent
      <4>4. j < d.next
        BY <1>2, <1>4, <4>2, <4>3
      <4>5. QED
        BY <1>9, <4>1, <4>2, <4>3, <4>4
    <3>3. QED
      BY <3>1, <3>2
  <2>3. d.retained = Cardinality(DOMAIN d.insertion_order)
    BY <1>2, <1>13 DEF Coherent
  <2>4. QED
    BY <2>1, <2>2, <2>3 DEF Coherent
<1>15. StoreOK(d)
  <2>1. ASSUME NEW t \in Subjects PROVE IsVector(d.by_subject[t])
    <3>1. IsVector(c.by_subject[t])
      BY DEF StoreOK
    <3>2. CASE t # s
      <4>1. d.by_subject[t] = c.by_subject[t]
        BY <1>1, <3>2
      <4>2. QED
        BY <3>1, <4>1
    <3>3. CASE t = s
      <4>1. d.by_subject[t] = Put(c.by_subject[t], c.next, r)
        BY <1>1, <3>3
      <4>2. IsFiniteSet(DOMAIN d.by_subject[t])
        BY <1>12
      <4>3. QED
        BY <1>4, <3>1, <4>1, <4>2 DEF IsVector, Put
    <3>4. QED
      BY <3>2, <3>3
  <2>2. /\ d.insertion_order \in [DOMAIN d.insertion_order -> Subjects]
        /\ DOMAIN d.insertion_order \subseteq Nat \ {0}
    BY <1>1, <1>4 DEF StoreOK, Put
  <2>3. d.retained \in Nat /\ d.next \in Nat \ {0} /\ d.evicted \in Nat
    BY <1>2, <1>4
  <2>4. d.by_subject = [t \in Subjects |-> d.by_subject[t]]
    BY <1>1
  <2>5. QED
    BY <1>3, <1>13, <2>1, <2>2, <2>3, <2>4 DEF StoreOK
<1>16. QED
  BY <1>2, <1>5, <1>9, <1>10, <1>12, <1>14, <1>15 DEF d

-----------------------------------------------------------------------------
(***************************************************************************)
(* Admission.                                                              *)
(***************************************************************************)
\* d is c after evictions: a coherent store with some of the oldest records of
\* c gone and counted.
Trimmed(d, c) ==
  /\ StoreOK(d) /\ Coherent(d)
  /\ Keeps(d, c) /\ DropsOldest(d, c)
  /\ d.next = c.next
  /\ d.retained <= c.retained
  /\ d.retained + d.evicted = c.retained + c.evicted
  /\ \A t \in Subjects : Cardinality(DOMAIN d.by_subject[t])
                           <= Cardinality(DOMAIN c.by_subject[t])

\* The limits on records.
Limited(c) ==
  /\ c.retained <= max_retained_evidence
  /\ \A t \in Subjects : Cardinality(DOMAIN c.by_subject[t]) <= max_evidence_per_subject

LEMMA BucketCardinality ==
  ASSUME NEW c, StoreOK(c), NEW t \in Subjects
  PROVE  /\ Cardinality(DOMAIN c.by_subject[t]) \in Nat
         /\ Cardinality(DOMAIN c.by_subject[t]) # 0 => DOMAIN c.by_subject[t] # {}
<1>1. IsFiniteSet(DOMAIN c.by_subject[t])
  BY DEF StoreOK, IsVector
<1>2. QED
  BY <1>1, FS_CardinalityType, FS_EmptySet

LEMMA TrimmedSelf ==
  ASSUME NEW c, StoreOK(c), Coherent(c)
  PROVE  Trimmed(c, c)
<1>1. \A t \in Subjects : Cardinality(DOMAIN c.by_subject[t])
                           <= Cardinality(DOMAIN c.by_subject[t])
  BY BucketCardinality
<1>2. c.retained <= c.retained
  BY DEF StoreOK
<1>3. QED
  BY <1>1, <1>2 DEF Trimmed, Keeps, DropsOldest

LEMMA RemoveTrims ==
  ASSUME NEW c, StoreOK(c), Coherent(c), NEW s \in Subjects,
         NEW i \in DOMAIN c.by_subject[s],
         \A j \in DOMAIN c.by_subject[s] : i <= j
  PROVE  Trimmed(Remove(c, s, i), c)
<1> DEFINE d == Remove(c, s, i)
<1>1. /\ StoreOK(d) /\ Coherent(d) /\ Keeps(d, c) /\ DropsOldest(d, c)
      /\ d.retained = c.retained - 1
      /\ \A t \in Subjects : Cardinality(DOMAIN d.by_subject[t])
                               <= Cardinality(DOMAIN c.by_subject[t])
  BY RemoveOK
<1>2. d.next = c.next /\ d.evicted = c.evicted + 1
  BY DEF Remove
<1>3. c.retained \in Nat /\ c.evicted \in Nat
  BY DEF StoreOK
<1> HIDE DEF d
<1>4. d.retained <= c.retained /\ d.retained + d.evicted = c.retained + c.evicted
  BY <1>1, <1>2, <1>3
<1>5. Trimmed(d, c)
  BY <1>1, <1>2, <1>4 DEF Trimmed
<1>6. QED
  BY <1>5 DEF d

\* Making room globally leaves a slot.
LEMMA MakeRoomOK ==
  ASSUME NEW c, StoreOK(c), Coherent(c), Limited(c)
  PROVE  Trimmed(MakeRoom(c), c) /\ MakeRoom(c).retained < max_retained_evidence
<1>1. c.retained \in Nat /\ max_retained_evidence \in Nat \ {0}
  BY StoreAssumption DEF StoreOK
<1>2. CASE c.retained >= max_retained_evidence
  <2>1. Cardinality(DOMAIN c.insertion_order) # 0
    BY <1>1, <1>2 DEF Coherent
  <2>2. DOMAIN c.insertion_order # {}
    BY <2>1, FS_EmptySet
  <2>3. MakeRoom(c) = EvictOldest(c)
    BY <1>2, <2>2 DEF MakeRoom
  <2> DEFINE oldest == Least(DOMAIN c.insertion_order)
             s == c.insertion_order[oldest]
  <2>4. /\ s \in Subjects /\ oldest \in DOMAIN c.by_subject[s]
        /\ \A j \in DOMAIN c.by_subject[s] : oldest <= j
        /\ EvictOldest(c) = Remove(c, s, oldest)
    BY <2>2, EvictOldestIsRemove
  <2> HIDE DEF oldest, s
  <2>5. Trimmed(Remove(c, s, oldest), c)
    BY <2>4, RemoveTrims
  <2>6. Remove(c, s, oldest).retained = c.retained - 1
    BY DEF Remove
  <2>7. c.retained <= max_retained_evidence
    BY DEF Limited
  <2>8. c.retained - 1 < max_retained_evidence
    BY <1>1, <2>7
  <2>9. QED
    BY <2>3, <2>4, <2>5, <2>6, <2>8
<1>3. CASE c.retained < max_retained_evidence
  <2>1. MakeRoom(c) = c
    BY <1>1, <1>3 DEF MakeRoom
  <2>2. QED
    BY <1>3, <2>1, TrimmedSelf
<1>4. QED
  BY <1>1, <1>2, <1>3

\* Making room in a subject leaves a slot there.
LEMMA MakeSubjectRoomOK ==
  ASSUME NEW c, StoreOK(c), Coherent(c), NEW s \in Subjects,
         Cardinality(DOMAIN c.by_subject[s]) <= max_evidence_per_subject
  PROVE  /\ Trimmed(MakeSubjectRoom(c, s), c)
         /\ Cardinality(DOMAIN MakeSubjectRoom(c, s).by_subject[s]) < max_evidence_per_subject
<1> DEFINE n == Cardinality(DOMAIN c.by_subject[s])
<1>1. n \in Nat /\ (n # 0 => DOMAIN c.by_subject[s] # {}) /\ max_evidence_per_subject \in Nat \ {0}
  BY StoreAssumption, BucketCardinality
<1>2. CASE n >= max_evidence_per_subject
  <2>1. DOMAIN c.by_subject[s] # {}
    BY <1>1, <1>2
  <2> DEFINE front == Least(DOMAIN c.by_subject[s])
  <2>2. /\ front \in DOMAIN c.by_subject[s]
        /\ \A j \in DOMAIN c.by_subject[s] : front <= j
        /\ EvictFront(c, s) = Remove(c, s, front)
    BY <2>1, EvictFrontIsRemove
  <2> HIDE DEF front
  <2>3. MakeSubjectRoom(c, s) = Remove(c, s, front)
    BY <1>2, <2>2 DEF MakeSubjectRoom
  <2>4. Trimmed(Remove(c, s, front), c)
    BY <2>2, RemoveTrims
  <2>5. Cardinality(DOMAIN Remove(c, s, front).by_subject[s]) = n - 1
    BY <2>2, RemoveOK
  <2>6. n - 1 < max_evidence_per_subject
    BY <1>1
  <2>7. QED
    BY <2>3, <2>4, <2>5, <2>6
<1>3. CASE n < max_evidence_per_subject
  <2>1. MakeSubjectRoom(c, s) = c
    BY <1>1, <1>3 DEF MakeSubjectRoom
  <2>2. QED
    BY <1>3, <2>1, TrimmedSelf
<1>4. QED
  BY <1>1, <1>2, <1>3

\* d is c after record r was admitted to subject s.
Admitted(d, c, s, r) ==
  /\ StoreOK(d) /\ Coherent(d) /\ Limited(d) /\ DropsOldest(d, c)
  /\ d.next = c.next + 1
  /\ d.retained + d.evicted = c.retained + c.evicted + 1
  /\ c.next \in DOMAIN d.by_subject[s] /\ d.by_subject[s][c.next] = r
  /\ \A t \in Subjects : \A i \in DOMAIN d.by_subject[t] :
       \/ /\ i \in DOMAIN c.by_subject[t] /\ i < c.next
          /\ d.by_subject[t][i] = c.by_subject[t][i]
       \/ t = s /\ i = c.next /\ d.by_subject[t][i] = r

LEMMA AdmitOK ==
  ASSUME NEW c, StoreOK(c), Coherent(c), Limited(c),
         NEW s \in Subjects, NEW r \in Record
  PROVE  Admitted(admit_locked(c, s, r), c, s, r)
<1> DEFINE c1 == MakeRoom(c)
           c2 == MakeSubjectRoom(c1, s)
           d  == PushBack(c2, s, r)
<1>1. Trimmed(c1, c) /\ c1.retained < max_retained_evidence
  BY MakeRoomOK
<1>2. d = admit_locked(c, s, r)
  BY DEF admit_locked
<1> HIDE DEF c1
<1>3. \A t \in Subjects : Cardinality(DOMAIN c1.by_subject[t]) <= max_evidence_per_subject
  <2> TAKE t \in Subjects
  <2>1. /\ Cardinality(DOMAIN c1.by_subject[t]) <= Cardinality(DOMAIN c.by_subject[t])
        /\ Cardinality(DOMAIN c.by_subject[t]) <= max_evidence_per_subject
    BY <1>1 DEF Trimmed, Limited
  <2>2. /\ Cardinality(DOMAIN c1.by_subject[t]) \in Nat
        /\ Cardinality(DOMAIN c.by_subject[t]) \in Nat
        /\ max_evidence_per_subject \in Nat
    BY <1>1, BucketCardinality, StoreAssumption DEF Trimmed
  <2>3. QED
    BY <2>1, <2>2
<1>4. /\ Trimmed(c2, c1)
      /\ Cardinality(DOMAIN c2.by_subject[s]) < max_evidence_per_subject
  BY <1>1, <1>3, MakeSubjectRoomOK DEF Trimmed
<1> HIDE DEF c2
<1>5. StoreOK(c) /\ StoreOK(c1) /\ StoreOK(c2) /\ Coherent(c2)
  BY <1>1, <1>4 DEF Trimmed
<1>6. /\ StoreOK(d) /\ Coherent(d)
      /\ \A t \in Subjects :
           /\ DOMAIN d.by_subject[t] = DOMAIN c2.by_subject[t]
                                        \cup (IF t = s THEN {c2.next} ELSE {})
           /\ \A i \in DOMAIN c2.by_subject[t] :
                i < c2.next /\ d.by_subject[t][i] = c2.by_subject[t][i]
      /\ d.by_subject[s][c2.next] = r
      /\ d.retained = c2.retained + 1 /\ d.next = c2.next + 1 /\ d.evicted = c2.evicted
      /\ \A t \in Subjects : Cardinality(DOMAIN d.by_subject[t])
           = Cardinality(DOMAIN c2.by_subject[t]) + (IF t = s THEN 1 ELSE 0)
  BY <1>5, PushBackOK
<1> HIDE DEF d
<1>7. /\ c.retained \in Nat /\ c.evicted \in Nat /\ c.next \in Nat
      /\ c1.retained \in Nat /\ c1.evicted \in Nat
      /\ c2.retained \in Nat /\ c2.evicted \in Nat
      /\ max_retained_evidence \in Nat
  BY <1>5, StoreAssumption DEF StoreOK
<1>8. c1.next = c.next /\ c2.next = c.next
  BY <1>1, <1>4 DEF Trimmed
<1>9. d.next = c.next + 1 /\ d.retained + d.evicted = c.retained + c.evicted + 1
  <2>1. /\ c1.retained + c1.evicted = c.retained + c.evicted
        /\ c2.retained + c2.evicted = c1.retained + c1.evicted
    BY <1>1, <1>4 DEF Trimmed
  <2>2. d.retained = c2.retained + 1 /\ d.evicted = c2.evicted /\ d.next = c2.next + 1
    BY <1>6
  <2>3. QED
    BY <1>7, <1>8, <2>1, <2>2
<1>10. Limited(d)
  <2>1. d.retained <= max_retained_evidence
    <3>1. c2.retained <= c1.retained
      BY <1>4 DEF Trimmed
    <3>2. d.retained = c2.retained + 1
      BY <1>6
    <3>3. QED
      BY <1>1, <1>7, <3>1, <3>2
  <2>2. ASSUME NEW t \in Subjects
        PROVE  Cardinality(DOMAIN d.by_subject[t]) <= max_evidence_per_subject
    <3>1. /\ Cardinality(DOMAIN c2.by_subject[t]) <= Cardinality(DOMAIN c1.by_subject[t])
          /\ Cardinality(DOMAIN c1.by_subject[t]) <= max_evidence_per_subject
      BY <1>3, <1>4 DEF Trimmed
    <3>2. /\ Cardinality(DOMAIN c1.by_subject[t]) \in Nat
          /\ Cardinality(DOMAIN c2.by_subject[t]) \in Nat
          /\ max_evidence_per_subject \in Nat
      BY <1>5, BucketCardinality, StoreAssumption
    <3>3. Cardinality(DOMAIN d.by_subject[t])
            = Cardinality(DOMAIN c2.by_subject[t]) + (IF t = s THEN 1 ELSE 0)
      BY <1>6
    <3>4. CASE t = s
      BY <1>4, <3>2, <3>3, <3>4
    <3>5. CASE t # s
      BY <3>1, <3>2, <3>3, <3>5
    <3>6. QED
      BY <3>4, <3>5
  <2>3. QED
    BY <2>1, <2>2 DEF Limited
<1>11. /\ Keeps(c1, c) /\ Keeps(c2, c1)
       /\ DropsOldest(c1, c) /\ DropsOldest(c2, c1)
  BY <1>1, <1>4 DEF Trimmed
<1>12. ASSUME NEW t \in Subjects, NEW i \in DOMAIN d.by_subject[t]
       PROVE  \/ /\ i \in DOMAIN c.by_subject[t] /\ i < c.next
                 /\ d.by_subject[t][i] = c.by_subject[t][i]
              \/ t = s /\ i = c.next /\ d.by_subject[t][i] = r
  <2>1. CASE i \in DOMAIN c2.by_subject[t]
    BY <1>6, <1>8, <1>11, <2>1 DEF Keeps
  <2>2. CASE i \notin DOMAIN c2.by_subject[t]
    BY <1>6, <1>8, <2>2
  <2>3. QED
    BY <2>1, <2>2
<1>13. DropsOldest(d, c)
  <2> SUFFICES ASSUME NEW t \in Subjects,
                      NEW i \in DOMAIN c.by_subject[t] \ DOMAIN d.by_subject[t],
                      NEW j \in DOMAIN d.by_subject[t]
               PROVE  i < j
    BY DEF DropsOldest
  <2>1. i < c.next
    BY DEF Coherent
  <2>2. CASE j \notin DOMAIN c2.by_subject[t]
    BY <1>6, <1>8, <2>1, <2>2
  <2>3. CASE j \in DOMAIN c2.by_subject[t]
    <3>1. i \notin DOMAIN c2.by_subject[t] /\ j \in DOMAIN c1.by_subject[t]
      BY <1>6, <1>11, <2>3 DEF Keeps
    <3>2. QED
      BY <1>11, <2>3, <3>1 DEF DropsOldest
  <2>4. QED
    BY <2>2, <2>3
<1>14. c.next \in DOMAIN d.by_subject[s] /\ d.by_subject[s][c.next] = r
  BY <1>6, <1>8
<1>15. Admitted(d, c, s, r)
  BY <1>6, <1>9, <1>10, <1>12, <1>13, <1>14 DEF Admitted
<1>16. QED
  BY <1>2, <1>15

-----------------------------------------------------------------------------
(***************************************************************************)
(* Retirement and compaction keep the structure.                           *)
(***************************************************************************)
\* d has the vectors of c, the records of one source retired.
\* d is c after the records of source have been retired, or not, by a new boot.
AfterBoot(d, c, reset, source) ==
  /\ StoreOK(d) /\ Coherent(d) /\ Limited(d)
  /\ d.next = c.next /\ d.retained = c.retained /\ d.evicted = c.evicted
  /\ \A t \in Subjects :
       /\ DOMAIN d.by_subject[t] = DOMAIN c.by_subject[t]
       /\ \A i \in DOMAIN c.by_subject[t] :
            d.by_subject[t][i] = IF reset /\ c.by_subject[t][i].source = source
                                 THEN [c.by_subject[t][i] EXCEPT !.retired = TRUE]
                                 ELSE c.by_subject[t][i]

LEMMA RetireOK ==
  ASSUME NEW c, StoreOK(c), Coherent(c), Limited(c), NEW source
  PROVE  AfterBoot(RetireSource(c, source), c, TRUE, source)
<1> DEFINE d == RetireSource(c, source)
<1>1. d = [by_subject |-> d.by_subject, insertion_order |-> c.insertion_order,
           retained |-> c.retained, next |-> c.next, evicted |-> c.evicted]
  BY DEF RetireSource, StoreOK
<1>2. d.by_subject = [t \in Subjects |-> [i \in DOMAIN c.by_subject[t] |->
                        IF c.by_subject[t][i].source = source
                        THEN [c.by_subject[t][i] EXCEPT !.retired = TRUE]
                        ELSE c.by_subject[t][i]]]
  BY DEF RetireSource, StoreOK
<1> HIDE DEF d
<1>3. \A t \in Subjects :
        /\ DOMAIN d.by_subject[t] = DOMAIN c.by_subject[t]
        /\ \A i \in DOMAIN c.by_subject[t] :
             d.by_subject[t][i] = IF c.by_subject[t][i].source = source
                                  THEN [c.by_subject[t][i] EXCEPT !.retired = TRUE]
                                  ELSE c.by_subject[t][i]
  BY <1>2
<1>4. /\ d.next = c.next /\ d.retained = c.retained /\ d.evicted = c.evicted
      /\ d.insertion_order = c.insertion_order
  BY <1>1
<1>5. ASSUME NEW t \in Subjects PROVE IsVector(d.by_subject[t])
  <2>1. IsVector(c.by_subject[t])
    BY DEF StoreOK
  <2>2. ASSUME NEW i \in DOMAIN c.by_subject[t] PROVE d.by_subject[t][i] \in Record
    <3>1. c.by_subject[t][i] \in Record
      BY <2>1 DEF IsVector
    <3>2. [c.by_subject[t][i] EXCEPT !.retired = TRUE] \in Record
      BY <3>1 DEF Record
    <3>3. QED
      BY <1>3, <3>1, <3>2
  <2>3. d.by_subject[t] = [i \in DOMAIN c.by_subject[t] |-> d.by_subject[t][i]]
    BY <1>2
  <2>4. d.by_subject[t] \in [DOMAIN d.by_subject[t] -> Record]
    BY <1>3, <2>2, <2>3
  <2>5. QED
    BY <1>3, <2>1, <2>4 DEF IsVector
<1>6. d.by_subject = [t \in Subjects |-> d.by_subject[t]]
  BY <1>2
<1>7. StoreOK(d)
  BY <1>1, <1>4, <1>5, <1>6 DEF StoreOK
<1>8. Coherent(d)
  <2>1. \A i \in DOMAIN c.insertion_order : c.insertion_order[i] \in Subjects
    BY DEF StoreOK
  <2>2. QED
    BY <1>3, <1>4, <2>1 DEF Coherent
<1>9. Limited(d)
  BY <1>3, <1>4 DEF Limited
<1>10. AfterBoot(d, c, TRUE, source)
  BY <1>3, <1>4, <1>7, <1>8, <1>9 DEF AfterBoot
<1>11. QED
  BY <1>10 DEF d

\* d is c without the doomed records; survivors are moved.
Compacted(d, c, doomed) ==
  /\ StoreOK(d) /\ Coherent(d) /\ Limited(d)
  /\ d.next = c.next /\ d.evicted = c.evicted
  /\ Cardinality(doomed) \in Nat
  /\ c.retained = d.retained + Cardinality(doomed)
  /\ \A t \in Subjects : \A i \in DOMAIN d.by_subject[t] :
       /\ i \in DOMAIN c.by_subject[t]
       /\ \/ d.by_subject[t][i] = c.by_subject[t][i]
          \/ SelfMoveClears /\ d.by_subject[t][i].recovered = c.by_subject[t][i].recovered

LEMMA CompactOK ==
  ASSUME NEW c, StoreOK(c), Coherent(c), Limited(c),
         NEW doomed, doomed \subseteq Positions(c), NEW touched
  PROVE  Compacted(Compact(c, doomed, touched), c, doomed)
<1> DEFINE d == Compact(c, doomed, touched)
           gone == {p[2] : p \in doomed}
           f == [p \in doomed |-> p[2]]
<1>1. \A p \in doomed : /\ p[1] \in Subjects /\ p[2] \in DOMAIN c.by_subject[p[1]]
                        /\ p = <<p[1], p[2]>>
  BY DEF Positions
<1>2. \A p \in doomed : /\ p[2] \in DOMAIN c.insertion_order
                        /\ c.insertion_order[p[2]] = p[1]
  BY <1>1 DEF Coherent
<1>3. IsFiniteSet(DOMAIN c.insertion_order)
  BY DEF StoreOK
<1>4. IsFiniteSet(doomed) /\ Cardinality(doomed) = Cardinality(gone) /\ IsFiniteSet(gone)
  <2>1. \A p, q \in doomed : p[2] = q[2] => p = q
    BY <1>1, <1>2
  <2>2. f \in Injection(doomed, DOMAIN c.insertion_order)
    BY <1>2, <2>1 DEF Injection, IsInjective
  <2>3. IsFiniteSet(doomed)
    BY <1>3, <2>2, FS_Injection
  <2>4. f \in Bijection(doomed, gone)
    BY <2>1 DEF Bijection, Injection, Surjection, IsInjective
  <2>5. ExistsBijection(doomed, gone)
    BY <2>4 DEF ExistsBijection
  <2>6. QED
    BY <2>3, <2>5, FS_Bijection
<1>5. gone \subseteq DOMAIN c.insertion_order
  BY <1>2
<1>6. DOMAIN c.insertion_order \cap gone = gone
  BY <1>5
<1>7. /\ IsFiniteSet(DOMAIN c.insertion_order \ gone)
      /\ Cardinality(DOMAIN c.insertion_order \ gone)
           = Cardinality(DOMAIN c.insertion_order) - Cardinality(gone)
  BY <1>3, <1>6, FS_Difference
<1>8. /\ Cardinality(DOMAIN c.insertion_order \ gone) \in Nat
      /\ Cardinality(DOMAIN c.insertion_order) \in Nat
      /\ Cardinality(gone) \in Nat
  BY <1>3, <1>4, <1>7, FS_CardinalityType
<1>9. Drop(c.retained, Cardinality(doomed)) = Cardinality(DOMAIN c.insertion_order \ gone)
  BY <1>4, <1>7, <1>8 DEF Drop, Coherent
<1>10. /\ d.insertion_order = Without(c.insertion_order, gone)
       /\ d.retained = Cardinality(DOMAIN c.insertion_order \ gone)
       /\ d.next = c.next /\ d.evicted = c.evicted
  BY <1>9 DEF Compact
<1>11. d.by_subject = [t \in Subjects |->
          [i \in {j \in DOMAIN c.by_subject[t] : <<t, j>> \notin doomed} |->
             Moved(c.by_subject[t][i], t \in touched /\ MovedOntoItself(t, i, doomed))]]
  BY DEF Compact
<1>12. d = [by_subject |-> d.by_subject, insertion_order |-> d.insertion_order,
            retained |-> d.retained, next |-> d.next, evicted |-> d.evicted]
  BY DEF Compact
<1> HIDE DEF d, gone, f
<1>13. \A t \in Subjects :
          /\ DOMAIN d.by_subject[t] = {j \in DOMAIN c.by_subject[t] : <<t, j>> \notin doomed}
          /\ \A i \in DOMAIN d.by_subject[t] :
               d.by_subject[t][i] = Moved(c.by_subject[t][i],
                                          t \in touched /\ MovedOntoItself(t, i, doomed))
  BY <1>11
<1>14. \A t \in Subjects : \A i \in DOMAIN d.by_subject[t] : i \in DOMAIN c.by_subject[t]
  BY <1>13
<1>15. /\ DOMAIN d.insertion_order = DOMAIN c.insertion_order \ gone
       /\ \A i \in DOMAIN d.insertion_order : d.insertion_order[i] = c.insertion_order[i]
  BY <1>10 DEF Without
<1>16. ASSUME NEW t \in Subjects, NEW i \in DOMAIN c.by_subject[t]
       PROVE  (<<t, i>> \in doomed) <=> (i \in gone)
  <2>1. ASSUME i \in gone PROVE <<t, i>> \in doomed
    <3>1. PICK p \in doomed : p[2] = i
      BY <2>1 DEF gone
    <3>2. p[1] = t
      BY <1>2, <3>1 DEF Coherent
    <3>3. QED
      BY <1>1, <3>1, <3>2
  <2>2. ASSUME <<t, i>> \in doomed PROVE i \in gone
    BY <2>2 DEF gone
  <2>3. QED
    BY <2>1, <2>2
<1>17. ASSUME NEW t \in Subjects, NEW i \in DOMAIN d.by_subject[t]
       PROVE  /\ i \in DOMAIN c.by_subject[t]
              /\ d.by_subject[t][i] \in Record
              /\ \/ d.by_subject[t][i] = c.by_subject[t][i]
                 \/ SelfMoveClears /\ d.by_subject[t][i].recovered = c.by_subject[t][i].recovered
  <2>1. c.by_subject[t][i] \in Record
    BY <1>14 DEF StoreOK, IsVector
  <2>2. \/ d.by_subject[t][i] = c.by_subject[t][i]
        \/ SelfMoveClears /\ d.by_subject[t][i] = [c.by_subject[t][i] EXCEPT !.source = NoName]
    BY <1>13 DEF Moved
  <2>3. QED
    BY <1>14, <2>1, <2>2 DEF Record
<1>18. ASSUME NEW t \in Subjects
       PROVE  /\ IsFiniteSet(DOMAIN d.by_subject[t])
              /\ Cardinality(DOMAIN d.by_subject[t]) <= Cardinality(DOMAIN c.by_subject[t])
  <2>1. IsFiniteSet(DOMAIN c.by_subject[t])
    BY DEF StoreOK, IsVector
  <2>2. DOMAIN d.by_subject[t] \in SUBSET DOMAIN c.by_subject[t]
    BY <1>14
  <2>3. QED
    BY <2>1, <2>2, FS_Subset
<1>19. StoreOK(d)
  <2>1. ASSUME NEW t \in Subjects PROVE IsVector(d.by_subject[t])
    <3>1. DOMAIN d.by_subject[t] \subseteq Nat \ {0}
      BY <1>14 DEF StoreOK, IsVector
    <3>2. d.by_subject[t] = [i \in DOMAIN d.by_subject[t] |-> d.by_subject[t][i]]
      BY <1>11
    <3>3. d.by_subject[t] \in [DOMAIN d.by_subject[t] -> Record]
      BY <1>17, <3>2
    <3>4. QED
      BY <1>18, <3>1, <3>3 DEF IsVector
  <2>2. d.by_subject = [t \in Subjects |-> d.by_subject[t]]
    BY <1>11
  <2>3. d.insertion_order \in [DOMAIN d.insertion_order -> Subjects]
    BY <1>10 DEF Without, StoreOK
  <2>4. IsFiniteSet(DOMAIN d.insertion_order) /\ DOMAIN d.insertion_order \subseteq Nat \ {0}
    BY <1>7, <1>15 DEF StoreOK
  <2>5. d.retained \in Nat /\ d.next \in Nat \ {0} /\ d.evicted \in Nat
    BY <1>8, <1>10 DEF StoreOK
  <2>6. QED
    BY <1>12, <2>1, <2>2, <2>3, <2>4, <2>5 DEF StoreOK
<1>20. Coherent(d)
  <2>1. ASSUME NEW t \in Subjects, NEW i \in DOMAIN d.by_subject[t]
        PROVE  i \in DOMAIN d.insertion_order /\ d.insertion_order[i] = t
    <3>1. i \in DOMAIN c.by_subject[t] /\ i \notin gone
      BY <1>13, <1>16
    <3>2. i \in DOMAIN c.insertion_order /\ c.insertion_order[i] = t
      BY <3>1 DEF Coherent
    <3>3. QED
      BY <1>15, <3>1, <3>2
  <2>2. ASSUME NEW i \in DOMAIN d.insertion_order
        PROVE  i \in DOMAIN d.by_subject[d.insertion_order[i]] /\ i < d.next
    <3>1. /\ i \in DOMAIN c.insertion_order /\ i \notin gone
          /\ d.insertion_order[i] = c.insertion_order[i]
      BY <1>15
    <3>2. c.insertion_order[i] \in Subjects
      BY <3>1 DEF StoreOK
    <3>3. i \in DOMAIN c.by_subject[c.insertion_order[i]] /\ i < c.next
      BY <3>1 DEF Coherent
    <3>4. i \in DOMAIN d.by_subject[c.insertion_order[i]]
      BY <1>13, <1>16, <3>1, <3>2, <3>3
    <3>5. QED
      BY <1>10, <3>1, <3>3, <3>4
  <2>3. d.retained = Cardinality(DOMAIN d.insertion_order)
    BY <1>10, <1>15
  <2>4. QED
    BY <2>1, <2>2, <2>3 DEF Coherent
<1>21. c.retained = d.retained + Cardinality(doomed)
  BY <1>4, <1>7, <1>8, <1>10 DEF Coherent
<1>22. Limited(d)
  <2>1. d.retained <= max_retained_evidence
    BY <1>4, <1>8, <1>10, <1>21, StoreAssumption DEF Limited, StoreOK
  <2>2. ASSUME NEW t \in Subjects
        PROVE  Cardinality(DOMAIN d.by_subject[t]) <= max_evidence_per_subject
    BY <1>18, <1>19, BucketCardinality, StoreAssumption DEF Limited
  <2>3. QED
    BY <2>1, <2>2 DEF Limited
<1>23. Compacted(d, c, doomed)
  BY <1>4, <1>8, <1>10, <1>17, <1>19, <1>20, <1>21, <1>22 DEF Compacted
<1>24. QED
  BY <1>23 DEF d

-----------------------------------------------------------------------------
(***************************************************************************)
(* Retention: types, coherence, bounds and the ledger are one inductive    *)
(* invariant.                                                              *)
(***************************************************************************)
StoreInv == TypeOK /\ IndexCoherent /\ Bounded /\ NothingSilentlyDropped

LEMMA StoreInvParts ==
  ASSUME StoreInv
  PROVE  /\ StoreOK(store) /\ Coherent(store) /\ Limited(store)
         /\ store.next - 1 = store.retained + store.evicted + swept
         /\ store.next \in Nat /\ store.retained \in Nat /\ store.evicted \in Nat /\ swept \in Nat
BY DEF StoreInv, TypeOK, IndexCoherent, Bounded, Limited, NothingSilentlyDropped, StoreOK

LEMMA SourceStateType ==
  ASSUME TypeOK, NEW s
  PROVE  SourceState(s) \in SourceFenceState
BY DEF TypeOK, SourceState, NewSource, ZeroFence, SourceFenceState, FenceVector

LEMMA PutSource ==
  ASSUME TypeOK, Bounded, NEW s \in Sources, ~SourceLimitReached(s),
         NEW st \in SourceFenceState
  PROVE  LET m == Put(sources, s, st)
         IN  /\ DOMAIN m \subseteq Sources
             /\ m \in [DOMAIN m -> SourceFenceState]
             /\ Cardinality(DOMAIN m) <= max_sources
<1> DEFINE m == Put(sources, s, st)
<1>1. DOMAIN m = DOMAIN sources \cup {s} /\ m \in [DOMAIN m -> SourceFenceState]
  BY DEF Put, TypeOK
<1>2. IsFiniteSet(DOMAIN sources)
  BY StoreAssumption, FS_Subset DEF TypeOK
<1>3. /\ Cardinality(DOMAIN sources) \in Nat /\ max_sources \in Nat
      /\ Cardinality(DOMAIN sources) <= max_sources
  BY <1>2, FS_CardinalityType, StoreAssumption DEF Bounded
<1>4. Cardinality(DOMAIN sources \cup {s})
        = IF s \in DOMAIN sources THEN Cardinality(DOMAIN sources)
                                  ELSE Cardinality(DOMAIN sources) + 1
  BY <1>2, FS_AddElement
<1>5. Cardinality(DOMAIN m) <= max_sources
  <2>1. CASE s \in DOMAIN sources
    BY <1>1, <1>3, <1>4, <2>1
  <2>2. CASE s \notin DOMAIN sources
    <3>1. Cardinality(DOMAIN sources) < max_sources
      BY <1>3, <2>2 DEF SourceLimitReached
    <3>2. QED
      BY <1>1, <1>3, <1>4, <2>2, <3>1
  <2>3. QED
    BY <2>1, <2>2
<1>6. QED
  BY <1>1, <1>5 DEF TypeOK

\* The new state satisfies the invariant when its four parts do.
LEMMA StoreInvPrime ==
  ASSUME StoreOK(store'), Coherent(store'), Limited(store'),
         store'.next - 1 = store'.retained + store'.evicted + swept',
         swept' \in Nat,
         DOMAIN sources' \subseteq Sources,
         sources' \in [DOMAIN sources' -> SourceFenceState],
         Cardinality(DOMAIN sources') <= max_sources,
         stats' \in [accepted : Nat, rejected_invalid : Nat, rejected_fence : Nat,
                    rejected_unknown_subject : Nat, retention_sweeps : Nat]
  PROVE  StoreInv'
BY DEF StoreInv, TypeOK, IndexCoherent, Bounded, Limited, NothingSilentlyDropped

LEMMA StoredType ==
  ASSUME NEW r \in Inputs \cup Recoverable, NEW recovered \in BOOLEAN, NEW retired \in BOOLEAN
  PROVE  /\ Stored(r, recovered, retired) \in Record
         /\ r.subject \in Subjects /\ r.source \in Sources /\ r.fence \in FenceVector
         /\ Stored(r, recovered, retired).source = r.source
         /\ Stored(r, recovered, retired).fence = r.fence
         /\ Stored(r, recovered, retired).recovered = recovered
         /\ Stored(r, recovered, retired).retired = retired
BY StoreAssumption DEF Stored, Record, Submission, SnapshotRecord

\* The store an accepted record is admitted to.
Retiring(record) ==
  IF liveness_reset(Decision(record)) THEN RetireSource(store, record.source) ELSE store

LEMMA RetiringOK ==
  ASSUME StoreInv, NEW record
  PROVE  AfterBoot(Retiring(record), store, liveness_reset(Decision(record)), record.source)
<1>1. StoreOK(store) /\ Coherent(store) /\ Limited(store)
  BY StoreInvParts
<1>2. CASE liveness_reset(Decision(record))
  <2>1. Retiring(record) = RetireSource(store, record.source)
    BY <1>2 DEF Retiring
  <2>2. AfterBoot(RetireSource(store, record.source), store, TRUE, record.source)
    BY <1>1, RetireOK
  <2>3. liveness_reset(Decision(record)) = TRUE
    BY <1>2 DEF liveness_reset
  <2>4. QED
    BY <2>1, <2>2, <2>3
<1>3. CASE ~liveness_reset(Decision(record))
  <2>1. Retiring(record) = store
    BY <1>3 DEF Retiring
  <2>2. AfterBoot(store, store, FALSE, record.source)
    BY <1>1, Zenon DEF AfterBoot
  <2>3. liveness_reset(Decision(record)) = FALSE
    BY <1>3 DEF liveness_reset
  <2>4. QED
    BY <2>1, <2>2, <2>3
<1>4. QED
  BY <1>2, <1>3

\* Every kind of sweep removes existing records only.
LEMMA SweepIsCompaction ==
  ASSUME NEW horizon, NEW max_records, sweep(horizon, max_records)
  PROVE  \E doomed \in SUBSET Positions(store), touched \in SUBSET Subjects : Swept(doomed, touched)
BY DEF sweep, SweepToEnd, SweepCancelled, Doomed, Passed, Expired

\* An accepted record leaves a store that admitted it after the retirement.
LEMMA AcceptedStore ==
  ASSUME StoreInv, NEW record \in Inputs, IngestAccepted(record)
  PROVE  /\ AfterBoot(Retiring(record), store, liveness_reset(Decision(record)), record.source)
         /\ Admitted(store', Retiring(record), record.subject, Stored(record, FALSE, FALSE))
<1>1. AfterBoot(Retiring(record), store, liveness_reset(Decision(record)), record.source)
  BY RetiringOK
<1>2. StoreOK(Retiring(record)) /\ Coherent(Retiring(record)) /\ Limited(Retiring(record))
  BY <1>1 DEF AfterBoot
<1>3. record.subject \in Subjects /\ Stored(record, FALSE, FALSE) \in Record
  BY StoredType
<1>4. store' = admit_locked(Retiring(record), record.subject, Stored(record, FALSE, FALSE))
  BY DEF IngestAccepted, Retiring
<1>5. Admitted(admit_locked(Retiring(record), record.subject, Stored(record, FALSE, FALSE)),
               Retiring(record), record.subject, Stored(record, FALSE, FALSE))
  BY <1>2, <1>3, AdmitOK
<1>6. QED
  BY <1>1, <1>4, <1>5

LEMMA RecoveredStore ==
  ASSUME StoreInv, NEW record \in Recoverable, RecoverAccepted(record)
  PROVE  Admitted(store', store, record.subject, Stored(record, TRUE, record.retired))
<1>1. StoreOK(store) /\ Coherent(store) /\ Limited(store)
  BY StoreInvParts
<1>2. record.retired \in BOOLEAN
  BY StoreAssumption DEF SnapshotRecord
<1>3. record.subject \in Subjects /\ Stored(record, TRUE, record.retired) \in Record
  BY <1>2, StoredType
<1>4. QED
  BY <1>1, <1>3, AdmitOK DEF RecoverAccepted

LEMMA SweptStore ==
  ASSUME StoreInv, NEW doomed \in SUBSET Positions(store), NEW touched, Swept(doomed, touched)
  PROVE  Compacted(store', store, doomed)
<1>1. StoreOK(store) /\ Coherent(store) /\ Limited(store)
  BY StoreInvParts
<1>2. QED
  BY <1>1, CompactOK DEF Swept

\* A step that leaves the store and the ledger alone.
LEMMA StoreInvSameStore ==
  ASSUME StoreInv, UNCHANGED <<store, swept>>,
         DOMAIN sources' \subseteq Sources,
         sources' \in [DOMAIN sources' -> SourceFenceState],
         Cardinality(DOMAIN sources') <= max_sources,
         stats' \in [accepted : Nat, rejected_invalid : Nat, rejected_fence : Nat,
                    rejected_unknown_subject : Nat, retention_sweeps : Nat]
  PROVE  StoreInv'
<1>1. /\ StoreOK(store') /\ Coherent(store') /\ Limited(store')
      /\ store'.next - 1 = store'.retained + store'.evicted + swept'
      /\ swept' \in Nat
  BY StoreInvParts
<1>2. QED
  BY <1>1, StoreInvPrime

LEMMA StoreInvInit == Init => StoreInv
<1> SUFFICES ASSUME Init PROVE StoreInv
  OBVIOUS
<1>1. Cardinality({}) = 0 /\ IsFiniteSet({})
  BY FS_EmptySet
<1>2. /\ store = [by_subject |-> store.by_subject, insertion_order |-> store.insertion_order,
                  retained |-> store.retained, next |-> store.next, evicted |-> store.evicted]
      /\ store.by_subject = [s \in Subjects |-> store.by_subject[s]]
      /\ \A s \in Subjects : store.by_subject[s] = [i \in {} |-> NoName]
      /\ store.insertion_order = [i \in {} |-> NoName]
      /\ store.retained = 0 /\ store.next = 1 /\ store.evicted = 0 /\ swept = 0
      /\ DOMAIN sources = {}
  BY DEF Init
<1>3. /\ DOMAIN store.insertion_order = {}
      /\ \A s \in Subjects : DOMAIN store.by_subject[s] = {}
  BY <1>2
<1>4. \A s \in Subjects : IsVector(store.by_subject[s])
  BY <1>1, <1>2, <1>3 DEF IsVector
<1>5. StoreOK(store)
  BY <1>1, <1>2, <1>3, <1>4 DEF StoreOK
<1>6. TypeOK
  BY <1>2, <1>5 DEF Init, TypeOK
<1>7. Coherent(store)
  BY <1>1, <1>2, <1>3 DEF Coherent
<1>8. Bounded
  BY <1>1, <1>2, <1>3, StoreAssumption DEF Bounded
<1>9. NothingSilentlyDropped
  BY <1>2 DEF NothingSilentlyDropped
<1>10. QED
  BY <1>6, <1>7, <1>8, <1>9 DEF StoreInv, IndexCoherent

LEMMA StoreInvNext == StoreInv /\ [Next]_vars => StoreInv'
<1> SUFFICES ASSUME StoreInv, [Next]_vars PROVE StoreInv'
  OBVIOUS
<1>1. /\ TypeOK /\ Bounded
      /\ store.next - 1 = store.retained + store.evicted + swept
      /\ store.next \in Nat /\ store.retained \in Nat /\ store.evicted \in Nat /\ swept \in Nat
  BY StoreInvParts DEF StoreInv
<1>2. /\ DOMAIN sources \subseteq Sources
      /\ sources \in [DOMAIN sources -> SourceFenceState]
      /\ Cardinality(DOMAIN sources) <= max_sources
  BY <1>1 DEF TypeOK, Bounded
<1>3. stats \in [accepted : Nat, rejected_invalid : Nat, rejected_fence : Nat,
                 rejected_unknown_subject : Nat, retention_sweeps : Nat]
  BY <1>1 DEF TypeOK
<1>4. ASSUME NEW record \in Inputs, IngestInvalid(record) PROVE StoreInv'
  BY <1>2, <1>3, <1>4, StoreInvSameStore DEF IngestInvalid
<1>5. ASSUME NEW record \in Inputs, IngestUnknownSubject(record) PROVE StoreInv'
  BY <1>2, <1>3, <1>5, StoreInvSameStore DEF IngestUnknownSubject
<1>6. ASSUME NEW record \in Inputs, IngestFenced(record) PROVE StoreInv'
  <2> DEFINE st == [SourceState(record.source) EXCEPT !.rejected = @ + 1]
  <2>1. st \in SourceFenceState
    BY <1>1, SourceStateType DEF SourceFenceState
  <2>2. record.source \in Sources
    BY StoredType
  <2>3. sources' = Put(sources, record.source, st) /\ ~SourceLimitReached(record.source)
    BY <1>6 DEF IngestFenced
  <2> HIDE DEF st
  <2>4. /\ DOMAIN sources' \subseteq Sources
        /\ sources' \in [DOMAIN sources' -> SourceFenceState]
        /\ Cardinality(DOMAIN sources') <= max_sources
    BY <1>1, <2>1, <2>2, <2>3, PutSource
  <2>5. QED
    BY <1>3, <1>6, <2>4, StoreInvSameStore DEF IngestFenced
<1>7. ASSUME NEW record \in Inputs, IngestAccepted(record) PROVE StoreInv'
  <2> DEFINE st == Heard(SourceState(record.source), record.fence)
             c == Retiring(record)
             r == Stored(record, FALSE, FALSE)
  <2>1. st \in SourceFenceState
    BY <1>1, SourceStateType, StoredType DEF SourceFenceState, Heard
  <2>2. record.source \in Sources
    BY StoredType
  <2>3. sources' = Put(sources, record.source, st) /\ ~SourceLimitReached(record.source)
    BY <1>7 DEF IngestAccepted
  <2>4. /\ AfterBoot(c, store, liveness_reset(Decision(record)), record.source)
        /\ Admitted(store', c, record.subject, r)
    BY <1>7, AcceptedStore
  <2> HIDE DEF st, c, r
  <2>5. /\ DOMAIN sources' \subseteq Sources
        /\ sources' \in [DOMAIN sources' -> SourceFenceState]
        /\ Cardinality(DOMAIN sources') <= max_sources
    BY <1>1, <2>1, <2>2, <2>3, PutSource
  <2>6. StoreOK(store') /\ Coherent(store') /\ Limited(store')
    BY <2>4 DEF Admitted
  <2>7. store'.next - 1 = store'.retained + store'.evicted + swept'
    <3>1. /\ store'.next = store.next + 1
          /\ store'.retained + store'.evicted = store.retained + store.evicted + 1
      BY <2>4 DEF Admitted, AfterBoot
    <3>2. swept' = swept
      BY <1>7 DEF IngestAccepted
    <3>3. store'.retained \in Nat /\ store'.evicted \in Nat /\ store'.next \in Nat
      BY <2>6 DEF StoreOK
    <3>4. QED
      BY <1>1, <3>1, <3>2, <3>3
  <2>8. stats' \in [accepted : Nat, rejected_invalid : Nat, rejected_fence : Nat,
                    rejected_unknown_subject : Nat, retention_sweeps : Nat]
    BY <1>3, <1>7 DEF IngestAccepted
  <2>9. swept' \in Nat
    BY <1>1, <1>7 DEF IngestAccepted
  <2>10. QED
    BY <2>5, <2>6, <2>7, <2>8, <2>9, StoreInvPrime
<1>8. ASSUME NEW record \in Recoverable, RecoverInvalid(record) PROVE StoreInv'
  BY <1>2, <1>3, <1>8, StoreInvSameStore DEF RecoverInvalid
<1>9. ASSUME NEW record \in Recoverable, RecoverAccepted(record) PROVE StoreInv'
  <2>1. SourceState(record.source) \in SourceFenceState
    BY <1>1, SourceStateType
  <2>2. record.source \in Sources
    BY StoredType
  <2>3. /\ sources' = Put(sources, record.source, SourceState(record.source))
        /\ ~SourceLimitReached(record.source)
        /\ stats' = stats /\ swept' = swept
    BY <1>9 DEF RecoverAccepted
  <2>4. /\ DOMAIN sources' \subseteq Sources
        /\ sources' \in [DOMAIN sources' -> SourceFenceState]
        /\ Cardinality(DOMAIN sources') <= max_sources
    BY <1>1, <2>1, <2>2, <2>3, PutSource
  <2>5. Admitted(store', store, record.subject, Stored(record, TRUE, record.retired))
    BY <1>9, RecoveredStore
  <2>6. /\ StoreOK(store') /\ Coherent(store') /\ Limited(store')
        /\ store'.next = store.next + 1
        /\ store'.retained + store'.evicted = store.retained + store.evicted + 1
    BY <2>5 DEF Admitted
  <2>7. store'.retained \in Nat /\ store'.evicted \in Nat /\ store'.next \in Nat
    BY <2>6 DEF StoreOK
  <2>8. store'.next - 1 = store'.retained + store'.evicted + swept'
    BY <1>1, <2>3, <2>6, <2>7
  <2>9. QED
    BY <1>1, <1>3, <2>3, <2>4, <2>6, <2>8, StoreInvPrime
<1>10. ASSUME NEW horizon, NEW max_records, sweep(horizon, max_records) PROVE StoreInv'
  <2>1. PICK doomed \in SUBSET Positions(store), touched \in SUBSET Subjects :
          Swept(doomed, touched)
    BY <1>10, SweepIsCompaction
  <2>2. Compacted(store', store, doomed)
    BY <2>1, SweptStore
  <2>3. /\ StoreOK(store') /\ Coherent(store') /\ Limited(store')
        /\ store'.next = store.next /\ store'.evicted = store.evicted
        /\ Cardinality(doomed) \in Nat
        /\ store.retained = store'.retained + Cardinality(doomed)
    BY <2>2 DEF Compacted
  <2>4. swept' = swept + Cardinality(doomed) /\ sources' = sources
    BY <2>1 DEF Swept
  <2>5. store'.retained \in Nat
    BY <2>3 DEF StoreOK
  <2>6. store'.next - 1 = store'.retained + store'.evicted + swept' /\ swept' \in Nat
    BY <1>1, <2>3, <2>4, <2>5
  <2>7. stats' \in [accepted : Nat, rejected_invalid : Nat, rejected_fence : Nat,
                    rejected_unknown_subject : Nat, retention_sweeps : Nat]
    BY <1>3, <2>1 DEF Swept
  <2>8. QED
    BY <1>2, <2>3, <2>4, <2>6, <2>7, StoreInvPrime
<1>11. ASSUME reset_liveness PROVE StoreInv'
  <2>1. DOMAIN sources' = DOMAIN sources
    BY <1>11 DEF reset_liveness
  <2>2. sources' \in [DOMAIN sources -> SourceFenceState]
    BY <1>2, <1>11 DEF reset_liveness, SourceFenceState
  <2>3. QED
    BY <1>2, <1>3, <1>11, <2>1, <2>2, StoreInvSameStore DEF reset_liveness
<1>12. ASSUME UNCHANGED vars PROVE StoreInv'
  BY <1>2, <1>3, <1>12, StoreInvSameStore DEF vars
<1>13. QED
  BY <1>4, <1>5, <1>6, <1>7, <1>8, <1>9, <1>10, <1>11, <1>12
     DEF Next, ingest, ingest_recovered

LEMMA StoreInvariant == Spec => []StoreInv
BY StoreInvInit, StoreInvNext, PTL DEF Spec

\* Whatever is delivered, recovered or swept, the state of the store keeps its
\* types: in particular no counter of store.cpp goes below zero.
THEOREM TypeCorrect == Spec => []TypeOK
BY StoreInvariant, PTL DEF StoreInv

\* The eviction index of store.cpp names exactly the retained records, so the
\* record that admit_locked evicts is the one the index names.
THEOREM IndexStaysCoherent == Spec => []IndexCoherent
BY StoreInvariant, PTL DEF StoreInv

\* Records, records of a subject and sources never exceed their Limits.
THEOREM GrowthIsBounded == Spec => []Bounded
BY StoreInvariant, PTL DEF StoreInv

\* Every admitted record is retained, counted as evicted or was swept.
THEOREM LedgerBalances == Spec => []NothingSilentlyDropped
BY StoreInvariant, PTL DEF StoreInv

-----------------------------------------------------------------------------
(***************************************************************************)
(* Fencing: what the store says about a source only moves forward, and     *)
(* what it calls live is of the current incarnation.                       *)
(*                                                                         *)
(* FenceNeverRetreats and EvictsOldestFirst hold of every build.  The      *)
(* other results need a library whose self-move is harmless: sweep calls   *)
(* one on nearly every survivor (the run evidence_self_move shows what     *)
(* becomes of the records otherwise).                                      *)
(***************************************************************************)

(***************************************************************************)
(* The fencing decision.                                                   *)
(***************************************************************************)
LEMMA SupersedesTransitive ==
  ASSUME NEW a \in FenceVector, NEW b \in FenceVector, NEW c \in FenceVector,
         Supersedes(b, a), Supersedes(c, b)
  PROVE  Supersedes(c, a)
BY DEF Supersedes, FenceVector

LEMMA SequenceAdvances ==
  ASSUME NEW b \in FenceVector, NEW a \in FenceVector,
         fence_accepted(SequenceDecision(b, a))
  PROVE  b.sequence > a.sequence
BY DEF SequenceDecision, fence_accepted, FenceVector

\* Inside one boot and incarnation an accepted vector supersedes the last one
\* and asks for no retirement.
LEMMA GenerationAdvances ==
  ASSUME NEW b \in FenceVector, NEW a \in FenceVector,
         b.boot = a.boot, b.incarnation = a.incarnation,
         fence_accepted(GenerationDecision(b, a))
  PROVE  Supersedes(b, a) /\ ~liveness_reset(GenerationDecision(b, a))
<1> DEFINE order == compare_generation(b, a)
<1>1. /\ b.epoch \in Nat /\ b.generation \in Nat /\ b.revision \in Nat /\ b.sequence \in Nat
      /\ a.epoch \in Nat /\ a.generation \in Nat /\ a.revision \in Nat /\ a.sequence \in Nat
  BY DEF FenceVector
<1>2. order # "older"
  BY DEF GenerationDecision, StaleReason, fence_accepted
<1>3. order # "incomparable"
  BY DEF GenerationDecision, StaleReason, fence_accepted
<1>4. \/ b.epoch > a.epoch /\ b.generation >= a.generation
      \/ b.epoch = a.epoch /\ b.generation > a.generation
      \/ b.epoch = a.epoch /\ b.generation = a.generation /\ b.revision >= a.revision
  BY <1>1, <1>2, <1>3 DEF compare_generation
<1>5. CASE order = "newer" /\ (b.epoch > a.epoch \/ b.generation > a.generation)
  <2>1. GenerationDecision(b, a) \in {"accepted_epoch_advance", "accepted_generation_advance"}
    BY <1>5 DEF GenerationDecision
  <2>2. QED
    BY <1>1, <1>4, <1>5, <2>1 DEF Supersedes, liveness_reset
<1>6. CASE ~(order = "newer" /\ (b.epoch > a.epoch \/ b.generation > a.generation))
  <2>1. GenerationDecision(b, a) = SequenceDecision(b, a)
    BY <1>2, <1>3, <1>6 DEF GenerationDecision
  <2>2. b.sequence > a.sequence
    BY <2>1, SequenceAdvances
  <2>3. b.epoch = a.epoch /\ b.generation = a.generation /\ b.revision >= a.revision
    BY <1>1, <1>2, <1>3, <1>4, <1>6 DEF compare_generation
  <2>4. QED
    BY <2>1, <2>2, <2>3 DEF Supersedes, liveness_reset, SequenceDecision
<1>7. QED
  BY <1>5, <1>6

LEMMA BootAdvances ==
  ASSUME NEW b \in FenceVector, NEW a \in FenceVector,
         fence_accepted(BootDecision(b, a))
  PROVE  /\ Supersedes(b, a)
         /\ \/ liveness_reset(BootDecision(b, a))
            \/ b.boot = a.boot /\ b.incarnation = a.incarnation
<1>1. /\ b.boot \in Nat /\ b.incarnation \in Nat
      /\ a.boot \in Nat /\ a.incarnation \in Nat
  BY DEF FenceVector
<1>2. ~(b.boot < a.boot)
  BY DEF BootDecision, fence_accepted
<1>3. CASE b.boot > a.boot
  BY <1>1, <1>2, <1>3 DEF BootDecision, Supersedes, liveness_reset
<1>4. CASE b.boot = a.boot
  <2>1. b.incarnation = a.incarnation
    BY <1>1, <1>2, <1>4 DEF BootDecision, fence_accepted
  <2>2. BootDecision(b, a) = GenerationDecision(b, a)
    BY <1>1, <1>4, <2>1 DEF BootDecision
  <2>3. QED
    BY <1>4, <2>1, <2>2, GenerationAdvances
<1>5. QED
  BY <1>1, <1>2, <1>3, <1>4

\* What an accepted record says about the source it comes from.
LEMMA AcceptedAdvances ==
  ASSUME TypeOK, NEW record \in Inputs, fence_accepted(Decision(record)),
         record.source \in DOMAIN sources, sources[record.source].has_state
  PROVE  /\ Supersedes(record.fence, sources[record.source].last)
         /\ \/ liveness_reset(Decision(record))
            \/ /\ record.fence.boot = sources[record.source].last.boot
               /\ record.fence.incarnation = sources[record.source].last.incarnation
<1> DEFINE last == sources[record.source].last
<1>1. SourceState(record.source) = sources[record.source]
  BY DEF SourceState
<1>2. Decision(record) = BootDecision(record.fence, last)
  BY <1>1 DEF Decision, evaluate_fence, fence_accepted
<1>3. record.fence \in FenceVector
  BY StoredType
<1>4. last \in FenceVector
  BY DEF TypeOK, SourceFenceState
<1>5. QED
  BY <1>2, <1>3, <1>4, BootAdvances

-----------------------------------------------------------------------------
(***************************************************************************)
(* Steps of the store.                                                     *)
(***************************************************************************)
LEMMA FenceStep == TypeOK /\ [Next]_vars => FenceAdvances \/ UNCHANGED vars
<1> SUFFICES ASSUME TypeOK, Next PROVE FenceAdvances
  OBVIOUS
<1>1. ASSUME UNCHANGED sources PROVE FenceAdvances
  BY <1>1 DEF FenceAdvances
<1>2. ASSUME NEW record \in Inputs, IngestFenced(record) PROVE FenceAdvances
  <2>1. SourceState(record.source) \in SourceFenceState
    BY SourceStateType
  <2>2. SUFFICES ASSUME NEW s \in DOMAIN sources
                 PROVE  /\ s \in DOMAIN sources'
                        /\ sources'[s].has_state = sources[s].has_state
                        /\ sources'[s].last = sources[s].last
    BY DEF FenceAdvances
  <2>3. CASE s = record.source
    BY <1>2, <2>1, <2>3 DEF IngestFenced, Put, SourceState, SourceFenceState
  <2>4. CASE s # record.source
    BY <1>2, <2>4 DEF IngestFenced, Put
  <2>5. QED
    BY <2>3, <2>4
<1>3. ASSUME NEW record \in Inputs, IngestAccepted(record) PROVE FenceAdvances
  <2>1. SUFFICES ASSUME NEW s \in DOMAIN sources, sources[s].has_state
                 PROVE  /\ sources'[s].has_state
                        /\ \/ sources'[s].last = sources[s].last
                           \/ Supersedes(sources'[s].last, sources[s].last)
    BY <1>3 DEF FenceAdvances, IngestAccepted, Put
  <2>2. CASE s = record.source
    <3>1. Supersedes(record.fence, sources[s].last)
      BY <1>3, <2>1, <2>2, AcceptedAdvances DEF IngestAccepted
    <3>2. sources'[s].last = record.fence /\ sources'[s].has_state
      BY <1>3, <2>2 DEF IngestAccepted, Put, Heard
    <3>3. QED
      BY <3>1, <3>2
  <2>3. CASE s # record.source
    BY <1>3, <2>1, <2>3 DEF IngestAccepted, Put
  <2>4. QED
    BY <2>2, <2>3
<1>4. ASSUME NEW record \in Recoverable, RecoverAccepted(record) PROVE FenceAdvances
  BY <1>4 DEF FenceAdvances, RecoverAccepted, Put, SourceState
<1>5. ASSUME reset_liveness PROVE FenceAdvances
  <2>1. SUFFICES ASSUME NEW s \in DOMAIN sources
                 PROVE  /\ s \in DOMAIN sources'
                        /\ sources'[s].has_state = sources[s].has_state
                        /\ sources'[s].last = sources[s].last
    BY DEF FenceAdvances
  <2>2. sources[s] \in SourceFenceState
    BY DEF TypeOK
  <2>3. QED
    BY <1>5, <2>2 DEF reset_liveness, SourceFenceState
<1>6. QED
  BY <1>1, <1>2, <1>3, <1>4, <1>5
     DEF Next, ingest, ingest_recovered, IngestInvalid, IngestUnknownSubject,
         RecoverInvalid, sweep, SweepToEnd, SweepCancelled, Swept

\* Once the store has accepted a record of a source, the fence it holds the
\* source to is never lost and never goes back, whatever is delivered.
THEOREM FenceMonotone == Spec => FenceNeverRetreats
BY TypeCorrect, FenceStep, PTL DEF Spec, FenceNeverRetreats

\* A record found in a vector has an index the store assigned before.
LEMMA IndexBelowNext ==
  ASSUME StoreInv, NEW t \in Subjects, NEW i \in DOMAIN store.by_subject[t]
  PROVE  i < store.next /\ i \in Nat /\ store.next \in Nat
<1>1. i \in DOMAIN store.insertion_order /\ StoreOK(store)
  BY StoreInvParts DEF Coherent
<1>2. i < store.next
  BY <1>1, StoreInvParts DEF Coherent
<1>3. QED
  BY <1>1, <1>2 DEF StoreOK

LEMMA OldestLeaveStep == StoreInv /\ [Next]_vars => OldestLeave \/ UNCHANGED vars
<1> SUFFICES ASSUME StoreInv, Next PROVE OldestLeave
  OBVIOUS
<1>1. ASSUME NEW record \in Inputs, IngestAccepted(record) PROVE OldestLeave
  <2> DEFINE c == Retiring(record)
             r == Stored(record, FALSE, FALSE)
  <2>1. /\ AfterBoot(c, store, liveness_reset(Decision(record)), record.source)
        /\ Admitted(store', c, record.subject, r)
    BY <1>1, AcceptedStore
  <2> HIDE DEF c, r
  <2>2. \A t \in Subjects : DOMAIN c.by_subject[t] = DOMAIN store.by_subject[t]
    BY <2>1 DEF AfterBoot
  <2>3. DropsOldest(store', c)
    BY <2>1 DEF Admitted
  <2>4. QED
    BY <2>2, <2>3 DEF DropsOldest, OldestLeave
<1>2. ASSUME NEW record \in Recoverable, RecoverAccepted(record) PROVE OldestLeave
  BY <1>2, RecoveredStore DEF Admitted, DropsOldest, OldestLeave
<1>3. ASSUME NEW horizon, NEW max_records, sweep(horizon, max_records) PROVE OldestLeave
  BY <1>3, SweepIsCompaction, SweptStore DEF Compacted, OldestLeave
<1>4. ASSUME UNCHANGED store PROVE OldestLeave
  BY <1>4 DEF OldestLeave
<1>5. QED
  BY <1>1, <1>2, <1>3, <1>4
     DEF Next, ingest, ingest_recovered, IngestInvalid, IngestUnknownSubject,
         IngestFenced, RecoverInvalid, reset_liveness

\* Whatever the limits, what admit_locked drops from a vector is older than
\* everything it leaves there.
THEOREM OldestEvictedFirst == Spec => EvictsOldestFirst
BY StoreInvariant, OldestLeaveStep, PTL DEF Spec, EvictsOldestFirst

\* Every record found after an accepted ingest was there before, or is the new one.
LEMMA AcceptedRecords ==
  ASSUME StoreInv, NEW record \in Inputs, IngestAccepted(record),
         NEW t \in Subjects, NEW i \in DOMAIN store'.by_subject[t]
  PROVE  \/ /\ i \in DOMAIN store.by_subject[t] /\ i < store.next
            /\ store'.by_subject[t][i] =
                 IF /\ liveness_reset(Decision(record))
                    /\ store.by_subject[t][i].source = record.source
                 THEN [store.by_subject[t][i] EXCEPT !.retired = TRUE]
                 ELSE store.by_subject[t][i]
         \/ /\ i = store.next
            /\ store'.by_subject[t][i] = Stored(record, FALSE, FALSE)
<1> DEFINE c == Retiring(record)
           r == Stored(record, FALSE, FALSE)
<1>1. /\ AfterBoot(c, store, liveness_reset(Decision(record)), record.source)
      /\ Admitted(store', c, record.subject, r)
  BY AcceptedStore
<1> HIDE DEF c
<1>2. \/ /\ i \in DOMAIN c.by_subject[t] /\ i < c.next
         /\ store'.by_subject[t][i] = c.by_subject[t][i]
      \/ i = c.next /\ store'.by_subject[t][i] = r
  BY <1>1 DEF Admitted
<1>3. c.next = store.next
  BY <1>1 DEF AfterBoot
<1>4. /\ DOMAIN c.by_subject[t] = DOMAIN store.by_subject[t]
      /\ \A j \in DOMAIN store.by_subject[t] :
           c.by_subject[t][j] =
             IF liveness_reset(Decision(record)) /\ store.by_subject[t][j].source = record.source
             THEN [store.by_subject[t][j] EXCEPT !.retired = TRUE]
             ELSE store.by_subject[t][j]
  BY <1>1 DEF AfterBoot
<1>5. QED
  BY <1>2, <1>3, <1>4

LEMMA RecoveredRecords ==
  ASSUME StoreInv, NEW record \in Recoverable, RecoverAccepted(record),
         NEW t \in Subjects, NEW i \in DOMAIN store'.by_subject[t]
  PROVE  \/ /\ i \in DOMAIN store.by_subject[t] /\ i < store.next
            /\ store'.by_subject[t][i] = store.by_subject[t][i]
         \/ i = store.next /\ store'.by_subject[t][i] = Stored(record, TRUE, record.retired)
BY RecoveredStore DEF Admitted

LEMMA SweptRecords ==
  ASSUME StoreInv, ~SelfMoveClears, NEW horizon, NEW max_records, sweep(horizon, max_records),
         NEW t \in Subjects, NEW i \in DOMAIN store'.by_subject[t]
  PROVE  i \in DOMAIN store.by_subject[t] /\ store'.by_subject[t][i] = store.by_subject[t][i]
BY SweepIsCompaction, SweptStore DEF Compacted

LEMMA RecordsKeptStep ==
  ASSUME ~SelfMoveClears
  PROVE  StoreInv /\ [Next]_vars => RecordsKept \/ UNCHANGED vars
<1> SUFFICES ASSUME StoreInv, Next PROVE RecordsKept
  OBVIOUS
<1> SUFFICES ASSUME NEW t \in Subjects,
                    NEW i \in DOMAIN store.by_subject[t] \cap DOMAIN store'.by_subject[t]
             PROVE  \/ store'.by_subject[t][i] = store.by_subject[t][i]
                    \/ store'.by_subject[t][i] = [store.by_subject[t][i] EXCEPT !.retired = TRUE]
  BY DEF RecordsKept
<1>1. i # store.next
  BY IndexBelowNext
<1>2. ASSUME NEW record \in Inputs, IngestAccepted(record)
      PROVE  \/ store'.by_subject[t][i] = store.by_subject[t][i]
             \/ store'.by_subject[t][i] = [store.by_subject[t][i] EXCEPT !.retired = TRUE]
  BY <1>1, <1>2, AcceptedRecords
<1>3. ASSUME NEW record \in Recoverable, RecoverAccepted(record)
      PROVE  store'.by_subject[t][i] = store.by_subject[t][i]
  BY <1>1, <1>3, RecoveredRecords
<1>4. ASSUME NEW horizon, NEW max_records, sweep(horizon, max_records)
      PROVE  store'.by_subject[t][i] = store.by_subject[t][i]
  BY <1>4, SweptRecords
<1>5. QED
  BY <1>2, <1>3, <1>4
     DEF Next, ingest, ingest_recovered, IngestInvalid, IngestUnknownSubject,
         IngestFenced, RecoverInvalid, reset_liveness

\* On a library whose self-move does nothing, no operation of the store
\* rewrites a record it keeps, except to retire it.
THEOREM RecordsImmutable ==
  ASSUME ~SelfMoveClears
  PROVE  Spec => RecordsUntouched
BY StoreInvariant, RecordsKeptStep, PTL DEF Spec, RecordsUntouched

-----------------------------------------------------------------------------
(***************************************************************************)
(* Live evidence and the order of acceptance.  Neither is inductive alone: *)
(* that an accepted record supersedes the retained ones of its source is   *)
(* known only through the last fence, which has to be at least every       *)
(* fence retained.                                                         *)
(***************************************************************************)
LastIsLatest ==
  \A p \in Accepted :
     /\ At(p).source \in DOMAIN sources
     /\ sources[At(p).source].has_state
     /\ \/ At(p).fence = sources[At(p).source].last
        \/ Supersedes(sources[At(p).source].last, At(p).fence)

FenceInv == LastIsLatest /\ FenceOrdered /\ LiveEvidenceCurrent

\* What LastIsLatest and LiveEvidenceCurrent say of a record r, sources being m.
Covered(r, m) ==
  /\ r.source \in DOMAIN m
  /\ m[r.source].has_state
  /\ r.fence = m[r.source].last \/ Supersedes(m[r.source].last, r.fence)
  /\ ~r.retired => /\ r.fence.boot = m[r.source].last.boot
                   /\ r.fence.incarnation = m[r.source].last.incarnation

LEMMA AcceptedIs ==
  /\ \A p \in Accepted : /\ p = <<p[1], p[2]>> /\ p[1] \in Subjects
                         /\ p[2] \in DOMAIN store.by_subject[p[1]]
                         /\ At(p) = store.by_subject[p[1]][p[2]]
                         /\ ~At(p).recovered
  /\ \A t \in Subjects : \A i \in DOMAIN store.by_subject[t] :
        ~store.by_subject[t][i].recovered => <<t, i>> \in Accepted
BY DEF Accepted, Positions, At

LEMMA FenceInvReads ==
  ASSUME FenceInv, NEW t \in Subjects, NEW i \in DOMAIN store.by_subject[t],
         ~store.by_subject[t][i].recovered
  PROVE  /\ Covered(store.by_subject[t][i], sources)
         /\ \A u \in Subjects : \A j \in DOMAIN store.by_subject[u] :
              (/\ ~store.by_subject[u][j].recovered
               /\ store.by_subject[t][i].source = store.by_subject[u][j].source
               /\ i < j)
                 => Supersedes(store.by_subject[u][j].fence, store.by_subject[t][i].fence)
<1>1. <<t, i>> \in Accepted /\ At(<<t, i>>) = store.by_subject[t][i]
  BY AcceptedIs DEF At
<1>2. Covered(store.by_subject[t][i], sources)
  BY <1>1 DEF FenceInv, LastIsLatest, LiveEvidenceCurrent, Covered
<1>3. ASSUME NEW u \in Subjects, NEW j \in DOMAIN store.by_subject[u],
             ~store.by_subject[u][j].recovered,
             store.by_subject[t][i].source = store.by_subject[u][j].source, i < j
      PROVE  Supersedes(store.by_subject[u][j].fence, store.by_subject[t][i].fence)
  <2>1. <<u, j>> \in Accepted /\ At(<<u, j>>) = store.by_subject[u][j]
    BY <1>3, AcceptedIs DEF At
  <2>2. QED
    BY <1>1, <1>3, <2>1 DEF FenceInv, FenceOrdered
<1>4. QED
  BY <1>2, <1>3

\* FenceInv' from what holds of the records and the sources after a step.
LEMMA FenceInvPrime ==
  ASSUME \A t \in Subjects : \A i \in DOMAIN store'.by_subject[t] :
            ~store'.by_subject[t][i].recovered => Covered(store'.by_subject[t][i], sources'),
         \A t, u \in Subjects : \A i \in DOMAIN store'.by_subject[t], j \in DOMAIN store'.by_subject[u] :
            (/\ ~store'.by_subject[t][i].recovered /\ ~store'.by_subject[u][j].recovered
             /\ store'.by_subject[t][i].source = store'.by_subject[u][j].source
             /\ i < j)
               => Supersedes(store'.by_subject[u][j].fence, store'.by_subject[t][i].fence)
  PROVE  FenceInv'
<1>1. \A p \in Accepted' : /\ p = <<p[1], p[2]>> /\ p[1] \in Subjects
                           /\ p[2] \in DOMAIN store'.by_subject[p[1]]
                           /\ At(p)' = store'.by_subject[p[1]][p[2]]
                           /\ ~store'.by_subject[p[1]][p[2]].recovered
  BY DEF Accepted, Positions, At
<1>2. LastIsLatest' /\ LiveEvidenceCurrent'
  BY <1>1 DEF LastIsLatest, LiveEvidenceCurrent, Covered
<1>3. FenceOrdered'
  BY <1>1 DEF FenceOrdered
<1>4. QED
  BY <1>2, <1>3 DEF FenceInv

\* A step that adds no accepted record and rewrites none.
LEMMA FenceInvNoNew ==
  ASSUME FenceInv,
         \A t \in Subjects : \A i \in DOMAIN store'.by_subject[t] :
            ~store'.by_subject[t][i].recovered =>
               /\ i \in DOMAIN store.by_subject[t]
               /\ store'.by_subject[t][i] = store.by_subject[t][i],
         \A s \in DOMAIN sources : /\ s \in DOMAIN sources'
                                   /\ sources'[s].has_state = sources[s].has_state
                                   /\ sources'[s].last = sources[s].last
  PROVE  FenceInv'
<1>1. ASSUME NEW t \in Subjects, NEW i \in DOMAIN store'.by_subject[t],
             ~store'.by_subject[t][i].recovered
      PROVE  Covered(store'.by_subject[t][i], sources')
  <2>1. Covered(store.by_subject[t][i], sources)
    BY <1>1, FenceInvReads
  <2>2. QED
    BY <1>1, <2>1 DEF Covered
<1>2. ASSUME NEW t \in Subjects, NEW u \in Subjects,
             NEW i \in DOMAIN store'.by_subject[t], NEW j \in DOMAIN store'.by_subject[u],
             ~store'.by_subject[t][i].recovered, ~store'.by_subject[u][j].recovered,
             store'.by_subject[t][i].source = store'.by_subject[u][j].source, i < j
      PROVE  Supersedes(store'.by_subject[u][j].fence, store'.by_subject[t][i].fence)
  BY <1>2, FenceInvReads
<1>3. QED
  BY <1>1, <1>2, FenceInvPrime

LEMMA FenceInvInit == Init => FenceInv
BY DEF Init, FenceInv, LastIsLatest, LiveEvidenceCurrent, FenceOrdered, Accepted, Positions

\* The step that matters: a record is accepted.
LEMMA FenceInvAccepted ==
  ASSUME StoreInv, FenceInv, NEW record \in Inputs, IngestAccepted(record)
  PROVE  FenceInv'
<1> DEFINE r == Stored(record, FALSE, FALSE)
           reset == liveness_reset(Decision(record))
<1>1. TypeOK /\ StoreOK(store) /\ fence_accepted(Decision(record))
  BY StoreInvParts DEF StoreInv, IngestAccepted
<1>2. /\ r.source = record.source /\ r.fence = record.fence
      /\ r.recovered = FALSE /\ r.retired = FALSE /\ record.fence \in FenceVector
  BY StoredType
<1>3. /\ record.source \in DOMAIN sources'
      /\ sources'[record.source].has_state
      /\ sources'[record.source].last = record.fence
      /\ \A s \in DOMAIN sources : s # record.source => s \in DOMAIN sources' /\ sources'[s] = sources[s]
  BY DEF IngestAccepted, Put, Heard
<1>4. ASSUME NEW t \in Subjects, NEW i \in DOMAIN store.by_subject[t]
      PROVE  store.by_subject[t][i] \in Record /\ i < store.next /\ i \in Nat /\ store.next \in Nat
  BY <1>1, IndexBelowNext DEF StoreOK, IsVector
<1>5. ASSUME NEW t \in Subjects, NEW i \in DOMAIN store'.by_subject[t]
      PROVE  \/ /\ i \in DOMAIN store.by_subject[t]
                /\ store'.by_subject[t][i].source = store.by_subject[t][i].source
                /\ store'.by_subject[t][i].fence = store.by_subject[t][i].fence
                /\ store'.by_subject[t][i].recovered = store.by_subject[t][i].recovered
                /\ \/ store'.by_subject[t][i].retired
                   \/ /\ store'.by_subject[t][i].retired = store.by_subject[t][i].retired
                      /\ ~(reset /\ store.by_subject[t][i].source = record.source)
             \/ i = store.next /\ store'.by_subject[t][i] = r
  <2>1. CASE i = store.next /\ store'.by_subject[t][i] = r
    BY <2>1
  <2>2. CASE /\ i \in DOMAIN store.by_subject[t]
             /\ store'.by_subject[t][i] =
                  IF reset /\ store.by_subject[t][i].source = record.source
                  THEN [store.by_subject[t][i] EXCEPT !.retired = TRUE]
                  ELSE store.by_subject[t][i]
    <3>1. store.by_subject[t][i] \in Record
      BY <1>4, <2>2
    <3> HIDE DEF reset
    <3>2. QED
      BY <2>2, <3>1 DEF Record
  <2>3. QED
    BY <2>1, <2>2, AcceptedRecords
<1> HIDE DEF r, reset
\* An older record of the same source: the new fence supersedes it.
<1>6. ASSUME NEW t \in Subjects, NEW i \in DOMAIN store.by_subject[t],
             ~store.by_subject[t][i].recovered, store.by_subject[t][i].source = record.source
      PROVE  /\ Supersedes(record.fence, store.by_subject[t][i].fence)
             /\ \/ reset
                \/ ~store.by_subject[t][i].retired =>
                     /\ store.by_subject[t][i].fence.boot = record.fence.boot
                     /\ store.by_subject[t][i].fence.incarnation = record.fence.incarnation
  <2>1. Covered(store.by_subject[t][i], sources)
    BY <1>6, FenceInvReads
  <2>2. record.source \in DOMAIN sources /\ sources[record.source].has_state
    BY <1>6, <2>1 DEF Covered
  <2>3. /\ Supersedes(record.fence, sources[record.source].last)
        /\ \/ reset
           \/ /\ record.fence.boot = sources[record.source].last.boot
              /\ record.fence.incarnation = sources[record.source].last.incarnation
    BY <1>1, <2>2, AcceptedAdvances DEF reset
  <2>4. sources[record.source].last \in FenceVector /\ store.by_subject[t][i].fence \in FenceVector
    BY <1>1, <1>4, <2>2 DEF TypeOK, SourceFenceState, Record
  <2>5. Supersedes(record.fence, store.by_subject[t][i].fence)
    BY <1>2, <1>6, <2>1, <2>3, <2>4, SupersedesTransitive DEF Covered
  <2>6. QED
    BY <1>6, <2>1, <2>3, <2>5 DEF Covered
<1>7. ASSUME NEW t \in Subjects, NEW i \in DOMAIN store'.by_subject[t],
             ~store'.by_subject[t][i].recovered
      PROVE  Covered(store'.by_subject[t][i], sources')
  <2>1. CASE i = store.next /\ store'.by_subject[t][i] = r
    BY <1>2, <1>3, <2>1 DEF Covered
  <2>2. CASE i \in DOMAIN store.by_subject[t] /\ store'.by_subject[t][i].source = record.source
             /\ i # store.next
    BY <1>3, <1>5, <1>6, <1>7, <2>2 DEF Covered
  <2>3. CASE i \in DOMAIN store.by_subject[t] /\ store'.by_subject[t][i].source # record.source
             /\ i # store.next
    <3>1. Covered(store.by_subject[t][i], sources)
      BY <1>5, <1>7, <2>3, FenceInvReads
    <3>2. QED
      BY <1>3, <1>5, <2>3, <3>1 DEF Covered
  <2>4. QED
    BY <1>4, <1>5, <2>1, <2>2, <2>3
<1>8. ASSUME NEW t \in Subjects, NEW u \in Subjects,
             NEW i \in DOMAIN store'.by_subject[t], NEW j \in DOMAIN store'.by_subject[u],
             ~store'.by_subject[t][i].recovered, ~store'.by_subject[u][j].recovered,
             store'.by_subject[t][i].source = store'.by_subject[u][j].source, i < j
      PROVE  Supersedes(store'.by_subject[u][j].fence, store'.by_subject[t][i].fence)
  <2>1. CASE j \in DOMAIN store.by_subject[u] /\ j # store.next
    <3>1. j < store.next /\ j \in Nat /\ store.next \in Nat
      BY <1>4, <2>1
    <3>2. i \in DOMAIN store.by_subject[t] /\ i # store.next
      BY <1>5, <1>8, <3>1
    <3>3. QED
      BY <1>5, <1>8, <2>1, <3>2, FenceInvReads
  <2>2. CASE j = store.next /\ store'.by_subject[u][j] = r
    <3>1. store.next \in Nat
      BY StoreInvParts
    <3>2. i \in DOMAIN store.by_subject[t] /\ i # store.next
      BY <1>5, <1>8, <2>2, <3>1
    <3>3. QED
      BY <1>2, <1>5, <1>6, <1>8, <2>2, <3>2
  <2>3. QED
    BY <1>4, <1>5, <2>1, <2>2
<1>9. QED
  BY <1>7, <1>8, FenceInvPrime

LEMMA FenceInvNext ==
  ASSUME ~SelfMoveClears
  PROVE  StoreInv /\ FenceInv /\ [Next]_vars => FenceInv'
<1> SUFFICES ASSUME StoreInv, FenceInv, [Next]_vars PROVE FenceInv'
  OBVIOUS
<1>1. TypeOK
  BY DEF StoreInv
<1>2. ASSUME UNCHANGED <<store, sources>> PROVE FenceInv'
  BY <1>2, FenceInvNoNew
<1>3. ASSUME NEW record \in Inputs, IngestFenced(record) PROVE FenceInv'
  <2>1. SourceState(record.source) \in SourceFenceState
    BY <1>1, SourceStateType
  <2>2. ASSUME NEW s \in DOMAIN sources
        PROVE  /\ s \in DOMAIN sources'
               /\ sources'[s].has_state = sources[s].has_state
               /\ sources'[s].last = sources[s].last
    <3>1. CASE s = record.source
      BY <1>3, <2>1, <3>1 DEF IngestFenced, Put, SourceState, SourceFenceState
    <3>2. CASE s # record.source
      BY <1>3, <3>2 DEF IngestFenced, Put
    <3>3. QED
      BY <3>1, <3>2
  <2>3. store' = store
    BY <1>3 DEF IngestFenced
  <2>4. QED
    BY <2>2, <2>3, FenceInvNoNew
<1>4. ASSUME NEW record \in Inputs, IngestAccepted(record) PROVE FenceInv'
  BY <1>4, FenceInvAccepted
<1>5. ASSUME NEW record \in Recoverable, RecoverAccepted(record) PROVE FenceInv'
  <2>1. \A s \in DOMAIN sources : s \in DOMAIN sources' /\ sources'[s] = sources[s]
    BY <1>5 DEF RecoverAccepted, Put, SourceState
  <2>2. record.retired \in BOOLEAN
    BY StoreAssumption DEF SnapshotRecord
  <2>3. Stored(record, TRUE, record.retired).recovered = TRUE
    BY DEF Stored
  <2>4. ASSUME NEW t \in Subjects, NEW i \in DOMAIN store'.by_subject[t],
               ~store'.by_subject[t][i].recovered
        PROVE  /\ i \in DOMAIN store.by_subject[t]
               /\ store'.by_subject[t][i] = store.by_subject[t][i]
    BY <1>5, <2>3, <2>4, RecoveredRecords
  <2>5. QED
    BY <2>1, <2>4, FenceInvNoNew
<1>6. ASSUME NEW horizon, NEW max_records, sweep(horizon, max_records) PROVE FenceInv'
  <2>1. sources' = sources
    BY <1>6 DEF sweep, SweepToEnd, SweepCancelled, Swept
  <2>2. QED
    BY <1>6, <2>1, SweptRecords, FenceInvNoNew
<1>7. ASSUME reset_liveness PROVE FenceInv'
  <2>1. ASSUME NEW s \in DOMAIN sources
        PROVE  /\ s \in DOMAIN sources'
               /\ sources'[s].has_state = sources[s].has_state
               /\ sources'[s].last = sources[s].last
    <3>1. sources[s] \in SourceFenceState
      BY <1>1 DEF TypeOK
    <3>2. QED
      BY <1>7, <3>1 DEF reset_liveness, SourceFenceState
  <2>2. store' = store
    BY <1>7 DEF reset_liveness
  <2>3. QED
    BY <2>1, <2>2, FenceInvNoNew
<1>8. QED
  BY <1>2, <1>3, <1>4, <1>5, <1>6, <1>7
     DEF Next, vars, ingest, ingest_recovered, IngestInvalid, IngestUnknownSubject, RecoverInvalid

LEMMA FenceInvariant ==
  ASSUME ~SelfMoveClears
  PROVE  Spec => []FenceInv
BY StoreInvariant, FenceInvInit, FenceInvNext, PTL DEF Spec

\* A retained record that was accepted and not retired is of the incarnation
\* its source was last heard under: a reboot leaves nothing live behind it.
THEOREM LiveIsCurrent ==
  ASSUME ~SelfMoveClears
  PROVE  Spec => []LiveEvidenceCurrent
BY FenceInvariant, PTL DEF FenceInv

\* Of two retained accepted records of one source the later supersedes the
\* earlier, across subjects, reboots, rejections, recoveries and sweeps.
THEOREM AcceptanceIsOrdered ==
  ASSUME ~SelfMoveClears
  PROVE  Spec => []FenceOrdered
BY FenceInvariant, PTL DEF FenceInv
=============================================================================
