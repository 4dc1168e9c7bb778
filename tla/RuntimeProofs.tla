---------------------------- MODULE RuntimeProofs ----------------------------
(***************************************************************************)
(* Proofs about Runtime: what may happen between the critical sections of  *)
(* an operation, for any number of threads, subjects, sources, records and *)
(* topologies and any limits.                                              *)
(***************************************************************************)
EXTENDS Runtime, SequenceTheorems, FiniteSetTheorems, WellFoundedInduction, TLAPS

-----------------------------------------------------------------------------
(***************************************************************************)
(* The inductive invariant.                                                *)
(***************************************************************************)
\* What a congestion verdict on a subject may cite under a topology.
CitesOK(cites, subject, gen) ==
  /\ cites \subseteq Evidence /\ subject \in Known[gen]
  /\ \A r \in cites : ~r.recovered /\ r.gen = gen /\ r.subject = subject

EpisodesOK(f) ==
  /\ DOMAIN f \subseteq Keys /\ f \in [DOMAIN f -> Episode]
  /\ \A k \in DOMAIN f : \A r \in f[k].cites :
       r.gen = k[2] /\ r.subject = k[1] /\ r.subject \in Known[r.gen]

SnapshotOK(s) ==
  s.topology \in Gens /\ EpisodesOK(s.episodes) /\ s.evidence \in Seq(Evidence)

\* The source of a live record has been told past its position.
Fenced(r, f, h) ==
  /\ r.source \in h /\ r.source \in DOMAIN f /\ f[r.source].has_state
  /\ \/ r.gen < f[r.source].last.generation
     \/ r.gen = f[r.source].last.generation /\ r.seq <= f[r.source].last.sequence

\* OneLiveRecordPerPosition of a sequence of records.
Single(s) ==
  \A i, j \in DOMAIN s :
    /\ ~s[i].recovered /\ ~s[j].recovered
    /\ s[i].source = s[j].source /\ s[i].gen = s[j].gen /\ s[i].seq = s[j].seq
    => i = j

StoreOK(s, f, h) ==
  /\ s \in Seq(Evidence) /\ Len(s) <= max_retained_evidence
  /\ \A i \in DOMAIN s : ~s[i].recovered => Fenced(s[i], f, h)
  /\ Single(s)

\* What the store knows of a source, all of whose vectors are of one boot.
OneBoot(f) ==
  /\ f \in SourceFenceState
  /\ f.has_state => /\ f.last.boot = 1 /\ f.last.incarnation = 1
                    /\ f.last.epoch = 0 /\ f.last.revision = 0

FencesOK(f, h) ==
  /\ DOMAIN f \subseteq Sources /\ IsFiniteSet(DOMAIN f)
  /\ Cardinality(DOMAIN f) <= max_sources
  /\ \A s \in DOMAIN f : OneBoot(f[s]) /\ (f[s].live => s \in h)

RegistryOK(e, d) ==
  /\ EpisodesOK(e) /\ IsFiniteSet(DOMAIN e) /\ Cardinality(DOMAIN e) <= max_episodes
  /\ d \in Nat

\* Episode k of the snapshot that job j loads has been applied, or displaced.
Applied(j, k, e, d) ==
  \/ k \in DOMAIN e /\ e[k].revision >= j.from.episodes[k].revision
  \/ d > j.dropped

\* The local variables of a thread, by the step it takes next.
AdmitOK(j) == j.pc = "admit" => j.gen \in Gens /\ j.record \in Feed

QueryOK(j) ==
  j.pc = "query" => /\ j.gen \in Gens /\ j.subject \in Known[j.gen]
                    /\ j.goal \in {"observe", "candidates"}

ObserveOK(j, h) ==
  j.pc = "observe" => /\ j.gen \in Gens /\ CitesOK(j.cites, j.subject, j.gen)
                      /\ \A r \in j.cites : r.source \in h

WalkOK(j) == j.pc = "walk" => "pc" \in DOMAIN j

PublishOK(j) == j.pc = "publish" => j.gen \in Gens /\ "pc" \in DOMAIN j

SaveOK(j) ==
  /\ j.pc \in {"save_episodes", "save_evidence", "save_file"} => j.topology \in Gens
  /\ j.pc \in {"save_evidence", "save_file"} => EpisodesOK(j.episodes)
  /\ j.pc = "save_file" => j.evidence \in Seq(Evidence)

\* What is left of a snapshot, at each step of the load.
LeftOK(j, e, d) ==
  /\ j.pc = "replace" => j.left = DOMAIN j.from.episodes
  /\ j.pc = "restore" => /\ j.left \subseteq DOMAIN j.from.episodes
                         /\ \A k \in DOMAIN j.from.episodes \ j.left : Applied(j, k, e, d)
  /\ j.pc = "recover" => /\ \A k \in DOMAIN j.from.episodes : Applied(j, k, e, d)
                         /\ j.left \in Seq(Evidence)

LoadOK(j, e, d) ==
  j.pc \in {"replace", "restore", "recover"} =>
    /\ DOMAIN j = {"pc", "from", "left", "dropped"}
    /\ SnapshotOK(j.from) /\ j.dropped \in Nat /\ j.dropped <= d
    /\ LeftOK(j, e, d)

JobOK(j, h, e, d) ==
  /\ AdmitOK(j) /\ QueryOK(j) /\ ObserveOK(j, h) /\ WalkOK(j)
  /\ PublishOK(j) /\ SaveOK(j) /\ LoadOK(j, e, d)

JobsOK(jobs, h, e, d) ==
  jobs = [t \in Threads |-> jobs[t]] /\ \A t \in Threads : JobOK(jobs[t], h, e, d)

IndInv ==
  /\ topology \in Gens /\ graph \in Graph
  /\ StoreOK(store, fences, heard) /\ FencesOK(fences, heard) /\ RegistryOK(episodes, dropped)
  /\ disk = None \/ SnapshotOK(disk)
  /\ JobsOK(job, heard, episodes, dropped)

\* An administrator who owes the graph of the topology: his operation will publish
\* it or report an error.
Owes(t) ==
  \/ job[t].pc \in {"restore", "recover", "rebuild", "failed"}
  \/ job[t].pc = "publish" /\ job[t].gen = topology

GraphOK == graph.last = "current" /\ graph.gen # topology => \E t \in Admins : Owes(t)

-----------------------------------------------------------------------------
(***************************************************************************)
(* The records a query returns and a sweep keeps.                          *)
(***************************************************************************)
LEMMA StoreRecords ==
  ASSUME store \in Seq(Evidence)
  PROVE  /\ Len(store) \in Nat /\ DOMAIN store = 1..Len(store)
         /\ \A i \in DOMAIN store : i \in Nat /\ store[i] \in Evidence /\ store[i].at \in Nat
<1>1. Len(store) \in Nat /\ DOMAIN store = 1..Len(store)
  BY LenProperties
<1>2. \A i \in DOMAIN store : store[i] \in Evidence
  BY <1>1, ElementOfSeq
<1>3. \A r \in Evidence : r.at \in Nat
  BY RuntimeAssumption DEF Evidence
<1>4. QED
  BY <1>1, <1>2, <1>3

LEMMA IntervalSize ==
  ASSUME NEW n \in Nat
  PROVE  IsFiniteSet(1..n) /\ Cardinality(1..n) = n
BY FS_Interval

\* upto[i] are the members of S that do not come after i.
Ordered(S, upto) ==
  /\ upto \in [S -> SUBSET S]
  /\ \A i \in S : i \in upto[i]
  /\ \A i, j \in S : i \in upto[j] \/ j \in upto[i]
  /\ \A i, j \in S : i \in upto[j] => upto[i] \subseteq upto[j]
  /\ \A i, j \in S : i \in upto[j] /\ j \in upto[i] => i = j

\* Every place up to the number of members is the place of one member.
LEMMA Ranked ==
  ASSUME NEW S, IsFiniteSet(S), NEW upto, Ordered(S, upto)
  PROVE  \A n \in 1..Cardinality(S) : \E i \in S : Cardinality(upto[i]) = n
<1> DEFINE rank == [i \in S |-> Cardinality(upto[i])]
<1>1. Cardinality(S) \in Nat
  BY FS_CardinalityType
<1>2. ASSUME NEW i \in S
      PROVE  IsFiniteSet(upto[i]) /\ Cardinality(upto[i]) \in 1..Cardinality(S)
  <2>1. upto[i] \in SUBSET S /\ i \in upto[i]
    BY DEF Ordered
  <2>2. IsFiniteSet(upto[i]) /\ Cardinality(upto[i]) <= Cardinality(S)
    BY <2>1, FS_Subset
  <2>3. Cardinality(upto[i]) \in Nat
    BY <2>2, FS_CardinalityType
  <2>4. Cardinality(upto[i]) # 0
    BY <2>1, <2>2, FS_EmptySet
  <2>5. QED
    BY <1>1, <2>2, <2>3, <2>4
<1>3. ASSUME NEW i \in S, NEW j \in S, Cardinality(upto[i]) = Cardinality(upto[j]),
             i \in upto[j]
      PROVE  i = j
  <2>1. upto[i] \in SUBSET upto[j]
    BY <1>3 DEF Ordered
  <2>2. upto[i] = upto[j]
    BY <1>2, <1>3, <2>1, FS_Subset
  <2>3. j \in upto[i]
    BY <2>2 DEF Ordered
  <2>4. QED
    BY <1>3, <2>3 DEF Ordered
<1>4. ASSUME NEW i \in S, NEW j \in S, Cardinality(upto[i]) = Cardinality(upto[j])
      PROVE  i = j
  <2>1. i \in upto[j] \/ j \in upto[i]
    BY DEF Ordered
  <2>2. QED
    BY <1>3, <1>4, <2>1
<1>5. rank \in Injection(S, 1..Cardinality(S))
  BY <1>2, <1>4 DEF Injection, IsInjective
<1>6. IsFiniteSet(1..Cardinality(S)) /\ Cardinality(1..Cardinality(S)) = Cardinality(S)
  BY <1>1, FS_Interval
<1>7. rank \in Surjection(S, 1..Cardinality(S))
  <2> HIDE DEF rank
  <2> QED BY <1>5, <1>6, FS_Injection
<1>8. ASSUME NEW n \in 1..Cardinality(S) PROVE \E i \in S : Cardinality(upto[i]) = n
  <2>1. \E i \in S : rank[i] = n
    <3> HIDE DEF rank
    <3> QED BY <1>7 DEF Surjection
  <2>2. QED
    BY <2>1
<1>9. QED
  BY <1>8

\* s are records of the store at some of the places in S, each at most once.
Picks(s, S) ==
  \E size \in Nat :
    /\ size <= Len(store)
    /\ \E index \in [1..size -> S] :
         /\ s = [n \in 1..size |-> store[index[n]]]
         /\ \A m, n \in 1..size : index[m] = index[n] => m = n

LEMMA ListedPicks ==
  ASSUME store \in Seq(Evidence), NEW S \in SUBSET DOMAIN store, NEW upto, Ordered(S, upto)
  PROVE  Picks(Listed(S, upto), S)
<1> DEFINE index == [n \in 1..Cardinality(S) |-> CHOOSE i \in S : Cardinality(upto[i]) = n]
<1>1. Len(store) \in Nat /\ DOMAIN store = 1..Len(store)
  BY StoreRecords
<1>2. IsFiniteSet(1..Len(store)) /\ Cardinality(1..Len(store)) = Len(store)
  BY <1>1, IntervalSize
<1>3. IsFiniteSet(S) /\ Cardinality(S) <= Len(store)
  BY <1>1, <1>2, FS_Subset
<1>4. Cardinality(S) \in Nat
  BY <1>3, FS_CardinalityType
<1>5. ASSUME NEW n \in 1..Cardinality(S)
      PROVE  index[n] \in S /\ Cardinality(upto[index[n]]) = n
  <2>1. \E i \in S : Cardinality(upto[i]) = n
    BY <1>3, Ranked
  <2>2. QED
    BY <2>1
<1>6. Listed(S, upto) = [n \in 1..Cardinality(S) |-> store[index[n]]]
  BY DEF Listed
<1>7. index \in [1..Cardinality(S) -> S]
  BY <1>5
<1>8. \A m, n \in 1..Cardinality(S) : index[m] = index[n] => m = n
  <2> HIDE DEF index
  <2> QED BY <1>5
<1>9. QED
  <2> HIDE DEF index
  <2> QED BY <1>3, <1>4, <1>6, <1>7, <1>8 DEF Picks

\* No more records than there are, each of them at a place in S.
Sample(s, S) ==
  /\ s \in Seq(Evidence) /\ Len(s) \in Nat /\ Len(s) <= Len(store)
  /\ \A n \in DOMAIN s : \E i \in S : s[n] = store[i]

LEMMA PicksProperties ==
  ASSUME store \in Seq(Evidence), NEW S \in SUBSET DOMAIN store, NEW s, Picks(s, S)
  PROVE  Sample(s, S)
<1>1. PICK size \in Nat :
        /\ size <= Len(store)
        /\ \E index \in [1..size -> S] : s = [n \in 1..size |-> store[index[n]]]
  BY DEF Picks
<1>2. PICK index \in [1..size -> S] : s = [n \in 1..size |-> store[index[n]]]
  BY <1>1
<1>4. ASSUME NEW n \in 1..size PROVE s[n] = store[index[n]] /\ index[n] \in S /\ s[n] \in Evidence
  BY <1>2, StoreRecords
<1>5. s \in Seq(Evidence) /\ Len(s) = size
  BY <1>2, <1>4
<1>6. DOMAIN s = 1..size
  BY <1>2
<1>7. QED
  BY <1>1, <1>4, <1>5, <1>6 DEF Sample

\* By time and insertion.
LEMMA QueryProperties ==
  ASSUME store \in Seq(Evidence), NEW matching, NEW budget
  PROVE  /\ Query(matching, budget) \in Seq(Evidence)
         /\ ToSet(Query(matching, budget)) \subseteq Evidence
         /\ \A r \in ToSet(Query(matching, budget)) :
              r \in matching /\ \E i \in DOMAIN store : r = store[i]
<1> DEFINE found == {i \in DOMAIN store : store[i] \in matching}
           walked == [i \in found |->
                   {j \in found : \/ store[j].subject < store[i].subject
                                  \/ store[j].subject = store[i].subject /\ j <= i}]
           kept == {i \in found : Cardinality(walked[i]) <= budget}
           sorted == [i \in kept |->
                   {j \in kept : \/ store[j].at < store[i].at
                                 \/ store[j].at = store[i].at /\ j <= i}]
<1>1. Query(matching, budget) = Listed(kept, sorted)
  BY DEF Query
<1>2. kept \in SUBSET DOMAIN store /\ \A i \in kept : store[i] \in matching
  <2> HIDE DEF walked
  <2> QED OBVIOUS
<1> HIDE DEF walked
<1> HIDE DEF kept
<1>3. \A i \in kept : i \in Nat /\ store[i].at \in Nat
  BY <1>2, StoreRecords
<1>4. Ordered(kept, sorted)
  BY <1>3 DEF Ordered
<1> HIDE DEF sorted
<1> DEFINE s == Listed(kept, sorted)
<1>5. Picks(s, kept)
  BY <1>2, <1>4, ListedPicks
<1> HIDE DEF s
<1>6. Sample(s, kept)
  BY <1>2, <1>5, PicksProperties, Zenon
<1>7. \A r \in ToSet(s) : \E i \in kept : r = store[i]
  BY <1>6 DEF Sample, ToSet
<1>8. \A i \in DOMAIN store : store[i] \in Evidence
  BY StoreRecords
<1>9. QED
  BY <1>1, <1>2, <1>6, <1>7, <1>8 DEF s, Sample

LEMMA RemoveIndicesPicks ==
  ASSUME store \in Seq(Evidence), NEW gone
  PROVE  Picks(RemoveIndices(gone), DOMAIN store)
<1> DEFINE kept == DOMAIN store \ gone
           upto == [i \in kept |-> {j \in kept : j <= i}]
<1>1. \A i \in kept : i \in Nat
  BY StoreRecords
<1>2. kept \in SUBSET DOMAIN store
  OBVIOUS
<1> HIDE DEF kept
<1>3. Ordered(kept, upto)
  BY <1>1 DEF Ordered
<1>4. Picks(Listed(kept, upto), kept)
  <2> HIDE DEF upto
  <2> QED BY <1>2, <1>3, ListedPicks
<1>5. RemoveIndices(gone) = Listed(kept, upto)
  BY DEF RemoveIndices, kept
<1>6. Picks(Listed(kept, upto), DOMAIN store)
  <2> HIDE DEF upto
  <2> QED BY <1>2, <1>4 DEF Picks
<1>7. QED
  BY <1>5, <1>6

-----------------------------------------------------------------------------
(***************************************************************************)
(* The fences.                                                             *)
(***************************************************************************)
\* Position (gen, seq) comes before the one the fence is at.
Behind(gen, seq, last) ==
  gen < last.generation \/ (gen = last.generation /\ seq < last.sequence)

LEMMA FenceOfRecord ==
  ASSUME NEW r, r.gen \in Nat, r.seq \in Nat
  PROVE  /\ FenceOf(r) \in FenceVector
         /\ FenceOf(r).boot = 1 /\ FenceOf(r).incarnation = 1
         /\ FenceOf(r).epoch = 0 /\ FenceOf(r).revision = 0
         /\ FenceOf(r).generation = r.gen /\ FenceOf(r).sequence = r.seq
BY DEF FenceOf, ZeroFence, FenceVector

\* An accepted record lies beyond the last one.
LEMMA AcceptedAhead ==
  ASSUME NEW r, r.gen \in Nat, r.seq \in Nat, NEW f, OneBoot(f), f.has_state,
         fence_accepted(evaluate_fence(FenceOf(r), 0, 0, f))
  PROVE  Behind(f.last.generation, f.last.sequence, FenceOf(r))
<1> DEFINE b == FenceOf(r)
           a == f.last
<1>1. /\ b \in FenceVector /\ b.boot = 1 /\ b.incarnation = 1 /\ b.epoch = 0 /\ b.revision = 0
  BY FenceOfRecord
<1>2. /\ a \in FenceVector /\ a.boot = 1 /\ a.incarnation = 1 /\ a.epoch = 0 /\ a.revision = 0
  BY DEF OneBoot, SourceFenceState
<1>3. evaluate_fence(b, 0, 0, f) = BootDecision(b, a)
  BY DEF evaluate_fence
<1> HIDE DEF a, b
<1>4. /\ b.generation \in Nat /\ b.sequence \in Nat
      /\ a.generation \in Nat /\ a.sequence \in Nat
  BY <1>1, <1>2 DEF FenceVector
<1>5. BootDecision(b, a) = GenerationDecision(b, a)
  BY <1>1, <1>2 DEF BootDecision
<1>6. fence_accepted(GenerationDecision(b, a))
  BY <1>3, <1>5 DEF a, b
<1>7. CASE b.generation # a.generation
  <2>1. ~(b.generation < a.generation)
    BY <1>1, <1>2, <1>4, <1>6, <1>7
       DEF GenerationDecision, compare_generation, StaleReason, fence_accepted
  <2>2. QED
    BY <1>4, <1>7, <2>1 DEF Behind, a, b
<1>8. CASE b.generation = a.generation
  <2>1. compare_generation(b, a) = "equal"
    BY <1>1, <1>2, <1>8 DEF compare_generation
  <2>2. GenerationDecision(b, a) = SequenceDecision(b, a)
    BY <2>1 DEF GenerationDecision
  <2>3. ~(b.sequence <= a.sequence)
    BY <1>6, <2>2 DEF SequenceDecision, fence_accepted
  <2>4. QED
    BY <1>4, <1>8, <2>3 DEF Behind, a, b
<1>9. QED
  BY <1>7, <1>8

-----------------------------------------------------------------------------
(***************************************************************************)
(* The registry.                                                           *)
(***************************************************************************)
\* From one registry to the next no episode is lowered or lost, unless the loss is
\* counted.
Forward(e, d, f, c) ==
  \/ c > d
  \/ c = d /\ \A k \in DOMAIN e : k \in DOMAIN f /\ f[k].revision >= e[k].revision

LEMMA EpisodeRevision ==
  ASSUME NEW f, EpisodesOK(f), NEW k \in DOMAIN f
  PROVE  f[k] \in Episode /\ f[k].revision \in Nat \ {0} /\ k \in Keys
BY DEF EpisodesOK, Episode

\* An episode on evidence of its generation.
Grounded(k, v) ==
  /\ k \in Keys /\ v \in Episode
  /\ \A r \in v.cites : r.gen = k[2] /\ r.subject = k[1] /\ r.subject \in Known[r.gen]

LEMMA GroundedEpisodes ==
  ASSUME NEW f, f = [k \in DOMAIN f |-> f[k]]
  PROVE  EpisodesOK(f) <=> \A k \in DOMAIN f : Grounded(k, f[k])
<1>1. ASSUME EpisodesOK(f), NEW k \in DOMAIN f PROVE Grounded(k, f[k])
  BY <1>1 DEF EpisodesOK, Grounded
<1>2. ASSUME \A k \in DOMAIN f : Grounded(k, f[k]) PROVE EpisodesOK(f)
  BY <1>2 DEF EpisodesOK, Grounded
<1>3. QED
  BY <1>1, <1>2

LEMMA EpisodesFunction ==
  ASSUME NEW f, EpisodesOK(f)
  PROVE  f = [k \in DOMAIN f |-> f[k]]
BY DEF EpisodesOK

LEMMA PutEpisode ==
  ASSUME NEW e, NEW d, RegistryOK(e, d), NEW k, NEW v, Grounded(k, v),
         k \in DOMAIN e \/ Cardinality(DOMAIN e) < max_episodes
  PROVE  RegistryOK(Put(e, k, v), d)
<1> DEFINE f == Put(e, k, v)
<1>1. /\ DOMAIN f = DOMAIN e \cup {k} /\ f = [x \in DOMAIN f |-> f[x]]
      /\ \A x \in DOMAIN f : f[x] = IF x = k THEN v ELSE e[x]
  BY DEF Put
<1>2. EpisodesOK(e) /\ IsFiniteSet(DOMAIN e) /\ Cardinality(DOMAIN e) <= max_episodes
      /\ Cardinality(DOMAIN e) \in Nat /\ max_episodes \in Nat
  BY RuntimeAssumption, FS_CardinalityType DEF RegistryOK
<1> HIDE DEF f
<1>3. \A x \in DOMAIN e : Grounded(x, e[x])
  BY <1>2, GroundedEpisodes, EpisodesFunction
<1>4. \A x \in DOMAIN f : Grounded(x, f[x])
  BY <1>1, <1>3
<1>5. EpisodesOK(f)
  BY <1>1, <1>4, GroundedEpisodes
<1>6. IsFiniteSet(DOMAIN f)
      /\ Cardinality(DOMAIN f) = IF k \in DOMAIN e THEN Cardinality(DOMAIN e)
                                 ELSE Cardinality(DOMAIN e) + 1
  BY <1>1, <1>2, FS_AddElement
<1>7. Cardinality(DOMAIN f) <= max_episodes
  BY <1>2, <1>6
<1>8. QED
  BY <1>5, <1>6, <1>7 DEF RegistryOK, f

LEMMA PutForward ==
  ASSUME NEW e, NEW d, RegistryOK(e, d), NEW k, NEW v,
         k \in DOMAIN e => v.revision >= e[k].revision
  PROVE  Forward(e, d, Put(e, k, v), d)
<1>1. \A x \in DOMAIN e : e[x].revision \in Nat
  BY EpisodeRevision DEF RegistryOK
<1>2. QED
  BY <1>1 DEF Forward, Put

\* Episodes that change state keep what they cite.
LEMMA ChangedEpisodes ==
  ASSUME NEW e, NEW d, RegistryOK(e, d), NEW f, DOMAIN f = DOMAIN e,
         f = [k \in DOMAIN f |-> f[k]],
         \A k \in DOMAIN e : /\ f[k] \in Episode /\ f[k].cites = e[k].cites
                             /\ f[k].revision >= e[k].revision
  PROVE  RegistryOK(f, d) /\ Forward(e, d, f, d)
<1>1. \A x \in DOMAIN e : Grounded(x, e[x])
  BY GroundedEpisodes, EpisodesFunction DEF RegistryOK
<1>2. \A x \in DOMAIN f : Grounded(x, f[x])
  BY <1>1 DEF Grounded
<1>3. EpisodesOK(f)
  BY <1>2, GroundedEpisodes
<1>4. QED
  BY <1>3 DEF RegistryOK, Forward

LEMMA RemovedEpisode ==
  ASSUME NEW e, NEW d, RegistryOK(e, d), NEW k \in DOMAIN e, NEW c \in Nat
  PROVE  LET f == [x \in DOMAIN e \ {k} |-> e[x]]
         IN  RegistryOK(f, c) /\ Cardinality(DOMAIN f) < max_episodes
<1> DEFINE f == [x \in DOMAIN e \ {k} |-> e[x]]
<1>1. EpisodesOK(e) /\ IsFiniteSet(DOMAIN e) /\ Cardinality(DOMAIN e) <= max_episodes
      /\ Cardinality(DOMAIN e) \in Nat /\ max_episodes \in Nat
  BY RuntimeAssumption, FS_CardinalityType DEF RegistryOK
<1>2. DOMAIN f = DOMAIN e \ {k} /\ f = [x \in DOMAIN f |-> f[x]] /\ \A x \in DOMAIN f : f[x] = e[x]
  OBVIOUS
<1> HIDE DEF f
<1>3. \A x \in DOMAIN e : Grounded(x, e[x])
  BY <1>1, GroundedEpisodes, EpisodesFunction
<1>4. EpisodesOK(f)
  BY <1>2, <1>3, GroundedEpisodes
<1>5. IsFiniteSet(DOMAIN f) /\ Cardinality(DOMAIN f) = Cardinality(DOMAIN e) - 1
  BY <1>1, <1>2, FS_RemoveElement
<1>6. Cardinality(DOMAIN f) < max_episodes /\ Cardinality(DOMAIN f) <= max_episodes
  BY <1>1, <1>5
<1>7. QED
  BY <1>4, <1>5, <1>6 DEF RegistryOK, f

-----------------------------------------------------------------------------
(***************************************************************************)
(* The threads.                                                            *)
(***************************************************************************)
\* A thread that holds nothing that has to be right.
LEMMA QuietJob ==
  ASSUME NEW j, NEW h, NEW e, NEW d,
         j.pc \in {"idle", "failed", "rebuild", "sweep", "candidates"}
  PROVE  JobOK(j, h, e, d)
BY DEF JobOK, AdmitOK, QueryOK, ObserveOK, WalkOK, PublishOK, SaveOK, LoadOK

LEMMA AppliedKept ==
  ASSUME NEW j, NEW k, NEW e, NEW d \in Nat, NEW f, NEW c \in Nat, j.dropped \in Nat,
         EpisodesOK(e), EpisodesOK(f), EpisodesOK(j.from.episodes),
         k \in DOMAIN j.from.episodes, Forward(e, d, f, c), j.dropped <= d,
         Applied(j, k, e, d)
  PROVE  Applied(j, k, f, c)
<1>1. j.from.episodes[k].revision \in Nat
  BY EpisodeRevision
<1>2. CASE c > d
  BY <1>2 DEF Applied
<1>3. CASE c = d /\ d > j.dropped
  BY <1>3 DEF Applied
<1>4. CASE /\ c = d /\ ~(d > j.dropped)
           /\ \A x \in DOMAIN e : x \in DOMAIN f /\ f[x].revision >= e[x].revision
  <2>1. k \in DOMAIN e /\ e[k].revision >= j.from.episodes[k].revision
    BY <1>4 DEF Applied
  <2>2. k \in DOMAIN f /\ f[k].revision >= e[k].revision
    BY <1>4, <2>1
  <2>3. e[k].revision \in Nat /\ f[k].revision \in Nat
    BY <2>1, <2>2, EpisodeRevision
  <2>4. QED
    BY <1>1, <2>1, <2>2, <2>3 DEF Applied
<1>5. QED
  BY <1>2, <1>3, <1>4 DEF Forward

\* What a thread holds stays right while other threads work.
LEMMA JobKept ==
  ASSUME NEW j, NEW h, NEW e, NEW d, JobOK(j, h, e, d), RegistryOK(e, d),
         NEW g, NEW f, NEW c, h \subseteq g, RegistryOK(f, c), Forward(e, d, f, c)
  PROVE  JobOK(j, g, f, c)
<1>1. EpisodesOK(e) /\ EpisodesOK(f) /\ d \in Nat /\ c \in Nat
  BY DEF RegistryOK
<1>2. c >= d
  BY <1>1 DEF Forward
<1>3. ObserveOK(j, g)
  BY DEF JobOK, ObserveOK
<1>4. ASSUME j.pc \in {"replace", "restore", "recover"}
      PROVE  /\ DOMAIN j = {"pc", "from", "left", "dropped"}
             /\ SnapshotOK(j.from) /\ j.dropped \in Nat /\ j.dropped <= c
             /\ LeftOK(j, f, c)
  <2>1. /\ DOMAIN j = {"pc", "from", "left", "dropped"}
        /\ SnapshotOK(j.from) /\ j.dropped \in Nat /\ j.dropped <= d
        /\ LeftOK(j, e, d)
    BY <1>4 DEF JobOK, LoadOK
  <2>2. EpisodesOK(j.from.episodes)
    BY <2>1 DEF SnapshotOK
  <2>3. \A k \in DOMAIN j.from.episodes : Applied(j, k, e, d) => Applied(j, k, f, c)
    BY <1>1, <2>1, <2>2, AppliedKept
  <2>4. LeftOK(j, f, c)
    BY <2>1, <2>3 DEF LeftOK
  <2>5. j.dropped <= c
    BY <1>1, <1>2, <2>1
  <2>6. QED
    BY <2>1, <2>4, <2>5
<1>5. LoadOK(j, f, c)
  BY <1>4 DEF LoadOK
<1>6. QED
  BY <1>3, <1>5 DEF JobOK

\* One thread goes on to job j while the registry moves forward.
LEMMA JobsStep ==
  ASSUME NEW jobs, NEW h, NEW e, NEW d, JobsOK(jobs, h, e, d), RegistryOK(e, d),
         NEW g, NEW f, NEW c, h \subseteq g, RegistryOK(f, c), Forward(e, d, f, c),
         NEW t, NEW j, JobOK(j, g, f, c)
  PROVE  JobsOK([jobs EXCEPT ![t] = j], g, f, c)
<1> DEFINE new == [jobs EXCEPT ![t] = j]
<1>1. DOMAIN jobs = Threads /\ \A u \in Threads : JobOK(jobs[u], h, e, d)
  BY DEF JobsOK
<1>2. \A u \in Threads : JobOK(jobs[u], g, f, c)
  BY <1>1, JobKept
<1>3. new = [u \in Threads |-> new[u]] /\ \A u \in Threads : new[u] = IF u = t THEN j ELSE jobs[u]
  BY <1>1
<1> HIDE DEF new
<1>4. \A u \in Threads : JobOK(new[u], g, f, c)
  BY <1>2, <1>3
<1>5. QED
  BY <1>3, <1>4 DEF JobsOK, new

\* The registry stays as it is.
LEMMA ForwardSame ==
  ASSUME NEW e, NEW d, RegistryOK(e, d)
  PROVE  Forward(e, d, e, d)
<1>1. \A k \in DOMAIN e : e[k].revision \in Nat
  BY EpisodeRevision DEF RegistryOK
<1>2. QED
  BY <1>1 DEF Forward

\* Writing the graph is noticed by the threads that walk it, and by no other.
LEMMA TornJobs ==
  ASSUME NEW jobs, NEW h, NEW e, NEW d, JobsOK(jobs, h, e, d)
  PROVE  JobsOK(Torn(jobs), h, e, d)
<1> DEFINE new == Torn(jobs)
<1>1. ASSUME NEW t \in Threads PROVE JobOK(new[t], h, e, d)
  <2>1. JobOK(jobs[t], h, e, d)
    BY DEF JobsOK
  <2>2. CASE jobs[t].pc = "walk"
    <3>1. "pc" \in DOMAIN jobs[t]
      BY <2>1, <2>2 DEF JobOK, WalkOK
    <3>2. new[t] = [jobs[t] EXCEPT !.torn = TRUE]
      BY <2>2 DEF Torn
    <3> HIDE DEF new
    <3>3. new[t].pc = "walk" /\ "pc" \in DOMAIN new[t]
      BY <2>2, <3>1, <3>2
    <3>4. QED
      BY <3>3 DEF JobOK, AdmitOK, QueryOK, ObserveOK, WalkOK, PublishOK, SaveOK, LoadOK
  <2>3. CASE jobs[t].pc # "walk"
    BY <2>1, <2>3 DEF Torn
  <2>4. QED
    BY <2>2, <2>3
<1>2. new = [t \in Threads |-> new[t]]
  BY DEF Torn
<1>3. QED
  BY <1>1, <1>2 DEF JobsOK

-----------------------------------------------------------------------------
(***************************************************************************)
(* The store.                                                              *)
(***************************************************************************)
\* Where a fence is, it stays or advances.
Advances(f, h, g, i) ==
  /\ h \subseteq i
  /\ \A s \in DOMAIN f : f[s].has_state =>
       /\ s \in DOMAIN g /\ g[s].has_state
       /\ \/ g[s].last = f[s].last
          \/ Behind(f[s].last.generation, f[s].last.sequence, g[s].last)

LEMMA FencedKept ==
  ASSUME NEW f, NEW h, NEW g, NEW i, FencesOK(f, h), FencesOK(g, i), Advances(f, h, g, i),
         NEW r \in Evidence, Fenced(r, f, h)
  PROVE  Fenced(r, g, i)
<1> DEFINE s == r.source
<1>1. s \in DOMAIN f /\ f[s].has_state /\ s \in DOMAIN g /\ g[s].has_state /\ s \in i
  BY DEF Fenced, Advances
<1>2. OneBoot(f[s]) /\ OneBoot(g[s])
  BY <1>1 DEF FencesOK
<1>3. /\ f[s].last.generation \in Nat /\ f[s].last.sequence \in Nat
      /\ g[s].last.generation \in Nat /\ g[s].last.sequence \in Nat
  BY <1>2 DEF OneBoot, SourceFenceState, FenceVector
<1>4. r.gen \in Nat /\ r.seq \in Nat
  BY RuntimeAssumption DEF Evidence
<1>5. \/ g[s].last = f[s].last
      \/ Behind(f[s].last.generation, f[s].last.sequence, g[s].last)
  BY <1>1 DEF Advances
<1>6. \/ r.gen < f[s].last.generation
      \/ r.gen = f[s].last.generation /\ r.seq <= f[s].last.sequence
  BY DEF Fenced
<1>7. \/ r.gen < g[s].last.generation
      \/ r.gen = g[s].last.generation /\ r.seq <= g[s].last.sequence
  <2>1. CASE g[s].last = f[s].last
    BY <1>6, <2>1
  <2>2. CASE Behind(f[s].last.generation, f[s].last.sequence, g[s].last)
    BY <1>3, <1>4, <1>6, <2>2 DEF Behind
  <2>3. QED
    BY <1>5, <2>1, <2>2
<1>8. QED
  BY <1>1, <1>7 DEF Fenced

LEMMA StoreKept ==
  ASSUME NEW s, NEW f, NEW h, StoreOK(s, f, h), NEW g, NEW i, FencesOK(f, h), FencesOK(g, i),
         Advances(f, h, g, i)
  PROVE  StoreOK(s, g, i)
<1>1. \A n \in DOMAIN s : s[n] \in Evidence
  BY LenProperties, ElementOfSeq DEF StoreOK
<1>2. QED
  BY <1>1, FencedKept DEF StoreOK

\* Entering what is known of a source.
LEMMA PutFence ==
  ASSUME NEW f, NEW h, FencesOK(f, h), NEW s \in Sources, NEW v, NEW i, OneBoot(v),
         h \subseteq i, v.live => s \in i,
         s \in DOMAIN f \/ ~(Cardinality(DOMAIN f) >= max_sources)
  PROVE  FencesOK(Put(f, s, v), i)
<1> DEFINE g == Put(f, s, v)
<1>1. /\ DOMAIN g = DOMAIN f \cup {s}
      /\ \A x \in DOMAIN g : g[x] = IF x = s THEN v ELSE f[x]
  BY DEF Put
<1>2. IsFiniteSet(DOMAIN f) /\ Cardinality(DOMAIN f) <= max_sources
      /\ Cardinality(DOMAIN f) \in Nat /\ max_sources \in Nat /\ DOMAIN f \subseteq Sources
  BY RuntimeAssumption, FS_CardinalityType DEF FencesOK
<1> HIDE DEF g
<1>3. IsFiniteSet(DOMAIN g)
      /\ Cardinality(DOMAIN g) = IF s \in DOMAIN f THEN Cardinality(DOMAIN f)
                                 ELSE Cardinality(DOMAIN f) + 1
  BY <1>1, <1>2, FS_AddElement
<1>4. Cardinality(DOMAIN g) <= max_sources /\ DOMAIN g \subseteq Sources
  BY <1>1, <1>2, <1>3
<1>5. \A x \in DOMAIN g : OneBoot(g[x]) /\ (g[x].live => x \in i)
  BY <1>1 DEF FencesOK
<1>6. QED
  BY <1>3, <1>4, <1>5 DEF FencesOK, g

\* What admit_locked leaves: the new record comes last, the others as they were.
Appended(new, rec, cut) ==
  /\ new \in Seq(Evidence) /\ Len(new) \in Nat /\ DOMAIN new = 1..Len(new)
  /\ Len(new) <= max_retained_evidence
  /\ \A n \in 1..(Len(new) - 1) : n + cut \in DOMAIN store /\ new[n] = store[n + cut]
  /\ new[Len(new)] = rec

RecordOf(r, recovered) ==
  [source |-> r.source, subject |-> r.subject, gen |-> r.gen,
   seq |-> r.seq, at |-> r.at, recovered |-> recovered]

LEMMA AdmittedAppends ==
  ASSUME store \in Seq(Evidence), Len(store) <= max_retained_evidence,
         NEW r, NEW b, RecordOf(r, b) \in Evidence
  PROVE  \E cut \in Nat : Appended(Admitted(r, b), RecordOf(r, b), cut)
<1> DEFINE rec == RecordOf(r, b)
           room == IF Len(store) >= max_retained_evidence THEN Tail(store) ELSE store
<1>1. Len(store) \in Nat /\ DOMAIN store = 1..Len(store) /\ max_retained_evidence \in Nat \ {0}
  BY StoreRecords, RuntimeAssumption
<1>2. PICK cut \in Nat :
        /\ room \in Seq(Evidence) /\ Len(room) = Len(store) - cut
        /\ Len(room) < max_retained_evidence
        /\ \A n \in 1..Len(room) : room[n] = store[n + cut]
  <2>1. CASE Len(store) >= max_retained_evidence
    <3>1. store # <<>>
      BY <1>1, <2>1, EmptySeq
    <3>2. /\ Tail(store) \in Seq(Evidence) /\ Len(Tail(store)) = Len(store) - 1
          /\ \A n \in 1..Len(Tail(store)) : Tail(store)[n] = store[n + 1]
      BY <3>1, HeadTailProperties
    <3>3. room = Tail(store)
      BY <2>1
    <3>4. Len(store) - 1 < max_retained_evidence
      BY <1>1
    <3> HIDE DEF room
    <3>5. 1 \in Nat /\ room \in Seq(Evidence) /\ Len(room) = Len(store) - 1
          /\ Len(room) < max_retained_evidence
          /\ \A n \in 1..Len(room) : room[n] = store[n + 1]
      BY <3>2, <3>3, <3>4
    <3>6. QED
      BY <3>5
  <2>2. CASE ~(Len(store) >= max_retained_evidence)
    <3>1. room = store
      BY <2>2
    <3>2. 0 \in Nat /\ store \in Seq(Evidence) /\ Len(store) = Len(store) - 0
          /\ Len(store) < max_retained_evidence
          /\ \A n \in 1..Len(store) : store[n] = store[n + 0]
      BY <1>1, <2>2
    <3> HIDE DEF room
    <3>3. QED
      BY <3>1, <3>2
  <2>3. QED
    BY <2>1, <2>2
<1>3. Admitted(r, b) = Append(room, rec)
  BY DEF Admitted, RecordOf
<1> HIDE DEF room, rec
<1>4. Len(room) \in Nat
  BY <1>2, LenProperties
<1> DEFINE new == Append(room, rec)
<1>5. /\ new \in Seq(Evidence) /\ Len(new) = Len(room) + 1
      /\ \A n \in 1..Len(room) : new[n] = room[n]
      /\ new[Len(room) + 1] = rec
  BY <1>2, AppendProperties DEF rec
<1> HIDE DEF new
<1>6. DOMAIN new = 1..Len(new)
  BY <1>5, LenProperties
<1>7. Len(new) \in Nat /\ Len(new) <= max_retained_evidence /\ Len(new) - 1 = Len(room)
  BY <1>1, <1>2, <1>4, <1>5
<1>8. ASSUME NEW n \in 1..(Len(new) - 1)
      PROVE  n + cut \in DOMAIN store /\ new[n] = store[n + cut]
  <2>1. n \in 1..Len(room)
    BY <1>7
  <2>2. n + cut \in 1..Len(store)
    BY <1>1, <1>2, <1>4, <2>1
  <2>3. QED
    BY <1>1, <1>2, <1>5, <2>1, <2>2
<1>9. new[Len(new)] = rec
  BY <1>5
<1>10. Appended(new, rec, cut)
  BY <1>5, <1>6, <1>7, <1>8, <1>9 DEF Appended
<1>11. QED
  BY <1>3, <1>10 DEF new, rec

\* A record of a source that is admitted: live ones lie beyond what was fenced.
LEMMA StoreAppends ==
  ASSUME StoreOK(store, fences, heard), FencesOK(fences, heard),
         NEW g, NEW i, FencesOK(g, i), Advances(fences, heard, g, i),
         NEW r, NEW b \in BOOLEAN, RecordOf(r, b) \in Evidence,
         ~b => /\ Fenced(RecordOf(r, b), g, i)
               /\ \A n \in DOMAIN store :
                    ~store[n].recovered /\ store[n].source = r.source =>
                      ~(store[n].gen = r.gen /\ store[n].seq = r.seq)
  PROVE  StoreOK(Admitted(r, b), g, i)
<1> DEFINE new == Admitted(r, b)
           rec == RecordOf(r, b)
<1>1. PICK cut \in Nat : Appended(new, rec, cut)
  BY AdmittedAppends DEF StoreOK
<1>2. StoreOK(store, g, i)
  BY StoreKept
<1>3. /\ rec.recovered = b /\ rec.source = r.source /\ rec.gen = r.gen /\ rec.seq = r.seq
  BY DEF RecordOf
<1> HIDE DEF new, rec
<1>4. /\ new \in Seq(Evidence) /\ Len(new) \in Nat /\ DOMAIN new = 1..Len(new)
      /\ Len(new) <= max_retained_evidence
      /\ \A n \in 1..(Len(new) - 1) : n + cut \in DOMAIN store /\ new[n] = store[n + cut]
      /\ new[Len(new)] = rec
  BY <1>1 DEF Appended
<1>5. ASSUME NEW n \in DOMAIN new, ~new[n].recovered PROVE Fenced(new[n], g, i)
  <2>1. CASE n = Len(new)
    BY <1>3, <1>4, <1>5, <2>1 DEF rec
  <2>2. CASE n # Len(new)
    <3>1. n \in 1..(Len(new) - 1)
      BY <1>4, <2>2
    <3>2. n + cut \in DOMAIN store /\ new[n] = store[n + cut]
      BY <1>4, <3>1
    <3>3. QED
      BY <1>2, <1>5, <3>2 DEF StoreOK
  <2>3. QED
    BY <2>1, <2>2
<1>6. ASSUME NEW m \in DOMAIN new, NEW n \in DOMAIN new,
             ~new[m].recovered, ~new[n].recovered, new[m].source = new[n].source,
             new[m].gen = new[n].gen, new[m].seq = new[n].seq, n # Len(new)
      PROVE  m = n
  <2>1. n \in 1..(Len(new) - 1) /\ n \in Nat /\ m \in Nat
    BY <1>4, <1>6
  <2>2. n + cut \in DOMAIN store /\ new[n] = store[n + cut]
    BY <1>4, <2>1
  <2>3. m # Len(new)
    BY <1>3, <1>4, <1>6, <2>2
  <2>4. m \in 1..(Len(new) - 1)
    BY <1>4, <2>3
  <2>5. m + cut \in DOMAIN store /\ new[m] = store[m + cut]
    BY <1>4, <2>4
  <2>6. m + cut = n + cut
    BY <1>2, <1>6, <2>2, <2>5 DEF StoreOK, Single
  <2>7. QED
    BY <2>1, <2>6
<1>7. Single(new)
  <2>1. ASSUME NEW m \in DOMAIN new, NEW n \in DOMAIN new,
             ~new[m].recovered, ~new[n].recovered, new[m].source = new[n].source,
             new[m].gen = new[n].gen, new[m].seq = new[n].seq
        PROVE  m = n
    <3>1. CASE n # Len(new)
      BY <1>6, <2>1, <3>1
    <3>2. CASE m # Len(new)
      BY <1>6, <2>1, <3>2
    <3>3. QED
      BY <3>1, <3>2
  <2>2. QED
    BY <2>1 DEF Single
<1>8. QED
  BY <1>4, <1>5, <1>7 DEF StoreOK, new

\* What a sweep leaves.
LEMMA StorePicked ==
  ASSUME StoreOK(store, fences, heard), NEW s, Picks(s, DOMAIN store)
  PROVE  StoreOK(s, fences, heard)
<1>1. PICK size \in Nat :
        /\ size <= Len(store)
        /\ \E index \in [1..size -> DOMAIN store] :
             /\ s = [n \in 1..size |-> store[index[n]]]
             /\ \A m, n \in 1..size : index[m] = index[n] => m = n
  BY DEF Picks
<1>2. PICK index \in [1..size -> DOMAIN store] :
        /\ s = [n \in 1..size |-> store[index[n]]]
        /\ \A m, n \in 1..size : index[m] = index[n] => m = n
  BY <1>1
<1>3. DOMAIN s = 1..size /\ \A n \in 1..size : index[n] \in DOMAIN store /\ s[n] = store[index[n]]
  BY <1>2
<1>4. Sample(s, DOMAIN store)
  BY PicksProperties, Zenon DEF StoreOK
<1>5. s \in Seq(Evidence) /\ Len(s) <= max_retained_evidence
  BY <1>4, StoreRecords, RuntimeAssumption DEF Sample, StoreOK
<1>6. \A n \in DOMAIN s : ~s[n].recovered => Fenced(s[n], fences, heard)
  BY <1>3 DEF StoreOK
<1>7. Single(s)
  BY <1>2, <1>3 DEF StoreOK, Single
<1>8. QED
  BY <1>5, <1>6, <1>7 DEF StoreOK

-----------------------------------------------------------------------------
(***************************************************************************)
(* The steps.  Moves is what all of them have in common: one thread goes   *)
(* on to job j, every part is left in order and the registry moves         *)
(* forward.                                                                *)
(***************************************************************************)
LEMMA Moves ==
  ASSUME IndInv, topology' \in Gens, graph' \in Graph,
         StoreOK(store', fences', heard'), FencesOK(fences', heard'), heard \subseteq heard',
         RegistryOK(episodes', dropped'), Forward(episodes, dropped, episodes', dropped'),
         disk' = None \/ SnapshotOK(disk'),
         NEW t, NEW j, job' = [job EXCEPT ![t] = j], JobOK(j, heard', episodes', dropped')
  PROVE  IndInv'
<1>1. JobsOK(job', heard', episodes', dropped')
  BY JobsStep DEF IndInv
<1>2. QED
  BY <1>1 DEF IndInv

\* A step of one thread that changes nothing but its local variables.
LEMMA MovesAlone ==
  ASSUME IndInv, UNCHANGED State,
         NEW t, NEW j, job' = [job EXCEPT ![t] = j], JobOK(j, heard, episodes, dropped)
  PROVE  IndInv'
<1>1. UNCHANGED <<topology, graph, store, fences, episodes, dropped, disk, heard>>
  BY DEF State
<1>2. Forward(episodes, dropped, episodes, dropped)
  BY ForwardSame DEF IndInv
<1>3. JobsOK(job', heard, episodes, dropped)
  BY <1>2, JobsStep DEF IndInv
<1>4. QED
  BY <1>1, <1>3 DEF IndInv

LEMMA ThreadJob ==
  ASSUME IndInv, NEW t \in Threads
  PROVE  JobOK(job[t], heard, episodes, dropped)
BY DEF IndInv, JobsOK

-----------------------------------------------------------------------------
(***************************************************************************)
(* Collectors.                                                             *)
(***************************************************************************)
LEMMA IngestKeeps ==
  ASSUME IndInv, NEW t, NEW r \in Feed, ingest(t, r)
  PROVE  IndInv'
<1> DEFINE j == [pc |-> "admit", gen |-> topology, record |-> r]
<1>1. job' = [job EXCEPT ![t] = j] /\ UNCHANGED State
  BY DEF ingest, Goto
<1>2. JobOK(j, heard, episodes, dropped)
  <2>1. topology \in Gens
    BY DEF IndInv
  <2>2. QED
    BY <2>1 DEF JobOK, AdmitOK, QueryOK, ObserveOK, WalkOK, PublishOK, SaveOK, LoadOK
<1> HIDE DEF j
<1>3. QED
  BY <1>1, <1>2, MovesAlone

\* A step that ends an operation.
LEMMA EndKeeps ==
  ASSUME IndInv, UNCHANGED State, NEW t, Done(t)
  PROVE  IndInv'
<1>1. job' = [job EXCEPT ![t] = Idle]
  BY DEF Done, Goto
<1>2. JobOK(Idle, heard, episodes, dropped)
  BY QuietJob DEF Idle
<1>3. QED
  BY <1>1, <1>2, MovesAlone

LEMMA FeedRecord ==
  ASSUME NEW r \in Feed
  PROVE  /\ r.source \in Sources /\ r.gen \in Nat /\ r.seq \in Nat
         /\ \A b \in BOOLEAN : RecordOf(r, b) \in Evidence
BY RuntimeAssumption DEF RecordOf, Evidence

LEMMA SourceKnown ==
  ASSUME FencesOK(fences, heard), NEW x
  PROVE  OneBoot(SourceOf(x)) /\ (SourceOf(x).live => x \in heard)
<1>1. OneBoot(NewSource) /\ ~NewSource.live
  BY DEF OneBoot, NewSource, SourceFenceState, FenceVector, ZeroFence
<1>2. QED
  BY <1>1 DEF SourceOf, FencesOK

LEMMA AcceptedSource ==
  ASSUME NEW s \in SourceFenceState, NEW v \in FenceVector
  PROVE  LET a == [s EXCEPT !.last = v, !.has_state = TRUE, !.live = TRUE]
         IN  a \in SourceFenceState /\ a.last = v /\ a.has_state /\ a.live
BY DEF SourceFenceState

\* Entering a source without a new vector.
LEMMA SourceEntered ==
  ASSUME FencesOK(fences, heard), NEW x \in Sources, ~SourceRefused(x)
  PROVE  /\ FencesOK(Put(fences, x, SourceOf(x)), heard)
         /\ Advances(fences, heard, Put(fences, x, SourceOf(x)), heard)
<1>1. OneBoot(SourceOf(x)) /\ (SourceOf(x).live => x \in heard)
  BY SourceKnown
<1>2. x \in DOMAIN fences \/ ~(Cardinality(DOMAIN fences) >= max_sources)
  BY DEF SourceRefused
<1>3. FencesOK(Put(fences, x, SourceOf(x)), heard)
  BY <1>1, <1>2, PutFence
<1>4. \A s \in DOMAIN fences : /\ s \in DOMAIN Put(fences, x, SourceOf(x))
                               /\ Put(fences, x, SourceOf(x))[s] = fences[s]
  BY DEF Put, SourceOf
<1>5. QED
  BY <1>3, <1>4 DEF Advances

\* The vector of an accepted record advances the fence of its source.
LEMMA FenceAdvances ==
  ASSUME StoreOK(store, fences, heard), FencesOK(fences, heard), NEW r \in Feed,
         ~SourceRefused(r.source),
         fence_accepted(evaluate_fence(FenceOf(r), 0, 0, SourceOf(r.source)))
  PROVE  LET v == [SourceOf(r.source) EXCEPT !.last = FenceOf(r), !.has_state = TRUE,
                                             !.live = TRUE]
             g == Put(fences, r.source, v)
             i == heard \cup {r.source}
         IN  /\ FencesOK(g, i) /\ Advances(fences, heard, g, i)
             /\ Fenced(RecordOf(r, FALSE), g, i)
             /\ \A n \in DOMAIN store :
                  ~store[n].recovered /\ store[n].source = r.source =>
                    ~(store[n].gen = r.gen /\ store[n].seq = r.seq)
<1> DEFINE x == r.source
           s == SourceOf(x)
           v == [s EXCEPT !.last = FenceOf(r), !.has_state = TRUE, !.live = TRUE]
           g == Put(fences, x, v)
           i == heard \cup {x}
<1>1. x \in Sources /\ r.gen \in Nat /\ r.seq \in Nat
  BY FeedRecord
<1>2. /\ FenceOf(r) \in FenceVector /\ FenceOf(r).boot = 1 /\ FenceOf(r).incarnation = 1
      /\ FenceOf(r).epoch = 0 /\ FenceOf(r).revision = 0
      /\ FenceOf(r).generation = r.gen /\ FenceOf(r).sequence = r.seq
  BY <1>1, FenceOfRecord
<1>3. OneBoot(s)
  BY SourceKnown
<1>4. v \in SourceFenceState /\ v.last = FenceOf(r) /\ v.has_state /\ v.live
  <2>1. s \in SourceFenceState
    BY <1>3 DEF OneBoot
  <2> HIDE DEF s
  <2> QED BY <1>2, <2>1, AcceptedSource
<1> HIDE DEF v
<1>5. OneBoot(v)
  BY <1>2, <1>4 DEF OneBoot
<1>6. FencesOK(g, i)
  <2>1. x \in DOMAIN fences \/ ~(Cardinality(DOMAIN fences) >= max_sources)
    BY DEF SourceRefused
  <2>2. heard \subseteq i /\ x \in i
    OBVIOUS
  <2> HIDE DEF i, x
  <2> QED BY <1>1, <1>5, <2>1, <2>2, PutFence
<1>7. /\ DOMAIN g = DOMAIN fences \cup {x} /\ g[x] = v
      /\ \A y \in DOMAIN fences : y # x => g[y] = fences[y]
  BY DEF Put
<1> HIDE DEF g
<1>8. ASSUME x \in DOMAIN fences, fences[x].has_state
      PROVE  Behind(fences[x].last.generation, fences[x].last.sequence, FenceOf(r))
  <2>1. s = fences[x]
    BY <1>8 DEF SourceOf
  <2> HIDE DEF s
  <2>2. fence_accepted(evaluate_fence(FenceOf(r), 0, 0, s))
    BY DEF s
  <2>3. QED
    BY <1>1, <1>3, <1>8, <2>1, <2>2, AcceptedAhead
<1>9. Advances(fences, heard, g, i)
  BY <1>4, <1>7, <1>8 DEF Advances
<1>10. Fenced(RecordOf(r, FALSE), g, i)
  <2>1. RecordOf(r, FALSE).source = x /\ RecordOf(r, FALSE).gen = r.gen
        /\ RecordOf(r, FALSE).seq = r.seq
    BY DEF RecordOf
  <2>2. r.gen = g[x].last.generation /\ r.seq <= g[x].last.sequence /\ g[x].has_state
    BY <1>1, <1>2, <1>4, <1>7
  <2>3. QED
    BY <1>7, <2>1, <2>2 DEF Fenced
<1>11. ASSUME NEW n \in DOMAIN store, ~store[n].recovered, store[n].source = x,
              store[n].gen = r.gen, store[n].seq = r.seq
       PROVE  FALSE
  <2>1. Fenced(store[n], fences, heard)
    BY <1>11 DEF StoreOK
  <2>2. x \in DOMAIN fences /\ fences[x].has_state
    BY <1>11, <2>1 DEF Fenced
  <2>3. \/ r.gen < fences[x].last.generation
        \/ r.gen = fences[x].last.generation /\ r.seq <= fences[x].last.sequence
    BY <1>11, <2>1 DEF Fenced
  <2>4. \/ fences[x].last.generation < r.gen
        \/ fences[x].last.generation = r.gen /\ fences[x].last.sequence < r.seq
    BY <1>2, <1>8, <2>2 DEF Behind
  <2>5. fences[x].last.generation \in Nat /\ fences[x].last.sequence \in Nat
    BY <2>2 DEF FencesOK, OneBoot, SourceFenceState, FenceVector
  <2> HIDE DEF x
  <2>6. QED
    BY <1>1, <2>3, <2>4, <2>5
<1>12. QED
  BY <1>6, <1>9, <1>10, <1>11 DEF g, v

LEMMA StoreIngestKeeps ==
  ASSUME IndInv, NEW t \in Threads, StoreIngest(t)
  PROVE  IndInv'
<1> DEFINE r == job[t].record
           x == r.source
           s == SourceOf(x)
           v == [s EXCEPT !.last = FenceOf(r), !.has_state = TRUE, !.live = TRUE]
           accepted == fence_accepted(evaluate_fence(FenceOf(r), 0, 0, s))
<1>1. /\ StoreOK(store, fences, heard) /\ FencesOK(fences, heard)
      /\ RegistryOK(episodes, dropped) /\ topology \in Gens /\ graph \in Graph
      /\ disk = None \/ SnapshotOK(disk)
  BY DEF IndInv
<1>2. r \in Feed
  BY ThreadJob DEF StoreIngest, At, JobOK, AdmitOK
<1>3. /\ UNCHANGED <<topology, graph, episodes, dropped, disk>>
      /\ job' = [job EXCEPT ![t] = Idle]
      /\ ~SourceRefused(x)
  BY DEF StoreIngest, Done, Goto, Screened
<1>4. x \in Sources /\ RecordOf(r, FALSE) \in Evidence
  BY <1>2, FeedRecord
<1>5. /\ StoreOK(store', fences', heard') /\ FencesOK(fences', heard') /\ heard \subseteq heard'
  <2>1. CASE accepted
    <3>1. /\ store' = Admitted(r, FALSE) /\ fences' = Put(fences, x, v)
          /\ heard' = heard \cup {x}
      BY <2>1 DEF StoreIngest
    <3> DEFINE g == Put(fences, x, v)
               i == heard \cup {x}
    <3>2. /\ FencesOK(g, i) /\ Advances(fences, heard, g, i)
          /\ Fenced(RecordOf(r, FALSE), g, i)
          /\ \A n \in DOMAIN store :
                  ~store[n].recovered /\ store[n].source = r.source =>
                    ~(store[n].gen = r.gen /\ store[n].seq = r.seq)
      BY <1>1, <1>2, <1>3, <2>1, FenceAdvances
    <3> HIDE DEF r, g, i
    <3>3. StoreOK(Admitted(r, FALSE), g, i)
      BY <1>1, <1>4, <3>2, StoreAppends
    <3>4. QED
      BY <3>1, <3>2, <3>3 DEF g, i
  <2>2. CASE ~accepted
    <3>1. store' = store /\ fences' = Put(fences, x, s) /\ heard' = heard
      BY <2>2 DEF StoreIngest
    <3>2. FencesOK(Put(fences, x, s), heard) /\ Advances(fences, heard, Put(fences, x, s), heard)
      BY <1>1, <1>3, <1>4, SourceEntered
    <3>3. StoreOK(store, Put(fences, x, s), heard)
      BY <1>1, <3>2, StoreKept
    <3>4. QED
      BY <3>1, <3>2, <3>3
  <2>3. QED
    BY <2>1, <2>2
<1>6. JobOK(Idle, heard', episodes', dropped')
  BY QuietJob DEF Idle
<1>7. Forward(episodes, dropped, episodes, dropped)
  BY <1>1, ForwardSame
<1>8. /\ RegistryOK(episodes', dropped') /\ Forward(episodes, dropped, episodes', dropped')
      /\ topology' \in Gens /\ graph' \in Graph /\ (disk' = None \/ SnapshotOK(disk'))
  BY <1>1, <1>3, <1>7
<1>9. QED
  BY <1>3, <1>5, <1>6, <1>8, Moves

LEMMA CollectorKeeps ==
  ASSUME IndInv, NEW t \in Threads, Collector(t)
  PROVE  IndInv'
<1>1. CASE \E r \in Feed : ingest(t, r)
  BY <1>1, IngestKeeps
<1>2. CASE StoreRefuses(t)
  BY <1>2, EndKeeps DEF StoreRefuses
<1>3. CASE StoreIngest(t)
  BY <1>3, StoreIngestKeeps
<1>4. QED
  BY <1>1, <1>2, <1>3 DEF Collector

-----------------------------------------------------------------------------
(***************************************************************************)
(* Analysts.                                                               *)
(***************************************************************************)
LEMMA ClassifyKeeps ==
  ASSUME IndInv, NEW t, NEW subject, NEW now, NEW goal \in {"observe", "candidates"},
         Classify(t, subject, now, goal)
  PROVE  IndInv'
<1> DEFINE j == [pc |-> "query", gen |-> topology, subject |-> subject, now |-> now,
                 goal |-> goal]
<1>1. job' = [job EXCEPT ![t] = j] /\ UNCHANGED State /\ subject \in Known[topology]
  BY DEF Classify, Goto
<1>2. JobOK(j, heard, episodes, dropped)
  <2>1. topology \in Gens
    BY DEF IndInv
  <2>2. QED
    BY <1>1, <2>1 DEF JobOK, AdmitOK, QueryOK, ObserveOK, WalkOK, PublishOK, SaveOK, LoadOK
<1> HIDE DEF j
<1>3. QED
  BY <1>1, <1>2, MovesAlone

LEMMA WindowRecordsKeeps ==
  ASSUME IndInv, NEW t \in Threads, WindowRecords(t)
  PROVE  IndInv'
<1> DEFINE j == job[t]
           matching == {r \in ToSet(store) : r.subject = j.subject /\ InWindow(r, j.now)}
           records == Query(matching, max_window_records)
           cites == Cited(records, j.gen)
           n == IF j.goal = "candidates" /\ cites = {} THEN Idle
                ELSE [pc |-> j.goal, gen |-> j.gen, subject |-> j.subject, now |-> j.now,
                      cites |-> cites]
<1>1. job' = [job EXCEPT ![t] = n] /\ UNCHANGED State
  BY DEF WindowRecords, Goto
<1>2. /\ j.gen \in Gens /\ j.subject \in Known[j.gen]
      /\ j.goal \in {"observe", "candidates"}
  BY ThreadJob DEF WindowRecords, At, JobOK, QueryOK
<1>3. StoreOK(store, fences, heard)
  BY DEF IndInv
<1>4. /\ ToSet(records) \subseteq Evidence
      /\ \A r \in ToSet(records) : r \in matching /\ \E i \in DOMAIN store : r = store[i]
  <2> HIDE DEF matching
  <2> QED BY <1>3, QueryProperties DEF StoreOK
<1>5. \A r \in matching : r.subject = j.subject
  OBVIOUS
<1> HIDE DEF matching, records
<1>6. ASSUME NEW r \in cites
      PROVE  /\ r \in Evidence /\ ~r.recovered /\ r.gen = j.gen /\ r.subject = j.subject
             /\ r.source \in heard
  <2>1. r \in ToSet(records) /\ ~r.recovered /\ r.gen = j.gen
    BY DEF Cited, Deciding
  <2>2. PICK i \in DOMAIN store : r = store[i]
    BY <1>4, <2>1
  <2>3. r.source \in heard
    BY <1>3, <2>1, <2>2 DEF StoreOK, Fenced
  <2>4. QED
    BY <1>4, <1>5, <2>1, <2>3
<1> HIDE DEF cites
<1>7. CitesOK(cites, j.subject, j.gen) /\ \A r \in cites : r.source \in heard
  BY <1>2, <1>6 DEF CitesOK
<1>8. JobOK(n, heard, episodes, dropped)
  <2>1. CASE j.goal = "candidates" /\ cites = {}
    <3>1. n.pc = "idle"
      BY <2>1 DEF Idle
    <3> HIDE DEF n
    <3>2. QED
      BY <3>1, QuietJob
  <2>2. CASE j.goal = "candidates" /\ cites # {}
    <3>1. n.pc = "candidates"
      BY <2>2
    <3> HIDE DEF n
    <3>2. QED
      BY <3>1, QuietJob
  <2>3. CASE j.goal = "observe"
    <3>1. /\ n.pc = "observe" /\ n.gen = j.gen /\ n.subject = j.subject /\ n.cites = cites
      BY <2>3
    <3> HIDE DEF n
    <3>2. QED
      BY <1>2, <1>7, <3>1 DEF JobOK, AdmitOK, QueryOK, ObserveOK, WalkOK, PublishOK, SaveOK, LoadOK
  <2>4. QED
    BY <1>2, <2>1, <2>2, <2>3
<1> HIDE DEF n
<1>9. QED
  BY <1>1, <1>8, MovesAlone

\* A step of the registry that ends an operation.
LEMMA RegistryStep ==
  ASSUME IndInv, UNCHANGED <<topology, graph, store, fences, disk, heard>>,
         RegistryOK(episodes', dropped'), Forward(episodes, dropped, episodes', dropped'),
         NEW t, NEW j, job' = [job EXCEPT ![t] = j], JobOK(j, heard, episodes', dropped')
  PROVE  IndInv'
<1>1. JobsOK(job', heard, episodes', dropped')
  BY JobsStep DEF IndInv
<1>2. QED
  BY <1>1 DEF IndInv

\* A change of state raises the revision and keeps what is cited.
LEMMA ChangedState ==
  ASSUME NEW e \in Episode, NEW st \in {"open", "quiescent", "closed"}
  PROVE  LET f == [e EXCEPT !.state = st, !.revision = @ + 1]
         IN  f \in Episode /\ f.cites = e.cites /\ f.revision >= e.revision
<1> DEFINE f == [e EXCEPT !.state = st, !.revision = @ + 1]
<1>1. e.revision \in Nat
  BY DEF Episode
<1>2. e.revision + 1 \in Nat \ {0}
  BY <1>1
<1>3. f.cites = e.cites /\ f.revision = e.revision + 1
  BY DEF Episode
<1>4. f \in Episode
  BY <1>2 DEF Episode
<1> HIDE DEF f
<1>5. f.revision >= e.revision
  BY <1>1, <1>3
<1>6. QED
  BY <1>3, <1>4, <1>5 DEF f

LEMMA ObserveQuietKeeps ==
  ASSUME IndInv, NEW t, ObserveQuiet(t)
  PROVE  IndInv'
<1> DEFINE open == {k \in DOMAIN episodes : k[1] = job[t].subject /\ episodes[k].state = "open"}
<1>1. /\ UNCHANGED <<topology, graph, store, fences, dropped, disk, heard>>
      /\ job' = [job EXCEPT ![t] = Idle]
      /\ episodes' = [k \in DOMAIN episodes |->
                        IF k \in open
                        THEN [episodes[k] EXCEPT !.state = "quiescent", !.revision = @ + 1]
                        ELSE episodes[k]]
  BY DEF ObserveQuiet, Done, Goto
<1> HIDE DEF open
<1>2. RegistryOK(episodes, dropped)
  BY DEF IndInv
<1>3. DOMAIN episodes' = DOMAIN episodes /\ episodes' = [k \in DOMAIN episodes' |-> episodes'[k]]
  BY <1>1
<1>4. ASSUME NEW k \in DOMAIN episodes
      PROVE  /\ episodes'[k] \in Episode /\ episodes'[k].cites = episodes[k].cites
             /\ episodes'[k].revision >= episodes[k].revision
  <2>1. episodes[k] \in Episode /\ episodes[k].revision \in Nat
    BY <1>2, EpisodeRevision DEF RegistryOK
  <2>2. CASE k \in open
    <3>1. episodes'[k] = [episodes[k] EXCEPT !.state = "quiescent", !.revision = @ + 1]
      BY <1>1, <2>2
    <3>2. QED
      BY <2>1, <3>1, ChangedState
  <2>3. CASE k \notin open
    <3>1. episodes'[k] = episodes[k]
      BY <1>1, <2>3
    <3>2. QED
      BY <2>1, <3>1
  <2>4. QED
    BY <2>2, <2>3
<1>5. RegistryOK(episodes', dropped) /\ Forward(episodes, dropped, episodes', dropped)
  BY <1>2, <1>3, <1>4, ChangedEpisodes
<1>6. JobOK(Idle, heard, episodes', dropped')
  BY QuietJob DEF Idle
<1>7. QED
  BY <1>1, <1>5, <1>6, RegistryStep

LEMMA ObserveAssertedKeeps ==
  ASSUME IndInv, NEW t \in Threads, ObserveAsserted(t)
  PROVE  IndInv'
<1> DEFINE j == job[t]
           k == EpisodeKey(j)
           known == k \in DOMAIN episodes
           e == [state |-> "open", cites |-> j.cites,
                 revision |-> IF known THEN episodes[k].revision + 1 ELSE 1]
<1>1. /\ UNCHANGED <<topology, graph, store, fences, disk, heard>>
      /\ job' = [job EXCEPT ![t] = Idle]
      /\ j.pc = "observe"
      /\ \/ /\ known \/ ~Full
            /\ episodes' = Put(episodes, k, e)
            /\ UNCHANGED dropped
         \/ /\ ~known /\ Full
            /\ \E victim \in Closed :
                 episodes' = Put([x \in DOMAIN episodes \ {victim} |-> episodes[x]], k, e)
            /\ dropped' = dropped + 1
         \/ /\ UNCHANGED episodes
            /\ dropped' = dropped + 1
  BY DEF ObserveAsserted, Done, Goto, At
<1>2. RegistryOK(episodes, dropped) /\ dropped \in Nat /\ dropped + 1 \in Nat
      /\ max_episodes \in Nat /\ Cardinality(DOMAIN episodes) \in Nat
  BY RuntimeAssumption, FS_CardinalityType DEF IndInv, RegistryOK
<1>3. j.gen \in Gens /\ CitesOK(j.cites, j.subject, j.gen)
  BY <1>1, ThreadJob DEF JobOK, ObserveOK
<1>4. known => episodes[k].revision \in Nat
  BY <1>2, EpisodeRevision DEF RegistryOK
<1>5. Grounded(k, e)
  <2>1. j.subject \in Subjects
    BY <1>3, RuntimeAssumption DEF CitesOK
  <2>2. k \in Keys /\ k[1] = j.subject /\ k[2] = j.gen
    BY <1>3, <2>1 DEF EpisodeKey, Keys
  <2>3. j.cites \in SUBSET Evidence
    BY <1>3 DEF CitesOK
  <2>4. e \in Episode
    BY <1>4, <2>3 DEF Episode
  <2>5. \A r \in j.cites : r.gen = j.gen /\ r.subject = j.subject /\ r.subject \in Known[r.gen]
    BY <1>3 DEF CitesOK
  <2>6. e.cites = j.cites
    OBVIOUS
  <2> HIDE DEF e, k
  <2>7. QED
    BY <2>2, <2>4, <2>5, <2>6 DEF Grounded
<1>6. known => e.revision >= episodes[k].revision
  BY <1>4
<1> HIDE DEF e, k, j
<1>7. RegistryOK(episodes', dropped') /\ Forward(episodes, dropped, episodes', dropped')
  <2>1. CASE (known \/ ~Full) /\ episodes' = Put(episodes, k, e) /\ UNCHANGED dropped
    <3>1. k \in DOMAIN episodes \/ Cardinality(DOMAIN episodes) < max_episodes
      BY <1>2, <2>1 DEF Full
    <3>2. RegistryOK(Put(episodes, k, e), dropped)
      BY <1>2, <1>5, <3>1, PutEpisode
    <3>3. Forward(episodes, dropped, Put(episodes, k, e), dropped)
      BY <1>2, <1>6, PutForward
    <3>4. QED
      BY <2>1, <3>2, <3>3
  <2>2. CASE /\ \E victim \in Closed :
                 episodes' = Put([x \in DOMAIN episodes \ {victim} |-> episodes[x]], k, e)
             /\ dropped' = dropped + 1
    <3>1. PICK victim \in Closed :
            episodes' = Put([x \in DOMAIN episodes \ {victim} |-> episodes[x]], k, e)
      BY <2>2
    <3> DEFINE f == [x \in DOMAIN episodes \ {victim} |-> episodes[x]]
    <3>2. victim \in DOMAIN episodes
      BY DEF Closed
    <3>3. RegistryOK(f, dropped + 1) /\ Cardinality(DOMAIN f) < max_episodes
      BY <1>2, <3>2, RemovedEpisode
    <3> HIDE DEF f
    <3>4. RegistryOK(Put(f, k, e), dropped + 1)
      BY <1>5, <3>3, PutEpisode
    <3>5. dropped' > dropped
      BY <1>2, <2>2
    <3>6. QED
      BY <2>2, <3>1, <3>4, <3>5 DEF Forward, f
  <2>3. CASE UNCHANGED episodes /\ dropped' = dropped + 1
    BY <1>2, <2>3 DEF RegistryOK, Forward
  <2>4. QED
    BY <1>1, <2>1, <2>2, <2>3
<1>8. JobOK(Idle, heard, episodes', dropped')
  BY QuietJob DEF Idle
<1>9. QED
  BY <1>1, <1>7, <1>8, RegistryStep

LEMMA LocalizeReadKeeps ==
  ASSUME IndInv, NEW t, LocalizeRead(t)
  PROVE  IndInv'
<1> DEFINE j == [pc |-> "walk", gen |-> job[t].gen, graph |-> graph.gen, torn |-> FALSE]
<1>1. job' = [job EXCEPT ![t] = j] /\ UNCHANGED State
  BY DEF LocalizeRead, Goto
<1>2. j.pc = "walk" /\ "pc" \in DOMAIN j
  OBVIOUS
<1> HIDE DEF j
<1>3. JobOK(j, heard, episodes, dropped)
  BY <1>2 DEF JobOK, AdmitOK, QueryOK, ObserveOK, WalkOK, PublishOK, SaveOK, LoadOK
<1>4. QED
  BY <1>1, <1>3, MovesAlone

LEMMA AnalystKeeps ==
  ASSUME IndInv, NEW t \in Threads, Analyst(t)
  PROVE  IndInv'
<1>1. CASE \E s \in Subjects, now \in Times : evaluate(t, s, now) \/ localize(t, s, now)
  BY <1>1, ClassifyKeeps DEF evaluate, localize
<1>2. CASE WindowRecords(t)
  BY <1>2, WindowRecordsKeeps
<1>3. CASE ObserveQuiet(t)
  BY <1>3, ObserveQuietKeeps
<1>4. CASE ObserveAsserted(t)
  BY <1>4, ObserveAssertedKeeps
<1>5. CASE LocalizeRead(t)
  BY <1>5, LocalizeReadKeeps
<1>6. CASE LocalizeEnd(t)
  BY <1>6, EndKeeps DEF LocalizeEnd
<1>7. QED
  BY <1>1, <1>2, <1>3, <1>4, <1>5, <1>6 DEF Analyst

-----------------------------------------------------------------------------
(***************************************************************************)
(* Keepers.                                                                *)
(***************************************************************************)
LEMMA SaveKeeps ==
  ASSUME IndInv, NEW t, save(t)
  PROVE  IndInv'
<1> DEFINE j == [pc |-> "save_episodes", topology |-> topology]
<1>1. job' = [job EXCEPT ![t] = j] /\ UNCHANGED State
  BY DEF save, Goto
<1>2. JobOK(j, heard, episodes, dropped)
  <2>1. topology \in Gens
    BY DEF IndInv
  <2>2. QED
    BY <2>1 DEF JobOK, AdmitOK, QueryOK, ObserveOK, WalkOK, PublishOK, SaveOK, LoadOK
<1> HIDE DEF j
<1>3. QED
  BY <1>1, <1>2, MovesAlone

LEMMA SaveEpisodesKeeps ==
  ASSUME IndInv, NEW t \in Threads, SaveEpisodes(t)
  PROVE  IndInv'
<1> DEFINE j == [pc |-> "save_evidence", topology |-> job[t].topology, episodes |-> episodes]
<1>1. job' = [job EXCEPT ![t] = j] /\ UNCHANGED State
  BY DEF SaveEpisodes, Goto
<1>2. JobOK(j, heard, episodes, dropped)
  <2>1. job[t].topology \in Gens
    BY ThreadJob DEF SaveEpisodes, At, JobOK, SaveOK
  <2>2. EpisodesOK(episodes)
    BY DEF IndInv, RegistryOK
  <2>3. j.pc = "save_evidence" /\ j.topology = job[t].topology /\ j.episodes = episodes
    OBVIOUS
  <2> HIDE DEF j
  <2>4. QED
    BY <2>1, <2>2, <2>3 DEF JobOK, AdmitOK, QueryOK, ObserveOK, WalkOK, PublishOK, SaveOK, LoadOK
<1> HIDE DEF j
<1>3. QED
  BY <1>1, <1>2, MovesAlone

LEMMA SaveEvidenceKeeps ==
  ASSUME IndInv, NEW t \in Threads, SaveEvidence(t)
  PROVE  IndInv'
<1> DEFINE evidence == Query(ToSet(store), max_snapshot_evidence)
           j == [pc |-> "save_file", topology |-> job[t].topology,
                 episodes |-> job[t].episodes, evidence |-> evidence]
<1>1. job' = [job EXCEPT ![t] = j] /\ UNCHANGED State
  BY DEF SaveEvidence, Goto
<1>2. evidence \in Seq(Evidence)
  BY QueryProperties DEF IndInv, StoreOK
<1> HIDE DEF evidence
<1>3. JobOK(j, heard, episodes, dropped)
  <2>1. job[t].topology \in Gens /\ EpisodesOK(job[t].episodes)
    BY ThreadJob DEF SaveEvidence, At, JobOK, SaveOK
  <2>2. /\ j.pc = "save_file" /\ j.topology = job[t].topology /\ j.episodes = job[t].episodes
        /\ j.evidence = evidence
    OBVIOUS
  <2> HIDE DEF j
  <2>3. QED
    BY <1>2, <2>1, <2>2
       DEF JobOK, AdmitOK, QueryOK, ObserveOK, WalkOK, PublishOK, SaveOK, LoadOK
<1> HIDE DEF j
<1>4. QED
  BY <1>1, <1>3, MovesAlone

LEMMA SaveFileKeeps ==
  ASSUME IndInv, NEW t \in Threads, SaveFile(t)
  PROVE  IndInv'
<1> DEFINE j == job[t]
           written == [topology |-> j.topology, episodes |-> j.episodes, evidence |-> j.evidence]
<1>1. /\ UNCHANGED <<topology, graph, store, fences, episodes, dropped, heard>>
      /\ job' = [job EXCEPT ![t] = Idle]
      /\ disk' = written \/ disk' = disk
  BY DEF SaveFile, Done, Goto
<1>2. j.topology \in Gens /\ EpisodesOK(j.episodes) /\ j.evidence \in Seq(Evidence)
  BY ThreadJob DEF SaveFile, At, JobOK, SaveOK
<1>3. /\ written.topology = j.topology /\ written.episodes = j.episodes
      /\ written.evidence = j.evidence
  OBVIOUS
<1> HIDE DEF written, j
<1>4. SnapshotOK(written)
  BY <1>2, <1>3 DEF SnapshotOK
<1>5. disk' = None \/ SnapshotOK(disk')
  BY <1>1, <1>4 DEF IndInv
<1>6. JobOK(Idle, heard, episodes, dropped) /\ Forward(episodes, dropped, episodes, dropped)
  BY QuietJob, ForwardSame DEF Idle, IndInv
<1>7. JobsOK(job', heard, episodes, dropped)
  BY <1>1, <1>6, JobsStep DEF IndInv
<1>8. QED
  BY <1>1, <1>5, <1>7 DEF IndInv

LEMMA AdvancedState ==
  ASSUME NEW e \in Episode
  PROVE  LET f == [e EXCEPT !.revision = @ + 1,
                            !.state = IF @ = "open" THEN "quiescent" ELSE "closed"]
         IN  f \in Episode /\ f.cites = e.cites /\ f.revision >= e.revision
<1> DEFINE f == [e EXCEPT !.revision = @ + 1,
                          !.state = IF @ = "open" THEN "quiescent" ELSE "closed"]
<1>1. e.revision \in Nat
  BY DEF Episode
<1>2. e.revision + 1 \in Nat \ {0}
  BY <1>1
<1>3. f.cites = e.cites /\ f.revision = e.revision + 1
  BY DEF Episode
<1>4. f \in Episode
  BY <1>2 DEF Episode
<1> HIDE DEF f
<1>5. f.revision >= e.revision
  BY <1>1, <1>3
<1>6. QED
  BY <1>3, <1>4, <1>5 DEF f

LEMMA AdvanceKeeps ==
  ASSUME IndInv, NEW t, NEW due, Advance(t, due)
  PROVE  IndInv'
<1> DEFINE j == IF shutting_down THEN Idle ELSE [pc |-> "sweep"]
<1>1. /\ UNCHANGED <<topology, graph, store, fences, dropped, disk, heard>>
      /\ job' = [job EXCEPT ![t] = j]
      /\ episodes' = [k \in DOMAIN episodes |->
                        IF k \in due
                        THEN [episodes[k] EXCEPT
                                !.revision = @ + 1,
                                !.state = IF @ = "open" THEN "quiescent" ELSE "closed"]
                        ELSE episodes[k]]
  BY DEF Advance, Goto
<1>2. RegistryOK(episodes, dropped)
  BY DEF IndInv
<1>3. DOMAIN episodes' = DOMAIN episodes /\ episodes' = [k \in DOMAIN episodes' |-> episodes'[k]]
  BY <1>1
<1>4. ASSUME NEW k \in DOMAIN episodes
      PROVE  /\ episodes'[k] \in Episode /\ episodes'[k].cites = episodes[k].cites
             /\ episodes'[k].revision >= episodes[k].revision
  <2>1. episodes[k] \in Episode /\ episodes[k].revision \in Nat
    BY <1>2, EpisodeRevision DEF RegistryOK
  <2>2. CASE k \in due
    <3>1. episodes'[k] = [episodes[k] EXCEPT
                            !.revision = @ + 1,
                            !.state = IF @ = "open" THEN "quiescent" ELSE "closed"]
      BY <1>1, <2>2
    <3>2. QED
      BY <2>1, <3>1, AdvancedState
  <2>3. CASE k \notin due
    <3>1. episodes'[k] = episodes[k]
      BY <1>1, <2>3
    <3>2. QED
      BY <2>1, <3>1
  <2>4. QED
    BY <2>2, <2>3
<1>5. RegistryOK(episodes', dropped) /\ Forward(episodes, dropped, episodes', dropped)
  BY <1>2, <1>3, <1>4, ChangedEpisodes
<1>6. j.pc \in {"idle", "sweep"}
  BY DEF Idle
<1> HIDE DEF j
<1>7. JobOK(j, heard, episodes', dropped')
  BY <1>6, QuietJob
<1>8. QED
  BY <1>1, <1>5, <1>7, RegistryStep

LEMMA SweepKeeps ==
  ASSUME IndInv, NEW t, NEW horizon, Sweep(t, horizon)
  PROVE  IndInv'
<1>1. /\ UNCHANGED <<topology, graph, fences, episodes, dropped, disk, heard>>
      /\ job' = [job EXCEPT ![t] = Idle]
      /\ \E removed : store' = RemoveIndices(removed)
  BY DEF Sweep, Done, Goto
<1>2. PICK removed : store' = RemoveIndices(removed)
  BY <1>1
<1>3. StoreOK(store, fences, heard)
  BY DEF IndInv
<1>4. Picks(RemoveIndices(removed), DOMAIN store)
  BY <1>3, RemoveIndicesPicks DEF StoreOK
<1>5. StoreOK(RemoveIndices(removed), fences, heard)
  BY <1>3, <1>4, StorePicked
<1>6. JobOK(Idle, heard, episodes, dropped) /\ Forward(episodes, dropped, episodes, dropped)
  BY QuietJob, ForwardSame DEF Idle, IndInv
<1>7. JobsOK(job', heard, episodes, dropped)
  BY <1>1, <1>6, JobsStep DEF IndInv
<1>8. QED
  BY <1>1, <1>2, <1>5, <1>7 DEF IndInv

LEMMA KeeperKeeps ==
  ASSUME IndInv, NEW t \in Threads, Keeper(t)
  PROVE  IndInv'
<1>1. CASE save(t)
  BY <1>1, SaveKeeps
<1>2. CASE SaveEpisodes(t)
  BY <1>2, SaveEpisodesKeeps
<1>3. CASE SaveEvidence(t)
  BY <1>3, SaveEvidenceKeeps
<1>4. CASE SaveFile(t)
  BY <1>4, SaveFileKeeps
<1>5. CASE \E due \in SUBSET DOMAIN episodes : Advance(t, due)
  BY <1>5, AdvanceKeeps
<1>6. CASE \E horizon \in Horizons : Sweep(t, horizon)
  BY <1>6, SweepKeeps
<1>7. QED
  BY <1>1, <1>2, <1>3, <1>4, <1>5, <1>6 DEF Keeper

-----------------------------------------------------------------------------
(***************************************************************************)
(* Administrators.                                                         *)
(***************************************************************************)
LEMMA AdmitTopologyKeeps ==
  ASSUME IndInv, NEW t, NEW gen \in Gens, admit_topology(t, gen)
  PROVE  IndInv'
<1>1. /\ UNCHANGED <<graph, store, fences, episodes, dropped, disk, heard>>
      /\ job' = [job EXCEPT ![t] = [pc |-> "rebuild"]] /\ topology' = gen
  BY DEF admit_topology, Goto
<1>2. /\ JobOK([pc |-> "rebuild"], heard, episodes, dropped)
      /\ Forward(episodes, dropped, episodes, dropped)
  BY QuietJob, ForwardSame DEF IndInv
<1>3. JobsOK(job', heard, episodes, dropped)
  BY <1>1, <1>2, JobsStep DEF IndInv
<1>4. QED
  BY <1>1, <1>3 DEF IndInv

LEMMA AddCausalEdgeKeeps ==
  ASSUME IndInv, NEW t, add_causal_edge(t)
  PROVE  IndInv'
<1>1. UNCHANGED <<topology, graph, store, fences, episodes, dropped, disk, heard>>
      /\ job' = Torn(job)
  BY DEF add_causal_edge, State
<1>2. JobsOK(Torn(job), heard, episodes, dropped)
  BY TornJobs DEF IndInv
<1>3. QED
  BY <1>1, <1>2 DEF IndInv

LEMMA RebuildTopologyKeeps ==
  ASSUME IndInv, NEW t, RebuildTopology(t)
  PROVE  IndInv'
<1> DEFINE j == [pc |-> "publish", gen |-> topology]
<1>1. job' = [job EXCEPT ![t] = j] /\ UNCHANGED State
  BY DEF RebuildTopology, Goto
<1>2. topology \in Gens
  BY DEF IndInv
<1>3. j.pc = "publish" /\ j.gen = topology /\ "pc" \in DOMAIN j
  OBVIOUS
<1> HIDE DEF j
<1>4. JobOK(j, heard, episodes, dropped)
  BY <1>2, <1>3 DEF JobOK, AdmitOK, QueryOK, ObserveOK, WalkOK, PublishOK, SaveOK, LoadOK
<1>5. QED
  BY <1>1, <1>4, MovesAlone

LEMMA RebuildFailsKeeps ==
  ASSUME IndInv, NEW t \in Threads, RebuildFails(t)
  PROVE  IndInv'
<1> DEFINE j == [job[t] EXCEPT !.pc = "failed"]
<1>1. job' = [job EXCEPT ![t] = j] /\ UNCHANGED State
  BY DEF RebuildFails, Step, Goto
<1>2. "pc" \in DOMAIN job[t]
  BY ThreadJob DEF RebuildFails, At, JobOK, PublishOK
<1>3. j.pc = "failed"
  BY <1>2
<1> HIDE DEF j
<1>4. JobOK(j, heard, episodes, dropped)
  BY <1>3, QuietJob
<1>5. QED
  BY <1>1, <1>4, MovesAlone

LEMMA RebuildPublishKeeps ==
  ASSUME IndInv, NEW t \in Threads, RebuildPublish(t)
  PROVE  IndInv'
<1>1. /\ UNCHANGED <<topology, store, fences, episodes, dropped, disk, heard>>
      /\ graph' = Built(job[t].gen, topology)
      /\ job' = [Torn(job) EXCEPT ![t] = Idle]
  BY DEF RebuildPublish
<1>2. job[t].gen \in Gens
  BY ThreadJob DEF RebuildPublish, At, JobOK, PublishOK
<1>3. JobsOK(Torn(job), heard, episodes, dropped)
  BY TornJobs DEF IndInv
<1>4. JobOK(Idle, heard, episodes, dropped) /\ Forward(episodes, dropped, episodes, dropped)
  BY QuietJob, ForwardSame DEF Idle, IndInv
<1>5. JobsOK(job', heard, episodes, dropped)
  BY <1>1, <1>3, <1>4, JobsStep DEF IndInv
<1>6. Built(job[t].gen, topology) \in Graph
  BY <1>2 DEF Built, Graph
<1>7. QED
  BY <1>1, <1>5, <1>6 DEF IndInv

LEMMA LoadKeeps ==
  ASSUME IndInv, NEW t, load(t)
  PROVE  IndInv'
<1> DEFINE j == [pc |-> "replace", from |-> disk, left |-> DOMAIN disk.episodes,
                 dropped |-> dropped]
<1>1. job' = [job EXCEPT ![t] = j] /\ UNCHANGED State
  BY DEF load, Goto
<1>2. SnapshotOK(disk) /\ dropped \in Nat
  BY DEF load, IndInv, RegistryOK
<1>3. /\ j.pc = "replace" /\ j.from = disk /\ j.left = DOMAIN disk.episodes
      /\ j.dropped = dropped /\ DOMAIN j = {"pc", "from", "left", "dropped"}
  OBVIOUS
<1> HIDE DEF j
<1>4. j.dropped <= dropped
  BY <1>2, <1>3
<1>5. JobOK(j, heard, episodes, dropped)
  BY <1>2, <1>3, <1>4
     DEF JobOK, AdmitOK, QueryOK, ObserveOK, WalkOK, PublishOK, SaveOK, LoadOK, LeftOK
<1>6. QED
  BY <1>1, <1>5, MovesAlone

\* What a thread that loads knows, at each step.
LEMMA LoadingJob ==
  ASSUME IndInv, NEW t \in Threads, job[t].pc \in {"replace", "restore", "recover"}
  PROVE  /\ DOMAIN job[t] = {"pc", "from", "left", "dropped"}
         /\ SnapshotOK(job[t].from) /\ job[t].dropped \in Nat /\ job[t].dropped <= dropped
         /\ LeftOK(job[t], episodes, dropped)
BY ThreadJob DEF JobOK, LoadOK

\* A job that loads, with the fields named.
LEMMA LoadingOK ==
  ASSUME NEW j, NEW h, NEW e, NEW d, j.pc \in {"replace", "restore", "recover"},
         DOMAIN j = {"pc", "from", "left", "dropped"},
         SnapshotOK(j.from), j.dropped \in Nat, j.dropped <= d, LeftOK(j, e, d)
  PROVE  JobOK(j, h, e, d)
BY DEF JobOK, AdmitOK, QueryOK, ObserveOK, WalkOK, PublishOK, SaveOK, LoadOK

LEMMA LoadTopologyKeeps ==
  ASSUME IndInv, NEW t \in Threads, LoadTopology(t)
  PROVE  IndInv'
<1> DEFINE j == [job[t] EXCEPT !.pc = "restore"]
<1>1. /\ UNCHANGED <<graph, store, fences, episodes, dropped, disk, heard>>
      /\ job' = [job EXCEPT ![t] = j] /\ topology' = job[t].from.topology
      /\ job[t].pc = "replace"
  BY DEF LoadTopology, Step, Goto, At
<1>2. /\ DOMAIN job[t] = {"pc", "from", "left", "dropped"}
      /\ SnapshotOK(job[t].from) /\ job[t].dropped \in Nat /\ job[t].dropped <= dropped
      /\ LeftOK(job[t], episodes, dropped)
  BY <1>1, LoadingJob
<1>3. /\ DOMAIN j = {"pc", "from", "left", "dropped"} /\ j.pc = "restore"
      /\ j.from = job[t].from /\ j.left = job[t].left /\ j.dropped = job[t].dropped
  BY <1>2
<1> HIDE DEF j
<1>4. LeftOK(j, episodes, dropped)
  BY <1>1, <1>2, <1>3 DEF LeftOK
<1>5. JobOK(j, heard, episodes, dropped)
  BY <1>2, <1>3, <1>4, LoadingOK
<1>6. topology' \in Gens
  BY <1>1, <1>2 DEF SnapshotOK
<1>7. Forward(episodes, dropped, episodes, dropped)
  BY ForwardSame DEF IndInv
<1>8. JobsOK(job', heard, episodes, dropped)
  BY <1>1, <1>5, <1>7, JobsStep DEF IndInv
<1>9. QED
  BY <1>1, <1>6, <1>8 DEF IndInv

\* An episode that has been dealt with leaves what is left.
LEMMA LeftAfter ==
  ASSUME NEW j, NEW e, NEW d, j.pc = "restore", LeftOK(j, e, d),
         DOMAIN j = {"pc", "from", "left", "dropped"}, SnapshotOK(j.from), j.dropped \in Nat,
         j.dropped <= d, NEW f, RegistryOK(e, d), RegistryOK(f, d), Forward(e, d, f, d),
         NEW k \in j.left, Applied(j, k, f, d), NEW h
  PROVE  JobOK([j EXCEPT !.left = @ \ {k}], h, f, d)
<1> DEFINE n == [j EXCEPT !.left = @ \ {k}]
<1>1. /\ DOMAIN n = {"pc", "from", "left", "dropped"} /\ n.pc = "restore"
      /\ n.from = j.from /\ n.left = j.left \ {k} /\ n.dropped = j.dropped
  OBVIOUS
<1>2. /\ j.left \subseteq DOMAIN j.from.episodes
      /\ \A x \in DOMAIN j.from.episodes \ j.left : Applied(j, x, e, d)
  BY DEF LeftOK
<1>3. EpisodesOK(e) /\ EpisodesOK(f) /\ EpisodesOK(j.from.episodes) /\ d \in Nat
  BY DEF RegistryOK, SnapshotOK
<1>4. \A x \in DOMAIN j.from.episodes \ j.left : Applied(j, x, f, d)
  BY <1>2, <1>3, AppliedKept
<1> HIDE DEF n
<1>5. \A x \in DOMAIN n.from.episodes \ n.left : Applied(n, x, f, d)
  <2>1. \A x : Applied(n, x, f, d) <=> Applied(j, x, f, d)
    BY <1>1 DEF Applied
  <2>2. QED
    BY <1>1, <1>4, <2>1
<1>6. LeftOK(n, f, d)
  BY <1>1, <1>2, <1>5 DEF LeftOK
<1>7. QED
  BY <1>1, <1>6, LoadingOK DEF n

LEMMA LoadEpisodeKeeps ==
  ASSUME IndInv, NEW t \in Threads, LoadEpisode(t)
  PROVE  IndInv'
<1> DEFINE j == job[t]
           saved == j.from.episodes
<1>1. /\ UNCHANGED <<topology, graph, store, fences, dropped, disk, heard>>
      /\ j.pc = "restore"
  BY DEF LoadEpisode, At
<1>2. PICK k \in j.left :
        \/ /\ Stale(k, saved)
           /\ job' = [job EXCEPT ![t] = [j EXCEPT !.left = @ \ {k}]]
           /\ UNCHANGED episodes
        \/ /\ ~Stale(k, saved) /\ (k \in DOMAIN episodes \/ ~Full)
           /\ episodes' = Put(episodes, k, saved[k])
           /\ job' = [job EXCEPT ![t] = [j EXCEPT !.left = @ \ {k}]]
        \/ /\ job' = [job EXCEPT ![t] = [pc |-> "failed"]]
           /\ UNCHANGED episodes
  BY DEF LoadEpisode, Goto
<1>3. RegistryOK(episodes, dropped) /\ Forward(episodes, dropped, episodes, dropped)
      /\ max_episodes \in Nat /\ Cardinality(DOMAIN episodes) \in Nat
  BY RuntimeAssumption, FS_CardinalityType, ForwardSame DEF IndInv, RegistryOK
<1>4. /\ DOMAIN j = {"pc", "from", "left", "dropped"}
      /\ SnapshotOK(j.from) /\ j.dropped \in Nat /\ j.dropped <= dropped
      /\ LeftOK(j, episodes, dropped)
  BY <1>1, LoadingJob
<1>5. k \in DOMAIN saved /\ EpisodesOK(saved)
  BY <1>1, <1>4 DEF LeftOK, SnapshotOK
<1>6. saved[k].revision \in Nat
  BY <1>5, EpisodeRevision
<1>7. k \in DOMAIN episodes => episodes[k].revision \in Nat
  BY <1>3, EpisodeRevision DEF RegistryOK
<1> HIDE DEF j
<1>8. CASE /\ Stale(k, saved) /\ UNCHANGED episodes
           /\ job' = [job EXCEPT ![t] = [j EXCEPT !.left = @ \ {k}]]
  <2>1. Applied(j, k, episodes, dropped)
    BY <1>6, <1>7, <1>8 DEF Stale, Applied
  <2>2. JobOK([j EXCEPT !.left = @ \ {k}], heard, episodes, dropped)
    BY <1>1, <1>3, <1>4, <2>1, LeftAfter
  <2>3. JobsOK(job', heard, episodes, dropped)
    BY <1>3, <1>8, <2>2, JobsStep DEF IndInv
  <2>4. QED
    BY <1>1, <1>8, <2>3 DEF IndInv
<1>9. CASE /\ ~Stale(k, saved) /\ (k \in DOMAIN episodes \/ ~Full)
           /\ episodes' = Put(episodes, k, saved[k])
           /\ job' = [job EXCEPT ![t] = [j EXCEPT !.left = @ \ {k}]]
  <2> DEFINE f == Put(episodes, k, saved[k])
  <2>1. Grounded(k, saved[k])
    BY <1>5, GroundedEpisodes, EpisodesFunction
  <2>2. k \in DOMAIN episodes \/ Cardinality(DOMAIN episodes) < max_episodes
    BY <1>3, <1>9 DEF Full
  <2>3. RegistryOK(f, dropped)
    BY <1>3, <2>1, <2>2, PutEpisode
  <2>4. k \in DOMAIN episodes => saved[k].revision >= episodes[k].revision
    BY <1>6, <1>7, <1>9 DEF Stale
  <2>5. Forward(episodes, dropped, f, dropped)
    BY <1>3, <2>4, PutForward
  <2>6. k \in DOMAIN f /\ f[k] = saved[k]
    BY DEF Put
  <2> HIDE DEF f
  <2>7. Applied(j, k, f, dropped)
    BY <1>6, <2>6 DEF Applied
  <2>8. JobOK([j EXCEPT !.left = @ \ {k}], heard, f, dropped)
    BY <1>1, <1>3, <1>4, <2>3, <2>5, <2>7, LeftAfter
  <2>9. JobsOK(job', heard, f, dropped)
    BY <1>3, <1>9, <2>3, <2>5, <2>8, JobsStep DEF IndInv
  <2>10. QED
    BY <1>1, <1>9, <2>3, <2>9 DEF IndInv, f
<1>10. CASE job' = [job EXCEPT ![t] = [pc |-> "failed"]] /\ UNCHANGED episodes
  <2>1. JobOK([pc |-> "failed"], heard, episodes, dropped)
    BY QuietJob
  <2>2. JobsOK(job', heard, episodes, dropped)
    BY <1>3, <1>10, <2>1, JobsStep DEF IndInv
  <2>3. QED
    BY <1>1, <1>10, <2>2 DEF IndInv
<1>11. QED
  BY <1>2, <1>8, <1>9, <1>10

LEMMA LoadEpisodesDoneKeeps ==
  ASSUME IndInv, NEW t \in Threads, LoadEpisodesDone(t)
  PROVE  IndInv'
<1> DEFINE j == [pc |-> "recover", from |-> job[t].from, left |-> job[t].from.evidence,
                 dropped |-> job[t].dropped]
<1>1. /\ job' = [job EXCEPT ![t] = j] /\ UNCHANGED State
      /\ job[t].pc = "restore" /\ job[t].left = {}
  BY DEF LoadEpisodesDone, Goto, At
<1>2. /\ SnapshotOK(job[t].from) /\ job[t].dropped \in Nat /\ job[t].dropped <= dropped
      /\ LeftOK(job[t], episodes, dropped)
  BY <1>1, LoadingJob
<1>3. /\ DOMAIN j = {"pc", "from", "left", "dropped"} /\ j.pc = "recover"
      /\ j.from = job[t].from /\ j.left = job[t].from.evidence /\ j.dropped = job[t].dropped
  OBVIOUS
<1>4. \A k \in DOMAIN job[t].from.episodes : Applied(job[t], k, episodes, dropped)
  BY <1>1, <1>2 DEF LeftOK
<1> HIDE DEF j
<1>5. \A k \in DOMAIN j.from.episodes : Applied(j, k, episodes, dropped)
  BY <1>3, <1>4 DEF Applied
<1>6. j.left \in Seq(Evidence)
  BY <1>2, <1>3 DEF SnapshotOK
<1>7. LeftOK(j, episodes, dropped)
  BY <1>3, <1>5, <1>6 DEF LeftOK
<1>8. JobOK(j, heard, episodes, dropped)
  BY <1>2, <1>3, <1>7, LoadingOK
<1>9. QED
  BY <1>1, <1>8, MovesAlone

LEMMA LoadRecordKeeps ==
  ASSUME IndInv, NEW t \in Threads, LoadRecord(t)
  PROVE  IndInv'
<1> DEFINE j == job[t]
           r == Head(j.left)
           n == [j EXCEPT !.left = Tail(@)]
<1>1. /\ UNCHANGED <<topology, graph, episodes, dropped, disk, heard>>
      /\ j.pc = "recover" /\ j.left # <<>>
      /\ \/ /\ job' = [job EXCEPT ![t] = [pc |-> "failed"]]
            /\ UNCHANGED <<store, fences>>
         \/ /\ ~SourceRefused(r.source)
            /\ store' = Admitted(r, TRUE)
            /\ fences' = Put(fences, r.source, SourceOf(r.source))
            /\ job' = [job EXCEPT ![t] = n]
  BY DEF LoadRecord, Goto, At, Recovered
<1>2. RegistryOK(episodes, dropped) /\ Forward(episodes, dropped, episodes, dropped)
      /\ StoreOK(store, fences, heard) /\ FencesOK(fences, heard)
  BY ForwardSame DEF IndInv
<1>3. /\ DOMAIN j = {"pc", "from", "left", "dropped"}
      /\ SnapshotOK(j.from) /\ j.dropped \in Nat /\ j.dropped <= dropped
      /\ LeftOK(j, episodes, dropped)
  BY <1>1, LoadingJob
<1>4. j.left \in Seq(Evidence) /\ \A k \in DOMAIN j.from.episodes : Applied(j, k, episodes, dropped)
  BY <1>1, <1>3 DEF LeftOK
<1>5. CASE /\ job' = [job EXCEPT ![t] = [pc |-> "failed"]]
           /\ UNCHANGED <<store, fences>>
  <2>1. JobOK([pc |-> "failed"], heard, episodes, dropped)
    BY QuietJob
  <2>2. JobsOK(job', heard, episodes, dropped)
    BY <1>2, <1>5, <2>1, JobsStep DEF IndInv
  <2>3. QED
    BY <1>1, <1>5, <2>2 DEF IndInv
<1>6. CASE /\ ~SourceRefused(r.source)
           /\ store' = Admitted(r, TRUE)
           /\ fences' = Put(fences, r.source, SourceOf(r.source))
           /\ job' = [job EXCEPT ![t] = n]
  <2>1. r \in Evidence /\ Tail(j.left) \in Seq(Evidence)
    BY <1>1, <1>4, HeadTailProperties
  <2>2. r.source \in Sources /\ RecordOf(r, TRUE) \in Evidence
    <3> HIDE DEF r
    <3> QED BY <2>1 DEF Evidence, RecordOf
  <2> DEFINE g == Put(fences, r.source, SourceOf(r.source))
  <2>3. FencesOK(g, heard) /\ Advances(fences, heard, g, heard)
    BY <1>2, <1>6, <2>2, SourceEntered
  <2> HIDE DEF g
  <2>4. StoreOK(Admitted(r, TRUE), g, heard)
    <3> HIDE DEF r
    <3> QED BY <1>2, <2>2, <2>3, StoreAppends
  <2>5. /\ DOMAIN n = {"pc", "from", "left", "dropped"} /\ n.pc = "recover"
        /\ n.from = j.from /\ n.left = Tail(j.left) /\ n.dropped = j.dropped
    BY <1>1, <1>3
  <2> HIDE DEF n, r, j
  <2>6. \A k \in DOMAIN n.from.episodes : Applied(n, k, episodes, dropped)
    BY <1>4, <2>5 DEF Applied
  <2>7. LeftOK(n, episodes, dropped)
    BY <2>1, <2>5, <2>6 DEF LeftOK
  <2>8. JobOK(n, heard, episodes, dropped)
    BY <1>3, <2>5, <2>7, LoadingOK
  <2>9. JobsOK(job', heard, episodes, dropped)
    BY <1>2, <1>6, <2>8, JobsStep DEF IndInv
  <2>10. QED
    BY <1>1, <1>6, <2>3, <2>4, <2>9 DEF IndInv, g
<1>7. QED
  BY <1>1, <1>5, <1>6

LEMMA LoadResetKeeps ==
  ASSUME IndInv, NEW t, LoadReset(t)
  PROVE  IndInv'
<1> DEFINE g == reset_liveness
<1>1. /\ UNCHANGED <<topology, graph, store, episodes, dropped, disk, heard>>
      /\ fences' = g /\ job' = [job EXCEPT ![t] = [pc |-> "rebuild"]]
  BY DEF LoadReset, Goto, AfterRecovery
<1>2. StoreOK(store, fences, heard) /\ FencesOK(fences, heard)
      /\ Forward(episodes, dropped, episodes, dropped)
  BY ForwardSame DEF IndInv
<1>3. DOMAIN g = DOMAIN fences /\ \A s \in DOMAIN fences : g[s] = [fences[s] EXCEPT !.live = FALSE]
  BY DEF reset_liveness
<1> HIDE DEF g
<1>4. ASSUME NEW s \in DOMAIN fences
      PROVE  /\ g[s] \in SourceFenceState /\ g[s].last = fences[s].last
             /\ g[s].has_state = fences[s].has_state /\ ~g[s].live
  <2>1. fences[s] \in SourceFenceState
    BY <1>2 DEF FencesOK, OneBoot
  <2>2. ASSUME NEW f \in SourceFenceState
        PROVE  LET a == [f EXCEPT !.live = FALSE]
               IN  a \in SourceFenceState /\ a.last = f.last /\ a.has_state = f.has_state /\ ~a.live
    BY DEF SourceFenceState
  <2>3. QED
    BY <1>3, <2>1, <2>2
<1>5. FencesOK(g, heard)
  <2>1. \A s \in DOMAIN fences : OneBoot(g[s]) /\ ~g[s].live
    BY <1>2, <1>4 DEF FencesOK, OneBoot
  <2>2. QED
    BY <1>2, <1>3, <2>1 DEF FencesOK
<1>6. Advances(fences, heard, g, heard)
  BY <1>3, <1>4 DEF Advances
<1>7. StoreOK(store, g, heard)
  BY <1>2, <1>5, <1>6, StoreKept
<1>8. JobOK([pc |-> "rebuild"], heard, episodes, dropped)
  BY QuietJob
<1>9. JobsOK(job', heard, episodes, dropped)
  BY <1>1, <1>2, <1>8, JobsStep DEF IndInv
<1>10. QED
  BY <1>1, <1>5, <1>7, <1>9 DEF IndInv

LEMMA ReportKeeps ==
  ASSUME IndInv, NEW t, Report(t)
  PROVE  IndInv'
<1>1. /\ UNCHANGED <<topology, store, fences, episodes, dropped, disk, heard>>
      /\ graph' = [graph EXCEPT !.last = "failed"]
      /\ job' = [job EXCEPT ![t] = Idle]
  BY DEF Report, Done, Goto
<1>2. graph' \in Graph
  BY <1>1 DEF IndInv, Graph
<1>3. JobOK(Idle, heard, episodes, dropped) /\ Forward(episodes, dropped, episodes, dropped)
  BY QuietJob, ForwardSame DEF Idle, IndInv
<1>4. JobsOK(job', heard, episodes, dropped)
  BY <1>1, <1>3, JobsStep DEF IndInv
<1>5. QED
  BY <1>1, <1>2, <1>4 DEF IndInv

LEMMA AdminKeeps ==
  ASSUME IndInv, NEW t \in Threads, Admin(t)
  PROVE  IndInv'
<1>1. CASE \E gen \in Gens : admit_topology(t, gen)
  BY <1>1, AdmitTopologyKeeps
<1>2. CASE add_causal_edge(t)
  BY <1>2, AddCausalEdgeKeeps
<1>3. CASE RebuildTopology(t)
  BY <1>3, RebuildTopologyKeeps
<1>4. CASE RebuildFails(t)
  BY <1>4, RebuildFailsKeeps
<1>5. CASE RebuildPublish(t)
  BY <1>5, RebuildPublishKeeps
<1>6. CASE load(t)
  BY <1>6, LoadKeeps
<1>7. CASE LoadTopology(t)
  BY <1>7, LoadTopologyKeeps
<1>8. CASE LoadEpisode(t)
  BY <1>8, LoadEpisodeKeeps
<1>9. CASE LoadEpisodesDone(t)
  BY <1>9, LoadEpisodesDoneKeeps
<1>10. CASE LoadRecord(t)
  BY <1>10, LoadRecordKeeps
<1>11. CASE LoadReset(t)
  BY <1>11, LoadResetKeeps
<1>12. CASE Report(t)
  BY <1>12, ReportKeeps
<1>13. QED
  BY <1>1, <1>2, <1>3, <1>4, <1>5, <1>6, <1>7, <1>8, <1>9, <1>10, <1>11, <1>12 DEF Admin

-----------------------------------------------------------------------------
(***************************************************************************)
(* The beginning, and beginning again.                                     *)
(***************************************************************************)
LEMMA FirstGeneration == First \in Gens
<1>1. Gens \subseteq Nat /\ Gens # {}
  BY RuntimeAssumption
<1>2. \E g \in Gens : \A other \in Gens : g <= other
  <2> DEFINE less == {ss \in Nat \X Nat : ss[1] < ss[2]}
  <2>1. IsWellFoundedOn(less, Nat)
    BY NatLessThanWellFounded DEF OpToRel
  <2>2. \A x, y \in Nat : <<x, y>> \in less <=> x < y
    OBVIOUS
  <2> HIDE DEF less
  <2>3. PICK least \in Gens : \A other \in Gens : ~(<<other, least>> \in less)
    BY <1>1, <2>1, WFMin
  <2>4. ASSUME NEW other \in Gens PROVE least <= other
    <3>1. ~(other < least)
      BY <1>1, <2>2, <2>3
    <3>2. QED
      BY <1>1, <3>1
  <2>5. QED
    BY <2>4
<1>3. QED
  BY <1>2 DEF First

LEMMA EmptyParts ==
  /\ StoreOK(<<>>, Empty, {}) /\ FencesOK(Empty, {}) /\ RegistryOK(Empty, 0)
  /\ JobsOK([t \in Threads |-> Idle], {}, Empty, 0)
<1>1. DOMAIN Empty = {} /\ IsFiniteSet({}) /\ Cardinality({}) = 0
  BY FS_EmptySet DEF Empty
<1>2. max_retained_evidence \in Nat /\ max_sources \in Nat /\ max_episodes \in Nat
  BY RuntimeAssumption
<1>3. StoreOK(<<>>, Empty, {})
  <2>1. <<>> \in Seq(Evidence) /\ Len(<<>>) = 0 /\ DOMAIN <<>> = {}
    BY EmptySeq
  <2>2. QED
    BY <1>2, <2>1 DEF StoreOK, Single
<1>4. FencesOK(Empty, {})
  BY <1>1, <1>2 DEF FencesOK
<1>5. RegistryOK(Empty, 0)
  <2>1. Empty \in [DOMAIN Empty -> Episode]
    BY <1>1 DEF Empty
  <2>2. EpisodesOK(Empty)
    BY <1>1, <2>1 DEF EpisodesOK
  <2>3. QED
    BY <1>1, <1>2, <2>2 DEF RegistryOK
<1>6. JobOK(Idle, {}, Empty, 0)
  BY QuietJob DEF Idle
<1>7. JobsOK([t \in Threads |-> Idle], {}, Empty, 0)
  BY <1>6 DEF JobsOK
<1>8. QED
  BY <1>3, <1>4, <1>5, <1>7

LEMMA FirstGraph == Built(First, First) \in Graph
BY FirstGeneration DEF Built, Graph

LEMMA InitHolds == Init => IndInv
BY FirstGeneration, FirstGraph, EmptyParts DEF Init, IndInv

LEMMA RestartKeeps ==
  ASSUME IndInv, Restart
  PROVE  IndInv'
BY FirstGeneration, FirstGraph, EmptyParts DEF Restart, IndInv

LEMMA NextKeeps ==
  ASSUME IndInv, [Next]_vars
  PROVE  IndInv'
<1>1. ASSUME NEW t \in Collectors, Collector(t) PROVE IndInv'
  BY <1>1, CollectorKeeps DEF Threads
<1>2. ASSUME NEW t \in Analysts, Analyst(t) PROVE IndInv'
  BY <1>2, AnalystKeeps DEF Threads
<1>3. ASSUME NEW t \in Keepers, Keeper(t) PROVE IndInv'
  BY <1>3, KeeperKeeps DEF Threads
<1>4. ASSUME NEW t \in Admins, Admin(t) PROVE IndInv'
  BY <1>4, AdminKeeps DEF Threads
<1>5. CASE request_shutdown
  BY <1>5 DEF request_shutdown, IndInv
<1>6. CASE Restart
  BY <1>6, RestartKeeps
<1>7. CASE UNCHANGED vars
  BY <1>7 DEF vars, IndInv
<1>8. QED
  BY <1>1, <1>2, <1>3, <1>4, <1>5, <1>6, <1>7 DEF Next

-----------------------------------------------------------------------------
(***************************************************************************)
(* What follows.                                                           *)
(***************************************************************************)
\* The store is fenced, the registry grounded and what a thread holds is right in
\* every state, whatever runs between the critical sections of an operation.
THEOREM Invariance == Spec => []IndInv
<1>1. Init => IndInv
  BY InitHolds
<1>2. IndInv /\ [Next]_vars => IndInv'
  BY NextKeeps
<1>3. QED
  BY <1>1, <1>2, PTL DEF Spec

\* classify_with and the registry: no verdict of this process cites a record that a
\* load brought back, or a source that it has not heard itself.
THEOREM HistoryGivesNoVerdict == Spec => []NoVerdictFromHistory
<1>1. IndInv => NoVerdictFromHistory
  BY ThreadJob DEF NoVerdictFromHistory, At, JobOK, ObserveOK, CitesOK, Threads
<1>2. QED
  BY <1>1, Invariance, PTL

\* evaluate: an episode of a generation cites evidence of that generation, however
\* often the topology is replaced between classification and recording.
THEOREM GenerationsKept == Spec => []EpisodesKeepTheirGeneration
<1>1. IndInv => EpisodesKeepTheirGeneration
  BY DEF IndInv, RegistryOK, EpisodesOK, EpisodesKeepTheirGeneration
<1>2. QED
  BY <1>1, Invariance, PTL

\* ingest_recovered and reset_liveness do not open the fences: no position of a
\* source's stream has two live records.
THEOREM OneRecordPerPosition == Spec => []OneLiveRecordPerPosition
<1>1. IndInv => OneLiveRecordPerPosition
  BY DEF IndInv, StoreOK, Single, OneLiveRecordPerPosition
<1>2. QED
  BY <1>1, Invariance, PTL

\* load: when a snapshot has been applied its episodes are in the registry, unless
\* an evaluation that ran beside it displaced a closed one.
THEOREM HistorySurvives == Spec => HistorySurvivesLoad
<1>1. ASSUME IndInv, NEW t \in Admins PROVE EpisodesSurvive(t)
  <2>1. ASSUME LoadReset(t), NEW k \in DOMAIN job[t].from.episodes
        PROVE  \/ /\ k \in DOMAIN episodes
                  /\ episodes[k].revision >= job[t].from.episodes[k].revision
               \/ dropped > job[t].dropped
    <3>1. job[t].pc = "recover" /\ t \in Threads
      BY <2>1 DEF LoadReset, At, Threads
    <3>2. LeftOK(job[t], episodes, dropped)
      BY <1>1, <3>1, LoadingJob
    <3>3. QED
      BY <3>1, <3>2 DEF LeftOK, Applied
  <2>2. QED
    BY <2>1 DEF EpisodesSurvive
<1>2. IndInv /\ [Next]_vars => [\A t \in Admins : EpisodesSurvive(t)]_vars
  BY <1>1
<1>3. QED
  BY <1>2, Invariance, PTL DEF Spec, HistorySurvivesLoad

-----------------------------------------------------------------------------
(***************************************************************************)
(* The graph, with any number of administrators: as long as the last       *)
(* rebuild went well, either the graph is that of the topology or somebody *)
(* owes it.                                                                *)
(***************************************************************************)
\* Other threads leave the administrators, the topology and the graph alone.
LEMMA OthersKeepGraph ==
  ASSUME IndInv, GraphOK, NEW t, t \notin Admins, UNCHANGED <<topology, graph>>,
         NEW j, job' = [job EXCEPT ![t] = j]
  PROVE  GraphOK'
<1>1. \A a \in Admins : job'[a] = job[a]
  BY DEF IndInv, JobsOK, Threads
<1>2. QED
  BY <1>1 DEF GraphOK, Owes

LEMMA CollectorKeepsGraph ==
  ASSUME IndInv, GraphOK, NEW t \in Collectors, Collector(t)
  PROVE  GraphOK'
<1>1. t \notin Admins
  BY RuntimeAssumption
<1>2. UNCHANGED <<topology, graph>> /\ \E j : job' = [job EXCEPT ![t] = j]
  BY DEF Collector, ingest, StoreRefuses, StoreIngest, Goto, Done, State
<1>3. QED
  BY <1>1, <1>2, OthersKeepGraph

LEMMA AnalystKeepsGraph ==
  ASSUME IndInv, GraphOK, NEW t \in Analysts, Analyst(t)
  PROVE  GraphOK'
<1>1. t \notin Admins
  BY RuntimeAssumption
<1>2. UNCHANGED <<topology, graph>> /\ \E j : job' = [job EXCEPT ![t] = j]
  BY DEF Analyst, evaluate, localize, Classify, WindowRecords, ObserveQuiet, ObserveAsserted,
         LocalizeRead, LocalizeEnd, Goto, Done, State
<1>3. QED
  BY <1>1, <1>2, OthersKeepGraph

LEMMA KeeperKeepsGraph ==
  ASSUME IndInv, GraphOK, NEW t \in Keepers, Keeper(t)
  PROVE  GraphOK'
<1>1. t \notin Admins
  BY RuntimeAssumption
<1>2. UNCHANGED <<topology, graph>> /\ \E j : job' = [job EXCEPT ![t] = j]
  BY DEF Keeper, save, SaveEpisodes, SaveEvidence, SaveFile, Advance, Sweep, Goto, Done, State
<1>3. QED
  BY <1>1, <1>2, OthersKeepGraph

\* A step after which its administrator owes the graph.
LEMMA OwingKeepsGraph ==
  ASSUME NEW t \in Admins, job'[t].pc \in {"restore", "recover", "rebuild", "failed"}
  PROVE  GraphOK'
BY DEF GraphOK, Owes

\* A step of an administrator who owes nothing and leaves topology and graph alone.
LEMMA IdleKeepsGraph ==
  ASSUME GraphOK, UNCHANGED <<topology, graph>>, NEW t, ~Owes(t),
         \A a \in Admins : a # t /\ Owes(a) => job'[a].pc = job[a].pc /\ job'[a].gen = job[a].gen
  PROVE  GraphOK'
BY DEF GraphOK, Owes

LEMMA AdminKeepsGraph ==
  ASSUME IndInv, GraphOK, NEW t \in Admins, Admin(t)
  PROVE  GraphOK'
<1>1. DOMAIN job = Threads /\ t \in Threads /\ Admins \subseteq Threads
  BY DEF IndInv, JobsOK, Threads
<1>2. \A j : job' = [job EXCEPT ![t] = j] =>
        job'[t] = j /\ \A a \in Admins : a # t => job'[a] = job[a]
  BY <1>1
<1>3. Idle.pc = "idle"
  BY DEF Idle
<1>4. CASE \E gen \in Gens : admit_topology(t, gen)
  <2>1. job'[t] = [pc |-> "rebuild"]
    BY <1>2, <1>4 DEF admit_topology, Goto
  <2>2. job'[t].pc = "rebuild"
    BY <2>1
  <2>3. QED
    BY <2>2, OwingKeepsGraph
<1>5. CASE add_causal_edge(t)
  <2>1. job[t].pc = "idle" /\ job' = Torn(job) /\ UNCHANGED <<topology, graph>>
    BY <1>5 DEF add_causal_edge, Begin, At, State
  <2>2. \A a \in Admins : Owes(a) => job'[a] = job[a]
    BY <1>1, <2>1 DEF Torn, Owes
  <2>3. ~Owes(t)
    BY <2>1 DEF Owes
  <2>4. QED
    BY <2>1, <2>2, <2>3, IdleKeepsGraph
<1>6. CASE RebuildTopology(t)
  <2>1. job'[t] = [pc |-> "publish", gen |-> topology] /\ UNCHANGED topology
    BY <1>2, <1>6 DEF RebuildTopology, Goto, State
  <2>2. job'[t].pc = "publish" /\ job'[t].gen = topology'
    BY <2>1
  <2>3. QED
    BY <2>2 DEF GraphOK, Owes
<1>7. CASE RebuildFails(t)
  <2>1. job'[t] = [job[t] EXCEPT !.pc = "failed"]
    BY <1>2, <1>7 DEF RebuildFails, Step, Goto
  <2>2. "pc" \in DOMAIN job[t]
    BY <1>1, <1>7, ThreadJob DEF RebuildFails, At, JobOK, PublishOK
  <2>3. job'[t].pc = "failed"
    BY <2>1, <2>2
  <2>4. QED
    BY <2>3, OwingKeepsGraph
<1>8. CASE RebuildPublish(t)
  <2>1. graph' = Built(job[t].gen, topology) /\ UNCHANGED topology
    BY <1>8 DEF RebuildPublish
  <2>2. graph'.gen = job[t].gen /\ (graph'.last = "current" => job[t].gen = topology)
    BY <2>1 DEF Built
  <2>3. QED
    BY <2>1, <2>2 DEF GraphOK
<1>9. CASE load(t)
  <2>1. job[t].pc = "idle" /\ UNCHANGED <<topology, graph>>
    BY <1>9 DEF load, Begin, At, State
  <2>2. \A a \in Admins : a # t => job'[a] = job[a]
    BY <1>2, <1>9 DEF load, Goto
  <2>3. ~Owes(t)
    BY <2>1 DEF Owes
  <2>4. QED
    BY <2>1, <2>2, <2>3, IdleKeepsGraph
<1>10. CASE LoadTopology(t)
  <2>1. job'[t] = [job[t] EXCEPT !.pc = "restore"] /\ job[t].pc = "replace"
    BY <1>2, <1>10 DEF LoadTopology, Step, Goto, At
  <2>2. "pc" \in DOMAIN job[t]
    BY <1>1, <2>1, LoadingJob
  <2>3. job'[t].pc = "restore"
    BY <2>1, <2>2
  <2>4. QED
    BY <2>3, OwingKeepsGraph
<1>11. CASE LoadEpisode(t)
  <2>1. /\ job[t].pc = "restore"
        /\ \/ job'[t] = [pc |-> "failed"]
           \/ \E k : job'[t] = [job[t] EXCEPT !.left = @ \ {k}]
    BY <1>2, <1>11 DEF LoadEpisode, Goto, At
  <2>2. "pc" \in DOMAIN job[t]
    BY <1>1, <2>1, LoadingJob
  <2>3. job'[t].pc \in {"failed", "restore"}
    <3>1. CASE job'[t] = [pc |-> "failed"]
      BY <3>1
    <3>2. ASSUME NEW k, job'[t] = [job[t] EXCEPT !.left = @ \ {k}]
          PROVE  job'[t].pc = "restore"
      BY <2>1, <2>2, <3>2
    <3>3. QED
      BY <2>1, <3>1, <3>2
  <2>4. QED
    BY <2>3, OwingKeepsGraph
<1>12. CASE LoadEpisodesDone(t)
  <2>1. \E x, y, z : job'[t] = [pc |-> "recover", from |-> x, left |-> y, dropped |-> z]
    BY <1>2, <1>12 DEF LoadEpisodesDone, Goto
  <2>2. job'[t].pc = "recover"
    BY <2>1
  <2>3. QED
    BY <2>2, OwingKeepsGraph
<1>13. CASE LoadRecord(t)
  <2>1. /\ job[t].pc = "recover"
        /\ \/ job'[t] = [pc |-> "failed"]
           \/ job'[t] = [job[t] EXCEPT !.left = Tail(@)]
    BY <1>2, <1>13 DEF LoadRecord, Goto, At
  <2>2. "pc" \in DOMAIN job[t]
    BY <1>1, <2>1, LoadingJob
  <2>3. job'[t].pc \in {"failed", "recover"}
    BY <2>1, <2>2
  <2>4. QED
    BY <2>3, OwingKeepsGraph
<1>14. CASE LoadReset(t)
  <2>1. job'[t] = [pc |-> "rebuild"]
    BY <1>2, <1>14 DEF LoadReset, Goto, AfterRecovery
  <2>2. job'[t].pc = "rebuild"
    BY <2>1
  <2>3. QED
    BY <2>2, OwingKeepsGraph
<1>15. CASE Report(t)
  <2>1. graph' = [graph EXCEPT !.last = "failed"] /\ graph \in Graph
    BY <1>15 DEF Report, IndInv
  <2>2. graph'.last = "failed"
    BY <2>1 DEF Graph
  <2>3. QED
    BY <2>2 DEF GraphOK
<1>16. QED
  BY <1>4, <1>5, <1>6, <1>7, <1>8, <1>9, <1>10, <1>11, <1>12, <1>13, <1>14, <1>15 DEF Admin

\* The parts are within their limits, no source is live on the word of a snapshot,
\* and, however many administrators admit topologies and load at once, the graph is
\* that of the topology when their operations are over, with two exceptions that the
\* code has: the last of them failed, or it published the graph of a topology that
\* another had replaced meanwhile.
THEOREM RuntimeCorrect == Spec => []RuntimeInv
<1>1. Init => GraphOK
  BY DEF Init, Built, GraphOK
<1>2. IndInv /\ GraphOK /\ [Next]_vars => GraphOK'
  <2> SUFFICES ASSUME IndInv, GraphOK, [Next]_vars PROVE GraphOK'
    OBVIOUS
  <2>1. ASSUME NEW t \in Admins, Admin(t) PROVE GraphOK'
    BY <2>1, AdminKeepsGraph
  <2>2. CASE request_shutdown \/ UNCHANGED vars
    BY <2>2 DEF request_shutdown, vars, GraphOK, Owes
  <2>3. CASE Restart
    BY <2>3 DEF Restart, Built, GraphOK
  <2>4. QED
    BY <2>1, <2>2, <2>3, CollectorKeepsGraph, AnalystKeepsGraph, KeeperKeepsGraph DEF Next
<1>3. IndInv => TypeOK /\ LiveOnlyIfHeard
  <2> SUFFICES ASSUME IndInv PROVE TypeOK /\ LiveOnlyIfHeard
    OBVIOUS
  <2>1. /\ topology \in Gens /\ graph \in Graph
        /\ store \in Seq(Evidence) /\ Len(store) <= max_retained_evidence
    BY DEF IndInv, StoreOK
  <2>2. /\ Cardinality(DOMAIN fences) <= max_sources
        /\ \A s \in DOMAIN fences : s \in Sources /\ fences[s] \in SourceFenceState
        /\ LiveOnlyIfHeard
    BY DEF IndInv, FencesOK, OneBoot, LiveOnlyIfHeard
  <2>3. /\ DOMAIN episodes \subseteq Keys /\ episodes \in [DOMAIN episodes -> Episode]
        /\ Cardinality(DOMAIN episodes) <= max_episodes
    BY DEF IndInv, RegistryOK, EpisodesOK
  <2>4. disk = None \/ disk.topology \in Gens
    BY DEF IndInv, SnapshotOK
  <2>5. QED
    BY <2>1, <2>2, <2>3, <2>4 DEF TypeOK
<1>4. GraphOK => GraphFollowsTopology
  BY DEF GraphOK, Owes, GraphFollowsTopology, At
<1>5. QED
  BY <1>1, <1>2, <1>3, <1>4, Invariance, PTL DEF Spec, RuntimeInv
=============================================================================
