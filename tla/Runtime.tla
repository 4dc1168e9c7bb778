------------------------------ MODULE Runtime ------------------------------
(***************************************************************************)
(* The runtime facade (src/src/runtime/runtime.cpp): the evidence store,   *)
(* the episode registry, the topology pointer, the causal graph and the    *)
(* snapshot files behind one interface that several threads call.          *)
(*                                                                         *)
(* No path takes two locks, so an operation that touches several parts is  *)
(* a sequence of steps, one per critical section, and anything may happen  *)
(* between two of them.  job[t] is what thread t is doing: pc names the    *)
(* step it takes next and the other fields are its local variables.        *)
(*                                                                         *)
(* The parts are abstracted to what the operations hand to each other.     *)
(* The store is one sequence in insertion order, fenced by evaluate_fence; *)
(* an episode is identified by subject and generation; a topology by its   *)
(* generation.  Every record reports harm and every window is fresh, so    *)
(* the verdict on a subject is congestion exactly if the window holds a    *)
(* live record of the generation of the request.                           *)
(***************************************************************************)
EXTENDS Fence, Integers, SequencesExt

CONSTANTS
  Collectors, Analysts,  \* the threads that ingest, that analyse,
  Keepers, Admins,       \* that save and maintain, that admit topologies and load
  Subjects, Sources,
  Feed,                  \* the records collectors send, in any order and again
  Gens,                  \* the generations of the topologies that are admitted
  Known,                 \* the subjects in the topology of a generation
  Times, Window,         \* times of evaluations, length of their window
  Horizons,              \* retention horizons of maintenance
  max_sources, max_retained_evidence, max_window_records,   \* Limits
  max_snapshot_evidence, max_episodes,
  MaxRevision, MaxDropped, MaxOperations, MaxRestarts   \* bounds of the model

Threads == Collectors \cup Analysts \cup Keepers \cup Admins

ASSUME RuntimeAssumption ==
  /\ Subjects = 1..Cardinality(Subjects)   \* numbered in map order
  /\ Gens \subseteq Nat \ {0} /\ Gens # {}
  /\ Known \in [Gens -> SUBSET Subjects]
  /\ Feed \subseteq [source : Sources, subject : Subjects, gen : Gens,
                     seq : Nat \ {0}, at : Times]
  /\ Times \subseteq Nat /\ Window \in Nat
  /\ Analysts \cap (Keepers \cup Admins) = {}
  /\ Admins \cap (Keepers \cup Collectors) = {}
  \* Limits::validate
  /\ {max_sources, max_retained_evidence, max_window_records, max_snapshot_evidence,
      max_episodes} \subseteq Nat \ {0}
  /\ {MaxRevision, MaxDropped, MaxOperations, MaxRestarts} \subseteq Nat

\* A record in the store; recovered is recovered_from_snapshot.
Evidence == [source : Sources, subject : Subjects, gen : Gens,
             seq : Nat \ {0}, at : Times, recovered : BOOLEAN]

\* graph.last is a history: the last operation that had to rebuild the graph did
\* so, or published a graph of a topology that had been replaced meanwhile, or failed.
Graph == [gen : Gens, last : {"current", "overtaken", "failed"}]

\* An episode keeps the evidence its last assertion cited.
Episode == [state : {"open", "quiescent", "closed"}, revision : Nat \ {0},
            cites : SUBSET Evidence]

Keys == Subjects \X Gens

Empty == [x \in {} |-> 0]

None == [topology |-> 0]

Idle == [pc |-> "idle"]

VARIABLES
  topology,       \* topology_: the generation of the admitted topology
  graph,          \* graph_: the generation it was built for, and how the last rebuild ended
  store, fences,  \* EvidenceStore: by_subject_ and sources_
  episodes, dropped,  \* EpisodeRegistry
  disk,           \* what SnapshotStore::load would return
  shutting_down,
  job,
  begun, restarts,   \* bounds: operations begun, restarts of the process
  heard           \* history: the sources this process accepted a record of

vars == <<topology, graph, store, fences, episodes, dropped, disk, shutting_down,
          job, begun, restarts, heard>>

State == <<topology, graph, store, fences, episodes, dropped, disk, shutting_down, heard>>

First == CHOOSE g \in Gens : \A other \in Gens : g <= other

\* The graph of a generation, published while the topology is that of another.
Built(gen, current) == [gen |-> gen, last |-> IF gen = current THEN "current" ELSE "overtaken"]

\* Runtime::create: the configured topology and the graph rebuilt from no evidence.
Init ==
  /\ topology = First
  /\ graph = Built(First, First)
  /\ store = <<>> /\ fences = Empty
  /\ episodes = Empty /\ dropped = 0
  /\ shutting_down = FALSE
  /\ job = [t \in Threads |-> Idle]
  /\ heard = {}
  /\ disk = None /\ begun = 0 /\ restarts = 0

-----------------------------------------------------------------------------
(***************************************************************************)
(* The parts.                                                              *)
(***************************************************************************)
At(t, pc) == job[t].pc = pc

\* The bound on operations: those of administrators count twice.
Cost(t) == IF t \in Admins THEN 2 ELSE 1

Begin(t) ==
  /\ At(t, "idle") /\ begun + Cost(t) <= MaxOperations
  /\ begun' = begun + Cost(t)

Goto(t, j) == job' = [job EXCEPT ![t] = j]

Step(t, pc) == Goto(t, [job[t] EXCEPT !.pc = pc])

Done(t) == Goto(t, Idle)

Smaller(a, b) == IF a < b THEN a ELSE b

Put(f, k, v) == [x \in DOMAIN f \cup {k} |-> IF x = k THEN v ELSE f[x]]

FenceOf(r) == [ZeroFence EXCEPT !.boot = 1, !.incarnation = 1,
                                !.generation = r.gen, !.sequence = r.seq]

SourceOf(s) == IF s \in DOMAIN fences THEN fences[s] ELSE NewSource

SourceRefused(s) == s \notin DOMAIN fences /\ Cardinality(DOMAIN fences) >= max_sources

\* admit_locked: the oldest records make room.
Admitted(r, recovered) ==
  LET room == IF Len(store) >= max_retained_evidence THEN Tail(store) ELSE store
      rec == [source |-> r.source, subject |-> r.subject, gen |-> r.gen,
              seq |-> r.seq, at |-> r.at, recovered |-> recovered]
  IN  Append(room, rec)

\* The records at the indices in S, one after the other: upto[i] are the indices
\* that do not come after i.
Listed(S, upto) ==
  [n \in 1..Cardinality(S) |-> store[CHOOSE i \in S : Cardinality(upto[i]) = n]]

\* query walks by_subject_ and in it the order of insertion, keeps the first records
\* that match, up to the budget, and sorts what it kept by time and insertion.
Query(matching, budget) ==
  LET found == {i \in DOMAIN store : store[i] \in matching}
      walked == [i \in found |->
                   {j \in found : \/ store[j].subject < store[i].subject
                                  \/ store[j].subject = store[i].subject /\ j <= i}]
      kept == {i \in found : Cardinality(walked[i]) <= budget}
      sorted == [i \in kept |->
                   {j \in kept : \/ store[j].at < store[i].at
                                 \/ store[j].at = store[i].at /\ j <= i}]
  IN  Listed(kept, sorted)

RemoveIndices(gone) ==
  LET kept == DOMAIN store \ gone
  IN  Listed(kept, [i \in kept |-> {j \in kept : j <= i}])

InWindow(r, now) == now - Window <= r.at /\ r.at <= now

\* Mutant: what a snapshot brought back passes as fresh.
Deciding_Recovered(r, gen) == r.gen = gen

\* assess_freshness and generation_matches.
Deciding(r, gen) == ~r.recovered /\ r.gen = gen

\* classify_subject: the evidence a congestion verdict cites, none if it is not one.
Cited(records, gen) == {r \in ToSet(records) : Deciding(r, gen)}

-----------------------------------------------------------------------------
(***************************************************************************)
(* Runtime::ingest: the topology pointer is copied, then the store decides *)
(* under its own lock.                                                     *)
(***************************************************************************)
ingest(t, r) ==
  /\ Begin(t) /\ ~shutting_down
  /\ Goto(t, [pc |-> "admit", gen |-> topology, record |-> r])
  /\ UNCHANGED <<State, restarts>>

Screened(j) == j.record.subject \notin Known[j.gen] \/ SourceRefused(j.record.source)

StoreRefuses(t) ==
  /\ At(t, "admit") /\ Screened(job[t])
  /\ Done(t)
  /\ UNCHANGED <<State, begun, restarts>>

StoreIngest(t) ==
  LET r == job[t].record
      s == SourceOf(r.source)
      accepted == fence_accepted(evaluate_fence(FenceOf(r), 0, 0, s))
  IN  /\ At(t, "admit") /\ ~Screened(job[t])
      /\ store' = IF accepted THEN Admitted(r, FALSE) ELSE store
      /\ fences' = Put(fences, r.source,
                       IF accepted
                       THEN [s EXCEPT !.last = FenceOf(r), !.has_state = TRUE, !.live = TRUE]
                       ELSE s)
      /\ heard' = IF accepted THEN heard \cup {r.source} ELSE heard
      /\ Done(t)
      /\ UNCHANGED <<topology, graph, episodes, dropped, disk, shutting_down, begun, restarts>>

-----------------------------------------------------------------------------
(***************************************************************************)
(* classify, evaluate and localize.                                        *)
(***************************************************************************)
\* classify_with pins the topology; an unknown subject is an error.
Classify(t, subject, now, goal) ==
  /\ Begin(t) /\ subject \in Known[topology]
  /\ Goto(t, [pc |-> "query", gen |-> topology, subject |-> subject, now |-> now,
              goal |-> goal])
  /\ UNCHANGED <<State, restarts>>

evaluate(t, subject, now) == Classify(t, subject, now, "observe")

localize(t, subject, now) == Classify(t, subject, now, "candidates")

\* window_records and classify_subject; localize attempts nothing unless the
\* verdict asserts congestion.
WindowRecords(t) ==
  LET j == job[t]
      matching == {r \in ToSet(store) : r.subject = j.subject /\ InWindow(r, j.now)}
      cites == Cited(Query(matching, max_window_records), j.gen)
  IN  /\ At(t, "query")
      /\ Goto(t, IF j.goal = "candidates" /\ cites = {} THEN Idle
                 ELSE [pc |-> j.goal, gen |-> j.gen, subject |-> j.subject, now |-> j.now,
                       cites |-> cites])
      /\ UNCHANGED <<State, begun, restarts>>

Full == Cardinality(DOMAIN episodes) >= max_episodes

Closed == {k \in DOMAIN episodes : episodes[k].state = "closed"}

\* observe without an assertion: every open episode of the subject goes quiet.
ObserveQuiet(t) ==
  LET open == {k \in DOMAIN episodes : k[1] = job[t].subject /\ episodes[k].state = "open"}
  IN  /\ At(t, "observe") /\ job[t].cites = {}
      /\ \A k \in open : episodes[k].revision < MaxRevision
      /\ episodes' = [k \in DOMAIN episodes |->
                        IF k \in open
                        THEN [episodes[k] EXCEPT !.state = "quiescent", !.revision = @ + 1]
                        ELSE episodes[k]]
      /\ Done(t)
      /\ UNCHANGED <<topology, graph, store, fences, dropped, disk, shutting_down,
                     begun, restarts, heard>>

\* Mutant: the generation is read again when the episode is recorded.
EpisodeKey_Current(j) == <<j.subject, topology>>

EpisodeKey(j) == <<j.subject, j.gen>>

\* observe with an assertion opens, refreshes or reopens the episode, displaces a
\* closed one if the registry is full, and is refused if none is closed.
ObserveAsserted(t) ==
  LET k == EpisodeKey(job[t])
      known == k \in DOMAIN episodes
      e == [state |-> "open", cites |-> job[t].cites,
            revision |-> IF known THEN episodes[k].revision + 1 ELSE 1]
  IN  /\ At(t, "observe") /\ job[t].cites # {}
      /\ known => episodes[k].revision < MaxRevision
      /\ \/ /\ known \/ ~Full
            /\ episodes' = Put(episodes, k, e)
            /\ UNCHANGED dropped
         \/ /\ ~known /\ Full
            /\ \E victim \in Closed :
                 episodes' = Put([x \in DOMAIN episodes \ {victim} |-> episodes[x]], k, e)
            /\ dropped < MaxDropped /\ dropped' = dropped + 1
         \/ /\ ~known /\ Full /\ Closed = {}
            /\ UNCHANGED episodes
            /\ dropped < MaxDropped /\ dropped' = dropped + 1
      /\ Done(t)
      /\ UNCHANGED <<topology, graph, store, fences, disk, shutting_down, begun, restarts, heard>>

\* localize queries the candidates' evidence and then walks graph_ without a lock.
\* torn records that the graph was written meanwhile.
LocalizeRead(t) ==
  /\ At(t, "candidates")
  /\ Goto(t, [pc |-> "walk", gen |-> job[t].gen, graph |-> graph.gen, torn |-> FALSE])
  /\ UNCHANGED <<State, begun, restarts>>

LocalizeEnd(t) ==
  /\ At(t, "walk")
  /\ Done(t)
  /\ UNCHANGED <<State, begun, restarts>>

\* The threads that are walking the graph while it is written.
Torn(jobs) == [t \in Threads |->
                 IF jobs[t].pc = "walk" THEN [jobs[t] EXCEPT !.torn = TRUE] ELSE jobs[t]]

-----------------------------------------------------------------------------
(***************************************************************************)
(* admit_topology, add_causal_edge and rebuild_causal_graph.               *)
(***************************************************************************)
admit_topology(t, gen) ==
  /\ Begin(t)
  /\ topology' = gen
  /\ Goto(t, [pc |-> "rebuild"])
  /\ UNCHANGED <<graph, store, fences, episodes, dropped, disk, shutting_down, restarts, heard>>

\* An operator's edge goes straight into graph_, under no lock, and is gone after
\* the next rebuild.
add_causal_edge(t) ==
  /\ Begin(t)
  /\ job' = Torn(job)
  /\ UNCHANGED <<State, restarts>>

RebuildTopology(t) ==
  /\ At(t, "rebuild")
  /\ Goto(t, [pc |-> "publish", gen |-> topology])
  /\ UNCHANGED <<State, begun, restarts>>

\* The edges are made of the pinned topology and the advertisements in the store
\* (module Localization); too many of them are an error and leave the old graph.
RebuildFails(t) ==
  /\ At(t, "publish")
  /\ Step(t, "failed")
  /\ UNCHANGED <<State, begun, restarts>>

RebuildPublish(t) ==
  /\ At(t, "publish")
  /\ graph' = Built(job[t].gen, topology)
  /\ job' = [Torn(job) EXCEPT ![t] = Idle]
  /\ UNCHANGED <<topology, store, fences, episodes, dropped, disk, shutting_down,
                 begun, restarts, heard>>

-----------------------------------------------------------------------------
(***************************************************************************)
(* save and load.                                                          *)
(***************************************************************************)
save(t) ==
  /\ Begin(t)
  /\ Goto(t, [pc |-> "save_episodes", topology |-> topology])
  /\ UNCHANGED <<State, restarts>>

SaveEpisodes(t) ==
  /\ At(t, "save_episodes")
  /\ Goto(t, [pc |-> "save_evidence", topology |-> job[t].topology, episodes |-> episodes])
  /\ UNCHANGED <<State, begun, restarts>>

SaveEvidence(t) ==
  /\ At(t, "save_evidence")
  /\ Goto(t, [pc |-> "save_file", topology |-> job[t].topology,
              episodes |-> job[t].episodes,
              evidence |-> Query(ToSet(store), max_snapshot_evidence)])
  /\ UNCHANGED <<State, begun, restarts>>

\* SnapshotStore::save is atomic (AtomicSnapshot); it may fail.
SaveFile(t) ==
  LET j == job[t]
  IN  /\ At(t, "save_file")
      /\ \/ disk' = [topology |-> j.topology, episodes |-> j.episodes, evidence |-> j.evidence]
         \/ UNCHANGED disk
      /\ Done(t)
      /\ UNCHANGED <<topology, graph, store, fences, episodes, dropped, shutting_down,
                     begun, restarts, heard>>

\* The files are read; nothing to load ends the call.
load(t) ==
  /\ Begin(t) /\ disk # None
  /\ Goto(t, [pc |-> "replace", from |-> disk, left |-> DOMAIN disk.episodes,
              dropped |-> dropped])
  /\ UNCHANGED <<State, restarts>>

LoadTopology(t) ==
  /\ At(t, "replace")
  /\ topology' = job[t].from.topology
  /\ Step(t, "restore")
  /\ UNCHANGED <<graph, store, fences, episodes, dropped, disk, shutting_down, begun, restarts, heard>>

\* Mutant: an episode the registry does not know is taken for a conflict.
Stale_Unknown(k, saved) == ~(k \in DOMAIN episodes /\ episodes[k].revision <= saved[k].revision)

\* kConflict: the registry holds a newer revision.
Stale(k, saved) == k \in DOMAIN episodes /\ episodes[k].revision > saved[k].revision

\* registry_->restore, one episode at a time in the order of their ids; a full
\* registry ends the load.
LoadEpisode(t) ==
  LET saved == job[t].from.episodes
  IN  /\ At(t, "restore")
      /\ \E k \in job[t].left :
           \/ /\ Stale(k, saved)
              /\ Goto(t, [job[t] EXCEPT !.left = @ \ {k}])
              /\ UNCHANGED episodes
           \/ /\ ~Stale(k, saved) /\ (k \in DOMAIN episodes \/ ~Full)
              /\ episodes' = Put(episodes, k, saved[k])
              /\ Goto(t, [job[t] EXCEPT !.left = @ \ {k}])
           \/ /\ k \notin DOMAIN episodes /\ Full
              /\ Goto(t, [pc |-> "failed"])
              /\ UNCHANGED episodes
      /\ UNCHANGED <<topology, graph, store, fences, dropped, disk, shutting_down,
                     begun, restarts, heard>>

LoadEpisodesDone(t) ==
  /\ At(t, "restore") /\ job[t].left = {}
  /\ Goto(t, [pc |-> "recover", from |-> job[t].from, left |-> job[t].from.evidence,
              dropped |-> job[t].dropped])
  /\ UNCHANGED <<State, begun, restarts>>

\* A source is entered without fence state: nothing was heard of it.
Recovered(s) == SourceOf(s)

\* store_->ingest_recovered, one record at a time; the source limit ends the load.
LoadRecord(t) ==
  /\ At(t, "recover") /\ job[t].left # <<>>
  /\ LET r == Head(job[t].left)
     IN  IF SourceRefused(r.source)
         THEN /\ Goto(t, [pc |-> "failed"])
              /\ UNCHANGED <<store, fences>>
         ELSE /\ store' = Admitted(r, TRUE)
              /\ fences' = Put(fences, r.source, Recovered(r.source))
              /\ Goto(t, [job[t] EXCEPT !.left = Tail(@)])
  /\ UNCHANGED <<topology, graph, episodes, dropped, disk, shutting_down, begun, restarts, heard>>

\* Mutant: the fences go with the liveness.
reset_liveness_Forgets == [s \in DOMAIN fences |-> NewSource]

reset_liveness == [s \in DOMAIN fences |-> [fences[s] EXCEPT !.live = FALSE]]

\* Mutant: the graph is left as it is.
AfterRecovery_NoRebuild == Idle

AfterRecovery == [pc |-> "rebuild"]

LoadReset(t) ==
  /\ At(t, "recover") /\ job[t].left = <<>>
  /\ fences' = reset_liveness
  /\ Goto(t, AfterRecovery)
  /\ UNCHANGED <<topology, graph, store, episodes, dropped, disk, shutting_down,
                 begun, restarts, heard>>

-----------------------------------------------------------------------------
(***************************************************************************)
(* run_maintenance, shutdown and the end of the process.                   *)
(***************************************************************************)
\* advance: the token is consulted before every episode, so a shutdown leaves
\* some episodes as they are and ends the maintenance.
Advance(t, due) ==
  /\ Begin(t)
  /\ due \subseteq DOMAIN episodes \ Closed
  /\ \A k \in due : episodes[k].revision < MaxRevision
  /\ episodes' = [k \in DOMAIN episodes |->
                    IF k \in due
                    THEN [episodes[k] EXCEPT
                            !.revision = @ + 1,
                            !.state = IF @ = "open" THEN "quiescent" ELSE "closed"]
                    ELSE episodes[k]]
  /\ Goto(t, IF shutting_down THEN Idle ELSE [pc |-> "sweep"])
  /\ UNCHANGED <<topology, graph, store, fences, dropped, disk, shutting_down, restarts, heard>>

\* sweep removes what lies before the horizon, up to its budget; a shutdown ends it
\* before or after any record.
Sweep(t, horizon) ==
  LET old == {i \in DOMAIN store : store[i].at < horizon}
      quota == Smaller(max_window_records, Cardinality(old))
  IN  /\ At(t, "sweep")
      /\ \E removed \in SUBSET old :
           /\ Cardinality(removed) <= quota
           /\ Cardinality(removed) = quota \/ shutting_down
           /\ store' = RemoveIndices(removed)
      /\ Done(t)
      /\ UNCHANGED <<topology, graph, fences, episodes, dropped, disk, shutting_down,
                     begun, restarts, heard>>

\* The operation of an administrator reports an error: what it has changed so far,
\* the topology for one, stays changed.
Report(t) ==
  /\ At(t, "failed")
  /\ graph' = [graph EXCEPT !.last = "failed"]
  /\ Done(t)
  /\ UNCHANGED <<topology, store, fences, episodes, dropped, disk, shutting_down,
                 begun, restarts, heard>>

request_shutdown ==
  /\ ~shutting_down
  /\ shutting_down' = TRUE
  /\ UNCHANGED <<topology, graph, store, fences, episodes, dropped, disk, job, begun, restarts, heard>>

\* The process ends, however, and is created again over the same directory.
Restart ==
  /\ restarts < MaxRestarts
  /\ restarts' = restarts + 1
  /\ topology' = First
  /\ graph' = Built(First, First)
  /\ store' = <<>> /\ fences' = Empty
  /\ episodes' = Empty /\ dropped' = 0
  /\ shutting_down' = FALSE
  /\ job' = [t \in Threads |-> Idle]
  /\ heard' = {}
  /\ UNCHANGED <<disk, begun>>

-----------------------------------------------------------------------------
Collector(t) == (\E r \in Feed : ingest(t, r)) \/ StoreRefuses(t) \/ StoreIngest(t)

Analyst(t) ==
  \/ \E s \in Subjects, now \in Times : evaluate(t, s, now) \/ localize(t, s, now)
  \/ WindowRecords(t) \/ ObserveQuiet(t) \/ ObserveAsserted(t)
  \/ LocalizeRead(t) \/ LocalizeEnd(t)

Keeper(t) ==
  \/ save(t) \/ SaveEpisodes(t) \/ SaveEvidence(t) \/ SaveFile(t)
  \/ \E due \in SUBSET DOMAIN episodes : Advance(t, due)
  \/ \E horizon \in Horizons : Sweep(t, horizon)

Admin(t) ==
  \/ \E gen \in Gens : admit_topology(t, gen)
  \/ add_causal_edge(t)
  \/ RebuildTopology(t) \/ RebuildFails(t) \/ RebuildPublish(t)
  \/ load(t) \/ LoadTopology(t) \/ LoadEpisode(t) \/ LoadEpisodesDone(t) \/ LoadRecord(t) \/ LoadReset(t)
  \/ Report(t)

Next ==
  \/ \E t \in Collectors : Collector(t)
  \/ \E t \in Analysts : Analyst(t)
  \/ \E t \in Keepers : Keeper(t)
  \/ \E t \in Admins : Admin(t)
  \/ request_shutdown
  \/ Restart

Spec == Init /\ [][Next]_vars
-----------------------------------------------------------------------------
(***************************************************************************)
(* Properties.                                                             *)
(***************************************************************************)
\* Type invariant: what the parts hold.
TypeOK ==
  /\ topology \in Gens /\ graph \in Graph
  /\ store \in Seq(Evidence) /\ Len(store) <= max_retained_evidence
  /\ Cardinality(DOMAIN fences) <= max_sources
  /\ \A s \in DOMAIN fences : s \in Sources /\ fences[s] \in SourceFenceState
  /\ DOMAIN episodes \subseteq Keys /\ episodes \in [DOMAIN episodes -> Episode]
  /\ Cardinality(DOMAIN episodes) <= max_episodes
  /\ disk = None \/ disk.topology \in Gens

\* "it can never support a current verdict" (docs/persistence.md:42): what an
\* analysis of this process cites was accepted by this process, whenever a
\* snapshot was saved, the process restarted or a load ran beside the analysis.
NoVerdictFromHistory ==
  \A t \in Analysts :
    At(t, "observe") => \A r \in job[t].cites : ~r.recovered /\ r.source \in heard

\* An episode of a generation cites only evidence of that generation, although
\* the topology may be replaced between classification and recording: the
\* evaluation keeps the topology it started with ("Analyses that started under
\* the previous generation finish against it", docs/concurrency.md:56).
EpisodesKeepTheirGeneration ==
  \A k \in DOMAIN episodes : \A r \in episodes[k].cites :
    r.gen = k[2] /\ r.subject = k[1] /\ r.subject \in Known[r.gen]

\* "live_sources is zero until the source speaks again" (docs/persistence.md:43):
\* no source is live that this process has not accepted a record of, also in
\* the middle of a load.
LiveOnlyIfHeard == \A s \in DOMAIN fences : fences[s].live => s \in heard

\* A load does not open the fences: whatever is sent again, saved and loaded in
\* one process, no position of a source's stream has two live records.
OneLiveRecordPerPosition ==
  \A i, j \in DOMAIN store :
    /\ ~store[i].recovered /\ ~store[j].recovered
    /\ store[i].source = store[j].source
    /\ store[i].gen = store[j].gen /\ store[i].seq = store[j].seq
    => i = j

\* However many administrators admit topologies and load at once: when none of
\* their operations is under way the graph is that of the admitted topology,
\* unless the last of them failed (it left the topology it had installed and the
\* old graph) or published the graph of a topology that another had replaced since
\* it was read; no third way leads to a graph of another topology.
GraphFollowsTopology ==
  (\A t \in Admins : At(t, "idle")) => graph.gen = topology \/ graph.last # "current"

EpisodesSurvive(t) ==
  LoadReset(t) =>
    LET saved == job[t].from.episodes
    IN  \A k \in DOMAIN saved :
          \/ k \in DOMAIN episodes /\ episodes[k].revision >= saved[k].revision
          \/ dropped > job[t].dropped

\* "history survives, liveness does not" (docs/persistence.md:48): when a load has
\* applied a snapshot, every episode in it is in the registry, at the saved
\* revision or a later one, unless an evaluation that ran meanwhile displaced a
\* closed one, which is counted.
HistorySurvivesLoad == [][\A t \in Admins : EpisodesSurvive(t)]_vars

\* "Analyses that started under the previous generation finish against it"
\* (docs/concurrency.md:56): a localization walks the graph of the generation it
\* classified under, and nobody writes to it meanwhile.
LocalizationKeepsItsGeneration ==
  \A t \in Analysts : At(t, "walk") => job[t].graph = job[t].gen /\ ~job[t].torn

\* Between operations and in the middle of them: the parts are within their
\* limits, no source is live on the word of a snapshot, and the graph is that of
\* the topology once the administrators' operations are over, failures and stale
\* publications excepted.
RuntimeInv == TypeOK /\ LiveOnlyIfHeard /\ GraphFollowsTopology
=============================================================================
