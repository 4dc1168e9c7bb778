# Congestion Observatory: TLA+ models and proofs

This directory holds a formal model of Congestion Observatory: the evidence store
and its fence, the episode registry, the worker pool, the snapshot files and their
format, the runtime that composes them, the ingest transport, and the analyses
(classification, correlation, topology and localization). TLC checks the modules on
small instances. TLAPS proves, for every value of the constants, the safety properties of the
store, the registry, the pool, the snapshot files and their format, the runtime, the transport
and all four analyses; what is said about liveness is left to TLC.
`PROJECT.json` maps every definition to the lines it models and lists runs,
hazards, findings and theorems.

## The system

Collectors send **evidence** (observations of ports, links, queues) to a
**runtime**. The runtime fences and retains it, classifies a subject over a window
of evidence, turns congestion verdicts into **episodes**, correlates and localizes
them, and saves everything to a **snapshot** that a later process loads.

| Component | State | Operations | Hard part |
|---|---|---|---|
| Fence (`model/generation`) | none; decides on the last accepted vector | `compare_generation`, `evaluate_fence` | vectors in any order, replays, reboots |
| Evidence store (`evidence/store`) | records by subject, eviction index, sources, counters | `ingest`, `ingest_recovered`, `sweep`, `reset_liveness`, `query` | two structures updated in four places, three limits, cancellation in the middle of a vector |
| Episode registry (`episode/episode`) | episodes with bounded history | `observe`, `advance`, `all`, `restore`, `list` | late and cancelled operations, displacement at the limit, restores over live state |
| Worker pool (`runtime/runtime.cpp`) | queue, threads, stop flag, counters | `start`, `submit`, `stop`, `worker_loop` | notifications outside the mutex, drain on stop |
| Snapshot files (`persistence/store`) | primary, fallback and temporary file | `save`, `load` | crash or failure between file operations |
| Snapshot codec (`persistence/snapshot`) | none | `encode_snapshot`, `decode_snapshot` | truncation, corruption, foreign writers, bounds that differ between writer and reader |
| Runtime facade (`runtime/runtime.cpp`) | topology, graph, policy, metrics | `ingest`, `classify`, `evaluate`, `admit_topology`, `add_causal_edge`, `rebuild_causal_graph`, `run_maintenance`, `save`, `load` | calls into several components, each under its own lock |
| Topology (`model/topology`) | nodes, links, paths, generation | `TopologyBuilder` `add_*` and `build`, `contains`, `require` | generation changes under running evaluations |
| Transport (`transport/*`) | connection threads, decoders, statistics | `IngestServer::run`, `serve_connection`, `stop`, `push_records`, `ping_server` | broken connections, retries, streams cut anywhere, connection bound, shutdown |
| Classifier (`assessment/*`) | none | `extract_features`, `classify_subject` | thresholds, freshness, contradictory sources |
| Correlation (`correlation/group`) | none | `correlate` | bounds on groups and members |
| Localization (`localization/*`) | causal graph | `CausalGraph::add_edge`, `localize` | bounded walks, ambiguity |
| Core, CLI | none | JSON, time, limits, cancellation token, commands | parsing and formatting |

Interactions: the transport and the CLI call the runtime; the runtime calls store,
registry and files one after the other, never holding one component's lock while
taking another's; maintenance runs as tasks of the worker pool; snapshots carry
copies of the registry and of the store's records.

What makes the components correct:

* fence and store: nothing superseded is accepted or counts as live; the limits
  hold; the index agrees with the vectors; every admitted record is accounted for;
* registry: a history that explains the episode, no early closing, no live episode
  displaced, restores that do not lose newer state;
* pool: no task lost, no wakeup lost, `stop` returns;
* files: a reported save survives whatever later saves run into;
* codec: what is saved comes back, damage is never read as data, what is accepted is sound;
* runtime: no verdict from recovered evidence, episodes of the generation they were judged
  under, loads that lose nothing newer;
* transport: true acknowledgements, nothing stored twice, calls and `run` that end;
* analyses: harm only with a fresh witness, culprits only with evidence of their own,
  groups that cohere, and every limit reported.

## Modules

| Module | Models | Notes |
|---|---|---|
| `Fence` | `generation.cpp` | pure operators; `Supersedes` is the order the properties use |
| `EvidenceStore` | `store.cpp` of evidence | extends `Fence`; one action per mutator and outcome |
| `MCEvidenceStore` | | inputs for TLC |
| `EvidenceStoreProofs` | | theorems, about the structures first, then about the fence |
| `EpisodeRegistry`, `MCEpisodeRegistry`, `EpisodeRegistryProofs` | `episode.cpp` | |
| `WorkerPool`, `WorkerPoolProofs` | `Runtime::WorkerPool` | |
| `AtomicSnapshot` | | what the files amount to: a register with atomic saves, which forgets by damage and by a save over a damaged file |
| `SnapshotStore` | `store.cpp` of persistence | refines `AtomicSnapshot` |
| `SnapshotCodec`, `MCSnapshotCodec` | `snapshot.cpp` | |
| `SnapshotProofs` | | theorems about the files, then about the format |
| `Frame` | `frame.cpp` | a frame is two cells, header and body, so that a stream can be cut inside it |
| `IngestServer`, `MCIngestServer` | `server.cpp`, `client.cpp`, `socket.cpp` | extends `Frame`; with fairness |
| `IngestServerProofs` | | theorems about the server and about its callers |
| `Runtime`, `MCRuntime`, `RuntimeProofs` | `runtime.cpp` | composes store (with `Fence`), registry, topology, graph and disk |
| `Order` | the traversal of `std::map`, `std::sort` and filtering loops | two operators |
| `Evidence` | `evidence.cpp`, `policy.cpp` | pure operators |
| `Classifier`, `MCClassifier` | `classify.cpp` | extends `Evidence` |
| `Topology` | `topology.cpp` | |
| `Localization`, `MCLocalization` | `graph.cpp`, `localize.cpp`, the graph part of `runtime.cpp` | extends `Topology` and `Evidence` |
| `AnalysisProofs` | | theorems about topology, graph, walk and conclusion, then about the classifier |
| `Correlation`, `MCCorrelation`, `CorrelationProofs` | `group.cpp` | |

Operators named `X_Something` with a comment "Mutant" are wrong variants of `X`;
they are used by no specification. Each property of a run is known to fail when one of
them replaces its original.

### EvidenceStore

Every mutator holds one mutex from its first read of the state to its last write,
so an operation is one action. `ingest` has four outcomes, each an action guarded by
the code's early returns in their order: invalid (malformed, no incarnation, source
limit), unknown subject, fenced, accepted. An accepted record may retire what its
source said before (`RetireSource`), then `admit_locked` makes room globally, makes
room in the subject and appends.

A subject's vector is a function from insertion indices to records; its front is
the smallest index. The invariant `IndexCoherent` is what makes the code's
assumption "the smallest key is also the front of that subject's vector" true, and
the model does not assume it: the global eviction erases the *front* of the vector
of the subject that the *index* names, as the code does.

`sweep` removes expired records in map and vector order up to a budget, or up to a
position where the token was found cancelled. Its compaction assigns a record onto
itself when nothing before it was removed. What that does depends on the standard
library: `SelfMoveClears` is FALSE for one where the self-move of a string does
nothing and TRUE for libstdc++, where it clears the string.

Data left out: measured values, labels, freshness. `valid` is the verdict of
`validate_evidence`. `query` and the statistics accessors change nothing.

### EpisodeRegistry

`observe` (quiet, opening, displacing, refused, refreshing), `advance` over all
episodes or over those before a cancellation, `all` (the copy a snapshot takes),
`restore` of one episode, and `Restart`. An operation is given a time its caller
read before the call; it may be up to `MaxLag` older than the latest time used. An id is
a number with a scope; that different keys have different digests is assumed.
Confidence, citations and sources are carried along by the code and decide nothing.

### WorkerPool

An action is what a thread does between two points where another may run: a
critical section, a notification, a task, a join. `notify_one` and `notify_all` come after
the mutex was released and are steps of their own; a notification with nobody
waiting is lost, and any wait may end spuriously. One owner calls `start` and `stop`,
one after the other; any number of threads submit.

### SnapshotStore and AtomicSnapshot

A save is a sequence of file operations. Each may fail, the process may die between
any two of them and inside the copy or the write, which leaves a torn file; errors
of `remove` are ignored as in the code. `Damage` is the environment: a file at rest loses
its integrity between saves, counted since the last save that reported success.
A save may also fail before it touches a file. Assumed: whether a file exists is found
out reliably, and an intact file can be read.

`AtomicSnapshot` is the abstract specification: a register that a save replaces at once
or not at all and a load returns. `Damage` takes the recoverable snapshot back to an older one or to
none, in the step that damages a file and for that file only. Whatever ends a save early
(`Abandon`) changes nothing. The one exception is stated as an action of its own: while the register is
`spoiled`, because the primary is there and does not decode, a save under way
may lose what is recoverable (`Overwrite`) and then remove the damaged file (`Discard`).
That is `store.cpp:127-130`: the good fallback is removed and
the damaged primary copied over it before the new snapshot is written, so a failure or a crash from there on leaves
nothing to load. The refinement mapping is `recoverable <- Recoverable`, the snapshot that
`load` would return, `saving <- (step # "idle")` and `spoiled <- (primary = Torn)`.

Power loss is not modelled: the code calls no fsync and promises nothing there.

### SnapshotCodec

A file is a header, a table of sections and a payload. The payload is a sequence of
tokens: a count, the metadata, an object of the topology, an episode, a record. Sizes
and offsets are counted in tokens, checksums and digests are the values they are taken
over, so two contents never collide. The encoder cuts episodes, evidence and labels to
their bounds as the code does; the decoder is the conjunction of the code's checks in
their order. Between save and load the environment damages up to `MaxDamaged` fields of header or
table, or tokens, or cuts or extends the payload, or another producer replaces a section
with right checksums. A process with other limits or another policy may do the load.

`RoundTrip` is stated for *portable* contents. What the decoder asks for and the encoder
does not is spelled out in `Portable`: room for header and table too, a limit that allows
four sections, a tenant and a class for every flow, and no more labels on a node than are
written. What is saved was `Admitted` by the components of the process that saves: within its
limits, with references to what is there and identities that follow from the content.

### Frame and IngestServer

A connection is two streams of cells and two ends. A read takes any prefix of what has
arrived; a send to an end that is gone fails or is lost; a connection may be reset;
a deadline may expire whenever nothing can be read. `SocketRoom` is what a connection
takes that nobody reads: `send_all` has no deadline and blocks beyond it.

Processes: the thread inside `run` (accept, reap, refuse or start a thread, join), one
thread per connection (`serve_connection`), the caller of
`stop`, callers of `push_records` that try again with the same records over a new
connection while the old one may still be worked on, and raw peers that send a burst of
frames and then neither read nor close. `Runtime::ingest` is reduced to its answer: shutting
down, bad record, fenced by the sequence number, or stored.

A record takes a connection thread three steps, between which everybody else runs: it is stored or
refused (`HandleIngest`), acknowledged (`Acknowledge`) and counted (`CountRecord`). A thread whose
send does not fit stays before it, for ever if the peer does not read: the record is stored and
neither acknowledged nor counted, which is what `StatsTrue` allows for (`Uncounted`) and
`EverythingReturns` calls `Stuck`.

### Runtime

No operation of the facade holds two locks, so each is a sequence of steps, one per
critical section, and `job[t]` holds the thread's position and locals. `ingest` reads the topology
and then enters the store; `evaluate` classifies a window and later observes; `localize`
reads the graph without a lock; `admit_topology` swaps the pointer, rebuilds and
publishes; `save` copies topology, episodes and evidence one after the other; `load`
replaces the topology, restores episodes one by one, then records, then resets liveness
and rebuilds, and may stop at any of them with an error. The data race on the graph is a
nondeterministic choice (`Torn`): whoever reads it while it is written may see
anything. A restart loses everything but the file; collectors then send again.
There may be any number of administrators. The history `graph.last` says how the last of their operations to end
did so: it published the graph of the topology that was admitted then, or that of one that had been
replaced since it was read, or it failed and left what it had changed so far.

The parts are abstracted to what they hand to each other: every record reports harm, an
episode is its subject and generation with the records it cites, a topology is its
generation. The detailed models of the parts are the modules above.

### Evidence and Classifier

`extract_features` and the rules R00 to R09 as one ordered list of which the first that
applies decides, with the blockers each rule raises on the way. Scalars are integers
(percent, or per mille of a threshold). A window grows record by record (`Arrive`) and ages with
`Tick`, which advances `evaluated_at`;
the assessment is recomputed after every step, which lets action properties say what
the passing of time alone may do.

### Topology and Localization

Objects are numbers, references are checked by every `add_*` and again by `build`, which
computes the reverse indices as the code does: push in map order, `unique`, then `sort`.
The causal graph gets one edge per structural relation that an observation reports,
within the limits on nodes and edges; callers add observational edges. A topology may be admitted
over another, the one under construction or one that came from elsewhere (`Replacements`): it is installed before the rebuild, and if that fails
at a limit the old graph stays. The history `built_from` is the topology the graph belongs to. Rebuild and
`localize` read records through `query`, which returns the first `max_window_records` of
those that match, subject by subject, whatever their kind, so a report may be out of a rebuild's sight. `localize` walks
upstream one dequeued object per step; `WalkIsExact` compares its end with
distances computed from the edges. One caller does all this in turn; overlapping
callers are in `Runtime`.

### Correlation

One step is one turn of the loop over the sorted episodes, so that cancellation comes between
any two. Every decision, also a refusal, is recorded in the group that made it.

## Runs

| Run | Checks | Bounds and why they are enough |
|---|---|---|
| `evidence_store` | `IndexCoherent`, `Bounded`, `NothingSilentlyDropped`, `LiveEvidenceCurrent`, `FenceOrdered`, `RecordsUntouched`, `FenceNeverRetreats` | 2 known subjects and an unknown one, 3 collectors for 2 places, 2 boots, limits 3 and 2, 4 admissions, 1 refusal, 1 sweep: both limits are reached by one admission, a sweep meets partly expired vectors, a reboot meets records of both subjects, and records arrive repeated, late, malformed, without authority or under a changed incarnation |
| `evidence_self_move` | `RecordsUntouched`, violated | as `evidence_store` with `SelfMoveClears` |
| `episode_lifecycle` | `RegistryInv`, `ClosedOnlyWhenIdle`, `LiveNeverDisplaced`, `RevisionNeverRetreats` | 2 episodes for 1 place, 2 severities, history of 2 transitions and 1 assessment, 4 revisions, snapshots and restarts at any time: histories overflow, episodes are displaced and refused, all windows elapse, operations are late, and a restore meets a live episode of a lower, equal or higher revision |
| `worker_pool` | `NoTaskAbandoned`, `NoLostWakeup`, `EveryTaskRuns`, `StopReturns` | 3 workers, queue of 2, 4 tasks, 2 starts: full queues, idle and busy workers at a stop, a second life of the pool; deadlock is checked |
| `snapshot_files` | `SavedStaysRecoverable`, `SavesAreAtomic` | 4 saves, 2 damaged files between reported saves: two full rotations and two interrupted ones, damage to either file or both |
| `ingest_server` | `ServerInv`, `AcknowledgementsTrue`, `StoredOnce`, `PushIsComplete`, `EverythingReturns` | one caller with two attempts of two records, one raw peer with three bursts, a bad record in one of them, one connection slot, a decoder bound of one and a half frames, room for one frame in a socket: the slot is contended, the retry overlaps the first attempt, pipelined frames meet the bound, and the second answer to a peer that does not read blocks its thread, with a stop before or after |
| `runtime` | `RuntimeInv`, `NoVerdictFromHistory`, `EpisodesKeepTheirGeneration`, `OneLiveRecordPerPosition`, `HistorySurvivesLoad` | one collector, analyst and keeper and two administrators, 7 operations of which those of administrators count twice (`Cost`), 1 restart, 2 generations (the second without subject 2), 2 sources for 1 place, 1 episode place: any two operations overlap at every step, two admissions or loads too, and a save, a restart, a load and a resend fit in one behaviour |
| `runtime_graph` | `LocalizationKeepsItsGeneration`, violated | as `runtime` |
| `classification` | `AssessmentInv`, `HistoryDecidesNothing`, `HarmIsWitnessed`, `WaitingProvesNothing` | windows of up to 3 of 32 records in every order, three times: every rule decides somewhere, three values chain, two sources are outvoted by number of records only |
| `localization` | `StructureInv`, `WalkIsExact`, `NeverHalfBuilt`, `NamedWithProof` | 1 node, 2 ports, 2 links, queue, buffer, a path over link 3, link 4 and link 3 again, and flow, at most 7 of them; two other topologies to admit, one without the queue and one without the path; graphs of 4 nodes and 6 edges, 4 of 7 records, queries cut at 3, 2 claims, depth 2, 2 candidates: rebuilds fail at both limits, also for a second topology, and leave stale edges; queries are cut before and behind a report; walks meet the cycle of the links, two routes to one object and the depth limit; three candidates qualify for two places, with a leader among those cut off |
| `correlation` | `GroupsInv`, `FirstFit` | every subset of up to 6 episodes, groups of 3: both limits are reached, windows chain, tenants and scopes differ |
| `snapshot_codec` | `AcceptedInv`, `RoundTrip`, `DamageIsNotData` | contents below and above the cuts, limits below, at and above a file's size and below its number of sections, two policies, 2 damaged places: a damage may hide another |

Where a module has many invariants a run checks them as one, a conjunction of named parts that
each have their own comment:

| Checked as | Parts |
|---|---|
| `RegistryInv` | `TypeOK`, `RegistryBounded`, `HistoryAccounts`, `PeakCoversHistory` |
| `ServerInv` | `TypeOK`, `ThreadsBounded`, `RunOutlivesConnections`, `StatsTrue` |
| `EverythingReturns` | `StopEndsRun`, `CallsReturn` |
| `RuntimeInv` | `TypeOK`, `LiveOnlyIfHeard`, `GraphFollowsTopology` |
| `AssessmentInv` | `AssessmentOK`, `HarmIsNamed`, `ConflictsReported`, `MajorityIsOfSources` |
| `StructureInv` | `TypeOK`, `NothingDangles`, `IndicesExact`, `StructureIsReported` |
| `NamedWithProof` | `CulpritsAreProved`, `LeadersToldApart` |
| `GroupsInv` | `TypeOK`, `EachInOneGroup`, `GroupsCohere`, `WindowIsHull` |
| `AcceptedInv` | `TypeOK`, `AcceptedIsSound`, `SameConfiguration` |

The type invariants of `EvidenceStore`, `WorkerPool` and `SnapshotStore`, and `EvictsOldestFirst`,
are proved for all constants and not checked by a run.

Deadlock is not checked where the system may rightly come to rest: a server that has
returned, and models whose bound on operations, windows, episodes or time is used up.

**Fairness** is assumed of the pool and of the transport. In the pool (`FairSpec`): weak fairness of every worker's
loop, of a submitter on its way to notify and of an owner inside `stop`. These are
running threads, which the operating system schedules; a task is one maintenance
pass over bounded state. Nobody is obliged to submit, start or stop, and no wakeup
has to be spurious. The mutex needs no fairness of its own, because a critical
section is one step. In the transport (`IngestServer!Spec`): weak fairness of the thread inside
`run`, of every connection thread, of a caller inside an exchange and of the second half
of `stop`. A read or an accept with nothing to read ends by its deadline, which
is a timer; a send that fits in the buffers does not wait. Nobody has to connect,
to try again or to stop the server, a raw peer owes nothing, and connections need not break.

**What the violated runs show** (quotations in `PROJECT.json`):

* `evidence_self_move`: the sweep assigns records onto themselves; with libstdc++
  this wipes the names of every record that stays in place.
* `runtime_graph`: a localization reads the graph of another generation, or one that is being
  written, because it neither locks nor pins it.

## Where the code and its documentation part

Besides the two findings, these statements do not hold of the code as it is. The models
follow the code; the last column says how the checked properties make room for it.

| Statement | What the code does | In the models |
|---|---|---|
| `docs/limits.md:35`, "evicted, per subject first and then globally" | `admit_locked` makes room globally first (`evidence/store.cpp:47`): with both limits reached an admission evicts a record of another subject and one of its own | `EvictsOldestFirst` speaks of one vector |
| `runtime.cpp:750`, "a restore must never move state backwards" | `restore` compares revisions (`episode.cpp:471`), and a new process counts from 1: an episode it has just asserted gives way to an older state with more revisions | `RevisionNeverRetreats` is about revisions, not about `last_seen` |
| `episode.hpp:164`, "Restored episodes carry no liveness" | an episode saved open is open after the restore (`episode.cpp:483`) | no property says otherwise |
| `persistence/store.cpp:127`, "Keep the previous good snapshot as the fallback" | a save rotates the primary unread (line 130): a damaged one replaces the good fallback, and if the save then fails or dies nothing is left | `Overwrite` of `AtomicSnapshot` is this loss, and the only one a save may cause |
| `server.hpp:50`, "until stop() is called or the listener fails" | the deadline of `accept` ends `run` with an error though nobody stopped the server (`server.cpp:329`) | `StopEndsRun` says that `run` ends after `stop`, not that it lasts until then |
| `socket.hpp:15`, "must not block forever on a peer that stopped talking" | `send_all` has no deadline (`socket.cpp:159`): a peer that does not read blocks its connection thread, and `run` joins it forever | it happens in `ingest_server`; `StopEndsRun` says that no other thread is left, and `run` only while it waits for such a one |
| `docs/classification.md:45`, a cumulative counter never is decisive | `observe_rate` looks at the unit first (`classify.cpp:99`): a lifetime total of dropped bytes confirms congestion | the pool has no lifetime total in bytes |
| `docs/localization.md:52`, "Depth limiting is reported as a blocker" | with no candidate left `localize` returns before that blocker is added (`localize.cpp:262`) | blockers are modelled as the code adds them |
| `docs/localization.md:45`, "**all** of them are reported" | the ranking is cut to `max_candidates` before the leaders are compared (`localize.cpp:251`): beyond it leaders are missing, and with 1 a single origin is named beside an equal rival | `LeadersToldApart` says exactly when, and that nobody stronger is left out |
| `docs/concurrency.md:55`, `admit_topology` swaps a pointer under a mutex | the graph is no part of what is swapped: of two overlapping rebuilds the one that read the older topology may publish last (`runtime.cpp:680`), as two loaders may (`suite_hardening.cpp:180`) | `GraphFollowsTopology` allows for it (`graph.last`) |
| `runtime.hpp:127`, `admit_topology` reports success or an error | when the rebuild fails it returns an error (`runtime.cpp:543-549`), the topology is replaced all the same, and the graph of the old one stays | `StructureIsReported` speaks of the topology the graph was built from, `GraphFollowsTopology` excepts failures |
| `runtime.cpp:565`, structural edges where "an observation actually reports the structure" | the rebuild reads the first `max_window_records` records of any kind in the order of subjects (`runtime.cpp:572`, `evidence/store.cpp:219`): reports behind them are not seen, and it succeeds | `NeverHalfBuilt` is about relations whose records are within the cut |
| `group.hpp:24`, merging across tenants is off | a member is compared with the opener only (`group.cpp:119`), and an opener without tenant accepts every tenant | `GroupsCohere` relates all members in everything, in the tenant only where the opener has one |
| `group.hpp:18`, "only be grouped when their observed intervals are within this span" | nothing reads `window_span`: only `max_gap` bounds a group | the model has no such bound, and no property speaks of one |
| `snapshot.hpp:31`, "a damaged snapshot is rejected whole, never partially applied" | section ids are under no checksum and two sections are optional (`snapshot.cpp:829`): one changed id drops all episodes or all evidence | `DamageIsNotData` allows this where the identity of that section is damaged, and nothing else |
| `snapshot.hpp:71`, "Fails when the encoded size would exceed the configured bound" | the encoder bounds the payload (`snapshot.cpp:640`), the reader the file | `Portable` asks for the room |
| `limits.cpp:33`, any positive `max_snapshot_sections` is valid | the encoder writes four sections without asking (`snapshot.cpp:648`), the decoder refuses more than the limit (`snapshot.cpp:718`): below four every save succeeds and no load does | `Portable` asks for the limit; without it `RoundTrip` fails under the limits "narrow" |

## Proofs

Constants are arbitrary within the named assumptions (`StoreAssumption`,
`RegistryAssumption`, `PoolAssumption`, `SnapshotAssumption`, `CodecAssumption`, `ServerAssumption`,
`ScriptAssumption`, `RuntimeAssumption`, `CorrelationAssumption`, `TopologyAssumption`,
`PolicyAssumption`, `ClassifierAssumption`, `LocalizationAssumption`), which ask for no more than `Limits::validate`,
`ClassificationPolicy::validate` and
the types of the code: positive limits, finite sets of names, a subject limit that does not exceed
the global one, a policy in range, records whose times and scalars are integers, and, of the models' own constants, scripts of well-formed frames and
threads that have one role each. Of digests and checksums `CodecAssumption` says what the codec relies on:
different configurations have different digests, and what damage leaves is nothing that was written. Episodes to be correlated have a positive `first_seen`, because the code
takes a window that starts at time 0 for one that was not set.

* **EvidenceStoreProofs.** `StoreInv` is the conjunction of `TypeOK`, `IndexCoherent`,
  `Bounded` and `NothingSilentlyDropped`. None of the last three is inductive alone: that an eviction keeps the
  index coherent needs that the smallest index is the front of its vector, which is
  coherence itself; the counts need that `retained_` is the size of the index, or the
  guarded decrements would lose one; the subject bound needs that exactly one record leaves. The lemmas follow
  `admit_locked`: `MakeRoom`, `MakeSubjectRoom`, `PushBack`, then retirement and compaction.
  In its second half `FenceMonotone` and `OldestEvictedFirst` hold in any build.
  `RecordsImmutable`, `LiveIsCurrent` and `AcceptanceIsOrdered` assume `~SelfMoveClears`; the run
  `evidence_self_move` shows that they need it. The inductive `FenceInv` adds to the two
  invariants that the vector remembered for a source is the one of its latest accepted
  record or supersedes it, so that `Supersedes` (transitive) carries over to the next admission.
* **EpisodeRegistryProofs.** For every set of identities, every policy and all limits. The invariant `IndInv` says
  that each episode is `Sound` with respect to the latest time used: what it holds is well
  typed, its history accounts for its state and its peak, and a closed one has been idle for its
  windows. It says the same of the copy a snapshot took: a restore puts that copy back
  after any number of steps, so nothing about the registry alone would be inductive. Since the time only
  grows, a copy that was sound stays sound.
* **WorkerPoolProofs.** For any finite set of workers. `PoolInv` adds a ledger
  (submitted = completed + queued + busy workers) and the fact that a worker that has
  left proves the queue empty and the flag set. `NoLostWakeup` is inductive on top of it.
* **SnapshotProofs, files.** The rotation: while the primary may disappear the fallback
  equals it, while the fallback may be torn the primary is there. It yields
  recoverability (with damage made good by the next reported save). For the refinement
  of `AtomicSnapshot` under damage too, the inductive invariant adds `Ordered`: a fallback is
  never newer than a primary that can be read, so what a loss leaves is older; and that a save which has begun to
  rotate a damaged primary finds the register already empty or empties it.
* **SnapshotProofs, format.** For all contents, limits and policies, any number of damaged places and whatever tokens another
  writer puts into a section. `CodecInv` says what a file is: what `encode_snapshot` made of the content that was saved (`Encoded`);
  or that with fields of header and table and tokens of the payload changed, each checksum in it being the one
  written or garbled (`Base`); or what another writer made of it (`Form`); and that what was decoded was decoded from it. The
  properties speak of what was decoded only, so none is inductive. The work is in
  the codec, without steps. `FlattenSeq` and the offsets of `Seal` are unfolded by induction, which gives that each of four
  sections lies in the payload where the table says (`Sealed`). A reader takes from what begins with a counted list that list and
  leaves the rest (`CountedRead`), so the seven lists of a topology come back (`TopologyReadsBack`), and the whole
  (`OwnSnapshotLoads`). `DamagedIsNotData` needs that sections cannot be mistaken for one another: a section that passes its
  checksum is one of the four written (`OneOfTheWritten`), and the first token of each differs in its fields from what the
  reader of another expects, except that episodes and records both begin with a count; there
  a list is accepted as the other kind only if it is empty (`NotMistaken`). `DecodedIsSound` asks only for `Form`.
* **IngestServerProofs.** For any number of callers, raw peers, attempts and slots, and scripts of any length.
  `ServerOK` says how a thread, its connection and the vector of workers belong together: a thread that serves is
  in the vector, connections in the backlog are different ones without a thread, and after `run` has returned every thread has
  finished. `LogOK` bounds what is stored and counted; a finished thread accounts for the one
  record that `records_accepted` may lack, and so does one that has yet to acknowledge or to count it. `StoredOnce` is inductive because the sequence number fences whatever is
  at or below the latest stored one of the same caller.
  Of the callers, `CallersInv` on top of it follows one request and its reply. At most one request of a
  connection is on its way, cut into cells between the stream and the server's buffer (`OnItsWay`);
  of a caller that waits, either the request or its reply is there as long as the connection is
  (`Exchanging`), or the server's thread holds the record and owes its acknowledgement; one that can still be read, or is due, tells the truth about the current record (`ReplyOK`).
  `AcknowledgementsTrue` needs all of this for the current attempt, `PushIsComplete` for the
  abandoned ones too: whatever is stored of a caller, the good records before it are (`PrefixStored`), so that a
  record a retry finds fenced is already there.
* **RuntimeProofs.** For any number of threads of every role, generations, subjects, sources and operations.
  `IndInv` says of every component what the others rely on, and of every thread what its local
  variables still guarantee when the state they were read from has moved on: the window an
  analyst carries cites live records of one generation and one subject, the copies an administrator has
  taken or loaded are what a registry and a store may hold, and what a load has applied so far is in the registry at the
  saved revision or a later one, or a displacement was counted (`Applied`).
  `OneLiveRecordPerPosition` needs that every live record is covered by its source's fence,
  and that a recovered one never becomes live. `GraphFollowsTopology` (part of `RuntimeInv`) needs that a graph of
  another topology is either marked by `graph.last`, or some administrator has replaced the topology and not yet ended and so owes
  a rebuild or a failure (`Owes`).

* **CorrelationProofs.** The invariant speaks of the episodes looked at so far: each is in one group, or there are as
  many groups as there may be and all refused it; the episodes to come are after all of these. So the
  opener of a group is the earliest of its members and starts its window, and a group
  that was asked before another has on record that it refused everyone in the other. Neither
  `EachInOneGroup` nor `FirstFit` can be seen to hold at the end without it, since the result is sorted in another order.
  That members agree although each was compared with the opener only, is what `Fits` carries.
* **AnalysisProofs, localization.** For every fabric, graph (cycles included), record set, policy and limit. `LocalizationInv` has
  four parts. Of the objects (`ObjectsOK`): they are finitely many and what they refer to is there. The indices of a built topology follow
  from its objects by the way they are made: the pushes are in order (`PushedFacts`), so equal ones are
  neighbours, `std::unique` leaves each once (`UniqueFacts`) and sorting changes nothing
  (`SortedFacts`). Of the graph: its limits, and that a structural edge cites a record that reports it; the loop over the
  relations keeps `Sound`, which says so of every prefix and, as long as no call failed, that no
  relation of the prefix is missing that a returned record reports; a record is returned if those up to its subject are within
  the limit of the query (`WithinTheLimit`). Of the store (`StoreOK`): every record is with its subject, once, which makes the order of the
  query one. Of a walk (`WalkInv`): the queue is in order and spans at most two
  depths, every object visited explains one that is an edge nearer, and one that has been expanded has all its
  causes visited at most an edge further away. `WalkIsExact` speaks of the end only and is not
  inductive; with an empty queue the last two parts give both of its inclusions. `NamedWithProof` is about one step: the
  ranking is a strict total order of finitely many candidates, so the cut at the margin is
  the set of objects within the margin of the best, as far as `max_candidates` lets them in, and whoever is cut off has
  no more points than any who is not.
* **AnalysisProofs, classifier.** For every policy that `validate` accepts and any window of records that `validate_evidence` accepts, of any
  length and order. `ClassifierInv` says that the window holds different records and that the last assessment is the one
  `classify_subject` gives for it now; each property then follows from a lemma about that function. The one they share is `Asserted`:
  the first rule that applies is R04 exactly if some deciding record shows harm by itself or two deciding latency samples do
  together, whatever the other features are. `HarmIsWitnessed` applies it to the window and to its parts,
  `WaitingProvesNothing` to two successive times (`DecidesBefore`: a record that decides later and did not before
  had timestamps ahead of the clock). For `HistoryDecidesNothing` the features that R04 to R09 look at are shown to depend on the
  deciding records only (`SameDeciders`), and history not to be among them; R00 to R03 are what is left. `AssessmentInv` needs the clustering of
  `assess_agreement`: the records can be sorted and then rise in value (`SortExists`, `OrderedFacts`),
  every cluster of the greedy loop is within the tolerance of its first value and every record is in one
  (`PlaceKeeps`, `ClustersFacts`, by induction over the prefixes), and whatever lies between two values within the tolerance is
  within it too (`WithinBetween`). The last needs a relative tolerance of at most 100 %, which `validate` enforces.

To be reasoned about without induction over sequences, what the code sorts is stated by
rank: `Listed` puts a record at the place that counts the records not after it, and the n-th push of a
script is the one with n pushes up to it (`Nth`); `Correlation` takes the earliest of the episodes not
yet looked at. In `Topology` and `Localization` a container is put in order by choosing the arrangement that is in
order (`InOrder`, `Sorted`, `Ranked`), and that there is one is proved (`Arrangement`); so are the records that `Evidence` sorts (`Ordered`)
and the identities `Classifier` cites. Induction itself is
used in the form of `Inductive`: a set that holds 0 and with every number its successor holds all numbers.

Only model-checked: liveness of pool and transport (`EveryTaskRuns`, `StopReturns`,
`EverythingReturns`), since fairness and `ENABLED` are out of the prover's reach.

## Plan

1. *(done)* Fence and store; registry; pool; files; the theorems above.
2. *(done)* Runtime, transport, codec, classifier, topology, localization, correlation.
3. *(done)* Theorems for the registry, the transport, the runtime and the correlation.
4. *(done)* Theorems for topology and localization.
5. *(done)* Theorems for the classifier.
6. *(done)* Theorems for the snapshot format. Every invariant and every action property that a run checks is now a theorem too.

## Not modelled

* JSON, time formatting, name syntax, hashing, CRC-64: conversions without interaction. Their
  guarantees appear as assumptions: different contents have different digests and checksums,
  a torn file does not decode, the text of a frame is what was put in.
* Operations of the runtime that only read (`explain`, `export_json`, listings) and its metrics.
* `start` and `stop` of the pool by two owners at once, which the code does not guard against.
* Of `validate_evidence`, that labels are valid names and the bounds on the bytes of metadata.
* Resolving addresses and socket options: external. Deadlines have no length.
* The CLI: a thin layer over the library.
