--------------------------- MODULE EvidenceStore ---------------------------
(***************************************************************************)
(* The evidence store (src/src/evidence/store.cpp): retention, fencing and *)
(* bounded growth.                                                         *)
(*                                                                         *)
(* Every mutator holds one mutex from its first read of the state to its   *)
(* last write (the checks before the lock are pure), so each operation is  *)
(* one action.  The store keeps three structures that have to agree:       *)
(*   by_subject       the retained records of every subject;               *)
(*   insertion_order  the global eviction index, insertion index->subject; *)
(*   sources          the last fence accepted from every source.           *)
(*                                                                         *)
(* A subject's vector is a function from insertion indices to records: the *)
(* vector is ordered by the index its records carry, because push_back     *)
(* appends the largest index assigned so far and erase and compaction keep *)
(* the order.  Its front is its smallest index.  A subject without a       *)
(* vector and a subject with an empty one behave alike.                    *)
(***************************************************************************)
EXTENDS Fence, Integers, FiniteSets

CONSTANTS
  Subjects,       \* subject names, numbered in the order std::map keeps them
  Sources,        \* source names
  NoName,         \* the empty string a self-move leaves behind
  Inputs,         \* the records that collectors deliver
  Recoverable,    \* the records that snapshots deliver
  KnownSubjects,  \* the subjects of the topology handed to ingest
  Times,          \* the horizons a sweep is called with
  max_retained_evidence, max_evidence_per_subject, max_sources,  \* Limits
  minimum_authority, require_known_subject, require_incarnation, \* IngestPolicy
  \* TRUE for a standard library whose string self-move assignment clears the
  \* string (libstdc++), FALSE for one where it does nothing (MSVC).
  SelfMoveClears,
  \* Bounds of the model: admissions, refusals, sweeps.
  MaxAdmissions, MaxRefusals, MaxSweeps

\* What ingest is given.  valid is the verdict of validate_evidence.
Submission == [source : Sources, subject : Subjects, fence : FenceVector,
               observed_at : Nat, authority : Nat, valid : BOOLEAN]

\* What ingest_recovered is given.  The snapshot keeps the retirement.
SnapshotRecord == [source : Sources, subject : Subjects, fence : FenceVector,
                   observed_at : Nat, retired : BOOLEAN, valid : BOOLEAN]

ASSUME StoreAssumption ==
  /\ Subjects \subseteq Nat
  /\ IsFiniteSet(Subjects)
  /\ IsFiniteSet(Sources)
  /\ NoName \notin Sources
  /\ Inputs \subseteq Submission
  /\ Recoverable \subseteq SnapshotRecord
  /\ Times \subseteq Nat
  /\ max_retained_evidence \in Nat \ {0}
  /\ max_evidence_per_subject \in Nat \ {0}
  /\ max_sources \in Nat \ {0}
  /\ max_evidence_per_subject <= max_retained_evidence
  /\ minimum_authority \in Nat
  /\ require_known_subject \in BOOLEAN
  /\ require_incarnation \in BOOLEAN
  /\ SelfMoveClears \in BOOLEAN
  /\ MaxAdmissions \in Nat /\ MaxRefusals \in Nat /\ MaxSweeps \in Nat

\* A retained record.  source stands for all its strings (subject, source,
\* labels, note): a self-move empties them together.
Record == [source : Sources \cup {NoName}, fence : FenceVector,
           observed_at : Nat, recovered : BOOLEAN, retired : BOOLEAN]

VARIABLES
  store,    \* by_subject_, insertion_order_, retained_, next_insertion_index_, evicted
  sources,  \* sources_: a function on the sources known so far
  stats,    \* the other counters of StoreStats
  swept     \* history: the records removed by retention sweeps

vars == <<store, sources, stats, swept>>

Init ==
  /\ store = [by_subject |-> [s \in Subjects |-> [i \in {} |-> NoName]],
              insertion_order |-> [i \in {} |-> NoName],
              retained |-> 0, next |-> 1, evicted |-> 0]
  /\ sources = [s \in {} |-> NewSource]
  /\ stats = [accepted |-> 0, rejected_invalid |-> 0,
              rejected_unknown_subject |-> 0, rejected_fence |-> 0,
              retention_sweeps |-> 0]
  /\ swept = 0

-----------------------------------------------------------------------------
(***************************************************************************)
(* Maps and vectors.                                                       *)
(***************************************************************************)
Put(f, k, v) == [x \in DOMAIN f \cup {k} |-> IF x = k THEN v ELSE f[x]]

Without(f, S) == [x \in DOMAIN f \ S |-> f[x]]

Least(S) == CHOOSE i \in S : \A j \in S : i <= j

\* "if (retained_ > 0) --retained_", n times.
Drop(count, n) == IF count > n THEN count - n ELSE 0

\* bucket.erase(bucket.begin()), guarded by !bucket.empty().
EraseFront(bucket) ==
  IF DOMAIN bucket = {} THEN bucket
  ELSE Without(bucket, {Least(DOMAIN bucket)})

-----------------------------------------------------------------------------
(***************************************************************************)
(* admit_locked: make room globally, then in the subject, then append.     *)
(***************************************************************************)
\* Mutant: a global eviction is not counted.
EvictOldest_Uncounted(c) ==
  LET oldest == Least(DOMAIN c.insertion_order)
  IN  [by_subject |-> [c.by_subject EXCEPT ![c.insertion_order[oldest]] = EraseFront(@)],
       insertion_order |-> Without(c.insertion_order, {oldest}),
       retained |-> Drop(c.retained, 1), next |-> c.next, evicted |-> c.evicted]

\* The globally oldest record: the smallest key of the eviction index.  The
\* record erased is the front of the vector of that key's subject.
EvictOldest(c) ==
  LET oldest == Least(DOMAIN c.insertion_order)
  IN  [by_subject |-> [c.by_subject EXCEPT ![c.insertion_order[oldest]] = EraseFront(@)],
       insertion_order |-> Without(c.insertion_order, {oldest}),
       retained |-> Drop(c.retained, 1), next |-> c.next, evicted |-> c.evicted + 1]

MakeRoom(c) ==
  IF c.retained >= max_retained_evidence /\ DOMAIN c.insertion_order # {}
  THEN EvictOldest(c) ELSE c

\* Mutant: a subject eviction leaves its entry in the eviction index.
EvictFront_KeepsIndex(c, subject) ==
  [by_subject |-> [c.by_subject EXCEPT ![subject] = EraseFront(@)],
   insertion_order |-> c.insertion_order,
   retained |-> Drop(c.retained, 1), next |-> c.next, evicted |-> c.evicted + 1]

\* The oldest record of one subject: the index is read off the front record.
EvictFront(c, subject) ==
  LET front == Least(DOMAIN c.by_subject[subject])
  IN  [by_subject |-> [c.by_subject EXCEPT ![subject] = EraseFront(@)],
       insertion_order |-> Without(c.insertion_order, {front}),
       retained |-> Drop(c.retained, 1), next |-> c.next, evicted |-> c.evicted + 1]

\* Mutant: off by one at the subject limit.
MakeSubjectRoom_OffByOne(c, subject) ==
  IF Cardinality(DOMAIN c.by_subject[subject]) > max_evidence_per_subject
  THEN EvictFront(c, subject) ELSE c

MakeSubjectRoom(c, subject) ==
  IF Cardinality(DOMAIN c.by_subject[subject]) >= max_evidence_per_subject
  THEN EvictFront(c, subject) ELSE c

PushBack(c, subject, record) ==
  [by_subject |-> [c.by_subject EXCEPT ![subject] = Put(@, c.next, record)],
   insertion_order |-> Put(c.insertion_order, c.next, subject),
   retained |-> c.retained + 1, next |-> c.next + 1, evicted |-> c.evicted]

admit_locked(c, subject, record) ==
  PushBack(MakeSubjectRoom(MakeRoom(c), subject), subject, record)

\* Mutant: only the most recent record of the source is retired.
RetireSource_LatestOnly(c, source) ==
  LET Retired(r, i) == IF r.source = source /\ i = c.next - 1
                       THEN [r EXCEPT !.retired = TRUE] ELSE r
  IN  [c EXCEPT !.by_subject = [s \in Subjects |->
         [i \in DOMAIN c.by_subject[s] |-> Retired(c.by_subject[s][i], i)]]]

\* A new boot retires what the source said before; it stays as history.
RetireSource(c, source) ==
  LET Retired(r) == IF r.source = source THEN [r EXCEPT !.retired = TRUE] ELSE r
  IN  [by_subject |-> [s \in Subjects |->
         [i \in DOMAIN c.by_subject[s] |-> Retired(c.by_subject[s][i])]],
       insertion_order |-> c.insertion_order,
       retained |-> c.retained, next |-> c.next, evicted |-> c.evicted]

Stored(record, recovered, retired) ==
  [source |-> record.source, fence |-> record.fence,
   observed_at |-> record.observed_at, recovered |-> recovered,
   retired |-> retired]

-----------------------------------------------------------------------------
(***************************************************************************)
(* ingest                                                                  *)
(***************************************************************************)
Refusals == stats.rejected_invalid + stats.rejected_unknown_subject
              + stats.rejected_fence

SubjectRefused(record) ==
  require_known_subject /\ record.subject \notin KnownSubjects

IncarnationMissing(record) ==
  require_incarnation /\ record.fence.incarnation = 0

\* The record passes every check made before the lock is taken.
Screened(record) ==
  record.valid /\ ~SubjectRefused(record) /\ ~IncarnationMissing(record)

SourceLimitReached(source) ==
  source \notin DOMAIN sources /\ Cardinality(DOMAIN sources) >= max_sources

SourceState(source) ==
  IF source \in DOMAIN sources THEN sources[source] ELSE NewSource

\* The state of a source after a record of it was accepted.
Heard(state, fence) ==
  [last |-> fence, has_state |-> TRUE, live |-> TRUE,
   accepted |-> state.accepted + 1, rejected |-> state.rejected]

Decision(record) ==
  evaluate_fence(record.fence, record.authority, minimum_authority,
                 SourceState(record.source))

\* A malformed record, a record without incarnation where one is required,
\* and a record of one source too many are all counted as invalid.
IngestInvalid(record) ==
  /\ Refusals < MaxRefusals
  /\ \/ ~record.valid
     \/ /\ record.valid
        /\ ~SubjectRefused(record)
        /\ IncarnationMissing(record)
     \/ /\ Screened(record)
        /\ SourceLimitReached(record.source)
  /\ stats' = [stats EXCEPT !.rejected_invalid = @ + 1]
  /\ UNCHANGED <<store, sources, swept>>

IngestUnknownSubject(record) ==
  /\ Refusals < MaxRefusals
  /\ record.valid /\ SubjectRefused(record)
  /\ stats' = [stats EXCEPT !.rejected_unknown_subject = @ + 1]
  /\ UNCHANGED <<store, sources, swept>>

\* A fence rejection is an outcome, not an error: the source is remembered
\* (it takes a slot of max_sources) and its rejections are counted.
IngestFenced(record) ==
  /\ Refusals < MaxRefusals
  /\ Screened(record) /\ ~SourceLimitReached(record.source)
  /\ ~fence_accepted(Decision(record))
  /\ stats' = [stats EXCEPT !.rejected_fence = @ + 1]
  /\ sources' = Put(sources, record.source,
                    [SourceState(record.source) EXCEPT !.rejected = @ + 1])
  /\ UNCHANGED <<store, swept>>

IngestAccepted(record) ==
  /\ store.next <= MaxAdmissions
  /\ Screened(record) /\ ~SourceLimitReached(record.source)
  /\ fence_accepted(Decision(record))
  /\ LET retiring == IF liveness_reset(Decision(record))
                     THEN RetireSource(store, record.source) ELSE store
     IN  store' = admit_locked(retiring, record.subject, Stored(record, FALSE, FALSE))
  /\ sources' = Put(sources, record.source,
                    Heard(SourceState(record.source), record.fence))
  /\ stats' = [stats EXCEPT !.accepted = @ + 1]
  /\ UNCHANGED swept

ingest(record) ==
  \/ IngestInvalid(record)
  \/ IngestUnknownSubject(record)
  \/ IngestFenced(record)
  \/ IngestAccepted(record)

-----------------------------------------------------------------------------
(***************************************************************************)
(* ingest_recovered: a record of a snapshot.  No fence, no policy; the     *)
(* source becomes known but has no fence state and is not live.  The       *)
(* snapshot says whether the record had been retired.                      *)
(***************************************************************************)
RecoverInvalid(record) ==
  /\ Refusals < MaxRefusals
  /\ ~record.valid \/ SourceLimitReached(record.source)
  /\ stats' = [stats EXCEPT !.rejected_invalid = @ + 1]
  /\ UNCHANGED <<store, sources, swept>>

RecoverAccepted(record) ==
  /\ store.next <= MaxAdmissions
  /\ record.valid /\ ~SourceLimitReached(record.source)
  /\ store' = admit_locked(store, record.subject, Stored(record, TRUE, record.retired))
  /\ sources' = Put(sources, record.source, SourceState(record.source))
  /\ UNCHANGED <<stats, swept>>

ingest_recovered(record) == RecoverInvalid(record) \/ RecoverAccepted(record)

-----------------------------------------------------------------------------
(***************************************************************************)
(* sweep: vectors are walked in subject order, records in vector order.    *)
(* At most max_records expired ones are removed; a cancellation observed   *)
(* at a record stops the walk there.  A position is <<subject, index>>.    *)
(***************************************************************************)
Positions(c) == UNION {{s} \X DOMAIN c.by_subject[s] : s \in Subjects}

Before(p, q) == p[1] < q[1] \/ (p[1] = q[1] /\ p[2] < q[2])

Expired(c, horizon) ==
  {p \in Positions(c) : c.by_subject[p[1]][p[2]].observed_at < horizon}

\* The expired records the walk meets before q.
Passed(c, horizon, q) == {p \in Expired(c, horizon) : Before(p, q)}

\* The expired records within the budget of a walk over the set walked.
Doomed(c, horizon, max_records, walked) ==
  {p \in Expired(c, horizon) \cap walked :
     Cardinality(Passed(c, horizon, p)) < max_records}

\* Survivors are compacted by "bucket[write++] = std::move(bucket[read])": a
\* record with no removed one before it in its vector is moved onto itself.
MovedOntoItself(s, i, doomed) == \A p \in doomed : p[1] = s => p[2] > i

\* Mutant: the compaction revives what it moves.
Moved_Revived(r, self) == IF self THEN r ELSE [r EXCEPT !.retired = FALSE]

Moved(r, self) ==
  IF self /\ SelfMoveClears THEN [r EXCEPT !.source = NoName] ELSE r

\* touched: the subjects whose vectors the walk compacts.
Compact(c, doomed, touched) ==
  [by_subject |-> [s \in Subjects |->
     [i \in {j \in DOMAIN c.by_subject[s] : <<s, j>> \notin doomed} |->
        Moved(c.by_subject[s][i], s \in touched /\ MovedOntoItself(s, i, doomed))]],
   insertion_order |-> Without(c.insertion_order, {p[2] : p \in doomed}),
   retained |-> Drop(c.retained, Cardinality(doomed)),
   next |-> c.next, evicted |-> c.evicted]

Swept(doomed, touched) ==
  /\ stats.retention_sweeps < MaxSweeps
  /\ stats' = [stats EXCEPT !.retention_sweeps = @ + 1]
  /\ store' = Compact(store, doomed, touched)
  /\ swept' = swept + Cardinality(doomed)
  /\ UNCHANGED sources

SweepToEnd(horizon, max_records) ==
  Swept(Doomed(store, horizon, max_records, Positions(store)), Subjects)

\* The token is only consulted while the budget lasts.
SweepCancelled(horizon, max_records, stop) ==
  /\ Cardinality(Passed(store, horizon, stop)) < max_records
  /\ Swept(Passed(store, horizon, stop), {s \in Subjects : s <= stop[1]})

sweep(horizon, max_records) ==
  \/ SweepToEnd(horizon, max_records)
  \/ \E stop \in Positions(store) : SweepCancelled(horizon, max_records, stop)

reset_liveness ==
  /\ sources' = [s \in DOMAIN sources |-> [sources[s] EXCEPT !.live = FALSE]]
  /\ UNCHANGED <<store, stats, swept>>

-----------------------------------------------------------------------------
Next ==
  \/ \E record \in Inputs : ingest(record)
  \/ \E record \in Recoverable : ingest_recovered(record)
  \/ \E horizon \in Times, max_records \in 1..max_retained_evidence :
        sweep(horizon, max_records)
  \/ reset_liveness

Spec == Init /\ [][Next]_vars
-----------------------------------------------------------------------------
(***************************************************************************)
(* Properties.                                                             *)
(***************************************************************************)
\* A vector: finitely many positive insertion indices, each with its record.
IsVector(b) ==
  /\ IsFiniteSet(DOMAIN b)
  /\ DOMAIN b \subseteq Nat \ {0}
  /\ b \in [DOMAIN b -> Record]

\* The shape of what the mutex protects.
StoreOK(c) ==
  /\ c = [by_subject |-> c.by_subject, insertion_order |-> c.insertion_order,
          retained |-> c.retained, next |-> c.next, evicted |-> c.evicted]
  /\ c.by_subject = [s \in Subjects |-> c.by_subject[s]]
  /\ \A s \in Subjects : IsVector(c.by_subject[s])
  /\ IsFiniteSet(DOMAIN c.insertion_order)
  /\ DOMAIN c.insertion_order \subseteq Nat \ {0}
  /\ c.insertion_order \in [DOMAIN c.insertion_order -> Subjects]
  /\ c.retained \in Nat /\ c.next \in Nat \ {0} /\ c.evicted \in Nat

\* Type invariant: the vectors hold records, the eviction index maps insertion
\* indices to subjects, known sources have a fence state, counters are naturals.
TypeOK ==
  /\ StoreOK(store)
  /\ DOMAIN sources \subseteq Sources
  /\ sources \in [DOMAIN sources -> SourceFenceState]
  /\ stats \in [accepted : Nat, rejected_invalid : Nat, rejected_fence : Nat,
                rejected_unknown_subject : Nat, retention_sweeps : Nat]
  /\ swept \in Nat

\* The retained records, named by subject and insertion index.
At(p) == store.by_subject[p[1]][p[2]]

Accepted == {p \in Positions(store) : ~At(p).recovered}

\* The vectors and the eviction index of c agree.
Coherent(c) ==
  /\ \A s \in Subjects : \A i \in DOMAIN c.by_subject[s] :
        i \in DOMAIN c.insertion_order /\ c.insertion_order[i] = s
  /\ \A i \in DOMAIN c.insertion_order :
        i \in DOMAIN c.by_subject[c.insertion_order[i]] /\ i < c.next
  /\ c.retained = Cardinality(DOMAIN c.insertion_order)

(***************************************************************************)
(* The two structures agree: the eviction index holds exactly the indices  *)
(* found in the vectors, each under its own subject, and retained_ counts  *)
(* them.  "The smallest key is the oldest retained record, which is also   *)
(* the front of that subject's vector" (store.hpp:110) follows, and the    *)
(* guards on empty vectors and a zero count in store.cpp never matter.     *)
(***************************************************************************)
IndexCoherent == Coherent(store)

\* Growth is bounded: Limits holds for the records retained, for the records
\* of every subject and for the sources remembered, whatever is delivered.
Bounded ==
  /\ store.retained <= max_retained_evidence
  /\ \A s \in Subjects :
        Cardinality(DOMAIN store.by_subject[s]) <= max_evidence_per_subject
  /\ Cardinality(DOMAIN sources) <= max_sources

\* "Nothing is silently dropped" (docs/limits.md:36): every admitted record is
\* retained, counted as evicted or was removed by a retention sweep.
NothingSilentlyDropped ==
  store.next - 1 = store.retained + store.evicted + swept

\* Evidence of a superseded incarnation never counts as live: a retained record
\* accepted in this process and not retired is of the boot and incarnation its
\* source was last heard under.
LiveEvidenceCurrent ==
  \A p \in Accepted : ~At(p).retired =>
     /\ At(p).source \in DOMAIN sources
     /\ sources[At(p).source].has_state
     /\ At(p).fence.boot = sources[At(p).source].last.boot
     /\ At(p).fence.incarnation = sources[At(p).source].last.incarnation

\* Of two retained records accepted from one source, the later one supersedes
\* the earlier one, whatever their subjects: no address (source, fence) is
\* accepted twice and nothing accepted is out of order.
FenceOrdered ==
  \A p, q \in Accepted :
     (At(p).source = At(q).source /\ p[2] < q[2])
        => Supersedes(At(q).fence, At(p).fence)

FenceAdvances ==
  \A s \in DOMAIN sources :
     /\ s \in DOMAIN sources'
     /\ sources[s].has_state =>
          /\ sources'[s].has_state
          /\ \/ sources'[s].last = sources[s].last
             \/ Supersedes(sources'[s].last, sources[s].last)

\* The fence of a source only moves forward: no step forgets a source or its
\* fence state, and a last accepted vector is only replaced by one that
\* supersedes it.
FenceNeverRetreats == [][FenceAdvances]_vars

OldestLeave ==
  store'.next # store.next =>
    \A s \in Subjects :
      \A i \in DOMAIN store.by_subject[s] \ DOMAIN store'.by_subject[s],
         j \in DOMAIN store'.by_subject[s] : i < j

\* Admission displaces the oldest records first: nothing that an admission
\* drops from a vector is newer than anything it leaves there.
EvictsOldestFirst == [][OldestLeave]_vars

RecordsKept ==
  \A s \in Subjects :
    \A i \in DOMAIN store.by_subject[s] \cap DOMAIN store'.by_subject[s] :
      \/ store'.by_subject[s][i] = store.by_subject[s][i]
      \/ store'.by_subject[s][i] = [store.by_subject[s][i] EXCEPT !.retired = TRUE]

\* A retained record is never rewritten: while it stays in the store only its
\* retirement changes, and only from live to retired (store.cpp:310 "keep the
\* remaining records untouched", :138 "its evidence stays as history").
RecordsUntouched == [][RecordsKept]_vars

=============================================================================
