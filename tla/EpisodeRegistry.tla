-------------------------- MODULE EpisodeRegistry --------------------------
(***************************************************************************)
(* The episode registry (src/src/episode/episode.cpp): the lifecycle and   *)
(* the bounded history of every episode.                                   *)
(*                                                                         *)
(* observe, advance, all and restore each hold the registry's mutex from   *)
(* beginning to end, so each is one action.  The time an operation is      *)
(* given was read by its caller before the call: an evaluation classifies  *)
(* first and observes afterwards, so its time may lie up to MaxLag behind  *)
(* the latest time used.                                                   *)
(*                                                                         *)
(* An episode id is a digest of scope, tenant, mechanism, generation and   *)
(* policy version; here it is a number (ids order the std::map) with a     *)
(* scope.  Citations, sources, confidence, first_seen and resolved_at are  *)
(* copied and never read back by the registry: they are left out.          *)
(***************************************************************************)
EXTENDS Integers, Sequences, FiniteSets

CONSTANTS
  Ids,           \* episode ids, numbered in map order
  Scopes,        \* the subjects that assessments are about
  scope,         \* the scope of every id
  Severities,    \* the severities of congestion assertions
  Times,         \* the times operations are called with
  MaxLag,        \* how late an operation may be
  resolve_after, expire_after,                                   \* EpisodePolicy
  max_episodes, max_episode_transitions, max_episode_assessments, \* Limits
  MaxRevision,   \* bounds of the model: the revisions of an episode, and the
  MaxSaved       \* episodes in the registry when a snapshot is taken

\* enum class Severity: none, informational, low, moderate, high, critical.
Severity == 0..5

ASSUME RegistryAssumption ==
  /\ Ids \subseteq Nat /\ IsFiniteSet(Ids)
  /\ scope \in [Ids -> Scopes]
  /\ Severities \subseteq Severity \ {0}
  /\ Times \subseteq Nat /\ MaxLag \in Nat
  /\ resolve_after \in Nat /\ expire_after \in Nat
  /\ max_episodes \in Nat \ {0}
  /\ max_episode_transitions \in Nat \ {0}
  /\ max_episode_assessments \in Nat \ {0}
  /\ MaxRevision \in Nat /\ MaxSaved \in Nat

State == {"open", "quiescent", "resolved", "expired"}

Terminal == {"resolved", "expired"}

Kind == {"opened", "updated", "escalated", "deescalated", "quiesced",
         "resolved", "expired", "reopened"}

Transition == [revision : Nat \ {0}, kind : Kind, before : Severity, after : Severity]

\* assessments keeps of every digest whether it asserted congestion.
Episode == [state : State, revision : Nat \ {0}, severity : Severity, peak : Severity,
            last_seen : Nat, last_updated : Nat, observations : Nat,
            transitions : Seq(Transition), transitions_dropped : Nat,
            assessments : Seq(BOOLEAN), assessments_dropped : Nat,
            history_truncated : BOOLEAN]

VARIABLES
  episodes,  \* episodes_: a function on the ids in the registry
  dropped,   \* dropped_episodes_
  saved,     \* the episodes the last snapshot was given by all()
  clock      \* the latest time an operation was called with

vars == <<episodes, dropped, saved, clock>>

Init ==
  /\ episodes = [id \in {} |-> 0]
  /\ dropped = 0
  /\ saved = [id \in {} |-> 0]
  /\ clock = 0

-----------------------------------------------------------------------------
(***************************************************************************)
(* Bounded history.                                                        *)
(***************************************************************************)
Excess(s, n) == IF Len(s) > n THEN Len(s) - n ELSE 0

\* Entries are erased from the front while there are more than n.
KeepLast(s, n) == SubSeq(s, Excess(s, n) + 1, Len(s))

\* Mutant: entries are erased without being counted.
append_transition_Uncounted(e, kind, before) ==
  [e EXCEPT !.transitions =
     KeepLast(Append(@, [revision |-> e.revision, kind |-> kind,
                         before |-> before, after |-> e.severity]),
              max_episode_transitions)]

\* The transition that led to e, which carries its new revision and severity.
append_transition(e, kind, before) ==
  LET all == Append(e.transitions, [revision |-> e.revision, kind |-> kind,
                                    before |-> before, after |-> e.severity])
      cut == Excess(all, max_episode_transitions)
  IN  [e EXCEPT !.transitions = KeepLast(all, max_episode_transitions),
                !.transitions_dropped = @ + cut,
                !.history_truncated = @ \/ cut > 0]

append_assessment(e, asserted) ==
  LET all == Append(e.assessments, asserted)
      cut == Excess(all, max_episode_assessments)
  IN  [e EXCEPT !.assessments = KeepLast(all, max_episode_assessments),
                !.assessments_dropped = @ + cut,
                !.history_truncated = @ \/ cut > 0]

-----------------------------------------------------------------------------
(***************************************************************************)
(* What an operation makes of one episode.                                 *)
(***************************************************************************)
Opened(severity, now) ==
  LET e == [state |-> "open", revision |-> 1, severity |-> severity, peak |-> severity,
            last_seen |-> now, last_updated |-> now, observations |-> 1,
            transitions |-> <<>>, transitions_dropped |-> 0,
            assessments |-> <<>>, assessments_dropped |-> 0,
            history_truncated |-> FALSE]
  IN  append_assessment(append_transition(e, "opened", 0), TRUE)

RefreshKind(e, severity) ==
  IF e.state \in Terminal THEN "reopened"
  ELSE IF severity > e.severity THEN "escalated"
       ELSE IF severity < e.severity THEN "deescalated" ELSE "updated"

\* A congestion assertion reopens the episode or refreshes it.
Refreshed(e, severity, now) ==
  LET f == [e EXCEPT !.state = "open", !.severity = severity,
                     !.peak = IF severity > @ THEN severity ELSE @,
                     !.last_seen = now, !.last_updated = now,
                     !.observations = @ + 1, !.revision = @ + 1]
  IN  append_assessment(append_transition(f, RefreshKind(e, severity), e.severity), TRUE)

\* A verdict without a congestion assertion: the episode goes quiet.
Quiesced(e, now) ==
  LET f == [e EXCEPT !.state = "quiescent", !.severity = 0, !.last_updated = now,
                     !.revision = @ + 1, !.observations = @ + 1]
  IN  append_assessment(append_transition(f, "quiesced", e.severity), FALSE)

\* Mutant: a quiet episode is resolved after one window instead of two.
Due_OneWindow(e, now) ==
  LET idle == now - e.last_seen
  IN  IF e.state = "open" /\ idle > resolve_after THEN "quiescent"
      ELSE IF e.state = "quiescent" /\ idle > resolve_after THEN "resolved"
      ELSE IF e.state \in {"resolved", "quiescent"} /\ idle > expire_after
           THEN "expired" ELSE e.state

\* The state the policy windows ask for.  A time before last_seen asks for
\* nothing: the difference is negative and exceeds no window.
Due(e, now) ==
  LET idle == now - e.last_seen
  IN  IF e.state = "open" /\ idle > resolve_after THEN "quiescent"
      ELSE IF e.state = "quiescent" /\ idle > 2 * resolve_after THEN "resolved"
      ELSE IF e.state \in {"resolved", "quiescent"} /\ idle > expire_after
           THEN "expired" ELSE e.state

\* Only closing an episode resets its severity; no assessment is recorded.
Advanced(e, now) ==
  LET due == Due(e, now)
      f == [e EXCEPT !.state = due, !.last_updated = now, !.revision = @ + 1,
                     !.severity = IF due \in Terminal THEN 0 ELSE @]
      kind == IF due = "quiescent" THEN "quiesced" ELSE due
  IN  IF due = e.state THEN e ELSE append_transition(f, kind, e.severity)

-----------------------------------------------------------------------------
(***************************************************************************)
(* Operations.                                                             *)
(***************************************************************************)
Put(f, k, v) == [x \in DOMAIN f \cup {k} |-> IF x = k THEN v ELSE f[x]]

Without(f, S) == [x \in DOMAIN f \ S |-> f[x]]

At(now) ==
  /\ now + MaxLag >= clock
  /\ clock' = IF now > clock THEN now ELSE clock

CanRevise(ids) == \A id \in ids : episodes[id].revision < MaxRevision

Full == Cardinality(DOMAIN episodes) >= max_episodes

\* Mutant: an episode that only went quiet may be displaced.
Displaceable_Quiet == {id \in DOMAIN episodes : episodes[id].state # "open"}

Displaceable == {id \in DOMAIN episodes : episodes[id].state \in Terminal}

\* The first of the longest unchanged ones, in map order.
Victim ==
  LET Older(a, b) == \/ episodes[a].last_updated < episodes[b].last_updated
                     \/ /\ episodes[a].last_updated = episodes[b].last_updated
                        /\ a <= b
  IN  CHOOSE v \in Displaceable : \A other \in Displaceable : Older(v, other)

\* observe: the verdict does not assert congestion.
ObserveQuiet(subject, now) ==
  LET quieted == {id \in DOMAIN episodes :
                    scope[id] = subject /\ episodes[id].state = "open"}
  IN  /\ At(now) /\ CanRevise(quieted)
      /\ episodes' = [id \in DOMAIN episodes |->
                        IF id \in quieted THEN Quiesced(episodes[id], now) ELSE episodes[id]]
      /\ UNCHANGED <<dropped, saved>>

\* observe: the verdict asserts congestion of episode id.
ObserveOpened(id, severity, now) ==
  /\ At(now)
  /\ id \notin DOMAIN episodes /\ ~Full
  /\ episodes' = Put(episodes, id, Opened(severity, now))
  /\ UNCHANGED <<dropped, saved>>

ObserveDisplacing(id, severity, now) ==
  /\ At(now)
  /\ id \notin DOMAIN episodes /\ Full /\ Displaceable # {}
  /\ episodes' = Put(Without(episodes, {Victim}), id, Opened(severity, now))
  /\ dropped' = dropped + 1
  /\ UNCHANGED saved

\* Every episode is live: the new one is refused and counted.
ObserveRefused(id, now) ==
  /\ At(now) /\ dropped < MaxRevision
  /\ id \notin DOMAIN episodes /\ Full /\ Displaceable = {}
  /\ dropped' = dropped + 1
  /\ UNCHANGED <<episodes, saved>>

ObserveRefreshed(id, severity, now) ==
  /\ At(now)
  /\ id \in DOMAIN episodes /\ CanRevise({id})
  /\ episodes' = [episodes EXCEPT ![id] = Refreshed(@, severity, now)]
  /\ UNCHANGED <<dropped, saved>>

\* The token is consulted before every episode; the episodes before the one it
\* stops at have been advanced, though the call reports an error.
advance(now, visited) ==
  /\ At(now)
  /\ CanRevise({id \in visited : Due(episodes[id], now) # episodes[id].state})
  /\ episodes' = [id \in DOMAIN episodes |->
                    IF id \in visited THEN Advanced(episodes[id], now) ELSE episodes[id]]
  /\ UNCHANGED <<dropped, saved>>

\* What a completed walk, or one that was cancelled at some episode, has visited.
Walks == {DOMAIN episodes} \cup {{i \in DOMAIN episodes : i < stop} : stop \in DOMAIN episodes}

\* all(), called by Runtime::save: the snapshot holds a copy of the registry.
all ==
  /\ Cardinality(DOMAIN episodes) <= MaxSaved
  /\ saved' = episodes
  /\ UNCHANGED <<episodes, dropped, clock>>

\* Mutant: the revision of the live episode is not looked at.
restore_Unconditional(id) ==
  /\ id \in DOMAIN saved
  /\ id \in DOMAIN episodes \/ ~Full
  /\ episodes' = Put(episodes, id, saved[id])
  /\ UNCHANGED <<dropped, saved, clock>>

\* A live episode of a higher revision wins; an unknown one needs a free place.
restore(id) ==
  /\ id \in DOMAIN saved
  /\ \/ id \in DOMAIN episodes /\ episodes[id].revision <= saved[id].revision
     \/ id \notin DOMAIN episodes /\ ~Full
  /\ episodes' = Put(episodes, id, saved[id])
  /\ UNCHANGED <<dropped, saved, clock>>

\* A new process starts with an empty registry; the snapshot is on disk.
Restart ==
  /\ episodes' = [id \in {} |-> 0]
  /\ dropped' = 0
  /\ UNCHANGED <<saved, clock>>

observe(now) ==
  \/ \E subject \in Scopes : ObserveQuiet(subject, now)
  \/ \E id \in Ids, severity \in Severities :
       \/ ObserveOpened(id, severity, now)
       \/ ObserveDisplacing(id, severity, now)
       \/ ObserveRefreshed(id, severity, now)
  \/ \E id \in Ids : ObserveRefused(id, now)

Next ==
  \/ \E now \in Times : observe(now) \/ \E visited \in Walks : advance(now, visited)
  \/ all
  \/ \E id \in Ids : restore(id)
  \/ Restart

Spec == Init /\ [][Next]_vars
-----------------------------------------------------------------------------
(***************************************************************************)
(* Properties.                                                             *)
(***************************************************************************)
\* Type invariant: registry and snapshot map ids to episodes.
TypeOK ==
  /\ DOMAIN episodes \subseteq Ids /\ episodes \in [DOMAIN episodes -> Episode]
  /\ DOMAIN saved \subseteq Ids /\ saved \in [DOMAIN saved -> Episode]
  /\ dropped \in Nat /\ clock \in Nat

\* The kinds of transitions that lead to a state.
Leads == [open |-> {"opened", "updated", "escalated", "deescalated", "reopened"},
          quiescent |-> {"quiesced"}, resolved |-> {"resolved"}, expired |-> {"expired"}]

HistoryOf(e) ==
  LET n == Len(e.transitions)
  IN  /\ n \in 1..max_episode_transitions
      /\ e.revision = e.transitions_dropped + n
      /\ \A i \in 1..n : e.transitions[i].revision = e.transitions_dropped + i
      /\ \A i \in 1..(n - 1) : e.transitions[i].after = e.transitions[i + 1].before
      /\ e.transitions[n].after = e.severity
      /\ e.transitions[n].kind \in Leads[e.state]
      /\ Len(e.assessments) \in 1..max_episode_assessments
      /\ e.observations = e.assessments_dropped + Len(e.assessments)
      /\ e.history_truncated <=> (e.transitions_dropped + e.assessments_dropped > 0)

\* The history of an episode accounts for it: the retained transitions are its
\* latest revisions without a gap, each takes up the severity where the one
\* before left it, the last one explains state and severity, and what is
\* missing from the front is counted ("dropped from the front, never silently",
\* episode.hpp:103) and flagged.
HistoryAccounts == \A id \in DOMAIN episodes : HistoryOf(episodes[id])

\* peak_severity is at least the current severity and every severity that the
\* retained history went through.
PeakOf(e) ==
  /\ e.severity <= e.peak
  /\ \A i \in 1..Len(e.transitions) :
       e.transitions[i].before <= e.peak /\ e.transitions[i].after <= e.peak

\* No severity an episode went through exceeds the peak it reports.
PeakCoversHistory == \A id \in DOMAIN episodes : PeakOf(episodes[id])

\* An episode is closed only after its windows: whoever finds it resolved or
\* expired, its last congestion assertion is that long ago, however late
\* evaluations arrive and whatever is restored.
ClosedOnlyWhenIdle ==
  \A id \in DOMAIN episodes :
    LET idle == clock - episodes[id].last_seen
    IN  /\ episodes[id].state = "resolved" => idle > 2 * resolve_after
        /\ episodes[id].state = "expired"  => idle > expire_after

\* The registry never holds more than max_episodes, restored ones included.
RegistryBounded == Cardinality(DOMAIN episodes) <= max_episodes

Restarted == episodes' = [id \in {} |-> 0] /\ dropped' = 0

LiveStays ==
  Restarted \/
    \A id \in DOMAIN episodes \ DOMAIN episodes' :
      /\ episodes[id].state \in Terminal
      /\ DOMAIN episodes \ DOMAIN episodes' = {id}
      /\ dropped' = dropped + 1

\* "displacing an open investigation would be worse than refusing new history"
\* (docs/limits.md:39): short of a restart only closed episodes leave the
\* registry, one at a time and counted.
LiveNeverDisplaced == [][LiveStays]_vars

RevisionsAdvance ==
  Restarted \/
    \A id \in DOMAIN episodes \cap DOMAIN episodes' :
      \/ episodes'[id] = episodes[id]
      \/ episodes'[id].revision > episodes[id].revision
      \/ restore(id) /\ episodes'[id].revision = episodes[id].revision

\* No operation lowers the revision of an episode it finds, and only a restore
\* changes an episode without advancing its revision.
RevisionNeverRetreats == [][RevisionsAdvance]_vars

\* The registry is well formed and bounded, and every episode in it is explained
\* by its history: observe, advance, displacement and restore leave no state,
\* severity, peak or count that the retained and the dropped transitions do not
\* account for.
RegistryInv == TypeOK /\ RegistryBounded /\ HistoryAccounts /\ PeakCoversHistory
=============================================================================
