------------------------------ MODULE Evidence ------------------------------
(***************************************************************************)
(* One evidence record and what a set of records says by itself            *)
(* (src/src/evidence/evidence.cpp): its validation, its role, its          *)
(* freshness at a time and the agreement of several sources.  Scalars are  *)
(* integers, ratios of the policy are percentages; finite is false for a   *)
(* value that is not.  Subjects, sources and identities are numbered in    *)
(* their order, 0 being the missing one.                                   *)
(***************************************************************************)
EXTENDS Order, SequencesExt

CONSTANTS
  Pool,                      \* the records that may be reported
  policy,                    \* ClassificationPolicy, its FreshnessPolicy included
  max_labels, max_metadata_entries, max_note_bytes   \* Limits

\* kKindTable: the role a measurement may play in an argument.
RoleOf == [link_utilization       |-> "utilization", port_utilization |-> "utilization",
           queue_occupancy        |-> "pressure",    queue_depth      |-> "pressure",
           buffer_occupancy       |-> "pressure",    drop_count       |-> "impairment",
           mark_count             |-> "impairment",  pause_count      |-> "impairment",
           pause_duration         |-> "impairment",  latency_sample   |-> "impairment",
           retransmit_count       |-> "impairment",  offered_demand   |-> "demand",
           achieved_throughput    |-> "demand",      active_flow_count |-> "contention",
           active_class_count     |-> "contention",  oper_state       |-> "topology",
           source_heartbeat       |-> "liveness",    topology_advertisement |-> "topology",
           capacity_advertisement |-> "capacity"]

role_of(kind) == IF kind \in DOMAIN RoleOf THEN RoleOf[kind] ELSE "unknown"

(***************************************************************************)
(* ClassificationPolicy::validate.  The thresholds of the four rates are   *)
(* not among the values it looks at.                                       *)
(***************************************************************************)
validate(p) ==
  /\ \A x \in {p.utilization_attention, p.utilization_high, p.pressure_occupancy_ratio,
               p.latency_inflation_factor, p.demand_capacity_ratio,
               p.conflict_relative_tolerance} : x \in Nat
  /\ p.utilization_attention <= p.utilization_high
  /\ p.conflict_relative_tolerance <= 100
  /\ p.corroborating_source_target # 0
  /\ 0 < p.fresh_within
  /\ p.fresh_within <= p.aging_within
  /\ p.aging_within <= p.stale_within
  /\ 0 < p.evaluation_window

\* Times and durations are whole nanoseconds.
ASSUME PolicyAssumption ==
  /\ validate(policy)
  /\ {policy.fresh_within, policy.aging_within, policy.stale_within, policy.max_future_skew}
       \subseteq Int
  /\ \A r \in Pool :
       /\ {r.observed_at, r.received_at, r.validity, r.scalar} \subseteq Int
       /\ {r.id, r.source} \subseteq Nat

\* The store keeps no record that this refuses.  Left out: that labels are valid
\* names, and the bounds on the bytes of a metadata key and value; both refuse a
\* record like the bounds that are here.
validate_evidence(r) ==
  /\ r.kind \in DOMAIN RoleOf
  /\ r.subject # 0
  /\ r.source # 0
  /\ r.fence_source = r.source
  /\ r.support = "supported" => r.unit # "unknown"
  /\ r.finite
  /\ r.validity >= 0
  /\ r.labels <= max_labels
  /\ r.metadata <= max_metadata_entries
  /\ r.note <= max_note_bytes

-----------------------------------------------------------------------------
\* Timestamps no clock can have produced, as seen at time now.
Implausible(r, now) ==
  /\ policy.require_plausible_timestamps
  /\ \/ r.observed_at > r.received_at + policy.max_future_skew
     \/ r.received_at > now + policy.max_future_skew
     \/ r.observed_at > now + policy.max_future_skew

\* Mutant: the comparison with fresh_within is the wrong way round.
assess_freshness_Swapped(r, now) ==
  LET age == now - r.observed_at
  IN CASE \/ r.recovered_from_snapshot
          \/ r.retired
          \/ r.clock = "unknown"
          \/ r.observed_at = 0
          \/ r.received_at = 0
          \/ Implausible(r, now) -> "unknown"
       [] OTHER -> IF age > policy.stale_within \/ age > r.validity THEN "expired"
                   ELSE IF age > policy.aging_within THEN "stale"
                   ELSE IF age < policy.fresh_within THEN "aging"
                   ELSE "fresh"

assess_freshness(r, now) ==
  LET age == now - r.observed_at
  IN CASE \/ r.recovered_from_snapshot
          \/ r.retired
          \/ r.clock = "unknown"
          \/ r.observed_at = 0
          \/ r.received_at = 0
          \/ Implausible(r, now) -> "unknown"
       [] OTHER -> IF age > policy.stale_within \/ age > r.validity THEN "expired"
                   ELSE IF age > policy.aging_within THEN "stale"
                   ELSE IF age > policy.fresh_within THEN "aging"
                   ELSE "fresh"

usable_as_deciding_evidence(freshness) == freshness = "fresh"

-----------------------------------------------------------------------------
AbsOf(x) == IF x < 0 THEN -x ELSE x

\* Two values agree if the second is within the tolerance of the first.
Within(reference, x) ==
  100 * AbsOf(x - reference) <= policy.conflict_relative_tolerance * AbsOf(reference)

\* Ascending value, then source, then identity.
Precedes(r, s) ==
  \/ r.scalar < s.scalar
  \/ r.scalar = s.scalar /\ r.source < s.source
  \/ r.scalar = s.scalar /\ r.source = s.source /\ r.id < s.id

\* Mutant: a record is compared with the last member of a cluster.
Place_Chained(clusters, r) ==
  LET fits == {i \in DOMAIN clusters : Within(Last(clusters[i]).scalar, r.scalar)}
  IN IF fits = {} THEN Append(clusters, <<r>>)
     ELSE [clusters EXCEPT ![Min(fits)] = Append(@, r)]

\* Puts a record into the first cluster whose first member it agrees with.
Place(clusters, r) ==
  LET fits == {i \in DOMAIN clusters : Within(clusters[i][1].scalar, r.scalar)}
  IN IF fits = {} THEN Append(clusters, <<r>>)
     ELSE [clusters EXCEPT ![Min(fits)] = Append(@, r)]

\* A source counts once, in the cluster of its lowest value.
Votes(ordered, cluster) ==
  Cardinality({i \in DOMAIN ordered :
                 /\ Contains(cluster, ordered[i])
                 /\ \A j \in 1..(i - 1) : ordered[j].source # ordered[i].source})

\* Units differ, or the first of several records is a lifetime total.
Comparable(records) ==
  /\ \A i \in DOMAIN records : records[i].unit = records[1].unit
  /\ records[1].semantics = "cumulative_counter" => Len(records) = 1

\* std::sort: some arrangement in which no record precedes one before it.
Ordered(records) ==
  LET order == CHOOSE p \in Bijection(DOMAIN records, DOMAIN records) :
                 \A i, j \in DOMAIN records : i < j => ~Precedes(records[p[j]], records[p[i]])
  IN [i \in DOMAIN records |-> records[order[i]]]

\* The clusters after the loop over the ordered records.
Clusters(ordered) ==
  LET clusters[i \in 0..Len(ordered)] ==
        IF i = 0 THEN <<>> ELSE Place(clusters[i - 1], ordered[i])
  IN clusters[Len(ordered)]

assess_agreement(records) ==
  LET ordered == Ordered(records)
      sources == {records[i].source : i \in DOMAIN records}
      clusters == Clusters(ordered)
      majority == Max({Votes(ordered, clusters[i]) : i \in DOMAIN clusters})
  IN CASE records = <<>> -> "unknown"
       [] OTHER -> IF ~Comparable(records) THEN "incomparable"
                   ELSE IF Cardinality(sources) <= 1 THEN "single_source"
                   ELSE IF Len(clusters) = 1 THEN "unanimous"
                   ELSE IF 2 * majority > Cardinality(sources) THEN "minority"
                   ELSE "conflicting"

agreement_is_conflict(agreement) == agreement \in {"conflicting", "minority"}
=============================================================================
