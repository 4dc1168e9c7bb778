----------------------------- MODULE Classifier -----------------------------
(***************************************************************************)
(* The verdict on one subject (src/src/assessment/classify.cpp): features  *)
(* of a window of evidence, the rules R00 to R09 in order, the blockers    *)
(* that say why a verdict is weaker than it looks, and the confidence.     *)
(* classify_subject is a pure function of window, time and policy.  The    *)
(* state machine feeds it: records arrive, time passes, and after each     *)
(* step the subject is assessed again.  The text of the explanation is     *)
(* left out.                                                               *)
(***************************************************************************)
EXTENDS Evidence

CONSTANTS
  subject,           \* the subject of the request
  generation,        \* the generation of the request, 0 if unconstrained
  max_citations,
  MaxWindow, MaxTime \* bounds of the model

RateKinds == {"drop_count", "mark_count", "pause_count", "retransmit_count"}

ASSUME ClassifierAssumption ==
  /\ policy.threshold \in [RateKinds -> Int]
  /\ max_citations \in Nat
  /\ MaxTime \in Nat \ {0}

VARIABLES
  window,            \* the records handed to the classifier, in their order
  evaluated_at,      \* the time of the last request
  assessment         \* the last CongestionAssessment

classifier_vars == <<window, evaluated_at, assessment>>

-----------------------------------------------------------------------------
generation_matches(r) == generation = 0 \/ r.gen = generation

\* Mutant: the generation of the record is not looked at.
Decides_AnyGeneration(r, t) ==
  /\ r.subject = subject
  /\ usable_as_deciding_evidence(assess_freshness(r, t))
  /\ r.support # "unsupported"

\* A record of the subject that may decide at time t.
Decides(r, t) ==
  /\ r.subject = subject
  /\ generation_matches(r)
  /\ usable_as_deciding_evidence(assess_freshness(r, t))
  /\ r.support # "unsupported"

\* The deciding records of a role, in the order of the window.
Bucket(records, t, role) ==
  At(records, {i \in DOMAIN records : role_of(records[i].kind) = role /\ Decides(records[i], t)})

Scalars(records) == {r.scalar : r \in records}

\* Greatest of a set of values, 0 if there is none.
Greatest(values) == IF values = {} THEN 0 ELSE Max(values)

CountingUnits == {"packets", "frames", "count", "cells"}

\* What the impairment records of one kind show.
observe_rate(records, kind) ==
  LET of == {r \in records : r.kind = kind}
      ratios == {r \in of : r.unit = "ratio"}
      totals == {r \in of : r.unit \in CountingUnits /\ r.semantics = "cumulative_counter"}
      counts == {r \in of \ (ratios \cup totals) : r.scalar > 0}
  IN [rate |-> Greatest({0} \cup Scalars(ratios)),
      unquantified |-> counts # {},
      counter_without_delta |-> totals # {},
      observed |-> counts # {} \/ \E r \in ratios : r.scalar > 0]

\* Mutant: the last sample is compared with the first.
LatencyInflated_LastToFirst(records) ==
  LET samples == SelectSeq(records, LAMBDA r : r.kind = "latency_sample" /\ r.scalar > 0)
  IN /\ Len(samples) >= 2
     /\ 100 * Last(samples).scalar >= policy.latency_inflation_factor * samples[1].scalar

\* Needs a baseline: two samples, the greatest a factor above the least.
LatencyInflated(records) ==
  LET positive == {i \in DOMAIN records :
                     records[i].kind = "latency_sample" /\ records[i].scalar > 0}
      values == {records[i].scalar : i \in positive}
  IN /\ Cardinality(positive) >= 2
     /\ 100 * Max(values) >= policy.latency_inflation_factor * Min(values)

MechanismOf == [drop_count |-> "packet_drop", mark_count |-> "ecn_marking",
                pause_count |-> "pause_backpressure", retransmit_count |-> "retransmission"]

ObservedMechanisms(rates, inflated) ==
  {MechanismOf[k] : k \in {k \in RateKinds : rates[k].observed}}
    \cup (IF inflated THEN {"latency_inflation"} ELSE {})

Roles == {"utilization", "pressure", "contention", "demand", "capacity", "impairment"}

\* The roles whose sources are compared with each other.
ComparedRoles == {"utilization", "pressure", "demand", "impairment"}

extract_features(records, t) ==
  LET mine == {i \in DOMAIN records : records[i].subject = subject}
      bucket == [role \in Roles |-> Bucket(records, t, role)]
      found == [role \in Roles |-> ToSet(bucket[role])]
      deciding == {records[i] : i \in {i \in mine : Decides(records[i], t)}}
      rates == [k \in RateKinds |-> observe_rate(found["impairment"], k)]
      inflated == LatencyInflated(bucket["impairment"])
      offered == Greatest({0} \cup Scalars({r \in found["demand"] : r.kind = "offered_demand"}))
      capacity == Greatest(Scalars(found["capacity"]))
      ratios == {r \in found["pressure"] : r.unit = "ratio"}
  IN [records_in_window |-> Cardinality(mine),
      generation_mismatch |-> Cardinality({i \in mine : ~generation_matches(records[i])}),
      unsupported |-> Cardinality({i \in mine : records[i].support = "unsupported"}),
      incomplete |-> Cardinality({i \in mine : records[i].completeness # "complete"}),
      unknown_freshness |-> Cardinality({i \in mine : assess_freshness(records[i], t) = "unknown"}),
      recovered |-> Cardinality({i \in mine : records[i].recovered_from_snapshot}),
      retired |-> Cardinality({i \in mine : records[i].retired}),
      deciding_sources |-> Cardinality({r.source : r \in deciding}),
      any_fresh_deciding |-> deciding # {},
      present |-> {role \in Roles : bucket[role] # <<>>},
      seen_not_fresh |-> {role_of(records[i].kind) : i \in
                            {i \in mine : /\ generation_matches(records[i])
                                          /\ ~Decides(records[i], t)}},
      agreement |-> [role \in ComparedRoles |-> assess_agreement(bucket[role])],
      utilization |-> Greatest(Scalars(found["utilization"])),
      pressure_ratio_available |-> ratios # {},
      pressure_exceeds_ratio |->
        ratios # {} /\ Greatest({0} \cup Scalars(ratios)) >= policy.pressure_occupancy_ratio,
      capacity_known |-> capacity > 0,
      demand_exceeds_capacity |->
        /\ capacity > 0
        /\ offered > 0
        /\ 100 * offered >= policy.demand_capacity_ratio * capacity,
      rates |-> rates,
      latency_inflation |-> inflated,
      unquantified |-> \E k \in RateKinds : rates[k].unquantified,
      counter_without_delta |-> \E k \in RateKinds : rates[k].counter_without_delta,
      mechanisms |-> ObservedMechanisms(rates, inflated)]

-----------------------------------------------------------------------------
RateAbove(f, kind) ==
  f.rates[kind].rate >= policy.threshold[kind] /\ f.rates[kind].rate > 0

impairment_is_decisive(f) ==
  /\ "impairment" \in f.present
  /\ \/ \E k \in RateKinds : RateAbove(f, k)
     \/ f.latency_inflation
     \/ f.unquantified

backlog_meaningful(f) ==
  \/ f.pressure_exceeds_ratio
  \/ "pressure" \in f.present /\ ~f.pressure_ratio_available

UtilizationAbove(f, level) == "utilization" \in f.present /\ f.utilization >= level

severity_for_rates(f) ==
  LET times(n) == \E k \in {"drop_count", "mark_count"} :
                    policy.threshold[k] > 0 /\ f.rates[k].rate >= n * policy.threshold[k]
  IN IF times(100) \/ Cardinality(f.mechanisms) >= 3 THEN "critical"
     ELSE IF times(10) \/ Cardinality(f.mechanisms) >= 2 THEN "high"
     ELSE "moderate"

\* The rules in order: the first that applies decides.
Rules(f) ==
  << [rule |-> "R00-no-evidence", verdict |-> "no_evidence", severity |-> "none",
      applies |-> f.records_in_window = 0],
     [rule |-> "R01-generation", verdict |-> "indeterminate", severity |-> "none",
      applies |-> f.generation_mismatch = f.records_in_window],
     [rule |-> "R02-unsupported", verdict |-> "indeterminate", severity |-> "none",
      applies |-> f.unsupported = f.records_in_window],
     [rule |-> "R03-freshness", verdict |-> "indeterminate", severity |-> "none",
      applies |-> ~f.any_fresh_deciding],
     [rule |-> "R04-impairment", verdict |-> "congestion_confirmed",
      severity |-> severity_for_rates(f), applies |-> impairment_is_decisive(f)],
     [rule |-> "R05-saturation", verdict |-> "saturated", severity |-> "moderate",
      applies |-> f.demand_exceeds_capacity /\ "demand" \in f.present],
     [rule |-> "R06-pressure", verdict |-> "pressure_observed", severity |-> "low",
      applies |-> backlog_meaningful(f)],
     [rule |-> "R07-contention", verdict |-> "contention_observed", severity |-> "low",
      applies |-> /\ "contention" \in f.present
                  /\ UtilizationAbove(f, policy.utilization_attention)],
     [rule |-> "R08-utilization", verdict |-> "utilized_healthy", severity |-> "informational",
      applies |-> UtilizationAbove(f, policy.utilization_attention)],
     [rule |-> "R09-idle", verdict |-> "idle", severity |-> "none", applies |-> TRUE] >>

\* Why R03 could not decide.
StalenessBlocker(f) ==
  IF "impairment" \in f.seen_not_fresh THEN "stale_impairment"
  ELSE IF "pressure" \in f.seen_not_fresh THEN "stale_pressure"
  ELSE IF f.seen_not_fresh \cap {"utilization", "demand", "contention"} # {}
       THEN "freshness_unknown"
  ELSE "no_fresh_evidence"

\* Blockers the rules raise on the way to the n-th, the one that decides.
RuleBlockers(f, n) ==
  LET when(condition, code) == IF condition THEN {code} ELSE {}
  IN UNION {
    when(n = 1, "absence_of_evidence"),
    when(n >= 2 /\ f.generation_mismatch > 0, "generation_mismatch"),
    when(n >= 3 /\ f.unsupported > 0, "unsupported_evidence"),
    when(n = 4, StalenessBlocker(f)),
    when(n >= 6 /\ "impairment" \in f.present,
         IF f.counter_without_delta THEN "counter_without_delta" ELSE "impairment_below_threshold"),
    when(n >= 8 /\ "pressure" \in f.present, "backlog_below_threshold"),
    when(n >= 8 /\ "pressure" \in f.seen_not_fresh, "stale_pressure"),
    when(n = 9, "utilization_alone") }

ConflictingRoles(f) == {role \in ComparedRoles : agreement_is_conflict(f.agreement[role])}

collect_conflict_blockers(f) ==
  LET when(condition, code) == IF condition THEN {code} ELSE {}
  IN UNION {
    when(ConflictingRoles(f) # {}, "conflicting_sources"),
    when(f.incomplete > 0, "incomplete_evidence"),
    when(f.unknown_freshness > 0, "freshness_unknown"),
    when(f.recovered > 0, "persisted_not_live"),
    when(f.retired > 0, "retired_incarnation") }

compute_confidence(f, verdict) ==
  LET points(condition, n) == IF condition THEN n ELSE 0
      corroborated == f.deciding_sources >= policy.corroborating_source_target
      unanimous == \E role \in {"utilization", "impairment"} : f.agreement[role] = "unanimous"
      conflict == ConflictingRoles(f) # {}
      has(role) == role \in f.present
  IN CASE verdict = "no_evidence" -> 0
       [] verdict = "idle" -> 40 + points(has("utilization"), 15) + points(has("demand"), 15)
                                + points(corroborated, 15)
       [] verdict = "utilized_healthy" -> 45 + points(corroborated, 15) + points(unanimous, 10)
                                            + points(has("demand"), 15) - points(conflict, 15)
       [] verdict \in {"contention_observed", "pressure_observed"} ->
            45 + points(corroborated, 20) + points(has("utilization"), 10) - points(conflict, 15)
       [] verdict = "saturated" -> 50 + points(corroborated, 20) + points(has("utilization"), 10)
                                     - points(conflict, 15)
       [] verdict = "congestion_confirmed" ->
            50 + points(corroborated, 20) + points(unanimous, 10) + points(has("demand"), 10)
               + points(f.capacity_known, 5) - points(conflict, 15)
       [] verdict = "indeterminate" -> 40 + points(conflict, 20)
                                          + points(f.counter_without_delta, 10)

\* The identities of everything that decided, in order, up to the limit.
collect_citations(records, t) ==
  LET ids == {r.id : r \in UNION {ToSet(Bucket(records, t, role)) : role \in Roles}}
      sorted == InOrder(ids)
  IN SubSeq(sorted, 1, Min({Len(sorted), max_citations}))

\* What the features of a window come to.
Conclusion(f, citations) ==
  LET rules == Rules(f)
      n == Min({i \in DOMAIN rules : rules[i].applies})
      verdict == rules[n].verdict
      when(condition, code) == IF condition THEN {code} ELSE {}
  IN [verdict |-> verdict,
      congestion_asserted |-> verdict = "congestion_confirmed",
      mechanisms |-> IF verdict = "congestion_confirmed" THEN f.mechanisms ELSE {},
      severity |-> rules[n].severity,
      confidence |-> compute_confidence(f, verdict),
      agreement |-> f.agreement,
      citations |-> citations,
      blockers |-> RuleBlockers(f, n) \cup collect_conflict_blockers(f)
                     \cup when(f.deciding_sources <= 1 /\ f.records_in_window > 0, "single_source")
                     \cup when(/\ verdict \in {"congestion_confirmed", "saturated"}
                               /\ ~f.capacity_known, "no_demand_context")]

classify_subject(records, t) ==
  Conclusion(extract_features(records, t), collect_citations(records, t))

-----------------------------------------------------------------------------
ClassifierInit ==
  /\ window = <<>>
  /\ evaluated_at = 1
  /\ assessment = classify_subject(<<>>, 1)

\* A record that validate_evidence accepts joins the window.
Arrive(r) ==
  /\ Len(window) < MaxWindow
  /\ r \notin ToSet(window)
  /\ validate_evidence(r)
  /\ window' = Append(window, r)
  /\ assessment' = classify_subject(window', evaluated_at)
  /\ UNCHANGED evaluated_at

Tick ==
  /\ evaluated_at < MaxTime
  /\ evaluated_at' = evaluated_at + 1
  /\ assessment' = classify_subject(window, evaluated_at')
  /\ UNCHANGED window

ClassifierNext == Tick \/ \E r \in Pool : Arrive(r)

ClassifierSpec == ClassifierInit /\ [][ClassifierNext]_classifier_vars

-----------------------------------------------------------------------------
Verdicts == {"no_evidence", "idle", "utilized_healthy", "contention_observed",
             "pressure_observed", "saturated", "congestion_confirmed", "indeterminate"}

\* The last assessment is well formed: its confidence is a percentage and
\* its citations are bounded, in order and without duplicates.
AssessmentOK ==
  /\ evaluated_at \in 1..MaxTime
  /\ ToSet(window) \subseteq Pool
  /\ assessment.verdict \in Verdicts
  /\ assessment.confidence \in 0..100
  /\ Len(assessment.citations) <= max_citations
  /\ \A i, j \in DOMAIN assessment.citations :
       i < j => assessment.citations[i] < assessment.citations[j]

(***************************************************************************)
(* Congestion is asserted on the word of a single record, or of two        *)
(* latency samples, in whatever order: records that do not show harm by    *)
(* themselves do not add up to it, and nothing else in the window can      *)
(* outvote a record that does.                                             *)
(***************************************************************************)
HarmIsWitnessed ==
  LET proves(records) == classify_subject(records, evaluated_at).congestion_asserted
      latency == {r \in ToSet(window) : r.kind = "latency_sample"}
  IN assessment.congestion_asserted <=>
       \/ \E r \in ToSet(window) : proves(<<r>>)
       \/ \E r, s \in latency : r # s /\ proves(<<r, s>>)

(***************************************************************************)
(* An asserted congestion names a mechanism.  EpisodeRegistry::observe     *)
(* refuses an assertion without one, so evaluate would fail.               *)
(***************************************************************************)
HarmIsNamed ==
  assessment.congestion_asserted <=> assessment.mechanisms # {}

\* A record that cannot speak about the present of the requested generation.
History(r) ==
  \/ r.recovered_from_snapshot
  \/ r.retired
  \/ evaluated_at - r.observed_at > r.validity
  \/ generation # 0 /\ r.gen # generation
  \/ r.support = "unsupported"

(***************************************************************************)
(* History decides nothing: with recovered, retired, expired and           *)
(* unsupported records and those of another generation taken out of the    *)
(* window the verdict is the same, and if nothing is left the verdict on   *)
(* the whole window was that it cannot tell.                               *)
(***************************************************************************)
HistoryDecidesNothing ==
  LET present == At(window, {i \in DOMAIN window : ~History(window[i])})
      verdict == classify_subject(present, evaluated_at).verdict
  IN IF verdict = "no_evidence"
     THEN assessment.verdict \in {"no_evidence", "indeterminate"}
     ELSE assessment.verdict = verdict

\* Deciding records of a role that can be compared with each other.
Positions(role) ==
  LET bucket == Bucket(window, evaluated_at, role)
  IN IF \A i, j \in DOMAIN bucket :
          /\ bucket[i].unit = bucket[j].unit
          /\ bucket[i].semantics # "cumulative_counter"
     THEN ToSet(bucket) ELSE {}

(***************************************************************************)
(* Two sources that report values of a role further apart than the         *)
(* tolerance are never passed over: the assessment carries the blocker     *)
(* for conflicting sources, whatever its verdict.                          *)
(***************************************************************************)
ConflictsReported ==
  \A role \in ComparedRoles : \A r, s \in Positions(role) :
    (r.source # s.source /\ r.scalar < s.scalar /\ ~Within(r.scalar, s.scalar))
      => "conflicting_sources" \in assessment.blockers

(***************************************************************************)
(* A source that reports many values cannot manufacture a majority: where  *)
(* the agreement is a majority with a dissenting minority, more than half  *)
(* of the sources have their lowest value near a common one.               *)
(***************************************************************************)
MajorityIsOfSources ==
  \A role \in ComparedRoles : assessment.agreement[role] = "minority" =>
    LET records == ToSet(Bucket(window, evaluated_at, role))
        sources == {r.source : r \in records}
        lowest(s) == Min({r.scalar : r \in {r \in records : r.source = s}})
    IN \E r \in records :
         2 * Cardinality({s \in sources : Within(r.scalar, lowest(s))}) > Cardinality(sources)

(***************************************************************************)
(* Waiting proves nothing: a step of the clock turns a verdict into an     *)
(* assertion only if a record's timestamps were ahead of the clock.        *)
(***************************************************************************)
WaitingProvesNothing ==
  [][(/\ window' = window
      /\ ~assessment.congestion_asserted
      /\ assessment'.congestion_asserted)
        => \E r \in ToSet(window) : Implausible(r, evaluated_at)]_classifier_vars

(***************************************************************************)
(* What an assessment says of the window is complete and consistent: it    *)
(* names the mechanism of an asserted congestion, reports every conflict   *)
(* of sources, and a majority is one of sources, not of records.           *)
(***************************************************************************)
AssessmentInv == AssessmentOK /\ HarmIsNamed /\ ConflictsReported /\ MajorityIsOfSources
=============================================================================
