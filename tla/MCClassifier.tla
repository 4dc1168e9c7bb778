---------------------------- MODULE MCClassifier ----------------------------
(* Small instances of Classifier: records around every threshold.          *)
EXTENDS Classifier

MCPolicy ==
  [utilization_attention |-> 70, utilization_high |-> 90, pressure_occupancy_ratio |-> 60,
   latency_inflation_factor |-> 200, demand_capacity_ratio |-> 100,
   conflict_relative_tolerance |-> 10, corroborating_source_target |-> 2,
   threshold |-> [drop_count |-> 10, mark_count |-> 10, pause_count |-> 10,
                  retransmit_count |-> 10],
   fresh_within |-> 1, aging_within |-> 1, stale_within |-> 2, evaluation_window |-> 1,
   max_future_skew |-> 0, require_plausible_timestamps |-> TRUE]

\* A complete, supported record of the subject and the generation.
Sample(kind, unit, semantics, scalar, source) ==
  [id |-> 0, subject |-> 1, source |-> source, fence_source |-> source, kind |-> kind,
   unit |-> unit, semantics |-> semantics, scalar |-> scalar, finite |-> TRUE, support |-> "supported",
   completeness |-> "complete", recovered_from_snapshot |-> FALSE, retired |-> FALSE,
   clock |-> "wall", observed_at |-> 1, received_at |-> 1, validity |-> 2, gen |-> 1,
   labels |-> 0, metadata |-> 0, note |-> 0]

Drop == Sample("drop_count", "ratio", "rate", 10, 1)

Numbered(drafts) == {[drafts[i] EXCEPT !.id = i] : i \in DOMAIN drafts}

MCPool == Numbered(<<
  Drop, [Drop EXCEPT !.scalar = 6], [Drop EXCEPT !.scalar = 1000],
  [Drop EXCEPT !.scalar = 6, !.source = 2, !.fence_source = 2], [Drop EXCEPT !.gen = 2],
  [Drop EXCEPT !.recovered_from_snapshot = TRUE], [Drop EXCEPT !.retired = TRUE],
  [Drop EXCEPT !.support = "unsupported", !.unit = "unknown"],
  [Drop EXCEPT !.observed_at = 2, !.received_at = 2], [Drop EXCEPT !.validity = 0],
  [Drop EXCEPT !.clock = "unknown"], [Drop EXCEPT !.subject = 2],
  [Drop EXCEPT !.finite = FALSE],
  Sample("drop_count", "packets", "cumulative_counter", 5, 1),
  Sample("mark_count", "packets", "delta_counter", 1, 2),
  Sample("pause_count", "bytes", "delta_counter", 0, 2),
  Sample("pause_duration", "nanoseconds", "gauge", 9, 1),
  Sample("retransmit_count", "ratio", "rate", 10, 2),
  Sample("latency_sample", "nanoseconds", "gauge", 0, 1),
  Sample("latency_sample", "nanoseconds", "gauge", 1, 1),
  Sample("latency_sample", "nanoseconds", "gauge", 2, 1),
  Sample("link_utilization", "ratio", "gauge", 70, 1),
  Sample("link_utilization", "ratio", "gauge", 76, 1),
  Sample("port_utilization", "ratio", "gauge", 82, 2),
  Sample("link_utilization", "ratio", "gauge", 20, 2),
  Sample("queue_occupancy", "ratio", "gauge", 60, 2),
  Sample("queue_depth", "cells", "gauge", 1, 1),
  Sample("buffer_occupancy", "ratio", "gauge", 5, 1),
  Sample("active_flow_count", "count", "gauge", 3, 2),
  Sample("offered_demand", "bps", "gauge", 10, 1),
  Sample("capacity_advertisement", "bps", "gauge", 10, 2),
  [Sample("source_heartbeat", "boolean", "gauge", 1, 2) EXCEPT !.completeness = "partial"] >>)
=============================================================================
