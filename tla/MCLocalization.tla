--------------------------- MODULE MCLocalization ---------------------------
(* A small fabric: two links between two ports of one node, a path that    *)
(* loops, a queue, a buffer and a flow.                                    *)
EXTENDS Localization

\* buffer 1, flow 2, links 3 and 4, node 5, path 6, ports 7 and 8, queue 9
MCObjects == [node |-> {5}, port |-> {7, 8}, link |-> {3, 4}, queue |-> {9},
              buffer |-> {1}, path |-> {6}, flow |-> {2}]

MCEndpoints == {<<7, 8>>, <<7, 7>>}

MCHops == {<<3, 4, 3>>}

MCShares == {<<0, 10000>>, <<2, 1>>}

MCLimits == [node |-> 1, port |-> 2, link |-> 2, queue |-> 1, buffer |-> 1, path |-> 1,
             flow |-> 1]

MCPolicy ==
  [utilization_attention |-> 70, utilization_high |-> 90, pressure_occupancy_ratio |-> 60,
   latency_inflation_factor |-> 200, demand_capacity_ratio |-> 100,
   conflict_relative_tolerance |-> 10, corroborating_source_target |-> 2,
   fresh_within |-> 1, aging_within |-> 1, stale_within |-> 2, evaluation_window |-> 1,
   max_future_skew |-> 0, require_plausible_timestamps |-> TRUE]

MCLocalizationPolicy ==
  [max_depth |-> 2, max_candidates |-> 2, ambiguity_margin |-> 20,
   minimum_candidate_score |-> 24, require_decisive_evidence |-> TRUE]

Sample(id, on, kind, unit, scalar) ==
  [id |-> id, subject |-> on, source |-> 1, fence_source |-> 1, kind |-> kind, unit |-> unit,
   semantics |-> "gauge", scalar |-> scalar, finite |-> TRUE, support |-> "supported",
   completeness |-> "complete", recovered_from_snapshot |-> FALSE, retired |-> FALSE,
   clock |-> "wall", observed_at |-> 3, received_at |-> 3, validity |-> 2, gen |-> 1,
   labels |-> 0, metadata |-> 0, note |-> 0]

Reported(id, on, kind, unit) == [Sample(id, on, kind, unit, 1) EXCEPT !.observed_at = 1]

MCPool == {
  Sample(1, 3, "capacity_advertisement", "bps", 10),
  [Reported(2, 4, "oper_state", "boolean") EXCEPT !.recovered_from_snapshot = TRUE],
  Reported(3, 6, "topology_advertisement", "boolean"),
  Reported(4, 9, "oper_state", "boolean"),
  Sample(5, 3, "offered_demand", "bps", 10),
  Sample(6, 9, "queue_occupancy", "ratio", 60),
  Sample(7, 6, "active_flow_count", "count", 4) }

Claim(from, to, kind) ==
  [from |-> from, to |-> to, kind |-> kind, rule |-> "claim", citations |-> {50}]

MCClaims == {Claim(6, 9, "shared_contention"), Claim(3, 4, "latency_propagation"),
             [Claim(6, 4, "buffer_pressure") EXCEPT !.citations = {}]}

\* Two topologies of other builders: one without the queue, one without the path.
NoneOf == [k \in Kinds |-> <<>>]

MCReplacements ==
  LET fabric == [NoneOf EXCEPT !["node"] = 5 :> 0, !["port"] = 7 :> 5 @@ 8 :> 5,
                               !["link"] = 3 :> <<7, 8>> @@ 4 :> <<7, 8>>]
  IN {[fabric EXCEPT !["path"] = 6 :> <<3, 4, 3>>, !["flow"] = 2 :> 6],
      [fabric EXCEPT !["queue"] = 9 :> 4]}
=============================================================================
