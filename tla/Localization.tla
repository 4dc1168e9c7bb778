---------------------------- MODULE Localization ----------------------------
(***************************************************************************)
(* The causal graph and the search for the origin of a congestion          *)
(* (src/src/localization/graph.cpp and localize.cpp, and                   *)
(* Runtime::rebuild_causal_graph).  A topology is built and admitted, its  *)
(* relations become edges where an observation reports them, callers add   *)
(* edges of their own, and localize walks from a symptom along in-edges,   *)
(* breadth first, one dequeued object per step, and ranks what it reached  *)
(* by the fresh evidence there.  Both the rebuild and localize see no more *)
(* than the first max_window_records records of the store.  One caller     *)
(* does all this in turn; what happens when callers overlap is in Runtime. *)
(* The bounds on citations and what candidates cite are left out.          *)
(***************************************************************************)
EXTENDS Topology, Evidence

CONSTANTS
  Replacements,              \* the objects of topologies that other builders made
  Claims,                    \* the edges callers may add, marked by their rule
  Symptoms,                  \* the objects whose congestion is localized
  localization_policy,       \* max_depth, max_candidates, ambiguity_margin,
                             \* minimum_candidate_score, require_decisive_evidence
  max_graph_nodes, max_graph_edges, max_window_records,   \* Limits
  now, window_start,         \* evaluated_at, which is also window_end
  MaxObjects, MaxRecords, MaxClaims   \* bounds of the model

\* The subjects of records, in the order of their names.
Subjects == UNION {Objects[k] : k \in Kinds}

\* What a builder can hold.
Holdable(objects) ==
  /\ objects = [k \in Kinds |-> objects[k]]
  /\ \A k \in Kinds :
       /\ Present(objects, k) \subseteq Objects[k] /\ IsFiniteSet(Present(objects, k))
       /\ \A id \in Present(objects, k) : Known(objects, k, objects[k][id])
  /\ \A p \in Present(objects, "path") : objects["path"][p] \in Seq(Nat)

ASSUME LocalizationAssumption ==
  /\ {max_graph_nodes, max_graph_edges, max_window_records, MaxObjects, MaxRecords,
      MaxClaims} \subseteq Nat
  /\ \A objects \in Replacements : Holdable(objects)
  /\ {localization_policy.max_depth, localization_policy.max_candidates,
      localization_policy.minimum_candidate_score,
      localization_policy.ambiguity_margin} \subseteq Nat
  /\ localization_policy.require_decisive_evidence \in BOOLEAN
  /\ Symptoms \subseteq Nat \ {0}
  /\ now \in Int
  /\ \A e \in Claims : e.from \in Nat /\ e.to \in Nat /\ e.rule = "claim"

VARIABLES
  by_subject,                \* the observed records of every subject, as they came
  graph,                     \* the CausalGraph, as the sets of its nodes and edges
  built_from,                \* history: the objects of the topology it was built from
  claims,                    \* how often a caller has changed the graph
  search,                    \* the localization under way, or Nothing
  result                     \* the LocalizationResult just returned, or Nothing

vars == <<builder, topology, by_subject, graph, built_from, claims, search, result>>

Nothing == [symptom |-> 0]

EmptyGraph == [nodes |-> {}, edges |-> {}]

Observational == {"demand_upstream", "shared_contention", "latency_propagation",
                  "buffer_pressure"}

\* CausalEdgeKind in the order of its enumerators.
KindRank == [topology_adjacency |-> 0, path_membership |-> 2, queue_on_link |-> 3,
             buffer_on_port |-> 4, flow_on_path |-> 5, demand_upstream |-> 6,
             shared_contention |-> 7, latency_propagation |-> 8, buffer_pressure |-> 9]

\* CausalGraph::add_edge keeps the first edge of a key, whatever it cites.
SameKey(d, e) == d.from = e.from /\ d.to = e.to /\ d.kind = e.kind /\ d.rule = e.rule

\* add_node of both ends, one after the other: the first may stay alone.
WithNodes(g, e) ==
  LET add(nodes, n) == IF n \in nodes \/ Cardinality(nodes) < max_graph_nodes
                       THEN nodes \cup {n} ELSE nodes
      first == add(g.nodes, e.from)
  IN IF e.from \in first THEN add(first, e.to) ELSE first

Room(g) == Cardinality(g.edges) < max_graph_edges

\* The graph after add_edge, and whether the call returned success.
add_edge(g, e) ==
  LET nodes == WithNodes(g, e)
      entered == {e.from, e.to} \subseteq nodes
      known == \E d \in g.edges : SameKey(d, e)
  IN CASE e.citations = {} -> [ok |-> FALSE, graph |-> g]
       [] OTHER ->
         [ok |-> entered /\ (known \/ Room(g)),
          graph |-> [nodes |-> nodes,
                     edges |-> IF entered /\ ~known /\ Room(g)
                               THEN g.edges \cup {e} ELSE g.edges]]

-----------------------------------------------------------------------------
records == UNION {ToSet(by_subject[s]) : s \in Subjects}

\* The store's order: subject by subject, as they came.
StoredBefore(s, r) ==
  \/ s.subject < r.subject
  \/ /\ s.subject = r.subject
     /\ LET held == by_subject[r.subject]
        IN \E i, j \in DOMAIN held : i < j /\ held[i] = s /\ held[j] = r

\* EvidenceStore::query: the first max_window_records of those that match.
query(matching) ==
  {r \in matching : Cardinality({s \in matching : StoredBefore(s, r)}) < max_window_records}

\* Records that report structure, whatever their age or incarnation.
Advertises(r) ==
  /\ r.kind \in {"topology_advertisement", "oper_state", "capacity_advertisement"}
  /\ r.support # "unsupported"

citations_for(returned, subject) ==
  {r.id : r \in {r \in returned : Advertises(r) /\ r.subject = subject}}

\* The relations of one object.
Relations(objects, kind, id) ==
  LET ref == objects[kind][id]
      edge(f, t, k, r) == [from |-> f, to |-> t, kind |-> k, rule |-> r]
  IN CASE kind = "path" ->
            [i \in DOMAIN ref |-> edge(id, ref[i], "path_membership", "member")]
            \o [i \in 1..(Len(ref) - 1) |->
                  edge(ref[i], ref[i + 1], "path_membership", "upstream")]
       [] kind = "queue"  -> <<edge(id, ref, "queue_on_link", "queue")>>
       [] kind = "buffer" -> <<edge(id, ref, "buffer_on_port", "buffer")>>
       [] kind = "flow"   -> <<edge(id, ref, "flow_on_path", "flow")>>
       [] kind = "link"   -> [i \in 1..2 |-> edge(id, ref[i], "topology_adjacency", "endpoint")]

RelationsOf(objects, kind) ==
  LET ids == InOrder(Present(objects, kind))
  IN FlattenSeq([i \in DOMAIN ids |-> Relations(objects, kind, ids[i])])

\* The relations of a topology: paths with their hops, then queues, buffers, flows, links.
Structure(objects) ==
  RelationsOf(objects, "path") \o RelationsOf(objects, "queue") \o RelationsOf(objects, "buffer")
    \o RelationsOf(objects, "flow") \o RelationsOf(objects, "link")

\* link_edge: a relation nobody reported is passed over, the first failure ends the loop.
LinkEdge(returned, built, relation) ==
  LET cites == citations_for(returned, relation.from)
  IN IF ~built.ok \/ cites = {} THEN built
     ELSE add_edge(built.graph,
                   [from |-> relation.from, to |-> relation.to, kind |-> relation.kind,
                    rule |-> relation.rule, citations |-> cites])

\* The graph after the loop over a sequence of relations, and whether it ended.
LinkEdges(relations) ==
  LET returned == query(records)
      built[i \in 0..Len(relations)] ==
        IF i = 0 THEN [ok |-> TRUE, graph |-> EmptyGraph]
        ELSE LinkEdge(returned, built[i - 1], relations[i])
  IN built[Len(relations)]

\* Mutant: what was built up to a failure replaces the graph.
Rebuilt_Partial(objects) == [LinkEdges(Structure(objects)) EXCEPT !.ok = TRUE]

Rebuilt(objects) == LinkEdges(Structure(objects))

\* The old graph stays if the new one does not fit the limits.
Rebuilds(objects) ==
  LET built == Rebuilt(objects)
  IN /\ graph' = IF built.ok THEN built.graph ELSE graph
     /\ built_from' = IF built.ok THEN objects ELSE built_from

-----------------------------------------------------------------------------
\* build, and Runtime::admit_topology: the topology is replaced before the
\* rebuild, and stays replaced if that fails.  The caller drops its builder.
admit_topology(objects) ==
  /\ search = Nothing
  /\ Buildable(objects)
  /\ topology' = build(objects)
  /\ Rebuilds(objects)
  /\ builder' = NoTopology.objects
  /\ UNCHANGED <<by_subject, claims, search>>
  /\ result' = Nothing

observe(r) ==
  /\ search = Nothing
  /\ Cardinality(records) < MaxRecords
  /\ validate_evidence(r)
  /\ contains(topology, r.subject)
  /\ r \notin records
  /\ by_subject' = [by_subject EXCEPT ![r.subject] = Append(@, r)]
  /\ UNCHANGED <<builder, topology, graph, built_from, claims, search>>
  /\ result' = Nothing

rebuild_causal_graph ==
  /\ search = Nothing
  /\ Rebuilds(topology.objects)
  /\ UNCHANGED <<builder, topology, by_subject, claims, search>>
  /\ result' = Nothing

add_causal_edge(e) ==
  /\ search = Nothing
  /\ claims < MaxClaims
  /\ graph' = add_edge(graph, e).graph
  /\ claims' = IF graph' = graph THEN claims ELSE claims + 1
  /\ UNCHANGED <<builder, topology, by_subject, built_from, search>>
  /\ result' = Nothing

-----------------------------------------------------------------------------
\* The objects with an edge into an object.
CausesOf(g, node) == {e.from : e \in {e \in g.edges : e.to = node}}

\* in_edges lists causes by identity and the edges of one cause by kind.
FirstEdge(g, cause, node) ==
  LET between == {e \in g.edges : e.from = cause /\ e.to = node}
  IN CHOOSE e \in between : \A d \in between : KindRank[e.kind] <= KindRank[d.kind]

Outcome(symptom, outcome, candidates, blockers, limited) ==
  [symptom |-> symptom, outcome |-> outcome, candidates |-> candidates,
   blockers |-> blockers, depth_limited |-> limited]

InWindow(r) == r.observed_at >= window_start /\ r.observed_at <= now

\* localize up to the walk, for a symptom that was or was not asserted.
\* Runtime::classify returns an error for an object that is not there.
localize(symptom, asserted) ==
  /\ search = Nothing
  /\ contains(topology, symptom)
  /\ IF asserted /\ graph.edges # {}
     THEN /\ search' = [symptom |-> symptom, reached |-> <<>>, depth_limited |-> FALSE,
                        queue |-> <<[node |-> symptom, depth |-> 0]>>,
                        window |-> query({r \in records : InWindow(r)})]
          /\ result' = Nothing
     ELSE /\ result' = Outcome(symptom, IF asserted THEN "unlocalized" ELSE "not_attempted", <<>>,
                               {IF asserted THEN "graph_empty" ELSE "symptom_not_asserted"}, FALSE)
          /\ UNCHANGED search
  /\ UNCHANGED <<builder, topology, by_subject, graph, built_from, claims>>

\* Mutant: one level too many.
TooDeep_OffByOne(step) == step.depth > localization_policy.max_depth

TooDeep(step) == step.depth >= localization_policy.max_depth

Visited(s) == {s.symptom} \cup DOMAIN s.reached

\* One turn of the loop: the object in front is expanded unless it lies too
\* deep.  Of the edges from a cause only the first is followed, and only if
\* the cause has not been visited.
Turn(g, s) ==
  LET current == Head(s.queue)
      causes == CausesOf(g, current.node)
      fresh == causes \ Visited(s)
      depth == current.depth + 1
  IN IF TooDeep(current)
     THEN [s EXCEPT !.queue = Tail(@), !.depth_limited = @ \/ causes # {}]
     ELSE [s EXCEPT
             !.queue = Tail(@) \o [i \in 1..Cardinality(fresh) |->
                               [node |-> InOrder(fresh)[i], depth |-> depth]],
             !.reached = [n \in DOMAIN @ \cup fresh |->
                            IF n \in fresh
                            THEN [depth |-> depth, via |-> FirstEdge(g, n, current.node)]
                            ELSE @[n]]]

Walk ==
  /\ search # Nothing
  /\ search.queue # <<>>
  /\ search' = Turn(graph, search)
  /\ UNCHANGED <<builder, topology, by_subject, graph, built_from, claims, result>>

-----------------------------------------------------------------------------
\* The records about an object that may speak for it.
Speaks(r, node) ==
  /\ r.subject = node
  /\ ~r.recovered_from_snapshot /\ ~r.retired
  /\ r.support # "unsupported"
  /\ usable_as_deciding_evidence(assess_freshness(r, now))

AtNode(node) == {r \in search.window : Speaks(r, node)}

RolesAt(node) == {role_of(r.kind) : r \in AtNode(node)}

DecisiveRoles == {"demand", "pressure", "contention", "impairment"}

\* Mutant: a heartbeat or an advertisement is enough.
Decisive_Any(node) == AtNode(node) # {}

Decisive(node) == RolesAt(node) \cap DecisiveRoles # {}

HighestOf(S) == Max({0} \cup {r.scalar : r \in S})

DemandExceeds(node) ==
  LET offered == HighestOf({r \in AtNode(node) : r.kind = "offered_demand"})
      capacity == HighestOf({r \in AtNode(node) : role_of(r.kind) = "capacity"})
  IN /\ capacity > 0 /\ offered > 0
     /\ 100 * offered >= policy.demand_capacity_ratio * capacity

\* The named contributions to the score of an object that was reached.
Points(node) ==
  LET points(condition, n) == IF condition THEN n ELSE 0
      roles == RolesAt(node)
      ratio == HighestOf({r \in AtNode(node) : role_of(r.kind) = "pressure" /\ r.unit = "ratio"})
      step == search.reached[node]
  IN points(AtNode(node) # {}, 10)
     + points("demand" \in roles, 10)
     + points(DemandExceeds(node), 25)
     + points("pressure" \in roles, 20)
     + points("pressure" \in roles /\ ratio >= policy.pressure_occupancy_ratio, 15)
     + points(\E r \in AtNode(node) : r.kind = "buffer_occupancy", 10)
     + points("contention" \in roles, 10)
     + points("impairment" \in roles, 5)
     + points(step.via.kind \in Observational, 10)
     + points(step.depth < 5, 5 - step.depth)

Score(node) == Min({Points(node), 100})

Candidate(node) ==
  LET score == Score(node)
      sources == {r.source : r \in AtNode(node)}
  IN [subject |-> node, score |-> score, depth |-> search.reached[node].depth,
      confidence |-> IF Cardinality(sources) >= 2 THEN score ELSE (score * 7) \div 10]

\* Score descending, then identity.
Better(c, d) == c.score > d.score \/ (c.score = d.score /\ c.subject < d.subject)

Ranked(candidates) ==
  CHOOSE s \in [1..Cardinality(candidates) -> candidates] :
    \A i, j \in DOMAIN s : i < j => Better(s[i], s[j])

Close(first, c) == first.score - c.score < localization_policy.ambiguity_margin

Backed(node) == localization_policy.require_decisive_evidence => Decisive(node)

Qualifies(score) == score >= localization_policy.minimum_candidate_score

\* The candidates that localize goes by: ranked, cut, and with enough points.
Qualifying ==
  LET ranked == Ranked({Candidate(n) : n \in {n \in DOMAIN search.reached : Backed(n)}})
  IN At(ranked, {i \in DOMAIN ranked :
                   i <= localization_policy.max_candidates /\ Qualifies(ranked[i].score)})

\* The end of localize: score, rank, cut, and tell the leaders apart.
Conclude ==
  /\ search # Nothing
  /\ search.queue = <<>>
  /\ LET qualifying == Qualifying
         limited == IF search.depth_limited THEN {"depth_limited"} ELSE {}
     IN result' =
          IF qualifying = <<>>
          THEN Outcome(search.symptom, "unlocalized", <<>>, {"no_evidence_backed_path"},
                       search.depth_limited)
          ELSE IF Len(qualifying) >= 2 /\ Close(qualifying[1], qualifying[2])
          THEN Outcome(search.symptom, "ambiguous",
                       At(qualifying, {i \in DOMAIN qualifying : Close(qualifying[1], qualifying[i])}),
                       {"ambiguous_candidates"} \cup limited, search.depth_limited)
          ELSE Outcome(search.symptom, "localized", qualifying, limited, search.depth_limited)
  /\ search' = Nothing
  /\ UNCHANGED <<builder, topology, by_subject, graph, built_from, claims>>

-----------------------------------------------------------------------------
Init ==
  /\ TopologyInit
  /\ by_subject = [s \in Subjects |-> <<>>]
  /\ graph = EmptyGraph
  /\ built_from = topology.objects
  /\ claims = 0
  /\ search = Nothing
  /\ result = Nothing

Next ==
  \/ /\ topology = NoTopology
     /\ Cardinality(UNION {Present(builder, k) : k \in Kinds}) < MaxObjects
     /\ TopologyNext
     /\ UNCHANGED <<by_subject, graph, built_from, claims, search, result>>
  \/ \E objects \in {builder} \cup Replacements : admit_topology(objects)
  \/ rebuild_causal_graph
  \/ \E r \in Pool : observe(r)
  \/ \E e \in Claims : add_causal_edge(e)
  \/ \E s \in Symptoms, asserted \in BOOLEAN : localize(s, asserted)
  \/ Walk
  \/ Conclude

Spec == Init /\ [][Next]_vars

-----------------------------------------------------------------------------
\* Every variable is well formed, the graph within its limits.
TypeOK ==
  /\ \A k \in Kinds : Present(builder, k) \subseteq Objects[k]
  /\ records \subseteq Pool
  /\ claims \in 0..MaxClaims
  /\ Cardinality(graph.nodes) <= max_graph_nodes
  /\ Cardinality(graph.edges) <= max_graph_edges
  /\ \A e \in graph.edges : {e.from, e.to} \subseteq graph.nodes

(***************************************************************************)
(* A topology is only a claim: every edge that no caller added is a        *)
(* relation of the topology that the graph was built from and cites a      *)
(* record that reports its cause.  That topology is the admitted one       *)
(* unless the rebuild failed when it was admitted: admit_topology has      *)
(* replaced the topology by then, the edges are those of the earlier one   *)
(* and may join objects that are gone.                                     *)
(***************************************************************************)
StructureIsReported ==
  LET relations == ToSet(Structure(built_from))
  IN \A e \in {e \in graph.edges : e.rule # "claim"} :
       /\ \E relation \in relations : SameKey(e, relation)
       /\ e.citations # {}
       /\ \A id \in e.citations :
            \E r \in records : r.id = id /\ Advertises(r) /\ r.subject = e.from

\* The records about an object and those that a query returns before them.
UpTo(subject) == {r \in records : r.subject <= subject}

(***************************************************************************)
(* A rebuild replaces the graph by a whole one or not at all: where the    *)
(* new graph does not fit, no relation that was reported goes missing.     *)
(* The one way to lose a relation is the limit of the query, which counts  *)
(* records of every kind in the order of their subjects: a relation is     *)
(* there for certain if the records up to its cause are within             *)
(* max_window_records.                                                     *)
(***************************************************************************)
NeverHalfBuilt ==
  [][(graph' # graph /\ claims' = claims) =>
       /\ built_from' = topology'.objects
       /\ \A relation \in ToSet(Structure(topology'.objects)) :
            (/\ \E r \in records : Advertises(r) /\ r.subject = relation.from
             /\ Cardinality(UpTo(relation.from)) <= max_window_records)
            => \E e \in graph'.edges : SameKey(e, relation)]_vars

\* A set of objects and all their causes.
Widened(g, S) == S \cup {e.from : e \in {e \in g.edges : e.to \in S}}

\* Objects that reach an object over at most k edges.
Upstream(g, symptom) ==
  LET level[k \in 0..localization_policy.max_depth] ==
        IF k = 0 THEN {symptom} ELSE Widened(g, level[k - 1])
  IN level

(***************************************************************************)
(* When the walk ends it has reached exactly the objects within max_depth  *)
(* edges of the symptom, each at its distance, although cycles lead back   *)
(* and the first edge into an object is the only one followed.             *)
(***************************************************************************)
WalkIsExact ==
  (search # Nothing /\ search.queue = <<>>) =>
    LET level == Upstream(graph, search.symptom)
    IN /\ DOMAIN search.reached = level[localization_policy.max_depth] \ {search.symptom}
       /\ \A n \in DOMAIN search.reached :
            search.reached[n].depth = Min({k \in DOMAIN level : n \in level[k]})

\* The step that ends a localization.
Concludes == search # Nothing /\ search' = Nothing

(***************************************************************************)
(* No culprit without proof of its own: where the policy asks for decisive *)
(* evidence, every candidate has a record of load or harm about it that is *)
(* live, not declared unsupported, inside the window and still valid.      *)
(***************************************************************************)
CulpritsAreProved ==
  [][(Concludes /\ localization_policy.require_decisive_evidence) =>
       \A c \in ToSet(result'.candidates) : \E r \in records :
         /\ r.subject = c.subject
         /\ role_of(r.kind) \in {"demand", "pressure", "contention", "impairment"}
         /\ ~r.recovered_from_snapshot /\ ~r.retired /\ r.support # "unsupported"
         /\ now - r.observed_at <= r.validity
         /\ r.observed_at >= window_start /\ r.observed_at <= now]_vars

(***************************************************************************)
(* The leaders are the objects within the margin of every other that       *)
(* qualifies, those that max_candidates cuts off included.  A single       *)
(* origin is named exactly if there is no second leader or if              *)
(* max_candidates is 1, which cuts off even a rival with the same score;   *)
(* "ambiguous" names nobody but leaders.  A leader is left out only where  *)
(* max_candidates others, none of them weaker, are named.                  *)
(***************************************************************************)
LeadersToldApart ==
  [][(Concludes /\ result'.candidates # <<>>) =>
       LET backed == {n \in DOMAIN search.reached : Backed(n)}
           qualified == {n \in backed : Qualifies(Score(n))}
           leaders == {n \in qualified : \A m \in qualified :
                         Score(m) - Score(n) < localization_policy.ambiguity_margin}
           named == {c.subject : c \in ToSet(result'.candidates)}
           most == localization_policy.max_candidates
       IN /\ result'.outcome = "localized" <=> (Cardinality(leaders) <= 1 \/ most = 1)
          /\ result'.outcome = "ambiguous" => named \subseteq leaders
          /\ \A n \in leaders \ named :
               /\ Len(result'.candidates) = most
               /\ \A m \in named : Score(n) <= Score(m)]_vars

(***************************************************************************)
(* Topology and graph agree with what they were made of: no reference      *)
(* dangles, the reverse indices are exact, the graph is within its limits  *)
(* and its structural edges are relations that a record reported.          *)
(***************************************************************************)
StructureInv == TypeOK /\ NothingDangles /\ IndicesExact /\ StructureIsReported

(***************************************************************************)
(* A localization names whom it can prove and nobody else: candidates have *)
(* evidence of their own, and a single one is named only when it stands    *)
(* apart from its rivals or max_candidates admits no second.               *)
(***************************************************************************)
NamedWithProof == CulpritsAreProved /\ LeadersToldApart
=============================================================================
