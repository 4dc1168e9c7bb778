------------------------------ MODULE Topology ------------------------------
(***************************************************************************)
(* TopologyBuilder and Topology (src/src/model/topology.cpp): objects are  *)
(* added one at a time, each may refer only to objects already there, and  *)
(* build checks the whole again and derives the reverse indices.           *)
(*                                                                         *)
(* builder maps a kind to its objects, each with what it refers to.        *)
(* Objects of all kinds are numbered in the order of their names.  A call  *)
(* that returns an error changes nothing: it is an action that is not      *)
(* enabled.                                                                *)
(***************************************************************************)
EXTENDS Order, SequencesExt

Kinds == {"node", "port", "link", "queue", "buffer", "path", "flow"}

CONSTANTS
  Objects,                   \* kind -> the identities that may be added
  Endpoints,                 \* the pairs of ports of the links that may be added
  Hops,                      \* the hop sequences of the paths that may be added
  Shares,                    \* <<min_share_bp, max_share_bp>> of queues
  Labels,                    \* numbers of labels of nodes
  limits, build_limits,      \* kind -> bound, of the builder and of build
  max_node_labels, max_ports_per_node, max_path_hops

ASSUME TopologyAssumption ==
  /\ DOMAIN Objects = Kinds
  /\ \A k \in Kinds : Objects[k] \subseteq Nat \ {0}
  /\ \A j, k \in Kinds : j # k => Objects[j] \cap Objects[k] = {}
  /\ limits \in [Kinds -> Nat] /\ build_limits \in [Kinds -> Nat]
  /\ Hops \subseteq Seq(Nat)

VARIABLES
  builder,                   \* kind -> object -> what it refers to
  topology                   \* the Topology that was built, or NoTopology

NoTopology == [objects |-> [k \in Kinds |-> <<>>]]

Present(objects, kind) == DOMAIN objects[kind]

\* The objects that an object of a kind refers to, as <<kind, identity>>.
References(kind, ref) ==
  CASE kind = "node"   -> {}
    [] kind = "port"   -> {<<"node", ref>>}
    [] kind = "link"   -> {<<"port", ref[1]>>, <<"port", ref[2]>>}
    [] kind = "queue"  -> {<<"link", ref>>}
    [] kind = "buffer" -> {<<"port", ref>>}
    [] kind = "path"   -> {<<"link", l>> : l \in ToSet(ref)}
    [] kind = "flow"   -> {<<"path", ref>>}

\* Mutant: a path is only checked for its first hop.
Known_FirstHop(objects, kind, ref) ==
  IF kind = "path" THEN ref[1] \in Present(objects, "link")
  ELSE \A r \in References(kind, ref) : r[2] \in Present(objects, r[1])

Known(objects, kind, ref) ==
  \A r \in References(kind, ref) : r[2] \in Present(objects, r[1])

\* duplicate_check, capacity_check, the references, and the insertion.
Add(kind, id, ref) ==
  /\ id \notin Present(builder, kind)
  /\ Cardinality(Present(builder, kind)) < limits[kind]
  /\ Known(builder, kind, ref)
  /\ builder' = [builder EXCEPT ![kind] =
                   [x \in DOMAIN @ \cup {id} |-> IF x = id THEN ref ELSE @[x]]]
  /\ UNCHANGED topology

add_node(id, labels) == labels <= max_node_labels /\ Add("node", id, 0)

add_port(id, node) ==
  /\ Cardinality({p \in Present(builder, "port") : builder["port"][p] = node})
       < max_ports_per_node
  /\ Add("port", id, node)

add_link(id, a, b) == a # b /\ Add("link", id, <<a, b>>)

add_queue(id, link, share) ==
  /\ share[1] <= share[2] /\ share[2] <= 10000
  /\ Add("queue", id, link)

add_buffer(id, port) == Add("buffer", id, port)

add_path(id, hops) ==
  /\ hops # <<>>
  /\ Len(hops) <= max_path_hops
  /\ Add("path", id, hops)

add_flow(id, path) == Add("flow", id, path)

-----------------------------------------------------------------------------
\* std::unique: of equal neighbours the first stays.
Unique(s) == At(s, {i \in DOMAIN s : i = 1 \/ s[i] # s[i - 1]})

\* std::sort of identities.
Sorted(s) ==
  LET order == CHOOSE p \in Bijection(DOMAIN s, DOMAIN s) :
                 \A i, j \in DOMAIN s : i < j => s[p[i]] <= s[p[j]]
  IN [i \in DOMAIN s |-> s[order[i]]]

(***************************************************************************)
(* One entry of a reverse index: the objects are visited in order, each is *)
(* pushed once for every key it has, neighbours are made unique and the    *)
(* result is sorted.  (Queues and buffers have one key and are never       *)
(* pushed twice; the code leaves std::unique out for them.)                *)
(***************************************************************************)
Pushed(keys, key) ==
  LET order == InOrder(DOMAIN keys)
      times(id) == Cardinality({j \in DOMAIN keys[id] : keys[id][j] = key})
  IN FlattenSeq([i \in DOMAIN order |-> [j \in 1..times(order[i]) |-> order[i]]])

Indexed(keys, key) == Sorted(Unique(Pushed(keys, key)))

NodeOf(objects, port) == objects["port"][port]

LinkNodes(objects, link) ==
  <<NodeOf(objects, objects["link"][link][1]), NodeOf(objects, objects["link"][link][2])>>

\* The five reverse indices of a topology with these objects.
Indices(objects) ==
  [links_of_node   |-> [n \in Present(objects, "node") |->
     Indexed([l \in Present(objects, "link") |-> LinkNodes(objects, l)], n)],
   paths_of_link   |-> [l \in Present(objects, "link") |->
     Indexed([p \in Present(objects, "path") |-> objects["path"][p]], l)],
   flows_of_path   |-> [p \in Present(objects, "path") |->
     Indexed([f \in Present(objects, "flow") |-> <<objects["flow"][f]>>], p)],
   queues_of_link  |-> [l \in Present(objects, "link") |->
     Indexed([q \in Present(objects, "queue") |-> <<objects["queue"][q]>>], l)],
   buffers_of_port |-> [p \in Present(objects, "port") |->
     Indexed([b \in Present(objects, "buffer") |-> <<objects["buffer"][b]>>], p)]]

\* What build checks again: the bounds it is given and every reference.
Buildable(objects) ==
  \A k \in Kinds :
    /\ Cardinality(Present(objects, k)) <= build_limits[k]
    /\ \A id \in Present(objects, k) : Known(objects, k, objects[k][id])

build(objects) == [objects |-> objects, index |-> Indices(objects)]

\* Tenants, classes and sources are in every topology; they are not numbered here.
contains(t, subject) == \E k \in Kinds : subject \in Present(t.objects, k)

TopologyInit ==
  /\ builder = [k \in Kinds |-> <<>>]
  /\ topology = NoTopology

TopologyNext ==
  \/ \E id \in Objects["node"], n \in Labels : add_node(id, n)
  \/ \E id \in Objects["port"], n \in Objects["node"] : add_port(id, n)
  \/ \E id \in Objects["link"], e \in Endpoints : add_link(id, e[1], e[2])
  \/ \E id \in Objects["queue"], l \in Objects["link"], s \in Shares : add_queue(id, l, s)
  \/ \E id \in Objects["buffer"], p \in Objects["port"] : add_buffer(id, p)
  \/ \E id \in Objects["path"], h \in Hops : add_path(id, h)
  \/ \E id \in Objects["flow"], p \in Objects["path"] : add_flow(id, p)

-----------------------------------------------------------------------------
(***************************************************************************)
(* Nothing in a builder refers to an object that is not there, so build    *)
(* fails on a bound only, never on a reference.                            *)
(***************************************************************************)
NothingDangles ==
  \A k \in Kinds : \A id \in Present(builder, k) :
    \A r \in References(k, builder[k][id]) : r[2] \in Present(builder, r[1])

\* An index holds exactly the objects in a set, each once and in order.
Lists(index, ids) ==
  /\ ToSet(index) = ids
  /\ \A i, j \in DOMAIN index : i < j => index[i] < index[j]

(***************************************************************************)
(* The reverse indices of a built topology are the inverse of its          *)
(* references: complete, in order and without duplicates, also for links   *)
(* between two ports of one node and for paths that use a link twice.      *)
(* (std::unique runs before the sort, on the order of the pushes.)         *)
(***************************************************************************)
IndicesExact ==
  topology # NoTopology =>
    LET o == topology.objects
        x == topology.index
    IN /\ \A n \in Present(o, "node") : Lists(x.links_of_node[n],
            {l \in Present(o, "link") : \E i \in 1..2 : o["port"][o["link"][l][i]] = n})
       /\ \A l \in Present(o, "link") :
            /\ Lists(x.paths_of_link[l], {p \in Present(o, "path") : l \in ToSet(o["path"][p])})
            /\ Lists(x.queues_of_link[l], {q \in Present(o, "queue") : o["queue"][q] = l})
       /\ \A p \in Present(o, "path") :
            Lists(x.flows_of_path[p], {f \in Present(o, "flow") : o["flow"][f] = p})
       /\ \A p \in Present(o, "port") :
            Lists(x.buffers_of_port[p], {b \in Present(o, "buffer") : o["buffer"][b] = p})
=============================================================================
