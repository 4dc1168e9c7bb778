--------------------------- MODULE MCCorrelation ---------------------------
(* Episodes of two links and a queue that overlap, touch, are apart by the *)
(* gap or by more, with and without a tenant, and one of another mechanism *)
(* and one of another generation.                                          *)
EXTENDS Correlation

Seen(id, from, to, scope, tenant) ==
  [id |-> id, first_seen |-> from, last_seen |-> to, scope |-> scope, tenant |-> tenant,
   generation |-> 1, mechanism |-> "queueing", policy_version |-> 1]

Link(n) == [kind |-> "link", name |-> n]

MCPool == {
  Seen(1, 1, 2, Link(1), 0), Seen(2, 1, 6, Link(2), 1), Seen(3, 3, 3, Link(2), 2),
  Seen(4, 4, 9, Link(2), 0), Seen(5, 5, 6, Link(3), 0), Seen(6, 8, 9, Link(3), 1),
  Seen(7, 4, 4, [kind |-> "queue", name |-> 1], 0), Seen(8, 1, 1, Link(4), 0),
  [Seen(9, 2, 3, Link(1), 0) EXCEPT !.mechanism = "loss"],
  [Seen(10, 1, 4, Link(1), 0) EXCEPT !.generation = 2],
  [Seen(11, 2, 5, Link(1), 0) EXCEPT !.policy_version = 2]}

\* The defaults of CorrelationPolicy, but for the sizes.
MCPolicy ==
  [max_gap |-> 2, require_same_mechanism |-> TRUE, require_same_generation |-> TRUE,
   merge_across_tenants |-> FALSE, merge_across_scope_kinds |-> FALSE,
   max_group_members |-> 4, max_groups |-> 3]
=============================================================================
