------------------------------- MODULE Order --------------------------------
(***************************************************************************)
(* Traversals in order, as std::map, std::sort and loops that filter give  *)
(* them, stated by choosing the arrangement that is in order.              *)
(***************************************************************************)
EXTENDS Integers, FiniteSets

\* A std::map or a std::set is traversed in the order of its keys.
InOrder(ids) ==
  CHOOSE s \in [1..Cardinality(ids) -> ids] : \A i, j \in DOMAIN s : i < j => s[i] < s[j]

\* The elements of a sequence at some of its positions.
At(s, positions) ==
  LET order == InOrder(positions)
  IN [i \in 1..Cardinality(positions) |-> s[order[i]]]
=============================================================================
