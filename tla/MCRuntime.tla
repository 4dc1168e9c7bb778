----------------------------- MODULE MCRuntime -----------------------------
(***************************************************************************)
(* An instance of Runtime: two subjects, of which the second topology      *)
(* knows one, and a feed of two records of one source and one of another.  *)
(* Two administrators may be at work at once; they are interchangeable.    *)
(***************************************************************************)
EXTENDS Runtime, TLC

Alike == Permutations(Admins)

MCSubjects == {1, 2}
MCGens == {1, 2}
MCTimes == {1}

MCKnown == [g \in MCGens |-> IF g = 1 THEN {1, 2} ELSE {1}]

MCFeed ==
  {[source |-> "a", subject |-> 1, gen |-> 1, seq |-> 1, at |-> 1],
   [source |-> "a", subject |-> 2, gen |-> 1, seq |-> 2, at |-> 1],
   [source |-> "b", subject |-> 1, gen |-> 1, seq |-> 1, at |-> 1]}
=============================================================================
