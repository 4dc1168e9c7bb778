---------------------------- MODULE Correlation ----------------------------
(***************************************************************************)
(* Grouping of episodes (src/src/correlation/group.cpp).  correlate sorts  *)
(* the episodes by first_seen and identity and puts each into the first    *)
(* group whose first member, its reference, accepts it; it opens a group   *)
(* if none does, as long as there is room.  Every acceptance and refusal   *)
(* is recorded in the group that made it.  One step of the model is one    *)
(* turn of the outer loop, so that cancellation may come between any two.  *)
(*                                                                         *)
(* Episodes are numbered in the order of their identities; tenant 0 is the *)
(* tenant that is not attributed.                                          *)
(***************************************************************************)
EXTENDS Integers, FiniteSets, SequencesExt

CONSTANTS
  Pool,                      \* the episodes a registry may hold
  policy,                    \* CorrelationPolicy
  max_group_members, max_groups,   \* Limits
  MaxEpisodes                \* bound of the model

\* A time of 0 stands for one that was not set.
ASSUME CorrelationAssumption ==
  /\ \A e \in Pool :
       /\ e.id \in Nat /\ e.first_seen \in Nat \ {0} /\ e.last_seen \in Nat
       /\ e.first_seen <= e.last_seen
  /\ policy.max_group_members \in Nat \ {0}     \* Runtime::create checks it
  /\ policy.max_groups \in Nat /\ policy.max_gap \in Nat
  /\ max_group_members \in Nat \ {0} /\ max_groups \in Nat \ {0}   \* Limits::validate
  /\ MaxEpisodes \in Nat

VARIABLES
  episodes,                  \* the episodes handed to correlate
  pending,                   \* those not yet looked at
  groups,                    \* the groups so far
  outcome                    \* "none", "running", "cancelled" or "done"

vars == <<episodes, pending, groups, outcome>>

Before(d, e) == d.first_seen < e.first_seen \/ (d.first_seen = e.first_seen /\ d.id < e.id)

\* Overlapping, or at most max_gap apart.
intervals_within(d, e) ==
  LET later == IF d.first_seen > e.last_seen THEN d.first_seen ELSE e.first_seen
      earlier == IF d.first_seen > e.last_seen THEN e.last_seen ELSE d.last_seen
  IN \/ d.first_seen <= e.last_seen /\ e.first_seen <= d.last_seen
     \/ later - earlier <= policy.max_gap

member_cap == Min({policy.max_group_members, max_group_members})

group_cap == Min({policy.max_groups, max_groups})

Full(group) == Len(group.members) >= member_cap

\* The verdict of a group on an episode, in the order of the checks.
MergeDecision(group, e) ==
  LET reference == group.members[1]
  IN IF policy.require_same_generation /\ e.generation # reference.generation
     THEN "rejected_generation_mismatch"
     ELSE IF policy.require_same_mechanism /\ e.mechanism # reference.mechanism
     THEN "rejected_mechanism_mismatch"
     ELSE IF e.policy_version # reference.policy_version
     THEN "rejected_policy_version_mismatch"
     ELSE IF ~policy.merge_across_scope_kinds /\ e.scope.kind # reference.scope.kind
     THEN "rejected_scope_kind_mismatch"
     ELSE IF /\ ~policy.merge_across_tenants
             /\ e.tenant # 0 /\ reference.tenant # 0 /\ e.tenant # reference.tenant
     THEN "rejected_tenant_boundary"
     ELSE IF Full(group)
     THEN "rejected_group_full"
     ELSE IF ~intervals_within(e, reference)
     THEN "rejected_window_separated"
     ELSE IF e.scope = reference.scope
     THEN "merged_same_scope"
     ELSE "merged_adjacent_interval"

merge_accepted(code) == code \in {"merged_same_scope", "merged_adjacent_interval"}

\* A group that has decided on an episode.
Decided(group, e) ==
  LET code == MergeDecision(group, e)
      recorded == [group EXCEPT
        !.decisions = @ \cup {[member |-> e.id, reference |-> group.members[1].id, code |-> code]},
        !.size_capped = @ \/ code = "rejected_group_full",
        !.ambiguous_membership =
           @ \/ code \in {"rejected_window_separated", "rejected_group_full"}]
  IN IF ~merge_accepted(code) THEN recorded
     ELSE [recorded EXCEPT
             !.members = Append(@, e),
             !.window_start = IF e.first_seen < @ \/ @ = 0 THEN e.first_seen ELSE @,
             !.window_end = Max({@, e.last_seen})]

Opened(e) ==
  [members |-> <<e>>, window_start |-> e.first_seen, window_end |-> e.last_seen,
   decisions |-> {[member |-> e.id, reference |-> e.id, code |-> "merged_same_scope"]},
   size_capped |-> FALSE, ambiguous_membership |-> FALSE]

\* Mutant: the other groups are asked as well after one has accepted.
Placed_NoBreak(gs, e) ==
  LET answered == [i \in DOMAIN gs |-> Decided(gs[i], e)]
  IN IF answered # gs /\ (\E i \in DOMAIN gs : merge_accepted(MergeDecision(gs[i], e))) THEN answered
     ELSE Append(answered, Opened(e))

\* Mutant: the newest group that accepts, and only it, decides.
Placed_Newest(gs, e) ==
  LET accepts == SelectLastInSeq(gs, LAMBDA g : merge_accepted(MergeDecision(g, e)))
  IN IF accepts # 0 THEN [gs EXCEPT ![accepts] = Decided(@, e)]
     ELSE IF Len(gs) >= group_cap THEN [i \in DOMAIN gs |-> Decided(gs[i], e)]
     ELSE Append([i \in DOMAIN gs |-> Decided(gs[i], e)], Opened(e))

\* The groups are asked in turn; the first to accept ends the questions.
Placed(gs, e) ==
  LET accepting == {i \in DOMAIN gs : merge_accepted(MergeDecision(gs[i], e))}
      answered == [i \in DOMAIN gs |->
                     IF \A j \in accepting : i <= j THEN Decided(gs[i], e) ELSE gs[i]]
  IN IF accepting # {} \/ Len(gs) >= group_cap THEN answered
     ELSE Append(answered, Opened(e))

-----------------------------------------------------------------------------
Init ==
  /\ episodes = {}
  /\ pending = {}
  /\ groups = <<>>
  /\ outcome = "none"

\* The registry, by the time correlate is called.
Report(e) ==
  /\ outcome = "none"
  /\ Cardinality(episodes) < MaxEpisodes
  /\ \A d \in episodes : d.id # e.id
  /\ episodes' = episodes \cup {e}
  /\ UNCHANGED <<pending, groups, outcome>>

correlate ==
  /\ outcome = "none"
  /\ outcome' = "running"
  /\ pending' = episodes
  /\ UNCHANGED <<episodes, groups>>

\* The next episode in the order of the sort.
Consider ==
  /\ outcome = "running"
  /\ \E e \in pending :
       /\ \A d \in pending \ {e} : Before(e, d)
       /\ groups' = Placed(groups, e)
       /\ pending' = pending \ {e}
  /\ UNCHANGED <<episodes, outcome>>

\* The token is looked at before every episode and every group: nothing is returned.
Cancel ==
  /\ outcome = "running"
  /\ pending # {}
  /\ outcome' = "cancelled"
  /\ groups' = <<>>
  /\ pending' = {}
  /\ UNCHANGED episodes

\* The result, by the start of the window; the digests of the members decide ties.
Finish ==
  /\ outcome = "running"
  /\ pending = {}
  /\ outcome' = "done"
  /\ \E order \in Bijection(DOMAIN groups, DOMAIN groups) :
       /\ \A i, j \in DOMAIN groups :
            i < j => groups[order[i]].window_start <= groups[order[j]].window_start
       /\ groups' = [i \in DOMAIN groups |-> groups[order[i]]]
  /\ UNCHANGED <<episodes, pending>>

Next == correlate \/ Consider \/ Cancel \/ Finish \/ \E e \in Pool : Report(e)

Spec == Init /\ [][Next]_vars

-----------------------------------------------------------------------------
Members(g) == ToSet(g.members)

\* Every variable is well formed, the groups within their limits and none empty.
TypeOK ==
  /\ episodes \subseteq Pool
  /\ pending \subseteq episodes
  /\ outcome \in {"none", "running", "cancelled", "done"}
  /\ Len(groups) <= group_cap
  /\ \A i \in DOMAIN groups :
       /\ Len(groups[i].members) \in 1..member_cap
       /\ Members(groups[i]) \subseteq episodes

(***************************************************************************)
(* An episode is in at most one group, and is left out only if there are   *)
(* as many groups as there may be and each of them refused it and says so. *)
(***************************************************************************)
EachInOneGroup ==
  outcome = "done" => \A e \in episodes :
    LET in == {i \in DOMAIN groups : e \in Members(groups[i])}
    IN /\ Cardinality(in) <= 1
       /\ in = {} =>
            /\ Len(groups) = group_cap
            /\ \A i \in DOMAIN groups : \E d \in groups[i].decisions :
                 d.member = e.id /\ ~merge_accepted(d.code)

(***************************************************************************)
(* Members of a group share the generation, the mechanism, the policy and  *)
(* the kind of scope if the policy asks for it, although each was compared *)
(* with the first only, and their times are near the first's: every member *)
(* was seen within max_gap of the interval of the first, so that a group   *)
(* does not grow along a chain of neighbours.                              *)
(*                                                                         *)
(* Tenants are kept apart less well.  A tenant that is not attributed      *)
(* agrees with every other, which is not transitive: the members share one *)
(* tenant if the opener is attributed, but a group whose opener is not may *)
(* hold several tenants, with merging across tenants off.                  *)
(***************************************************************************)
GroupsCohere ==
  \A i \in DOMAIN groups : \A d, e \in Members(groups[i]) :
    /\ policy.require_same_generation => d.generation = e.generation
    /\ policy.require_same_mechanism => d.mechanism = e.mechanism
    /\ ~policy.merge_across_scope_kinds => d.scope.kind = e.scope.kind
    /\ d.policy_version = e.policy_version
    /\ ~policy.merge_across_tenants /\ groups[i].members[1].tenant # 0 =>
         d.tenant = 0 \/ e.tenant = 0 \/ d.tenant = e.tenant
    /\ d = groups[i].members[1] =>
         /\ e.first_seen <= d.last_seen + policy.max_gap
         /\ d.first_seen <= e.last_seen + policy.max_gap

(***************************************************************************)
(* The window of a group is the hull of the intervals of its members.      *)
(***************************************************************************)
WindowIsHull ==
  \A i \in DOMAIN groups :
    /\ groups[i].window_start = Min({e.first_seen : e \in Members(groups[i])})
    /\ groups[i].window_end = Max({e.last_seen : e \in Members(groups[i])})

(***************************************************************************)
(* The first group that could take an episode has it, and the result shows *)
(* why: every group with an earlier opener has recorded that it refused    *)
(* the members of the later ones.  So the order in which the registry      *)
(* lists the episodes does not show in the groups.                         *)
(***************************************************************************)
FirstFit ==
  outcome = "done" => \A i, j \in DOMAIN groups :
    Before(groups[i].members[1], groups[j].members[1]) =>
      \A e \in Members(groups[j]) : \E d \in groups[i].decisions :
        /\ d.member = e.id
        /\ d.reference = groups[i].members[1].id
        /\ ~merge_accepted(d.code)

(***************************************************************************)
(* The groups are a partition that makes sense: within the limits, each    *)
(* episode in one of them at most, members that agree (on the tenant if    *)
(* the opener has one), and a window that covers them, after every episode *)
(* and after a cancellation.                                               *)
(***************************************************************************)
GroupsInv == TypeOK /\ EachInOneGroup /\ GroupsCohere /\ WindowIsHull
=============================================================================
