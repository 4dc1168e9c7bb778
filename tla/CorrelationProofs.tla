-------------------------- MODULE CorrelationProofs --------------------------
(***************************************************************************)
(* Proofs about Correlation: the groups that correlate returns, for any    *)
(* episodes, policy and limits.                                            *)
(***************************************************************************)
EXTENDS Correlation, SequenceTheorems, FiniteSetTheorems, WellFoundedInduction, TLAPS

-----------------------------------------------------------------------------
(***************************************************************************)
(* The inductive invariant.                                                *)
(***************************************************************************)
Code == {"rejected_generation_mismatch", "rejected_mechanism_mismatch",
         "rejected_policy_version_mismatch", "rejected_scope_kind_mismatch",
         "rejected_tenant_boundary", "rejected_group_full", "rejected_window_separated",
         "merged_same_scope", "merged_adjacent_interval"}

Group == [members : Seq(Pool), window_start : Nat, window_end : Nat,
          decisions : SUBSET [member : Nat, reference : Nat, code : Code],
          size_capped : BOOLEAN, ambiguous_membership : BOOLEAN]

Opener(g) == g.members[1]

\* The group has recorded that it refused the episode.
Refused(g, e) ==
  \E d \in g.decisions :
    d.member = e.id /\ d.reference = Opener(g).id /\ ~merge_accepted(d.code)

\* What the policy asks of a member is what it asks of the opener.
Fits(r, e) ==
  /\ policy.require_same_generation => e.generation = r.generation
  /\ policy.require_same_mechanism => e.mechanism = r.mechanism
  /\ ~policy.merge_across_scope_kinds => e.scope.kind = r.scope.kind
  /\ e.policy_version = r.policy_version
  /\ ~policy.merge_across_tenants => e.tenant = 0 \/ r.tenant = 0 \/ e.tenant = r.tenant
  /\ e.first_seen <= r.last_seen + policy.max_gap
  /\ r.first_seen <= e.last_seen + policy.max_gap

\* A group of its own: the opener came first, so that its first_seen starts the
\* window, and the end is that of a member and of none later.
GroupOK(g) ==
  /\ g \in Group
  /\ Len(g.members) \in 1..member_cap
  /\ \A i \in 1..Len(g.members) :
       /\ Fits(Opener(g), g.members[i])
       /\ Opener(g).first_seen <= g.members[i].first_seen
       /\ g.members[i].last_seen <= g.window_end
  /\ g.window_start = Opener(g).first_seen
  /\ \E i \in 1..Len(g.members) : g.window_end = g.members[i].last_seen

In(g, e) == \E i \in 1..Len(g.members) : g.members[i] = e

\* Every group refused the members of the later ones.
Earlier(f, g) ==
  /\ Before(Opener(f), Opener(g))
  /\ \A i \in 1..Len(g.members) : Refused(f, g.members[i])

\* The groups gs of the episodes looked at: each is in one group, or as many
\* groups as there may be have refused it.
GroupsOK(gs, looked) ==
  /\ gs \in Seq(Group)
  /\ Len(gs) <= group_cap
  /\ \A i \in 1..Len(gs) : GroupOK(gs[i])
  /\ \A i \in 1..Len(gs) : \A m \in 1..Len(gs[i].members) : gs[i].members[m] \in looked
  /\ \A i, j \in 1..Len(gs) : \A e : In(gs[i], e) /\ In(gs[j], e) => i = j
  /\ \A e \in looked :
       \/ \E i \in 1..Len(gs) : In(gs[i], e)
       \/ Len(gs) = group_cap /\ \A i \in 1..Len(gs) : Refused(gs[i], e)

InOrder(gs) == \A i, j \in 1..Len(gs) : i < j => Earlier(gs[i], gs[j])

IndInv ==
  /\ episodes \subseteq Pool /\ IsFiniteSet(episodes)
  /\ \A d, e \in episodes : d.id = e.id => d = e
  /\ pending \subseteq episodes
  /\ outcome \in {"none", "running", "cancelled", "done"}
  /\ outcome \in {"none", "cancelled"} => groups = <<>>
  /\ outcome \in {"none", "done"} => pending = {}
  /\ outcome \in {"running", "done"} => GroupsOK(groups, episodes \ pending)
  /\ outcome = "running" =>
       /\ InOrder(groups)
       /\ \A d \in episodes \ pending : \A e \in pending : Before(d, e)
  /\ outcome = "done" =>
       \A i, j \in 1..Len(groups) :
         Before(Opener(groups[i]), Opener(groups[j])) => Earlier(groups[i], groups[j])

-----------------------------------------------------------------------------
(***************************************************************************)
(* Limits, order and intervals.                                            *)
(***************************************************************************)
LEMMA MinOfTwo ==
  ASSUME NEW a \in Nat, NEW b \in Nat
  PROVE  Min({a, b}) \in {a, b}
<1>1. \E x \in {a, b} : \A y \in {a, b} : x <= y
  OBVIOUS
<1>2. QED
  BY <1>1 DEF Min

LEMMA Caps == member_cap \in Nat \ {0} /\ group_cap \in Nat
BY MinOfTwo, CorrelationAssumption DEF member_cap, group_cap

LEMMA MaxOfTwo ==
  ASSUME NEW a \in Nat, NEW b \in Nat
  PROVE  /\ Max({a, b}) \in {a, b} /\ a <= Max({a, b}) /\ b <= Max({a, b})
<1>1. \E x \in {a, b} : \A y \in {a, b} : x >= y
  OBVIOUS
<1>2. QED
  BY <1>1 DEF Max

\* Before is a strict order of episodes.
LEMMA BeforeOrder ==
  ASSUME NEW d \in Pool, NEW e \in Pool
  PROVE  /\ Before(d, e) => ~Before(e, d) /\ d # e /\ d.first_seen <= e.first_seen
         /\ d.first_seen \in Nat \ {0} /\ d.last_seen \in Nat /\ d.id \in Nat
BY CorrelationAssumption DEF Before

\* An interval that is within max_gap of another begins at most max_gap after its end.
LEMMA Near ==
  ASSUME NEW d \in Pool, NEW e \in Pool, intervals_within(d, e)
  PROVE  /\ d.first_seen <= e.last_seen + policy.max_gap
         /\ e.first_seen <= d.last_seen + policy.max_gap
<1>1. /\ d.first_seen \in Nat /\ d.last_seen \in Nat /\ d.first_seen <= d.last_seen
      /\ e.first_seen \in Nat /\ e.last_seen \in Nat /\ e.first_seen <= e.last_seen
      /\ policy.max_gap \in Nat
  BY CorrelationAssumption
<1>2. CASE d.first_seen <= e.last_seen /\ e.first_seen <= d.last_seen
  BY <1>1, <1>2
<1>3. CASE d.first_seen > e.last_seen /\ d.first_seen - e.last_seen <= policy.max_gap
  BY <1>1, <1>3
<1>4. CASE ~(d.first_seen > e.last_seen) /\ e.first_seen - d.last_seen <= policy.max_gap
  BY <1>1, <1>4
<1>5. QED
  BY <1>1, <1>2, <1>3, <1>4 DEF intervals_within

-----------------------------------------------------------------------------
(***************************************************************************)
(* One group and one episode.                                              *)
(***************************************************************************)
\* What an accepting group has checked.
LEMMA DecisionFacts ==
  ASSUME NEW g, GroupOK(g), NEW e \in Pool
  PROVE  /\ MergeDecision(g, e) \in Code
         /\ merge_accepted(MergeDecision(g, e)) =>
              Fits(Opener(g), e) /\ Len(g.members) < member_cap
<1> DEFINE r == g.members[1]
<1>1. r \in Pool /\ Len(g.members) \in Nat
  BY Caps, ElementOfSeq DEF GroupOK, Group
<1>2. MergeDecision(g, e) \in Code
  BY DEF MergeDecision, Code
<1>3. ASSUME merge_accepted(MergeDecision(g, e))
      PROVE  Fits(Opener(g), e) /\ Len(g.members) < member_cap
  <2>1. /\ ~(policy.require_same_generation /\ e.generation # r.generation)
        /\ ~(policy.require_same_mechanism /\ e.mechanism # r.mechanism)
        /\ ~(e.policy_version # r.policy_version)
        /\ ~(~policy.merge_across_scope_kinds /\ e.scope.kind # r.scope.kind)
        /\ ~(/\ ~policy.merge_across_tenants
             /\ e.tenant # 0 /\ r.tenant # 0 /\ e.tenant # r.tenant)
        /\ ~Full(g)
        /\ intervals_within(e, r)
    BY <1>3 DEF MergeDecision, merge_accepted
  <2>2. e.first_seen <= r.last_seen + policy.max_gap /\ r.first_seen <= e.last_seen + policy.max_gap
    BY <1>1, <2>1, Near
  <2>3. Len(g.members) < member_cap
    BY <1>1, <2>1, Caps DEF Full
  <2>4. QED
    BY <2>1, <2>2, <2>3 DEF Fits, Opener
<1>4. QED
  BY <1>2, <1>3

\* The parts of a group that a decision changes.
LEMMA DecidedParts ==
  ASSUME NEW g \in Group, NEW e
  PROVE  LET h == Decided(g, e)
             code == MergeDecision(g, e)
         IN  /\ h.decisions = g.decisions \cup
                  {[member |-> e.id, reference |-> Opener(g).id, code |-> code]}
             /\ h.size_capped = (g.size_capped \/ code = "rejected_group_full")
             /\ h.ambiguous_membership = (g.ambiguous_membership
                  \/ code \in {"rejected_window_separated", "rejected_group_full"})
             /\ ~merge_accepted(code) =>
                  /\ h.members = g.members
                  /\ h.window_start = g.window_start /\ h.window_end = g.window_end
             /\ merge_accepted(code) =>
                  /\ h.members = Append(g.members, e)
                  /\ h.window_start = IF e.first_seen < g.window_start \/ g.window_start = 0
                                      THEN e.first_seen ELSE g.window_start
                  /\ h.window_end = Max({g.window_end, e.last_seen})
             /\ h = [members |-> h.members, window_start |-> h.window_start,
                     window_end |-> h.window_end, decisions |-> h.decisions,
                     size_capped |-> h.size_capped,
                     ambiguous_membership |-> h.ambiguous_membership]
BY DEF Decided, Group, Opener

\* What a decision on an episode that is not before the opener leaves.
Decision(g, h, e) ==
  /\ GroupOK(h) /\ Opener(h) = Opener(g) /\ g.decisions \subseteq h.decisions
  /\ ~merge_accepted(MergeDecision(g, e)) => h.members = g.members /\ Refused(h, e)
  /\ merge_accepted(MergeDecision(g, e)) => h.members = Append(g.members, e)

LEMMA DecidedOK ==
  ASSUME NEW g, GroupOK(g), NEW e \in Pool, Opener(g).first_seen <= e.first_seen
  PROVE  Decision(g, Decided(g, e), e)
<1> DEFINE h == Decided(g, e)
           code == MergeDecision(g, e)
           new == [member |-> e.id, reference |-> Opener(g).id, code |-> code]
<1>1. /\ g \in Group /\ g.members \in Seq(Pool) /\ Len(g.members) \in 1..member_cap
      /\ g.window_start = Opener(g).first_seen /\ g.window_end \in Nat
  BY DEF GroupOK, Group
<1>2. Opener(g) \in Pool
  BY <1>1, Caps, ElementOfSeq DEF Opener
<1>3. /\ e.first_seen \in Nat \ {0} /\ e.last_seen \in Nat /\ e.id \in Nat
      /\ e.first_seen <= e.last_seen /\ policy.max_gap \in Nat
      /\ Opener(g).id \in Nat /\ Opener(g).first_seen \in Nat \ {0}
  BY <1>2, CorrelationAssumption
<1>4. code \in Code /\ (merge_accepted(code) => Fits(Opener(g), e) /\ Len(g.members) < member_cap)
  BY DecisionFacts
<1>5. /\ h.decisions = g.decisions \cup {new}
      /\ h.size_capped \in BOOLEAN /\ h.ambiguous_membership \in BOOLEAN
      /\ ~merge_accepted(code) =>
           /\ h.members = g.members
           /\ h.window_start = g.window_start /\ h.window_end = g.window_end
      /\ merge_accepted(code) =>
           /\ h.members = Append(g.members, e)
           /\ h.window_start = IF e.first_seen < g.window_start \/ g.window_start = 0
                               THEN e.first_seen ELSE g.window_start
           /\ h.window_end = Max({g.window_end, e.last_seen})
      /\ h = [members |-> h.members, window_start |-> h.window_start,
              window_end |-> h.window_end, decisions |-> h.decisions,
              size_capped |-> h.size_capped,
              ambiguous_membership |-> h.ambiguous_membership]
  BY <1>1, DecidedParts DEF Group
<1>6. new \in [member : Nat, reference : Nat, code : Code]
  BY <1>3, <1>4
<1>7. h.decisions \subseteq [member : Nat, reference : Nat, code : Code]
  BY <1>1, <1>5, <1>6 DEF Group
<1>8. new.member = e.id /\ new.reference = Opener(g).id /\ new.code = code
  OBVIOUS
<1> HIDE DEF h, code, new
<1>9. CASE ~merge_accepted(code)
  <2>1. h.members = g.members /\ h.window_start = g.window_start /\ h.window_end = g.window_end
    BY <1>5, <1>9
  <2>2. h \in Group
    BY <1>1, <1>5, <1>7, <2>1 DEF Group
  <2>3. Opener(h) = Opener(g)
    BY <2>1 DEF Opener
  <2>4. GroupOK(h)
    BY <2>1, <2>2, <2>3 DEF GroupOK
  <2>5. Refused(h, e)
    BY <1>5, <1>8, <1>9, <2>3 DEF Refused
  <2>6. QED
    BY <1>5, <1>9, <2>1, <2>3, <2>4, <2>5 DEF Decision, h, code
<1>10. CASE merge_accepted(code)
  <2>1. /\ h.members = Append(g.members, e) /\ h.window_start = g.window_start
        /\ h.window_end \in Nat /\ g.window_end <= h.window_end /\ e.last_seen <= h.window_end
        /\ h.window_end \in {g.window_end, e.last_seen}
    <3>1. h.members = Append(g.members, e) /\ h.window_end = Max({g.window_end, e.last_seen})
      BY <1>5, <1>10
    <3>2. h.window_start = g.window_start
      BY <1>1, <1>3, <1>5, <1>10
    <3>3. QED
      BY <1>1, <1>3, <3>1, <3>2, MaxOfTwo
  <2>2. /\ h.members \in Seq(Pool) /\ Len(h.members) = Len(g.members) + 1
        /\ h.members[Len(h.members)] = e
        /\ \A i \in 1..Len(g.members) : h.members[i] = g.members[i]
    BY <1>1, <2>1, AppendProperties
  <2>3. h \in Group
    BY <1>1, <1>3, <1>5, <1>7, <2>1, <2>2 DEF Group
  <2>4. Opener(h) = Opener(g)
    BY <1>1, <2>2, Caps DEF Opener
  <2>5. Len(h.members) \in 1..member_cap /\ Len(g.members) \in Nat
    BY <1>1, <1>4, <1>10, <2>2, Caps
  <2>6. ASSUME NEW i \in 1..Len(h.members)
        PROVE  /\ Fits(Opener(h), h.members[i])
               /\ Opener(h).first_seen <= h.members[i].first_seen
               /\ h.members[i].last_seen <= h.window_end
    <3>1. CASE i = Len(h.members)
      BY <1>4, <1>10, <2>1, <2>2, <2>4, <3>1
    <3>2. CASE i \in 1..Len(g.members)
      <4>1. h.members[i] = g.members[i] /\ g.members[i] \in Pool
        BY <1>1, <2>2, <3>2, ElementOfSeq
      <4>2. /\ Fits(Opener(g), g.members[i])
            /\ Opener(g).first_seen <= g.members[i].first_seen
            /\ g.members[i].last_seen <= g.window_end
        BY <3>2 DEF GroupOK
      <4>3. g.members[i].last_seen \in Nat
        BY <4>1, CorrelationAssumption
      <4>4. QED
        BY <1>1, <2>1, <2>4, <4>1, <4>2, <4>3
    <3>3. QED
      BY <2>2, <2>5, <3>1, <3>2
  <2>7. \E i \in 1..Len(h.members) : h.window_end = h.members[i].last_seen
    <3>1. CASE h.window_end = e.last_seen
      BY <2>2, <2>5, <3>1
    <3>2. CASE h.window_end = g.window_end
      <4>1. PICK i \in 1..Len(g.members) : g.window_end = g.members[i].last_seen
        BY DEF GroupOK
      <4>2. i \in 1..Len(h.members) /\ h.members[i] = g.members[i]
        BY <2>2, <2>5
      <4>3. QED
        BY <3>2, <4>1, <4>2
    <3>3. QED
      BY <2>1, <3>1, <3>2
  <2>8. GroupOK(h)
    BY <1>1, <2>1, <2>3, <2>4, <2>5, <2>6, <2>7 DEF GroupOK
  <2>9. QED
    BY <1>5, <1>10, <2>1, <2>4, <2>8 DEF Decision, h, code
<1>11. QED
  BY <1>9, <1>10

LEMMA OpenedOK ==
  ASSUME NEW e \in Pool
  PROVE  GroupOK(Opened(e)) /\ Opened(e).members = <<e>> /\ Opener(Opened(e)) = e
<1> DEFINE h == Opened(e)
<1>1. /\ e.first_seen \in Nat \ {0} /\ e.last_seen \in Nat /\ e.id \in Nat
      /\ e.first_seen <= e.last_seen /\ policy.max_gap \in Nat
  BY CorrelationAssumption
<1>2. /\ h.members = <<e>> /\ h.window_start = e.first_seen /\ h.window_end = e.last_seen
      /\ Len(h.members) = 1 /\ h.members[1] = e
  BY DEF Opened
<1>3. h \in Group
  <2>1. [member |-> e.id, reference |-> e.id, code |-> "merged_same_scope"]
          \in [member : Nat, reference : Nat, code : Code]
    BY <1>1 DEF Code
  <2>2. QED
    BY <1>1, <2>1 DEF Opened, Group
<1>4. Fits(e, e)
  BY <1>1 DEF Fits
<1> HIDE DEF h
<1>5. GroupOK(h)
  BY <1>1, <1>2, <1>3, <1>4, Caps DEF GroupOK, Opener
<1>6. QED
  BY <1>2, <1>5 DEF h, Opener

-----------------------------------------------------------------------------
(***************************************************************************)
(* One episode and all groups.                                             *)
(***************************************************************************)
LEMMA Least ==
  ASSUME NEW S \in SUBSET Nat, S # {}
  PROVE  \E x \in S : \A y \in S : x <= y
<1> DEFINE less == {ss \in Nat \X Nat : ss[1] < ss[2]}
<1>1. IsWellFoundedOn(less, Nat)
  BY NatLessThanWellFounded DEF OpToRel
<1>2. \A x, y \in Nat : <<x, y>> \in less <=> x < y
  OBVIOUS
<1> HIDE DEF less
<1>3. PICK x \in S : \A y \in S : ~(<<y, x>> \in less)
  BY <1>1, WFMin
<1>4. ASSUME NEW y \in S PROVE x <= y
  <2>1. ~(y < x)
    BY <1>2, <1>3
  <2>2. QED
    BY <2>1
<1>5. QED
  BY <1>4

\* Episode e has joined or opened group k of hs, or none if k is 0; the groups
\* before it, or all, have refused e.
Result(gs, hs, e, k) ==
  /\ hs \in Seq(Group) /\ Len(hs) <= group_cap
  /\ k \in 0..Len(hs)
  /\ \/ Len(hs) = Len(gs)
     \/ Len(hs) = Len(gs) + 1 /\ k = Len(hs) /\ GroupOK(hs[k]) /\ hs[k].members = <<e>>
  /\ k = 0 => Len(gs) = group_cap
  /\ \A i \in 1..Len(gs) :
       /\ GroupOK(hs[i]) /\ Opener(hs[i]) = Opener(gs[i])
       /\ gs[i].decisions \subseteq hs[i].decisions
       /\ i # k => hs[i].members = gs[i].members
       /\ i = k => hs[i].members = Append(gs[i].members, e)
       /\ k = 0 \/ i < k => Refused(hs[i], e)

LEMMA PlacedResult ==
  ASSUME NEW gs \in Seq(Group), Len(gs) <= group_cap, NEW e \in Pool,
         \A i \in 1..Len(gs) : GroupOK(gs[i]) /\ Opener(gs[i]).first_seen <= e.first_seen
  PROVE  \E k \in Nat : Result(gs, Placed(gs, e), e, k)
<1> DEFINE accepting == {i \in DOMAIN gs : merge_accepted(MergeDecision(gs[i], e))}
           answered == [i \in DOMAIN gs |->
                          IF \A j \in accepting : i <= j THEN Decided(gs[i], e) ELSE gs[i]]
           hs == Placed(gs, e)
           n == Len(gs)
<1>0. n \in Nat /\ group_cap \in Nat /\ n <= group_cap
  BY LenProperties, Caps
<1>1. n \in Nat /\ DOMAIN gs = 1..n /\ group_cap \in Nat
  BY LenProperties, Caps
<1>2. \A i \in 1..n : Decision(gs[i], Decided(gs[i], e), e)
  BY DecidedOK
<1>3. hs = IF accepting # {} \/ n >= group_cap THEN answered ELSE Append(answered, Opened(e))
  BY DEF Placed
<1>4. \A i \in 1..n : GroupOK(answered[i])
  <2>1. \A i \in 1..n : GroupOK(Decided(gs[i], e)) /\ GroupOK(gs[i])
    BY <1>2 DEF Decision
  <2>2. QED
    BY <1>1, <2>1
<1>5. answered \in Seq(Group) /\ Len(answered) = n
  <2>1. \A i \in 1..n : answered[i] \in Group
    BY <1>4 DEF GroupOK
  <2>2. answered \in [1..n -> Group]
    BY <1>1, <2>1
  <2> HIDE DEF answered
  <2>3. QED
    BY <1>1, <2>2, SeqDef, LenProperties
<1>6. ASSUME NEW i \in 1..n
      PROVE  /\ (\A j \in accepting : i <= j) => answered[i] = Decided(gs[i], e)
             /\ ~(\A j \in accepting : i <= j) => answered[i] = gs[i]
  BY <1>1
<1>7. \A i \in accepting : i \in 1..n /\ merge_accepted(MergeDecision(gs[i], e))
  BY <1>1
<1>8. \A i \in 1..n : i \notin accepting => ~merge_accepted(MergeDecision(gs[i], e))
  BY <1>1
<1> HIDE DEF accepting, answered, hs
<1>9. CASE accepting # {}
  <2>1. PICK k \in accepting : \A j \in accepting : k <= j
    BY <1>1, <1>7, <1>9, Least
  <2>2. hs = answered /\ k \in 1..n
    BY <1>3, <1>7, <1>9
  <2>3. ASSUME NEW i \in 1..n
        PROVE  /\ GroupOK(hs[i]) /\ Opener(hs[i]) = Opener(gs[i])
               /\ gs[i].decisions \subseteq hs[i].decisions
               /\ i # k => hs[i].members = gs[i].members
               /\ i = k => hs[i].members = Append(gs[i].members, e)
               /\ k = 0 \/ i < k => Refused(hs[i], e)
    <3>1. CASE i = k
      <4>1. hs[i] = Decided(gs[i], e) /\ merge_accepted(MergeDecision(gs[i], e))
        BY <1>6, <1>7, <2>1, <2>2, <3>1
      <4>2. QED
        BY <1>1, <1>2, <2>2, <3>1, <4>1 DEF Decision
    <3>2. CASE i < k
      <4>1. i \notin accepting /\ \A j \in accepting : i <= j
        BY <1>1, <1>7, <2>1, <2>2, <3>2
      <4>2. hs[i] = Decided(gs[i], e) /\ ~merge_accepted(MergeDecision(gs[i], e))
        BY <1>6, <1>8, <2>2, <4>1
      <4>3. i # k
        BY <1>1, <2>2, <3>2
      <4>4. QED
        BY <1>2, <4>2, <4>3 DEF Decision
    <3>3. CASE k < i
      <4>1. ~(\A j \in accepting : i <= j) /\ i # k /\ ~(i < k) /\ k # 0
        BY <1>1, <2>1, <2>2, <3>3
      <4>2. hs[i] = gs[i]
        BY <1>6, <2>2, <4>1
      <4>3. QED
        BY <4>1, <4>2
    <3>4. QED
      BY <1>1, <2>2, <3>1, <3>2, <3>3
  <2>4. k # 0 /\ k \in 0..Len(hs) /\ k \in Nat /\ hs \in Seq(Group) /\ Len(hs) = n
    BY <1>1, <1>5, <2>2
  <2>5. Result(gs, hs, e, k)
    BY <2>3, <2>4 DEF Result
  <2>6. QED
    BY <2>4, <2>5 DEF hs
<1>10. CASE accepting = {}
  <2>1. ASSUME NEW i \in 1..n
        PROVE  /\ GroupOK(answered[i]) /\ Opener(answered[i]) = Opener(gs[i])
               /\ gs[i].decisions \subseteq answered[i].decisions
               /\ answered[i].members = gs[i].members
               /\ Refused(answered[i], e)
    <3>1. answered[i] = Decided(gs[i], e) /\ ~merge_accepted(MergeDecision(gs[i], e))
      BY <1>6, <1>8, <1>10
    <3>2. QED
      BY <1>2, <3>1 DEF Decision
  <2>2. CASE n >= group_cap
    <3>1. hs = answered /\ n = group_cap
      <4>1. hs = answered
        BY <1>3, <2>2, Zenon
      <4>2. n = group_cap
        <5> HIDE DEF n
        <5> QED BY <1>0, <2>2
      <4>3. QED
        BY <4>1, <4>2
    <3>2. 0 \in 0..Len(hs) /\ \A i \in 1..n : i # 0
      BY <1>1, <1>5, <3>1
    <3>3. Result(gs, hs, e, 0)
      BY <1>5, <2>1, <3>1, <3>2 DEF Result
    <3>4. QED
      BY <3>3 DEF hs
  <2>3. CASE ~(n >= group_cap)
    <3>1. hs = Append(answered, Opened(e))
      BY <1>3, <1>10, <2>3
    <3>2. GroupOK(Opened(e)) /\ Opened(e).members = <<e>> /\ Opened(e) \in Group
      BY OpenedOK DEF GroupOK
    <3>3. /\ hs \in Seq(Group) /\ Len(hs) = n + 1 /\ hs[n + 1] = Opened(e)
          /\ \A i \in 1..n : hs[i] = answered[i]
      BY <1>5, <3>1, <3>2, AppendProperties
    <3>4. n + 1 \in 0..Len(hs) /\ n + 1 # 0 /\ Len(hs) <= group_cap
          /\ \A i \in 1..n : i # n + 1
      BY <1>1, <2>3, <3>3
    <3>5. Result(gs, hs, e, n + 1)
      BY <2>1, <3>2, <3>3, <3>4 DEF Result
    <3>6. QED
      BY <1>1, <3>5 DEF hs
  <2>4. QED
    BY <2>2, <2>3
<1>11. QED
  BY <1>9, <1>10

LEMMA RefusedKept ==
  ASSUME NEW g, NEW h, Opener(h) = Opener(g), g.decisions \subseteq h.decisions,
         NEW d, Refused(g, d)
  PROVE  Refused(h, d)
BY DEF Refused

\* Who is in a group afterwards.
LEMMA ResultMembers ==
  ASSUME NEW gs \in Seq(Group), NEW hs, NEW e, NEW k, Result(gs, hs, e, k),
         NEW i \in 1..Len(hs)
  PROVE  /\ hs[i] \in Group /\ GroupOK(hs[i])
         /\ i = k \/ i \in 1..Len(gs)
         /\ i \in 1..Len(gs) => Opener(hs[i]) = Opener(gs[i])
         /\ i \notin 1..Len(gs) => i = k /\ Opener(hs[i]) = e
         /\ \A d : In(hs[i], d) <=> (i = k /\ d = e) \/ (i \in 1..Len(gs) /\ In(gs[i], d))
<1>1. Len(gs) \in Nat /\ Len(hs) \in Nat /\ hs[i] \in Group
  BY LenProperties, ElementOfSeq DEF Result
<1>2. CASE i \in 1..Len(gs)
  <2>1. /\ GroupOK(hs[i]) /\ Opener(hs[i]) = Opener(gs[i])
        /\ i # k => hs[i].members = gs[i].members
        /\ i = k => hs[i].members = Append(gs[i].members, e)
    BY <1>2 DEF Result
  <2>2. gs[i].members \in Seq(Pool)
    <3>1. gs[i] \in Group
      BY <1>2, ElementOfSeq
    <3>2. QED
      BY <3>1 DEF Group
  <2>3. ASSUME NEW d, i = k PROVE In(hs[i], d) <=> d = e \/ In(gs[i], d)
    <3>1. hs[i].members = Append(gs[i].members, e)
      BY <2>1, <2>3
    <3>2. /\ Len(hs[i].members) = Len(gs[i].members) + 1 /\ Len(gs[i].members) \in Nat
          /\ hs[i].members[Len(gs[i].members) + 1] = e
          /\ \A m \in 1..Len(gs[i].members) : hs[i].members[m] = gs[i].members[m]
      BY <2>2, <3>1, AppendProperties, LenProperties
    <3>3. ASSUME In(hs[i], d) PROVE d = e \/ In(gs[i], d)
      <4>1. PICK m \in 1..Len(hs[i].members) : hs[i].members[m] = d
        BY <3>3 DEF In
      <4>2. m = Len(gs[i].members) + 1 \/ m \in 1..Len(gs[i].members)
        BY <3>2
      <4>3. QED
        BY <3>2, <4>1, <4>2 DEF In
    <3>4. ASSUME In(gs[i], d) PROVE In(hs[i], d)
      <4>1. PICK m \in 1..Len(gs[i].members) : gs[i].members[m] = d
        BY <3>4 DEF In
      <4>2. m \in 1..Len(hs[i].members) /\ hs[i].members[m] = d
        BY <3>2, <4>1
      <4>3. QED
        BY <4>2 DEF In
    <3>5. In(hs[i], e)
      <4>1. Len(gs[i].members) + 1 \in 1..Len(hs[i].members)
        BY <3>2
      <4>2. QED
        BY <3>2, <4>1 DEF In
    <3>6. QED
      BY <3>3, <3>4, <3>5, Zenon
  <2>4. ASSUME NEW d, i # k PROVE In(hs[i], d) <=> In(gs[i], d)
    BY <2>1, <2>4 DEF In
  <2>5. QED
    BY <1>1, <1>2, <2>1, <2>3, <2>4, Zenon
<1>3. CASE i \notin 1..Len(gs)
  <2>1. i = k /\ GroupOK(hs[k]) /\ hs[k].members = <<e>>
    BY <1>1, <1>3 DEF Result
  <2>2. Len(hs[k].members) = 1 /\ hs[k].members[1] = e
    BY <2>1
  <2>3. \A d : In(hs[k], d) <=> d = e
    BY <2>2 DEF In
  <2>4. QED
    BY <1>1, <1>3, <2>1, <2>2, <2>3, Zenon DEF Opener
<1>4. QED
  BY <1>2, <1>3

\* The episodes looked at before e came before it; afterwards e is one of them.
LEMMA ResultOK ==
  ASSUME NEW gs, NEW hs, NEW e \in Pool, NEW k, Result(gs, hs, e, k),
         NEW looked \in SUBSET Pool, e \notin looked, GroupsOK(gs, looked), InOrder(gs),
         \A d \in looked : Before(d, e)
  PROVE  GroupsOK(hs, looked \cup {e}) /\ InOrder(hs)
<1>1. gs \in Seq(Group) /\ Len(gs) \in Nat /\ Len(hs) \in Nat /\ hs \in Seq(Group)
  BY LenProperties DEF GroupsOK, Result
<1>2. \A i \in 1..Len(gs) : i \in 1..Len(hs)
  BY <1>1 DEF Result
<1>3. ASSUME NEW i \in 1..Len(hs)
      PROVE  /\ hs[i] \in Group /\ GroupOK(hs[i])
             /\ i = k \/ i \in 1..Len(gs)
             /\ i \in 1..Len(gs) => Opener(hs[i]) = Opener(gs[i])
             /\ i \notin 1..Len(gs) => i = k /\ Opener(hs[i]) = e
             /\ \A d : In(hs[i], d) <=> (i = k /\ d = e) \/ (i \in 1..Len(gs) /\ In(gs[i], d))
  BY <1>1, ResultMembers
<1>4. \A i \in 1..Len(gs) : \A d : In(gs[i], d) => d \in looked
  BY DEF GroupsOK, In
<1>5. \A i \in 1..Len(hs) : \A m \in 1..Len(hs[i].members) :
        hs[i].members[m] \in looked \cup {e}
  <2>1. ASSUME NEW i \in 1..Len(hs), NEW m \in 1..Len(hs[i].members)
        PROVE  hs[i].members[m] \in looked \cup {e}
    <3>1. In(hs[i], hs[i].members[m])
      BY DEF In
    <3>2. QED
      BY <1>3, <1>4, <3>1
  <2>2. QED
    BY <2>1
<1>6. ASSUME NEW i \in 1..Len(hs), NEW j \in 1..Len(hs), NEW d, In(hs[i], d), In(hs[j], d)
      PROVE  i = j
  <2>1. CASE d = e
    <3>1. i = k /\ j = k
      BY <1>3, <1>4, <1>6, <2>1
    <3>2. QED
      BY <3>1
  <2>2. CASE d # e
    <3>1. /\ i \in 1..Len(gs) /\ In(gs[i], d) /\ j \in 1..Len(gs) /\ In(gs[j], d)
      BY <1>3, <1>6, <2>2
    <3>2. QED
      BY <3>1 DEF GroupsOK
  <2>3. QED
    BY <2>1, <2>2
<1>7. ASSUME NEW d \in looked \cup {e}
      PROVE  \/ \E i \in 1..Len(hs) : In(hs[i], d)
             \/ Len(hs) = group_cap /\ \A i \in 1..Len(hs) : Refused(hs[i], d)
  <2>1. CASE d = e /\ k # 0
    <3>1. k \in 1..Len(hs)
      BY <1>1, <2>1 DEF Result
    <3>2. In(hs[k], d)
      BY <1>3, <2>1, <3>1
    <3>3. QED
      BY <3>1, <3>2
  <2>2. CASE d = e /\ k = 0
    <3>1. Len(hs) = group_cap /\ Len(hs) = Len(gs)
      BY <1>1, <2>2, Caps DEF Result
    <3>2. \A i \in 1..Len(hs) : Refused(hs[i], d)
      BY <2>2, <3>1 DEF Result
    <3>3. QED
      BY <3>1, <3>2
  <2>3. CASE d \in looked /\ \E i \in 1..Len(gs) : In(gs[i], d)
    BY <1>2, <1>3, <2>3
  <2>4. CASE d \in looked /\ Len(gs) = group_cap /\ \A i \in 1..Len(gs) : Refused(gs[i], d)
    <3>1. Len(hs) = Len(gs)
      BY <1>1, <2>4, Caps DEF Result
    <3>2. ASSUME NEW i \in 1..Len(gs) PROVE Refused(hs[i], d)
      <4>1. Opener(hs[i]) = Opener(gs[i]) /\ gs[i].decisions \subseteq hs[i].decisions
        BY DEF Result
      <4>2. QED
        BY <2>4, <4>1, RefusedKept
    <3>3. QED
      BY <2>4, <3>1, <3>2
  <2>5. QED
    BY <2>1, <2>2, <2>3, <2>4 DEF GroupsOK
<1>8. GroupsOK(hs, looked \cup {e})
  <2>1. Len(hs) <= group_cap
    BY DEF Result
  <2>2. QED
    BY <1>1, <1>3, <1>5, <1>6, <1>7, <2>1 DEF GroupsOK
<1>9. ASSUME NEW i \in 1..Len(hs), NEW j \in 1..Len(hs), i < j
      PROVE  Earlier(hs[i], hs[j])
  <2>1. i \in 1..Len(gs)
    BY <1>1, <1>9 DEF Result
  <2>2. Opener(hs[i]) = Opener(gs[i]) /\ gs[i].decisions \subseteq hs[i].decisions
    BY <2>1 DEF Result
  <2>3. In(gs[i], Opener(gs[i]))
    <3>1. GroupOK(gs[i])
      BY <2>1 DEF GroupsOK
    <3>2. QED
      BY <3>1, Caps DEF GroupOK, In, Opener
  <2>4. Before(Opener(hs[i]), Opener(hs[j]))
    <3>1. CASE j \in 1..Len(gs)
      BY <1>3, <1>9, <2>1, <2>2, <3>1 DEF InOrder, Earlier
    <3>2. CASE j \notin 1..Len(gs)
      BY <1>3, <1>4, <2>1, <2>2, <2>3, <3>2
    <3>3. QED
      BY <3>1, <3>2
  <2>5. ASSUME NEW m \in 1..Len(hs[j].members)
        PROVE  Refused(hs[i], hs[j].members[m])
    <3>1. In(hs[j], hs[j].members[m])
      BY DEF In
    <3>2. CASE j = k /\ hs[j].members[m] = e
      BY <1>1, <1>9, <2>1, <3>2 DEF Result
    <3>3. CASE j \in 1..Len(gs) /\ In(gs[j], hs[j].members[m])
      <4>1. Refused(gs[i], hs[j].members[m])
        BY <1>9, <2>1, <3>3 DEF InOrder, Earlier, In
      <4>2. QED
        BY <2>2, <4>1, RefusedKept
    <3>4. QED
      BY <1>3, <3>1, <3>2, <3>3
  <2>6. QED
    BY <2>4, <2>5 DEF Earlier
<1>10. QED
  BY <1>8, <1>9 DEF InOrder

-----------------------------------------------------------------------------
(***************************************************************************)
(* The order of the result.                                                *)
(***************************************************************************)
LEMMA Arranged ==
  ASSUME NEW gs, NEW looked \in SUBSET Pool, GroupsOK(gs, looked), InOrder(gs),
         NEW order \in Bijection(DOMAIN gs, DOMAIN gs), NEW hs,
         hs = [i \in DOMAIN gs |-> gs[order[i]]]
  PROVE  /\ GroupsOK(hs, looked)
         /\ \A i, j \in 1..Len(hs) :
              Before(Opener(hs[i]), Opener(hs[j])) => Earlier(hs[i], hs[j])
<1> DEFINE n == Len(gs)
<1>1. n \in Nat /\ DOMAIN gs = 1..n /\ gs \in Seq(Group) /\ n <= group_cap
  BY LenProperties DEF GroupsOK
<1>2. /\ order \in [1..n -> 1..n]
      /\ \A j \in 1..n : \E i \in 1..n : order[i] = j
      /\ \A i, j \in 1..n : order[i] = order[j] => i = j
  BY <1>1 DEF Bijection, Injection, Surjection, IsInjective
<1>3. \A i \in 1..n : hs[i] = gs[order[i]] /\ order[i] \in 1..n
  BY <1>1, <1>2
<1>4. hs \in Seq(Group) /\ Len(hs) = n
  <2>1. \A i \in 1..n : gs[order[i]] \in Group
    BY <1>1, <1>3, ElementOfSeq
  <2>2. hs \in [1..n -> Group]
    BY <1>1, <2>1
  <2>3. QED
    BY <1>1, <2>2, SeqDef, LenProperties
<1> HIDE DEF n
<1>5. /\ \A i \in 1..n : GroupOK(gs[i])
      /\ \A i \in 1..n : \A m \in 1..Len(gs[i].members) : gs[i].members[m] \in looked
      /\ \A i, j \in 1..n : \A e : In(gs[i], e) /\ In(gs[j], e) => i = j
      /\ \A e \in looked :
           \/ \E i \in 1..n : In(gs[i], e)
           \/ n = group_cap /\ \A i \in 1..n : Refused(gs[i], e)
      /\ \A i, j \in 1..n : i < j => Earlier(gs[i], gs[j])
  BY DEF GroupsOK, InOrder, n
<1>6. GroupsOK(hs, looked)
  <2>1. /\ \A i \in 1..n : GroupOK(hs[i])
        /\ \A i \in 1..n : \A m \in 1..Len(hs[i].members) : hs[i].members[m] \in looked
    BY <1>3, <1>5
  <2>2. ASSUME NEW i \in 1..n, NEW j \in 1..n, NEW e, In(hs[i], e), In(hs[j], e)
        PROVE  i = j
    <3>1. order[i] \in 1..n /\ order[j] \in 1..n /\ In(gs[order[i]], e) /\ In(gs[order[j]], e)
      BY <1>3, <2>2
    <3>2. order[i] = order[j]
      BY <1>5, <3>1, Zenon
    <3>3. QED
      BY <1>2, <3>2
  <2>3. ASSUME NEW e \in looked
        PROVE  \/ \E i \in 1..n : In(hs[i], e)
               \/ n = group_cap /\ \A i \in 1..n : Refused(hs[i], e)
    <3>1. CASE \E j \in 1..n : In(gs[j], e)
      <4>1. PICK j \in 1..n : In(gs[j], e)
        BY <3>1
      <4>2. PICK i \in 1..n : order[i] = j
        BY <1>2
      <4>3. QED
        BY <1>3, <4>1, <4>2
    <3>2. CASE n = group_cap /\ \A j \in 1..n : Refused(gs[j], e)
      BY <1>3, <3>2
    <3>3. QED
      BY <1>5, <3>1, <3>2
  <2>4. QED
    BY <1>1, <1>4, <2>1, <2>2, <2>3 DEF GroupsOK
<1>7. ASSUME NEW i \in 1..n, NEW j \in 1..n, Before(Opener(hs[i]), Opener(hs[j]))
      PROVE  Earlier(hs[i], hs[j])
  <2>1. PICK a \in 1..n, b \in 1..n : a = order[i] /\ b = order[j]
    BY <1>3
  <2>2. hs[i] = gs[a] /\ hs[j] = gs[b]
    BY <1>3, <2>1
  <2>3. Opener(gs[a]) \in Pool /\ Opener(gs[b]) \in Pool
    <3>1. ASSUME NEW c \in 1..n PROVE Opener(gs[c]) \in Pool
      <4>1. GroupOK(gs[c])
        BY <1>5
      <4>2. QED
        BY <4>1, Caps, ElementOfSeq DEF GroupOK, Group, Opener
    <3>2. QED
      BY <3>1
  <2>4. a # b /\ ~(b < a)
    <3>1. a # b
      BY <1>7, <2>2, <2>3, BeforeOrder
    <3>2. ASSUME b < a PROVE FALSE
      <4>1. Before(Opener(gs[b]), Opener(gs[a]))
        BY <1>5, <3>2 DEF Earlier
      <4>2. QED
        BY <1>7, <2>2, <2>3, <4>1, BeforeOrder
    <3>3. QED
      BY <3>1, <3>2
  <2>5. a < b
    BY <1>1, <2>4
  <2>6. QED
    BY <1>5, <2>2, <2>5
<1>8. QED
  BY <1>4, <1>6, <1>7

-----------------------------------------------------------------------------
(***************************************************************************)
(* Every step keeps the invariant.                                         *)
(***************************************************************************)
LEMMA InitInv == Init => IndInv
<1> SUFFICES ASSUME Init PROVE IndInv
  OBVIOUS
<1>1. IsFiniteSet({})
  BY FS_EmptySet
<1>2. QED
  BY <1>1 DEF Init, IndInv

LEMMA ReportInv ==
  ASSUME IndInv, NEW e \in Pool, Report(e)
  PROVE  IndInv'
<1>1. IsFiniteSet(episodes')
  BY FS_AddElement DEF IndInv, Report
<1>2. \A c, d \in episodes' : c.id = d.id => c = d
  BY DEF IndInv, Report
<1>3. QED
  BY <1>1, <1>2 DEF IndInv, Report

LEMMA CorrelateInv ==
  ASSUME IndInv, correlate
  PROVE  IndInv'
<1>1. groups' = <<>> /\ pending' = episodes /\ episodes' = episodes /\ outcome' = "running"
  BY DEF IndInv, correlate
<1>2. groups' \in Seq(Group) /\ Len(groups') = 0
  BY <1>1
<1>3. GroupsOK(groups', episodes \ pending')
  BY <1>1, <1>2, Caps DEF GroupsOK
<1>4. InOrder(groups')
  BY <1>2 DEF InOrder
<1>5. QED
  BY <1>1, <1>3, <1>4 DEF IndInv

LEMMA ConsiderInv ==
  ASSUME IndInv, Consider
  PROVE  IndInv'
<1>1. PICK e \in pending : /\ \A d \in pending \ {e} : Before(e, d)
                           /\ groups' = Placed(groups, e)
                           /\ pending' = pending \ {e}
  BY DEF Consider
<1> DEFINE looked == episodes \ pending
<1>2. /\ outcome = "running" /\ outcome' = "running" /\ episodes' = episodes
      /\ looked \in SUBSET Pool /\ e \in Pool /\ e \notin looked
      /\ GroupsOK(groups, looked) /\ InOrder(groups)
      /\ \A d \in looked : \A c \in pending : Before(d, c)
  BY <1>1 DEF Consider, IndInv
<1>3. episodes' \ pending' = looked \cup {e}
  BY <1>1, <1>2 DEF IndInv
<1> HIDE DEF looked
<1>4. groups \in Seq(Group) /\ Len(groups) <= group_cap
  BY <1>2 DEF GroupsOK
<1>5. ASSUME NEW i \in 1..Len(groups)
      PROVE  GroupOK(groups[i]) /\ Opener(groups[i]).first_seen <= e.first_seen
  <2>1. GroupOK(groups[i]) /\ \A m \in 1..Len(groups[i].members) : groups[i].members[m] \in looked
    BY <1>2 DEF GroupsOK
  <2>2. 1 \in 1..Len(groups[i].members)
    BY <2>1, Caps DEF GroupOK
  <2>3. Opener(groups[i]) \in looked
    BY <2>1, <2>2 DEF Opener
  <2>4. Before(Opener(groups[i]), e)
    BY <1>1, <1>2, <2>3
  <2>5. QED
    BY <1>2, <2>1, <2>3, <2>4, BeforeOrder
<1>6. PICK k \in Nat : Result(groups, groups', e, k)
  BY <1>1, <1>2, <1>4, <1>5, PlacedResult
<1>7. \A d \in looked : Before(d, e)
  BY <1>1, <1>2
<1>8. GroupsOK(groups', looked \cup {e}) /\ InOrder(groups')
  BY <1>2, <1>6, <1>7, ResultOK
<1>9. \A d \in looked \cup {e} : \A c \in pending' : Before(d, c)
  BY <1>1, <1>2
<1>10. QED
  BY <1>1, <1>2, <1>3, <1>8, <1>9 DEF IndInv

LEMMA FinishInv ==
  ASSUME IndInv, Finish
  PROVE  IndInv'
<1>1. PICK order \in Bijection(DOMAIN groups, DOMAIN groups) :
        groups' = [i \in DOMAIN groups |-> groups[order[i]]]
  BY DEF Finish
<1>2. /\ outcome' = "done" /\ pending = {} /\ pending' = {} /\ episodes' = episodes
      /\ episodes \in SUBSET Pool /\ episodes \ pending = episodes /\ episodes' \ pending' = episodes
      /\ GroupsOK(groups, episodes) /\ InOrder(groups)
  <2>1. outcome = "running" /\ pending = {} /\ episodes \ pending = episodes
    BY DEF Finish
  <2>2. GroupsOK(groups, episodes \ pending) /\ InOrder(groups)
    BY <2>1 DEF IndInv
  <2>3. QED
    BY <2>1, <2>2 DEF Finish, IndInv
<1>3. /\ GroupsOK(groups', episodes)
      /\ \A i, j \in 1..Len(groups') :
           Before(Opener(groups'[i]), Opener(groups'[j])) => Earlier(groups'[i], groups'[j])
  BY <1>1, <1>2, Arranged
<1>4. QED
  BY <1>2, <1>3 DEF IndInv

LEMMA NextInv == IndInv /\ [Next]_vars => IndInv'
<1> SUFFICES ASSUME IndInv, [Next]_vars PROVE IndInv'
  OBVIOUS
<1>1. CASE correlate
  BY <1>1, CorrelateInv
<1>2. CASE Consider
  BY <1>2, ConsiderInv
<1>3. CASE Cancel
  BY <1>3 DEF Cancel, IndInv
<1>4. CASE Finish
  BY <1>4, FinishInv
<1>5. CASE \E e \in Pool : Report(e)
  BY <1>5, ReportInv
<1>6. CASE UNCHANGED vars
  BY <1>6 DEF vars, IndInv
<1>7. QED
  BY <1>1, <1>2, <1>3, <1>4, <1>5, <1>6 DEF Next

\* The inductive invariant of correlate (group.cpp): after every episode, each one
\* looked at is in exactly one group or was refused by as many groups as there may
\* be, and every group has refused the members of the later ones.
THEOREM Invariance == Spec => []IndInv
<1>1. QED
  BY InitInv, NextInv, PTL DEF Spec

-----------------------------------------------------------------------------
(***************************************************************************)
(* The properties.                                                         *)
(***************************************************************************)
LEMMA MinIs ==
  ASSUME NEW S \in SUBSET Nat, NEW x \in S, \A y \in S : x <= y
  PROVE  Min(S) = x
<1>1. Min(S) \in S /\ \A y \in S : Min(S) <= y
  <2>1. \E z \in S : \A y \in S : z <= y
    OBVIOUS
  <2>2. QED
    BY <2>1, Zenon DEF Min
<1>2. PICK m \in Nat : m = Min(S)
  BY <1>1
<1>3. x \in Nat /\ m <= x /\ x <= m
  BY <1>1, <1>2
<1>4. m = x
  BY <1>3
<1>5. QED
  BY <1>2, <1>4

LEMMA MaxIs ==
  ASSUME NEW S \in SUBSET Nat, NEW x \in S, \A y \in S : y <= x
  PROVE  Max(S) = x
<1>1. \A y \in S : x >= y
  OBVIOUS
<1>2. Max(S) \in S /\ \A y \in S : Max(S) >= y
  <2>1. \E z \in S : \A y \in S : z >= y
    BY <1>1
  <2>2. QED
    BY <2>1, Zenon DEF Max
<1>3. PICK m \in Nat : m = Max(S)
  BY <1>2
<1>4. x \in Nat /\ m <= x /\ x <= m
  BY <1>2, <1>3
<1>5. m = x
  BY <1>4
<1>6. QED
  BY <1>3, <1>5

LEMMA AnyGroups ==
  ASSUME IndInv
  PROVE  /\ groups \in Seq(Group) /\ Len(groups) <= group_cap /\ DOMAIN groups = 1..Len(groups)
         /\ \A i \in 1..Len(groups) :
              /\ GroupOK(groups[i])
              /\ \A m \in 1..Len(groups[i].members) : groups[i].members[m] \in episodes
<1>1. CASE outcome \in {"running", "done"}
  <2>1. GroupsOK(groups, episodes \ pending)
    BY <1>1 DEF IndInv
  <2>2. QED
    BY <2>1 DEF GroupsOK
<1>2. CASE outcome \in {"none", "cancelled"}
  <2>1. groups = <<>>
    BY <1>2 DEF IndInv
  <2>2. QED
    BY <2>1, Caps
<1>3. QED
  BY <1>1, <1>2 DEF IndInv

LEMMA MembersOf ==
  ASSUME NEW g, GroupOK(g)
  PROVE  /\ g.members \in Seq(Pool) /\ Len(g.members) \in Nat \ {0}
         /\ Members(g) = {g.members[i] : i \in 1..Len(g.members)}
         /\ \A e : e \in Members(g) <=> In(g, e)
         /\ g.members[1] \in Members(g) /\ Members(g) \subseteq Pool
<1>1. /\ g.members \in Seq(Pool) /\ Len(g.members) \in Nat \ {0}
      /\ DOMAIN g.members = 1..Len(g.members)
  BY Caps, LenProperties DEF GroupOK, Group
<1>2. Members(g) = {g.members[i] : i \in 1..Len(g.members)}
  BY <1>1 DEF Members, ToSet
<1>3. \A i \in 1..Len(g.members) : g.members[i] \in Pool
  BY <1>1, ElementOfSeq
<1>4. 1 \in 1..Len(g.members)
  BY <1>1
<1>5. QED
  BY <1>1, <1>2, <1>3, <1>4 DEF In

LEMMA TypesHold == IndInv => TypeOK
<1> SUFFICES ASSUME IndInv PROVE TypeOK
  OBVIOUS
<1>1. ASSUME NEW i \in DOMAIN groups
      PROVE  Len(groups[i].members) \in 1..member_cap /\ Members(groups[i]) \subseteq episodes
  <2>1. GroupOK(groups[i]) /\ \A m \in 1..Len(groups[i].members) : groups[i].members[m] \in episodes
    BY AnyGroups
  <2>2. Members(groups[i]) \subseteq episodes
    BY <2>1, MembersOf
  <2>3. QED
    BY <2>1, <2>2 DEF GroupOK
<1>2. QED
  BY <1>1, AnyGroups DEF TypeOK, IndInv

LEMMA OneGroupEach == IndInv => EachInOneGroup
<1> SUFFICES ASSUME IndInv, outcome = "done", NEW e \in episodes
             PROVE  LET in == {i \in DOMAIN groups : e \in Members(groups[i])}
                    IN /\ Cardinality(in) <= 1
                       /\ in = {} =>
                            /\ Len(groups) = group_cap
                            /\ \A i \in DOMAIN groups : \E d \in groups[i].decisions :
                                 d.member = e.id /\ ~merge_accepted(d.code)
  BY DEF EachInOneGroup
<1> DEFINE in == {i \in DOMAIN groups : e \in Members(groups[i])}
<1>1. GroupsOK(groups, episodes) /\ DOMAIN groups = 1..Len(groups)
  <2>1. pending = {} /\ episodes \ pending = episodes
    BY DEF IndInv
  <2>2. GroupsOK(groups, episodes \ pending)
    BY DEF IndInv
  <2>3. QED
    BY <2>1, <2>2, AnyGroups
<1>2. \A i \in 1..Len(groups) : e \in Members(groups[i]) <=> In(groups[i], e)
  BY <1>1, MembersOf DEF GroupsOK
<1>3. Cardinality(in) <= 1
  <2>1. CASE in = {}
    BY <2>1, FS_EmptySet
  <2>2. CASE in # {}
    <3>1. PICK i \in in : TRUE
      BY <2>2
    <3>2. ASSUME NEW j \in in PROVE j = i
      <4>1. /\ i \in 1..Len(groups) /\ In(groups[i], e)
            /\ j \in 1..Len(groups) /\ In(groups[j], e)
        BY <1>1, <1>2
      <4>2. \A a, b \in 1..Len(groups) : \A c : In(groups[a], c) /\ In(groups[b], c) => a = b
        BY <1>1 DEF GroupsOK
      <4>3. QED
        BY <4>1, <4>2, Zenon
    <3>3. in = {i}
      BY <3>2
    <3> HIDE DEF in
    <3>4. Cardinality(in) = 1
      BY <3>3, FS_Singleton
    <3>5. QED
      BY <3>4
  <2>3. QED
    BY <2>1, <2>2
<1>4. ASSUME in = {}
      PROVE  /\ Len(groups) = group_cap
             /\ \A i \in DOMAIN groups : \E d \in groups[i].decisions :
                  d.member = e.id /\ ~merge_accepted(d.code)
  <2>1. ~\E i \in 1..Len(groups) : In(groups[i], e)
    BY <1>1, <1>2, <1>4
  <2>2. Len(groups) = group_cap /\ \A i \in 1..Len(groups) : Refused(groups[i], e)
    BY <1>1, <2>1 DEF GroupsOK
  <2>3. QED
    BY <1>1, <2>2 DEF Refused
<1>5. QED
  BY <1>3, <1>4

LEMMA Coherent == IndInv => GroupsCohere
<1> SUFFICES ASSUME IndInv, NEW i \in DOMAIN groups,
                    NEW d \in Members(groups[i]), NEW e \in Members(groups[i])
             PROVE  /\ policy.require_same_generation => d.generation = e.generation
                    /\ policy.require_same_mechanism => d.mechanism = e.mechanism
                    /\ ~policy.merge_across_scope_kinds => d.scope.kind = e.scope.kind
                    /\ d.policy_version = e.policy_version
                    /\ ~policy.merge_across_tenants /\ groups[i].members[1].tenant # 0 =>
                         d.tenant = 0 \/ e.tenant = 0 \/ d.tenant = e.tenant
                    /\ d = groups[i].members[1] =>
                         /\ e.first_seen <= d.last_seen + policy.max_gap
                         /\ d.first_seen <= e.last_seen + policy.max_gap
  BY DEF GroupsCohere
<1> DEFINE g == groups[i]
<1>1. GroupOK(g)
  BY AnyGroups
<1>2. In(g, d) /\ In(g, e)
  BY <1>1, MembersOf
<1> HIDE DEF g
<1>3. \A c : In(g, c) => Fits(Opener(g), c)
  BY <1>1 DEF GroupOK, In
<1>4. Fits(Opener(g), d) /\ Fits(Opener(g), e)
  BY <1>2, <1>3
<1>5. QED
  BY <1>4 DEF Fits, Opener, g

LEMMA Hull == IndInv => WindowIsHull
<1> SUFFICES ASSUME IndInv, NEW i \in DOMAIN groups
             PROVE  /\ groups[i].window_start = Min({e.first_seen : e \in Members(groups[i])})
                    /\ groups[i].window_end = Max({e.last_seen : e \in Members(groups[i])})
  BY DEF WindowIsHull
<1> DEFINE g == groups[i]
           starts == {e.first_seen : e \in Members(g)}
           ends == {e.last_seen : e \in Members(g)}
<1>1. GroupOK(g)
  BY AnyGroups
<1> HIDE DEF g
<1>2. /\ Members(g) \subseteq Pool /\ Opener(g) \in Members(g)
      /\ \A e \in Members(g) : In(g, e)
      /\ \A m \in 1..Len(g.members) : g.members[m] \in Members(g)
  BY <1>1, MembersOf DEF Opener
<1>3. starts \in SUBSET Nat /\ ends \in SUBSET Nat
  BY <1>2, CorrelationAssumption
<1>4. g.window_start = Min(starts)
  <2>1. g.window_start \in starts
    BY <1>1, <1>2 DEF GroupOK
  <2>2. \A y \in starts : g.window_start <= y
    BY <1>1, <1>2 DEF GroupOK, In
  <2> HIDE DEF starts
  <2>3. QED
    BY <1>3, <2>1, <2>2, MinIs
<1>5. g.window_end = Max(ends)
  <2>1. g.window_end \in ends
    BY <1>1, <1>2 DEF GroupOK
  <2>2. \A y \in ends : y <= g.window_end
    BY <1>1, <1>2 DEF GroupOK, In
  <2> HIDE DEF ends
  <2>3. QED
    BY <1>3, <2>1, <2>2, MaxIs
<1>6. QED
  BY <1>4, <1>5 DEF g

LEMMA FirstFits == IndInv => FirstFit
<1> SUFFICES ASSUME IndInv, outcome = "done", NEW i \in DOMAIN groups, NEW j \in DOMAIN groups,
                    Before(groups[i].members[1], groups[j].members[1]),
                    NEW e \in Members(groups[j])
             PROVE  \E d \in groups[i].decisions :
                      /\ d.member = e.id
                      /\ d.reference = groups[i].members[1].id
                      /\ ~merge_accepted(d.code)
  BY DEF FirstFit
<1>1. i \in 1..Len(groups) /\ j \in 1..Len(groups) /\ GroupOK(groups[j])
  BY AnyGroups
<1>2. Earlier(groups[i], groups[j])
  BY <1>1 DEF IndInv, Opener
<1>3. In(groups[j], e)
  BY <1>1, MembersOf
<1>4. Refused(groups[i], e)
  BY <1>2, <1>3 DEF Earlier, In
<1>5. QED
  BY <1>4 DEF Refused, Opener

\* GroupsInv, what correlate promises of its groups (group.cpp): limits kept, an
\* episode in one group at most and left out only when every group refused it and
\* no more may be opened, members that agree with each other (on the tenant only if
\* the opener is attributed), and a window that is the hull of theirs, for any
\* episodes, policy and limits.
THEOREM GroupsCorrect == Spec => []GroupsInv
<1>1. IndInv => GroupsInv
  BY TypesHold, OneGroupEach, Coherent, Hull DEF GroupsInv
<1>2. QED
  BY <1>1, Invariance, PTL

\* FirstFit: the loop over the groups (group.cpp) puts an episode into the first
\* group that takes it, and every group with an earlier opener says in its
\* decisions that it refused it.
THEOREM FirstFitHolds == Spec => []FirstFit
<1>1. QED
  BY FirstFits, Invariance, PTL
=============================================================================
