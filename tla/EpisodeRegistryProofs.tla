----------------------- MODULE EpisodeRegistryProofs -----------------------
(***************************************************************************)
(* Proofs about EpisodeRegistry: what the bounded history of an episode    *)
(* accounts for, when an episode may be closed, which episodes may leave   *)
(* the registry and that no revision is lowered, for any ids, windows and  *)
(* limits.                                                                 *)
(***************************************************************************)
EXTENDS EpisodeRegistry, SequenceTheorems, FiniteSetTheorems, TLAPS

-----------------------------------------------------------------------------
(***************************************************************************)
(* Bounded history.                                                        *)
(***************************************************************************)
\* Erasing from the front keeps the entries at the end, in order.
LEMMA KeepLastProperties ==
  ASSUME NEW S, NEW s \in Seq(S), NEW n \in Nat
  PROVE  /\ Excess(s, n) \in Nat
         /\ Excess(s, n) = IF Len(s) > n THEN Len(s) - n ELSE 0
         /\ KeepLast(s, n) \in Seq(S)
         /\ Len(KeepLast(s, n)) = Len(s) - Excess(s, n)
         /\ \A i \in 1..(Len(s) - Excess(s, n)) : KeepLast(s, n)[i] = s[i + Excess(s, n)]
<1> DEFINE k == Excess(s, n)
<1>1. /\ Len(s) \in Nat
      /\ \A i \in 1..Len(s) : s[i] \in S
  BY LenProperties, ElementOfSeq
<1>2. k \in Nat /\ k <= Len(s) /\ k = IF Len(s) > n THEN Len(s) - n ELSE 0
  BY <1>1 DEF Excess
<1> HIDE DEF k
<1>3. \A i \in (k + 1)..Len(s) : s[i] \in S
  BY <1>1, <1>2
<1>4. /\ SubSeq(s, k + 1, Len(s)) \in Seq(S)
      /\ Len(SubSeq(s, k + 1, Len(s))) = IF k + 1 <= Len(s) THEN Len(s) - (k + 1) + 1 ELSE 0
      /\ \A i \in 1..(Len(s) - (k + 1) + 1) : SubSeq(s, k + 1, Len(s))[i] = s[(k + 1) + i - 1]
  <2>1. k + 1 \in Int /\ Len(s) \in Int
    BY <1>1, <1>2
  <2>2. QED
    BY <1>3, <2>1, SubSeqProperties
<1> DEFINE kept == SubSeq(s, k + 1, Len(s))
<1> HIDE DEF kept
<1>5. Len(kept) = Len(s) - k
  <2>1. Len(kept) = IF k + 1 <= Len(s) THEN Len(s) - (k + 1) + 1 ELSE 0
    BY <1>4 DEF kept
  <2>2. k \in Nat /\ k <= Len(s)
    BY <1>2
  <2>3. CASE k + 1 <= Len(s)
    BY <1>1, <2>1, <2>2, <2>3
  <2>4. CASE ~(k + 1 <= Len(s))
    <3>1. k = Len(s)
      BY <1>1, <2>2, <2>4
    <3>2. QED
      BY <1>1, <2>1, <2>4, <3>1
  <2>5. QED
    BY <2>3, <2>4
<1>6. ASSUME NEW i \in 1..(Len(s) - k) PROVE kept[i] = s[i + k]
  <2>1. i \in 1..(Len(s) - (k + 1) + 1)
    BY <1>1, <1>2
  <2>2. kept[i] = s[(k + 1) + i - 1]
    BY <1>4, <2>1 DEF kept
  <2>3. (k + 1) + i - 1 = i + k
    BY <1>2
  <2>4. QED
    BY <2>2, <2>3
<1>7. kept \in Seq(S)
  BY <1>4 DEF kept
<1>8. QED
  BY <1>2, <1>5, <1>6, <1>7 DEF k, kept, KeepLast

\* kept is s followed by x without its first cut entries, and no longer than n.
Keeps(kept, cut, s, x, n) ==
  /\ cut \in Nat /\ cut <= 1
  /\ Len(kept) = Len(s) + 1 - cut
  /\ Len(kept) \in 1..n
  /\ \A i \in 1..(Len(kept) - 1) : i + cut \in 1..Len(s) /\ kept[i] = s[i + cut]
  /\ kept[Len(kept)] = x

\* Appending x to a sequence within its limit and erasing from the front.
LEMMA AppendKeepLast ==
  ASSUME NEW S, NEW s \in Seq(S), NEW x \in S, NEW n \in Nat \ {0}, Len(s) <= n
  PROVE  /\ KeepLast(Append(s, x), n) \in Seq(S)
         /\ Keeps(KeepLast(Append(s, x), n), Excess(Append(s, x), n), s, x, n)
<1> DEFINE whole == Append(s, x)
           cut == Excess(whole, n)
           kept == KeepLast(whole, n)
<1>1. /\ whole \in Seq(S) /\ Len(whole) = Len(s) + 1 /\ Len(s) \in Nat
      /\ \A i \in 1..Len(s) : whole[i] = s[i]
      /\ whole[Len(s) + 1] = x
  BY AppendProperties, LenProperties
<1> HIDE DEF whole
<1>2. /\ cut \in Nat
      /\ cut = IF Len(whole) > n THEN Len(whole) - n ELSE 0
      /\ kept \in Seq(S)
      /\ Len(kept) = Len(whole) - cut
      /\ \A i \in 1..(Len(whole) - cut) : kept[i] = whole[i + cut]
  BY <1>1, KeepLastProperties
<1> HIDE DEF cut, kept
<1>3. cut \in Nat /\ cut <= 1 /\ Len(kept) = Len(s) + 1 - cut /\ Len(kept) \in 1..n
  BY <1>1, <1>2
<1>4. ASSUME NEW i \in 1..(Len(kept) - 1)
      PROVE  i + cut \in 1..Len(s) /\ kept[i] = s[i + cut]
  <2>1. i + cut \in 1..Len(s) /\ i \in 1..(Len(whole) - cut)
    BY <1>1, <1>3
  <2>2. kept[i] = whole[i + cut]
    BY <1>2, <2>1
  <2>3. QED
    BY <1>1, <2>1, <2>2
<1>5. kept[Len(kept)] = x
  <2>1. Len(kept) \in 1..(Len(whole) - cut) /\ Len(kept) + cut = Len(s) + 1
    BY <1>1, <1>3
  <2>2. kept[Len(kept)] = whole[Len(kept) + cut]
    BY <1>2, <2>1
  <2>3. QED
    BY <1>1, <2>1, <2>2
<1>6. QED
  BY <1>2, <1>3, <1>4, <1>5 DEF whole, cut, kept, Keeps

-----------------------------------------------------------------------------
(***************************************************************************)
(* The history of one episode.  HistoryOf and PeakOf are split along the   *)
(* two sequences that the operations append to.                            *)
(***************************************************************************)
\* The retained transitions account for revision, state, severity and peak.
TransitionsOf(e) ==
  LET n == Len(e.transitions)
  IN  /\ n \in 1..max_episode_transitions
      /\ e.revision = e.transitions_dropped + n
      /\ \A i \in 1..n : e.transitions[i].revision = e.transitions_dropped + i
      /\ \A i \in 1..(n - 1) : e.transitions[i].after = e.transitions[i + 1].before
      /\ e.transitions[n].after = e.severity
      /\ e.transitions[n].kind \in Leads[e.state]

\* The retained assessments account for the observations.
AssessmentsOf(e) ==
  /\ Len(e.assessments) \in 1..max_episode_assessments
  /\ e.observations = e.assessments_dropped + Len(e.assessments)

Flagged(e) == e.history_truncated <=> (e.transitions_dropped + e.assessments_dropped > 0)

LEMMA HistorySplit ==
  ASSUME NEW e
  PROVE  HistoryOf(e) <=> TransitionsOf(e) /\ AssessmentsOf(e) /\ Flagged(e)
BY DEF HistoryOf, TransitionsOf, AssessmentsOf, Flagged

\* An episode whose new revision and severity have no transition yet: before is
\* the severity its last transition left.
TransitionDue(f, before) ==
  LET n == Len(f.transitions)
  IN  /\ n <= max_episode_transitions
      /\ f.revision = f.transitions_dropped + n + 1
      /\ \A i \in 1..n : f.transitions[i].revision = f.transitions_dropped + i
      /\ \A i \in 1..(n - 1) : f.transitions[i].after = f.transitions[i + 1].before
      /\ n > 0 => f.transitions[n].after = before
      /\ before <= f.peak
      /\ PeakOf(f)

\* An observation that is counted and has no assessment yet.
AssessmentDue(f) ==
  /\ Len(f.assessments) <= max_episode_assessments
  /\ f.observations = f.assessments_dropped + Len(f.assessments) + 1

\* append_transition completes the history of a changed episode.
LEMMA AppendTransition ==
  ASSUME NEW f \in Episode, NEW kind \in Kind, NEW before \in Severity,
         TransitionDue(f, before), Flagged(f), kind \in Leads[f.state]
  PROVE  LET g == append_transition(f, kind, before)
         IN  /\ g \in Episode /\ TransitionsOf(g) /\ PeakOf(g) /\ Flagged(g)
             /\ g.state = f.state /\ g.revision = f.revision
             /\ g.last_seen = f.last_seen /\ g.observations = f.observations
             /\ g.assessments = f.assessments
             /\ g.assessments_dropped = f.assessments_dropped
<1> DEFINE t == [revision |-> f.revision, kind |-> kind, before |-> before, after |-> f.severity]
           cut == Excess(Append(f.transitions, t), max_episode_transitions)
           kept == KeepLast(Append(f.transitions, t), max_episode_transitions)
           g == append_transition(f, kind, before)
<1>1. f.transitions \in Seq(Transition) /\ t \in Transition /\ Len(f.transitions) \in Nat
      /\ f.transitions_dropped \in Nat /\ f.assessments_dropped \in Nat
      /\ f.history_truncated \in BOOLEAN /\ f.peak \in Nat /\ f.severity \in Nat
  BY LenProperties DEF Episode, Transition, Severity
<1>2. max_episode_transitions \in Nat \ {0}
  BY RegistryAssumption
<1>3. Len(f.transitions) <= max_episode_transitions
  BY DEF TransitionDue
<1>4. kept \in Seq(Transition) /\ Keeps(kept, cut, f.transitions, t, max_episode_transitions)
  <2> HIDE DEF t
  <2> QED BY <1>1, <1>2, <1>3, AppendKeepLast
<1>a. /\ cut \in Nat /\ cut <= 1
      /\ Len(kept) = Len(f.transitions) + 1 - cut
      /\ Len(kept) \in 1..max_episode_transitions
      /\ \A i \in 1..(Len(kept) - 1) : /\ i + cut \in 1..Len(f.transitions)
                                       /\ kept[i] = f.transitions[i + cut]
      /\ kept[Len(kept)] = t
  <2> HIDE DEF t, kept, cut
  <2> QED BY <1>4 DEF Keeps
<1>5. g = [f EXCEPT !.transitions = kept, !.transitions_dropped = @ + cut,
                    !.history_truncated = @ \/ cut > 0]
  BY DEF append_transition
<1> HIDE DEF cut, kept, g
<1>6. /\ g.transitions = kept /\ g.transitions_dropped = f.transitions_dropped + cut
      /\ g.history_truncated = (f.history_truncated \/ cut > 0)
      /\ g.state = f.state /\ g.revision = f.revision /\ g.severity = f.severity
      /\ g.peak = f.peak /\ g.last_seen = f.last_seen /\ g.observations = f.observations
      /\ g.assessments = f.assessments /\ g.assessments_dropped = f.assessments_dropped
  BY <1>5 DEF Episode
<1>7. g \in Episode
  <2>1. f.transitions_dropped + cut \in Nat /\ (f.history_truncated \/ cut > 0) \in BOOLEAN
    BY <1>1, <1>4, <1>a
  <2>2. QED
    BY <1>4, <1>a, <1>5, <2>1 DEF Episode
<1>8. TransitionsOf(g)
  <2> DEFINE n == Len(f.transitions)
  <2>1. Len(kept) = n + 1 - cut /\ n \in Nat
    BY <1>1, <1>4, <1>a
  <2>2. g.revision = g.transitions_dropped + Len(kept)
    <3>1. f.revision = f.transitions_dropped + n + 1
      BY DEF TransitionDue
    <3>2. g.revision = f.revision /\ g.transitions_dropped = f.transitions_dropped + cut
      BY <1>6
    <3>3. cut \in Nat /\ f.transitions_dropped \in Nat
      BY <1>1, <1>4, <1>a
    <3> HIDE DEF n
    <3>4. QED
      BY <2>1, <3>1, <3>2, <3>3
  <2>3. ASSUME NEW i \in 1..Len(kept)
        PROVE  kept[i].revision = g.transitions_dropped + i
    <3>1. CASE i = Len(kept)
      BY <1>4, <1>a, <1>6, <2>2, <3>1
    <3>2. CASE i # Len(kept)
      <4>1. i \in 1..(Len(kept) - 1)
        BY <2>1, <1>4, <1>a, <3>2
      <4>2. i + cut \in 1..n /\ kept[i] = f.transitions[i + cut]
        BY <1>4, <1>a, <4>1
      <4>3. f.transitions[i + cut].revision = f.transitions_dropped + (i + cut)
        BY <4>2 DEF TransitionDue
      <4>4. f.transitions_dropped + (i + cut) = f.transitions_dropped + cut + i
        BY <1>1, <1>4, <1>a, <4>1
      <4>5. QED
        BY <1>6, <4>2, <4>3, <4>4
    <3>3. QED
      BY <3>1, <3>2
  <2>4. ASSUME NEW i \in 1..(Len(kept) - 1)
        PROVE  kept[i].after = kept[i + 1].before
    <3>1. i + cut \in 1..n /\ kept[i] = f.transitions[i + cut]
      BY <1>4, <1>a
    <3>2. CASE i = Len(kept) - 1
      <4>1. i + cut = n /\ n > 0 /\ kept[i + 1] = t
        BY <1>4, <1>a, <2>1, <3>1, <3>2
      <4>2. QED
        BY <3>1, <4>1 DEF TransitionDue
    <3>3. CASE i # Len(kept) - 1
      <4>1. i + 1 \in 1..(Len(kept) - 1) /\ i + cut \in 1..(n - 1)
        BY <1>4, <1>a, <2>1, <3>1, <3>3, SMTT(30)
      <4>2. kept[i + 1] = f.transitions[i + 1 + cut]
        BY <1>4, <1>a, <4>1
      <4>3. f.transitions[i + cut].after = f.transitions[(i + cut) + 1].before
        BY <4>1 DEF TransitionDue
      <4>4. (i + cut) + 1 = i + 1 + cut
        BY <1>4, <1>a
      <4>5. QED
        BY <3>1, <4>2, <4>3, <4>4
    <3>4. QED
      BY <3>2, <3>3
  <2>5. kept[Len(kept)].after = g.severity /\ kept[Len(kept)].kind \in Leads[g.state]
    BY <1>4, <1>a, <1>6
  <2>6. QED
    BY <1>4, <1>a, <1>6, <2>2, <2>3, <2>4, <2>5 DEF TransitionsOf
<1>9. PeakOf(g)
  <2>1. g.severity <= g.peak
    BY <1>6 DEF TransitionDue, PeakOf
  <2>2. ASSUME NEW i \in 1..Len(kept)
        PROVE  kept[i].before <= g.peak /\ kept[i].after <= g.peak
    <3>1. CASE i = Len(kept)
      BY <1>4, <1>a, <1>6, <3>1 DEF TransitionDue, PeakOf
    <3>2. CASE i # Len(kept)
      <4>1. i \in 1..(Len(kept) - 1)
        BY <1>4, <1>a, <3>2
      <4>2. i + cut \in 1..Len(f.transitions) /\ kept[i] = f.transitions[i + cut]
        BY <1>4, <1>a, <4>1
      <4>3. QED
        BY <1>6, <4>2 DEF TransitionDue, PeakOf
    <3>3. QED
      BY <3>1, <3>2
  <2>3. QED
    BY <1>6, <2>1, <2>2 DEF PeakOf
<1>10. Flagged(g)
  <2>1. CASE cut = 0
    <3>1. ~(cut > 0) /\ f.transitions_dropped + cut = f.transitions_dropped
      BY <1>1, <2>1
    <3>2. g.history_truncated <=> f.history_truncated
      BY <1>6, <3>1, Zenon
    <3>3. g.transitions_dropped + g.assessments_dropped = f.transitions_dropped + f.assessments_dropped
      BY <1>6, <3>1
    <3>4. QED
      BY <3>2, <3>3, Zenon DEF Flagged
  <2>2. CASE cut > 0
    <3>1. g.transitions_dropped + g.assessments_dropped > 0
      BY <1>1, <1>a, <1>6, <2>2
    <3>2. g.history_truncated
      BY <1>6, <2>2, Zenon
    <3>3. QED
      BY <3>1, <3>2, Zenon DEF Flagged
  <2>3. QED
    BY <1>4, <1>a, <2>1, <2>2
<1>11. QED
  BY <1>6, <1>7, <1>8, <1>9, <1>10 DEF g

\* append_assessment completes the history of a counted observation.
LEMMA AppendAssessment ==
  ASSUME NEW f \in Episode, NEW asserted \in BOOLEAN,
         TransitionsOf(f), PeakOf(f), Flagged(f), AssessmentDue(f)
  PROVE  LET g == append_assessment(f, asserted)
         IN  /\ g \in Episode /\ HistoryOf(g) /\ PeakOf(g)
             /\ g.state = f.state /\ g.revision = f.revision /\ g.last_seen = f.last_seen
<1> DEFINE cut == Excess(Append(f.assessments, asserted), max_episode_assessments)
           kept == KeepLast(Append(f.assessments, asserted), max_episode_assessments)
           g == append_assessment(f, asserted)
<1>1. f.assessments \in Seq(BOOLEAN) /\ Len(f.assessments) \in Nat
      /\ f.transitions_dropped \in Nat /\ f.assessments_dropped \in Nat
      /\ f.history_truncated \in BOOLEAN
  BY LenProperties DEF Episode
<1>2. max_episode_assessments \in Nat \ {0}
  BY RegistryAssumption
<1>3. Len(f.assessments) <= max_episode_assessments
  BY DEF AssessmentDue
<1>4. kept \in Seq(BOOLEAN) /\ Keeps(kept, cut, f.assessments, asserted, max_episode_assessments)
  BY <1>1, <1>2, <1>3, AppendKeepLast
<1>a. /\ cut \in Nat /\ cut <= 1
      /\ Len(kept) = Len(f.assessments) + 1 - cut
      /\ Len(kept) \in 1..max_episode_assessments
  <2> HIDE DEF kept, cut
  <2> QED BY <1>4 DEF Keeps
<1>5. g = [f EXCEPT !.assessments = kept, !.assessments_dropped = @ + cut,
                    !.history_truncated = @ \/ cut > 0]
  BY DEF append_assessment
<1> HIDE DEF cut, kept, g
<1>6. /\ g.assessments = kept /\ g.assessments_dropped = f.assessments_dropped + cut
      /\ g.history_truncated = (f.history_truncated \/ cut > 0)
      /\ g.state = f.state /\ g.revision = f.revision /\ g.severity = f.severity
      /\ g.peak = f.peak /\ g.last_seen = f.last_seen /\ g.observations = f.observations
      /\ g.transitions = f.transitions /\ g.transitions_dropped = f.transitions_dropped
  BY <1>5 DEF Episode
<1>7. g \in Episode
  <2>1. f.assessments_dropped + cut \in Nat /\ (f.history_truncated \/ cut > 0) \in BOOLEAN
    BY <1>1, <1>4, <1>a
  <2>2. QED
    BY <1>4, <1>a, <1>5, <2>1 DEF Episode
<1>8. TransitionsOf(g) /\ PeakOf(g)
  BY <1>6 DEF TransitionsOf, PeakOf
<1>9. AssessmentsOf(g)
  <2>1. f.observations = f.assessments_dropped + Len(f.assessments) + 1
    BY DEF AssessmentDue
  <2>2. g.assessments_dropped + Len(g.assessments) = f.assessments_dropped + Len(f.assessments) + 1
    BY <1>1, <1>a, <1>6
  <2>3. g.observations = g.assessments_dropped + Len(g.assessments)
    BY <1>6, <2>1, <2>2
  <2>4. Len(g.assessments) \in 1..max_episode_assessments
    BY <1>a, <1>6
  <2>5. QED
    BY <2>3, <2>4 DEF AssessmentsOf
<1>10. Flagged(g)
  <2>1. CASE cut = 0
    <3>1. ~(cut > 0) /\ f.assessments_dropped + cut = f.assessments_dropped
      BY <1>1, <2>1
    <3>2. g.history_truncated <=> f.history_truncated
      BY <1>6, <3>1, Zenon
    <3>3. g.transitions_dropped + g.assessments_dropped = f.transitions_dropped + f.assessments_dropped
      BY <1>6, <3>1
    <3>4. QED
      BY <3>2, <3>3, Zenon DEF Flagged
  <2>2. CASE cut > 0
    <3>1. g.transitions_dropped + g.assessments_dropped > 0
      BY <1>1, <1>a, <1>6, <2>2
    <3>2. g.history_truncated
      BY <1>6, <2>2, Zenon
    <3>3. QED
      BY <3>1, <3>2, Zenon DEF Flagged
  <2>3. QED
    BY <1>4, <1>a, <2>1, <2>2
<1>11. QED
  BY <1>6, <1>7, <1>8, <1>9, <1>10, HistorySplit DEF g

-----------------------------------------------------------------------------
(***************************************************************************)
(* What an operation makes of one episode.                                 *)
(***************************************************************************)
\* Episode e is accounted for by its history.
Accounted(e) == e \in Episode /\ HistoryOf(e) /\ PeakOf(e)

\* A closed episode has been idle for its window at time t.
IdleAt(e, t) ==
  /\ e.state = "resolved" => t - e.last_seen > 2 * resolve_after
  /\ e.state = "expired"  => t - e.last_seen > expire_after

\* f is e with a new revision, state, severity or peak and no transition for it.
Revised(f, e) ==
  /\ f \in Episode
  /\ f.transitions = e.transitions /\ f.transitions_dropped = e.transitions_dropped
  /\ f.assessments = e.assessments /\ f.assessments_dropped = e.assessments_dropped
  /\ f.history_truncated = e.history_truncated
  /\ f.revision = e.revision + 1
  /\ e.peak <= f.peak /\ f.severity <= f.peak

LEMMA RevisedDue ==
  ASSUME NEW e, Accounted(e), NEW f, Revised(f, e)
  PROVE  /\ TransitionDue(f, e.severity) /\ Flagged(f)
         /\ f.observations = e.observations + 1 => AssessmentDue(f)
         /\ f.observations = e.observations => AssessmentsOf(f)
<1>1. TransitionsOf(e) /\ AssessmentsOf(e) /\ Flagged(e) /\ PeakOf(e) /\ e \in Episode
  BY HistorySplit DEF Accounted
<1>2. /\ e.transitions \in Seq(Transition) /\ Len(e.transitions) \in Nat
      /\ e.transitions_dropped \in Nat /\ e.revision \in Nat
      /\ e.peak \in Nat /\ f.peak \in Nat /\ e.severity \in Nat
      /\ Len(e.assessments) \in Nat /\ e.assessments_dropped \in Nat /\ e.observations \in Nat
  <2>1. /\ e.transitions \in Seq(Transition) /\ e.transitions_dropped \in Nat
        /\ e.revision \in Nat /\ e.assessments \in Seq(BOOLEAN)
        /\ e.peak \in Severity /\ e.severity \in Severity
        /\ e.assessments_dropped \in Nat /\ e.observations \in Nat
    BY <1>1 DEF Episode
  <2>2. f.peak \in Severity
    BY DEF Revised, Episode
  <2>3. Len(e.transitions) \in Nat /\ Len(e.assessments) \in Nat
    BY <2>1, LenProperties
  <2>4. QED
    BY <2>1, <2>2, <2>3 DEF Severity
<1>3. Flagged(f)
  BY <1>1, Zenon DEF Revised, Flagged
<1>4. PeakOf(f)
  <2>1. ASSUME NEW i \in 1..Len(e.transitions)
        PROVE  e.transitions[i].before <= f.peak /\ e.transitions[i].after <= f.peak
    <3>1. e.transitions[i] \in Transition
      BY <1>2, ElementOfSeq
    <3>2. e.transitions[i].before \in Nat /\ e.transitions[i].after \in Nat
      BY <3>1 DEF Transition, Severity
    <3>3. e.transitions[i].before <= e.peak /\ e.transitions[i].after <= e.peak
      BY <1>1 DEF PeakOf
    <3>4. e.peak <= f.peak
      BY DEF Revised
    <3>5. QED
      BY <1>2, <3>2, <3>3, <3>4
  <2>2. QED
    BY <2>1 DEF Revised, PeakOf
<1>5. TransitionDue(f, e.severity)
  <2> DEFINE n == Len(e.transitions)
  <2>1. e.severity <= f.peak
    BY <1>1, <1>2 DEF Revised, PeakOf
  <2>2. n <= max_episode_transitions /\ (n > 0 => e.transitions[n].after = e.severity)
    BY <1>1, <1>2 DEF TransitionsOf
  <2>3. f.revision = e.transitions_dropped + n + 1
    BY <1>1, <1>2 DEF TransitionsOf, Revised
  <2>4. QED
    BY <1>1, <1>4, <2>1, <2>2, <2>3 DEF TransitionsOf, TransitionDue, Revised
<1>6. f.observations = e.observations => AssessmentsOf(f)
  BY <1>1 DEF AssessmentsOf, Revised
<1>7. f.observations = e.observations + 1 => AssessmentDue(f)
  BY <1>1, <1>2 DEF AssessmentsOf, AssessmentDue, Revised
<1>8. QED
  BY <1>3, <1>5, <1>6, <1>7

\* What is recorded of a revised episode accounts for it: a transition, and an
\* assessment when an observation was counted.
LEMMA RevisedTransition ==
  ASSUME NEW e, Accounted(e), NEW f, Revised(f, e), NEW kind \in Kind,
         kind \in Leads[f.state]
  PROVE  LET g == append_transition(f, kind, e.severity)
         IN  /\ g \in Episode /\ TransitionsOf(g) /\ PeakOf(g) /\ Flagged(g)
             /\ g.state = f.state /\ g.revision = f.revision /\ g.last_seen = f.last_seen
             /\ f.observations = e.observations => Accounted(g)
             /\ f.observations = e.observations + 1 => AssessmentDue(g)
<1> DEFINE g == append_transition(f, kind, e.severity)
<1>1. e.severity \in Severity /\ f \in Episode
  BY DEF Accounted, Revised, Episode
<1>2. TransitionDue(f, e.severity) /\ Flagged(f)
  BY RevisedDue
<1>3. /\ g \in Episode /\ TransitionsOf(g) /\ PeakOf(g) /\ Flagged(g)
      /\ g.state = f.state /\ g.revision = f.revision
      /\ g.last_seen = f.last_seen /\ g.observations = f.observations
      /\ g.assessments = f.assessments
      /\ g.assessments_dropped = f.assessments_dropped
  BY <1>1, <1>2, AppendTransition
<1> HIDE DEF g
<1>4. ASSUME f.observations = e.observations PROVE Accounted(g)
  <2>1. AssessmentsOf(f)
    BY <1>4, RevisedDue
  <2>2. AssessmentsOf(g)
    BY <1>3, <2>1 DEF AssessmentsOf
  <2>3. QED
    BY <1>3, <2>2, HistorySplit DEF Accounted
<1>5. ASSUME f.observations = e.observations + 1 PROVE AssessmentDue(g)
  <2>1. AssessmentDue(f)
    BY <1>5, RevisedDue
  <2>2. QED
    BY <1>3, <2>1 DEF AssessmentDue
<1>6. QED
  BY <1>3, <1>4, <1>5 DEF g

LEMMA RevisedObservation ==
  ASSUME NEW e, Accounted(e), NEW f, Revised(f, e), NEW kind \in Kind,
         kind \in Leads[f.state], NEW asserted \in BOOLEAN,
         f.observations = e.observations + 1
  PROVE  LET h == append_assessment(append_transition(f, kind, e.severity), asserted)
         IN  /\ Accounted(h)
             /\ h.state = f.state /\ h.revision = f.revision
<1> DEFINE g == append_transition(f, kind, e.severity)
<1>1. /\ g \in Episode /\ TransitionsOf(g) /\ PeakOf(g) /\ Flagged(g)
      /\ g.state = f.state /\ g.revision = f.revision
      /\ AssessmentDue(g)
  BY RevisedTransition
<1> HIDE DEF g
<1>2. QED
  BY <1>1, AppendAssessment DEF Accounted, g

LEMMA OpenedAccounted ==
  ASSUME NEW severity \in Severities, NEW now \in Nat
  PROVE  Accounted(Opened(severity, now)) /\ Opened(severity, now).state = "open"
<1> DEFINE e == [state |-> "open", revision |-> 1, severity |-> severity, peak |-> severity,
                 last_seen |-> now, last_updated |-> now, observations |-> 1,
                 transitions |-> <<>>, transitions_dropped |-> 0,
                 assessments |-> <<>>, assessments_dropped |-> 0,
                 history_truncated |-> FALSE]
           g == append_transition(e, "opened", 0)
<1>1. severity \in Severity /\ severity \in Nat /\ 0 <= severity /\ 0 \in Severity
  BY RegistryAssumption DEF Severity
<1>2. e \in Episode /\ "opened" \in Kind /\ "opened" \in Leads[e.state]
  BY <1>1 DEF Episode, State, Kind, Leads
<1>3. TransitionDue(e, 0) /\ Flagged(e) /\ AssessmentDue(e)
  BY <1>1, RegistryAssumption DEF TransitionDue, Flagged, AssessmentDue, PeakOf
<1>4. e.state = "open"
  OBVIOUS
<1>5. Opened(severity, now) = append_assessment(g, TRUE)
  BY DEF Opened
<1> HIDE DEF e
<1>6. /\ g \in Episode /\ TransitionsOf(g) /\ PeakOf(g) /\ Flagged(g)
      /\ g.state = e.state /\ g.observations = e.observations
      /\ g.assessments = e.assessments
      /\ g.assessments_dropped = e.assessments_dropped
  BY <1>1, <1>2, <1>3, AppendTransition
<1> HIDE DEF g
<1>7. AssessmentDue(g)
  BY <1>3, <1>6 DEF AssessmentDue
<1>8. QED
  BY <1>4, <1>5, <1>6, <1>7, AppendAssessment DEF Accounted

LEMMA RefreshedAccounted ==
  ASSUME NEW e, Accounted(e), NEW severity \in Severities, NEW now \in Nat
  PROVE  /\ Accounted(Refreshed(e, severity, now))
         /\ Refreshed(e, severity, now).state = "open"
         /\ Refreshed(e, severity, now).revision = e.revision + 1
<1> DEFINE f == [e EXCEPT !.state = "open", !.severity = severity,
                          !.peak = IF severity > @ THEN severity ELSE @,
                          !.last_seen = now, !.last_updated = now,
                          !.observations = @ + 1, !.revision = @ + 1]
           kind == RefreshKind(e, severity)
<1>1. severity \in Severity /\ e \in Episode
  BY RegistryAssumption DEF Accounted
<1>2. /\ f.transitions = e.transitions /\ f.transitions_dropped = e.transitions_dropped
      /\ f.assessments = e.assessments /\ f.assessments_dropped = e.assessments_dropped
      /\ f.history_truncated = e.history_truncated
      /\ f.revision = e.revision + 1 /\ f.observations = e.observations + 1
      /\ f.state = "open" /\ f.severity = severity
      /\ f.peak = IF severity > e.peak THEN severity ELSE e.peak
  BY <1>1 DEF Episode
<1>3. f \in Episode
  <2>1. (IF severity > e.peak THEN severity ELSE e.peak) \in Severity
    BY <1>1 DEF Episode
  <2>2. e.observations + 1 \in Nat /\ e.revision + 1 \in Nat \ {0}
    BY <1>1 DEF Episode
  <2>3. QED
    BY <1>1, <2>1, <2>2 DEF Episode, State
<1>4. e.peak <= f.peak /\ f.severity <= f.peak
  BY <1>1, <1>2, SMTT(30) DEF Episode, Severity
<1>5. kind \in Kind /\ kind \in Leads[f.state]
  BY <1>2 DEF RefreshKind, Kind, Leads
<1>6. Refreshed(e, severity, now) = append_assessment(append_transition(f, kind, e.severity), TRUE)
  BY DEF Refreshed
<1> HIDE DEF f, kind
<1>7. Revised(f, e)
  BY <1>2, <1>3, <1>4 DEF Revised
<1>8. \A asserted \in BOOLEAN :
        LET h == append_assessment(append_transition(f, kind, e.severity), asserted)
        IN  Accounted(h) /\ h.state = f.state /\ h.revision = f.revision
  BY <1>2, <1>5, <1>7, RevisedObservation
<1>9. QED
  BY <1>2, <1>6, <1>8, Zenon

LEMMA QuiescedAccounted ==
  ASSUME NEW e, Accounted(e), NEW now \in Nat
  PROVE  /\ Accounted(Quiesced(e, now))
         /\ Quiesced(e, now).state = "quiescent"
         /\ Quiesced(e, now).revision = e.revision + 1
<1> DEFINE f == [e EXCEPT !.state = "quiescent", !.severity = 0, !.last_updated = now,
                          !.revision = @ + 1, !.observations = @ + 1]
<1>1. e \in Episode
  BY DEF Accounted
<1>2. /\ f.transitions = e.transitions /\ f.transitions_dropped = e.transitions_dropped
      /\ f.assessments = e.assessments /\ f.assessments_dropped = e.assessments_dropped
      /\ f.history_truncated = e.history_truncated
      /\ f.revision = e.revision + 1 /\ f.observations = e.observations + 1
      /\ f.state = "quiescent" /\ f.severity = 0 /\ f.peak = e.peak
  BY <1>1 DEF Episode
<1>3. f \in Episode
  <2>1. e.observations + 1 \in Nat /\ e.revision + 1 \in Nat \ {0} /\ 0 \in Severity
    BY <1>1 DEF Episode, Severity
  <2>2. QED
    BY <1>1, <2>1 DEF Episode, State
<1>4. e.peak <= f.peak /\ f.severity <= f.peak
  BY <1>1, <1>2 DEF Episode, Severity
<1>5. "quiesced" \in Kind /\ "quiesced" \in Leads[f.state]
  BY <1>2 DEF Kind, Leads
<1>6. Quiesced(e, now) = append_assessment(append_transition(f, "quiesced", e.severity), FALSE)
  BY DEF Quiesced
<1> HIDE DEF f
<1>7. Revised(f, e)
  BY <1>2, <1>3, <1>4 DEF Revised
<1>8. \A asserted \in BOOLEAN :
        LET h == append_assessment(append_transition(f, "quiesced", e.severity), asserted)
        IN  Accounted(h) /\ h.state = f.state /\ h.revision = f.revision
  BY <1>2, <1>5, <1>7, RevisedObservation
<1>9. QED
  BY <1>2, <1>6, <1>8, Zenon

LEMMA AdvancedAccounted ==
  ASSUME NEW e, Accounted(e), NEW now \in Nat
  PROVE  \/ Due(e, now) = e.state /\ Advanced(e, now) = e
         \/ /\ Due(e, now) # e.state
            /\ Accounted(Advanced(e, now))
            /\ Advanced(e, now).state = Due(e, now)
            /\ Advanced(e, now).last_seen = e.last_seen
            /\ Advanced(e, now).revision = e.revision + 1
<1> DEFINE due == Due(e, now)
           f == [e EXCEPT !.state = due, !.last_updated = now, !.revision = @ + 1,
                          !.severity = IF due \in Terminal THEN 0 ELSE @]
           kind == IF due = "quiescent" THEN "quiesced" ELSE due
<1>1. e \in Episode
  BY DEF Accounted
<1>2. CASE due = e.state
  BY <1>2 DEF Advanced
<1>3. CASE due # e.state
  <2>1. due \in {"quiescent", "resolved", "expired"}
    BY <1>3 DEF Due
  <2> HIDE DEF due
  <2>2. /\ f.transitions = e.transitions /\ f.transitions_dropped = e.transitions_dropped
        /\ f.assessments = e.assessments /\ f.assessments_dropped = e.assessments_dropped
        /\ f.history_truncated = e.history_truncated
        /\ f.revision = e.revision + 1 /\ f.observations = e.observations
        /\ f.state = due /\ f.severity = (IF due \in Terminal THEN 0 ELSE e.severity)
        /\ f.peak = e.peak /\ f.last_seen = e.last_seen
    BY <1>1 DEF Episode
  <2>3. f \in Episode
    <3>1. /\ e.revision + 1 \in Nat \ {0} /\ due \in State
          /\ (IF due \in Terminal THEN 0 ELSE e.severity) \in Severity
      BY <1>1, <2>1 DEF Episode, Severity, State
    <3>2. QED
      BY <1>1, <3>1 DEF Episode
  <2>4. e.peak <= f.peak /\ f.severity <= f.peak
    <3>1. e.severity <= e.peak
      BY DEF Accounted, PeakOf
    <3>2. e.peak \in Nat /\ e.severity \in Nat
      BY <1>1 DEF Episode, Severity
    <3>3. QED
      BY <2>2, <3>1, <3>2
  <2>5. kind \in Kind /\ kind \in Leads[f.state]
    BY <2>1, <2>2 DEF Kind, Leads
  <2>6. Advanced(e, now) = append_transition(f, kind, e.severity)
    BY <1>3 DEF Advanced, due
  <2> HIDE DEF f, kind
  <2>7. Revised(f, e)
    BY <2>2, <2>3, <2>4 DEF Revised
  <2>8. QED
    BY <1>3, <2>2, <2>5, <2>6, <2>7, RevisedTransition DEF due
<1>4. QED
  BY <1>2, <1>3

-----------------------------------------------------------------------------
(***************************************************************************)
(* The registry.                                                           *)
(***************************************************************************)
LEMMA LeastExists ==
  ASSUME NEW S, S \subseteq Nat, S # {}
  PROVE  \E x \in S : \A y \in S : x <= y
<1> DEFINE R == {ss \in Nat \X Nat : ss[1] < ss[2]}
<1>1. IsWellFoundedOn(R, Nat)
  BY NatLessThanWellFounded, Zenon DEF OpToRel
<1>2. PICK x \in S : \A y \in S : ~(<<y, x>> \in R)
  <2> HIDE DEF R
  <2> QED BY <1>1, WFMin
<1>3. ASSUME NEW y \in S PROVE x <= y
  <2>1. x \in Nat /\ y \in Nat
    OBVIOUS
  <2>2. ~(y < x)
    BY <1>2, <2>1
  <2>3. QED
    BY <2>1, <2>2
<1>4. QED
  BY <1>3

\* The closed episode that makes room is one of the registry's closed episodes.
LEMMA VictimDisplaceable ==
  ASSUME TypeOK, Displaceable # {}
  PROVE  Victim \in Displaceable
<1> DEFINE age(id) == episodes[id].last_updated
           Older(a, b) == \/ age(a) < age(b)
                          \/ age(a) = age(b) /\ a <= b
           ages == {age(id) : id \in Displaceable}
<1>1. \A id \in Displaceable : id \in Nat /\ age(id) \in Nat
  BY RegistryAssumption DEF TypeOK, Episode, Displaceable
<1> HIDE DEF age
<1>2. PICK m \in ages : \A n \in ages : m <= n
  <2>1. ages \subseteq Nat /\ ages # {}
    BY <1>1
  <2> HIDE DEF ages
  <2> QED BY <2>1, LeastExists
<1> DEFINE oldest == {id \in Displaceable : age(id) = m}
<1>3. PICK v \in oldest : \A w \in oldest : v <= w
  <2>1. oldest \subseteq Nat /\ oldest # {}
    BY <1>1, <1>2
  <2> HIDE DEF oldest
  <2> QED BY <2>1, LeastExists
<1>4. ASSUME NEW other \in Displaceable PROVE Older(v, other)
  <2>1. age(v) = m /\ m \in Nat /\ age(other) \in Nat /\ m <= age(other)
    BY <1>1, <1>2, <1>3
  <2>2. CASE age(other) = m
    BY <1>3, <2>1, <2>2
  <2>3. CASE age(other) # m
    BY <2>1, <2>3
  <2>4. QED
    BY <2>2, <2>3
<1>5. \E w \in Displaceable : \A other \in Displaceable : Older(w, other)
  BY <1>3, <1>4
<1>6. Victim = CHOOSE w \in Displaceable : \A other \in Displaceable : Older(w, other)
  BY DEF Victim, age
<1> HIDE DEF Older
<1>7. QED
  BY <1>5, <1>6

\* Every episode of registry f is accounted for, and idle for its window when
\* it is closed.
Sound(f, t) ==
  /\ DOMAIN f \subseteq Ids
  /\ f = [id \in DOMAIN f |-> f[id]]
  /\ \A id \in DOMAIN f : Accounted(f[id]) /\ IdleAt(f[id], t)

\* The inductive invariant: the registry and the snapshot it may be restored
\* from are sound, and the registry is within its limit.
IndInv ==
  /\ dropped \in Nat /\ clock \in Nat
  /\ Sound(episodes, clock) /\ Sound(saved, clock)
  /\ RegistryBounded

LEMMA IndInvType ==
  ASSUME IndInv
  PROVE  TypeOK
BY DEF IndInv, Sound, Accounted, TypeOK

LEMMA SoundLater ==
  ASSUME NEW f, NEW t \in Nat, NEW u \in Nat, t <= u, Sound(f, t)
  PROVE  Sound(f, u)
<1>1. ASSUME NEW id \in DOMAIN f PROVE IdleAt(f[id], u)
  <2>1. IdleAt(f[id], t) /\ f[id].last_seen \in Nat
    BY DEF Sound, Accounted, Episode
  <2>2. 2 * resolve_after \in Nat /\ expire_after \in Nat
    BY RegistryAssumption
  <2>3. \A w \in Nat : t - f[id].last_seen > w => u - f[id].last_seen > w
    BY <2>1
  <2>4. QED
    BY <2>1, <2>2, <2>3 DEF IdleAt
<1>2. QED
  BY <1>1 DEF Sound

\* An open or a quiet episode needs no idle time.
LEMMA LiveIdleAt ==
  ASSUME NEW e, NEW t, e.state \in {"open", "quiescent"}
  PROVE  IdleAt(e, t)
BY DEF IdleAt

LEMMA PutSound ==
  ASSUME NEW f, NEW t, Sound(f, t), NEW id \in Ids, NEW e, Accounted(e), IdleAt(e, t)
  PROVE  Sound(Put(f, id, e), t)
BY DEF Sound, Put

LEMMA WithoutSound ==
  ASSUME NEW f, NEW t, Sound(f, t), NEW S
  PROVE  Sound(Without(f, S), t)
BY DEF Sound, Without

LEMMA RegistryFinite ==
  ASSUME IndInv
  PROVE  IsFiniteSet(DOMAIN episodes) /\ Cardinality(DOMAIN episodes) \in Nat
<1>1. IsFiniteSet(DOMAIN episodes)
  BY RegistryAssumption, FS_Subset DEF IndInv, Sound
<1>2. QED
  BY <1>1, FS_CardinalityType

\* The clock of an operation: not before the one given, nor before the last.
LEMMA AtAdvances ==
  ASSUME IndInv, NEW now \in Times, At(now)
  PROVE  now \in Nat /\ clock' \in Nat /\ clock <= clock' /\ now <= clock'
BY RegistryAssumption DEF IndInv, At

-----------------------------------------------------------------------------
(***************************************************************************)
(* Every operation preserves the invariant.                                *)
(***************************************************************************)
\* Operations that keep the ids of the registry and change episodes one by one.
LEMMA InPlace ==
  ASSUME IndInv, clock' \in Nat, clock <= clock', UNCHANGED <<dropped, saved>>,
         DOMAIN episodes' = DOMAIN episodes,
         episodes' = [id \in DOMAIN episodes |-> episodes'[id]],
         \A id \in DOMAIN episodes :
            \/ episodes'[id] = episodes[id]
            \/ Accounted(episodes'[id]) /\ IdleAt(episodes'[id], clock')
  PROVE  IndInv'
<1>1. Sound(episodes, clock') /\ Sound(saved', clock')
  BY SoundLater DEF IndInv
<1>2. Sound(episodes', clock')
  BY <1>1 DEF Sound
<1>3. RegistryBounded'
  BY DEF IndInv, RegistryBounded
<1>4. QED
  BY <1>1, <1>2, <1>3 DEF IndInv

LEMMA ObserveQuietInv ==
  ASSUME IndInv, NEW subject \in Scopes, NEW now \in Times, ObserveQuiet(subject, now)
  PROVE  IndInv'
<1>1. now \in Nat /\ clock' \in Nat /\ clock <= clock'
  BY AtAdvances DEF ObserveQuiet
<1>2. /\ episodes' = [id \in DOMAIN episodes |->
                     IF scope[id] = subject /\ episodes[id].state = "open"
                     THEN Quiesced(episodes[id], now) ELSE episodes[id]]
      /\ UNCHANGED <<dropped, saved>>
  BY DEF ObserveQuiet
<1>3. ASSUME NEW id \in DOMAIN episodes
      PROVE  Accounted(Quiesced(episodes[id], now)) /\ IdleAt(Quiesced(episodes[id], now), clock')
  <2>1. Accounted(episodes[id])
    BY DEF IndInv, Sound
  <2>2. /\ Accounted(Quiesced(episodes[id], now))
        /\ Quiesced(episodes[id], now).state = "quiescent"
    BY <1>1, <2>1, QuiescedAccounted
  <2>3. QED
    BY <2>2, LiveIdleAt
<1>4. \A id \in DOMAIN episodes : \/ episodes'[id] = episodes[id]
                                  \/ Accounted(episodes'[id]) /\ IdleAt(episodes'[id], clock')
  BY <1>2, <1>3
<1>5. DOMAIN episodes' = DOMAIN episodes /\ episodes' = [id \in DOMAIN episodes |-> episodes'[id]]
  BY <1>2
<1>6. QED
  BY <1>1, <1>2, <1>4, <1>5, InPlace

LEMMA ObserveRefreshedInv ==
  ASSUME IndInv, NEW id \in Ids, NEW severity \in Severities, NEW now \in Times,
         ObserveRefreshed(id, severity, now)
  PROVE  IndInv'
<1>1. now \in Nat /\ clock' \in Nat /\ clock <= clock'
  BY AtAdvances DEF ObserveRefreshed
<1>2. /\ episodes' = [episodes EXCEPT ![id] = Refreshed(episodes[id], severity, now)]
      /\ UNCHANGED <<dropped, saved>> /\ id \in DOMAIN episodes
  BY DEF ObserveRefreshed
<1>3. /\ Accounted(Refreshed(episodes[id], severity, now))
      /\ IdleAt(Refreshed(episodes[id], severity, now), clock')
  BY <1>1, <1>2, RefreshedAccounted, LiveIdleAt DEF IndInv, Sound
<1>4. \A i \in DOMAIN episodes : \/ episodes'[i] = episodes[i]
                                 \/ Accounted(episodes'[i]) /\ IdleAt(episodes'[i], clock')
  BY <1>2, <1>3
<1>5. DOMAIN episodes' = DOMAIN episodes /\ episodes' = [i \in DOMAIN episodes |-> episodes'[i]]
  BY <1>2
<1>6. QED
  BY <1>1, <1>2, <1>4, <1>5, InPlace

LEMMA AdvanceInv ==
  ASSUME IndInv, NEW now \in Times, NEW visited \in Walks, advance(now, visited)
  PROVE  IndInv'
<1>1. now \in Nat /\ clock' \in Nat /\ clock <= clock' /\ now <= clock' /\ clock \in Nat
  BY AtAdvances DEF advance, IndInv
<1>2. /\ episodes' = [id \in DOMAIN episodes |->
                     IF id \in visited THEN Advanced(episodes[id], now) ELSE episodes[id]]
      /\ UNCHANGED <<dropped, saved>>
  BY DEF advance
<1>3. ASSUME NEW id \in DOMAIN episodes
      PROVE  \/ Advanced(episodes[id], now) = episodes[id]
             \/ /\ Accounted(Advanced(episodes[id], now))
                /\ IdleAt(Advanced(episodes[id], now), clock')
  <2> DEFINE e == episodes[id]
  <2>1. Accounted(e) /\ e.last_seen \in Nat
    BY DEF IndInv, Sound, Accounted, Episode
  <2>2. CASE Due(e, now) = e.state
    BY <1>1, <2>1, <2>2, AdvancedAccounted
  <2>3. CASE Due(e, now) # e.state
    <3>1. /\ Accounted(Advanced(e, now)) /\ Advanced(e, now).state = Due(e, now)
          /\ Advanced(e, now).last_seen = e.last_seen
      BY <1>1, <2>1, <2>3, AdvancedAccounted
    <3> HIDE DEF e
    <3>2. /\ Due(e, now) = "resolved" => now - e.last_seen > 2 * resolve_after
          /\ Due(e, now) = "expired" => now - e.last_seen > expire_after
      BY <2>3 DEF Due
    <3>3. 2 * resolve_after \in Nat /\ expire_after \in Nat
      BY RegistryAssumption
    <3>4. \A w \in Nat : now - e.last_seen > w => clock' - e.last_seen > w
      BY <1>1, <2>1
    <3>5. IdleAt(Advanced(e, now), clock')
      BY <3>1, <3>2, <3>3, <3>4 DEF IdleAt
    <3>6. QED
      BY <3>1, <3>5 DEF e
  <2>4. QED
    BY <2>2, <2>3
<1>4. \A id \in DOMAIN episodes : \/ episodes'[id] = episodes[id]
                                  \/ Accounted(episodes'[id]) /\ IdleAt(episodes'[id], clock')
  BY <1>2, <1>3
<1>5. DOMAIN episodes' = DOMAIN episodes /\ episodes' = [id \in DOMAIN episodes |-> episodes'[id]]
  BY <1>2
<1>6. QED
  BY <1>1, <1>2, <1>4, <1>5, InPlace

LEMMA ObserveOpenedInv ==
  ASSUME IndInv, NEW id \in Ids, NEW severity \in Severities, NEW now \in Times,
         ObserveOpened(id, severity, now)
  PROVE  IndInv'
<1>1. now \in Nat /\ clock' \in Nat /\ clock <= clock' /\ clock \in Nat
  BY AtAdvances DEF ObserveOpened, IndInv
<1>2. Sound(episodes, clock') /\ Sound(saved, clock')
  BY <1>1, SoundLater DEF IndInv
<1>3. Accounted(Opened(severity, now)) /\ IdleAt(Opened(severity, now), clock')
  BY <1>1, OpenedAccounted, LiveIdleAt
<1>4. Sound(episodes', clock') /\ Sound(saved', clock') /\ dropped' \in Nat
  BY <1>2, <1>3, PutSound DEF ObserveOpened, IndInv
<1>5. RegistryBounded'
  <2>1. DOMAIN episodes' = DOMAIN episodes \cup {id} /\ id \notin DOMAIN episodes
    BY DEF ObserveOpened, Put
  <2>2. Cardinality(DOMAIN episodes') = Cardinality(DOMAIN episodes) + 1
    BY <2>1, RegistryFinite, FS_AddElement
  <2>3. Cardinality(DOMAIN episodes) \in Nat /\ ~(Cardinality(DOMAIN episodes) >= max_episodes)
    BY RegistryFinite DEF ObserveOpened, Full
  <2>4. QED
    BY <2>2, <2>3, RegistryAssumption DEF RegistryBounded
<1>6. QED
  BY <1>1, <1>4, <1>5 DEF IndInv

LEMMA ObserveDisplacingInv ==
  ASSUME IndInv, NEW id \in Ids, NEW severity \in Severities, NEW now \in Times,
         ObserveDisplacing(id, severity, now)
  PROVE  IndInv'
<1>1. now \in Nat /\ clock' \in Nat /\ clock <= clock' /\ clock \in Nat
  BY AtAdvances DEF ObserveDisplacing, IndInv
<1>2. Sound(episodes, clock') /\ Sound(saved, clock')
  BY <1>1, SoundLater DEF IndInv
<1>3. Accounted(Opened(severity, now)) /\ IdleAt(Opened(severity, now), clock')
  BY <1>1, OpenedAccounted, LiveIdleAt
<1>4. Sound(episodes', clock') /\ Sound(saved', clock') /\ dropped' \in Nat
  BY <1>2, <1>3, PutSound, WithoutSound DEF ObserveDisplacing, IndInv
<1>5. RegistryBounded'
  <2> DEFINE D == DOMAIN episodes
  <2>1. Victim \in D
    BY IndInvType, VictimDisplaceable DEF ObserveDisplacing, Displaceable
  <2>2. DOMAIN episodes' = (D \ {Victim}) \cup {id} /\ id \notin D
    BY DEF ObserveDisplacing, Put, Without
  <2>3. IsFiniteSet(D) /\ Cardinality(D) \in Nat
    BY RegistryFinite
  <2> HIDE DEF D
  <2>4. IsFiniteSet(D \ {Victim}) /\ Cardinality(D \ {Victim}) = Cardinality(D) - 1
    BY <2>1, <2>3, FS_RemoveElement
  <2>5. Cardinality((D \ {Victim}) \cup {id}) = Cardinality(D \ {Victim}) + 1
    BY <2>2, <2>4, FS_AddElement
  <2>6. Cardinality(DOMAIN episodes') = Cardinality(D)
    BY <2>2, <2>3, <2>4, <2>5
  <2>7. QED
    BY <2>6 DEF IndInv, RegistryBounded, D
<1>6. QED
  BY <1>1, <1>4, <1>5 DEF IndInv

LEMMA ObserveRefusedInv ==
  ASSUME IndInv, NEW id \in Ids, NEW now \in Times, ObserveRefused(id, now)
  PROVE  IndInv'
<1>1. clock' \in Nat /\ clock <= clock' /\ clock \in Nat
  BY AtAdvances DEF ObserveRefused, IndInv
<1>2. Sound(episodes', clock') /\ Sound(saved', clock') /\ dropped' \in Nat
  BY <1>1, SoundLater DEF ObserveRefused, IndInv
<1>3. QED
  BY <1>1, <1>2 DEF IndInv, ObserveRefused, RegistryBounded

LEMMA RestoreInv ==
  ASSUME IndInv, NEW id \in Ids, restore(id)
  PROVE  IndInv'
<1>1. Sound(episodes', clock') /\ Sound(saved', clock')
  <2>1. Accounted(saved[id]) /\ IdleAt(saved[id], clock)
    BY DEF IndInv, Sound, restore
  <2>2. QED
    BY <2>1, PutSound DEF IndInv, restore
<1>2. DOMAIN episodes' = DOMAIN episodes \cup {id}
  BY DEF restore, Put
<1>3. RegistryBounded'
  <2>1. CASE id \in DOMAIN episodes
    BY <1>2, <2>1 DEF IndInv, RegistryBounded
  <2>2. CASE id \notin DOMAIN episodes
    <3>1. Cardinality(DOMAIN episodes') = Cardinality(DOMAIN episodes) + 1
      BY <1>2, <2>2, RegistryFinite, FS_AddElement
    <3>2. Cardinality(DOMAIN episodes) \in Nat /\ ~(Cardinality(DOMAIN episodes) >= max_episodes)
      BY <2>2, RegistryFinite DEF restore, Full
    <3>3. QED
      BY <3>1, <3>2, RegistryAssumption DEF RegistryBounded
  <2>3. QED
    BY <2>1, <2>2
<1>4. QED
  BY <1>1, <1>3 DEF IndInv, restore

LEMMA InitInv ==
  ASSUME Init
  PROVE  IndInv
<1>1. DOMAIN episodes = {} /\ Cardinality(DOMAIN episodes) = 0
  BY FS_EmptySet DEF Init
<1>2. RegistryBounded
  BY <1>1, RegistryAssumption DEF RegistryBounded
<1>3. QED
  BY <1>2 DEF Init, IndInv, Sound

LEMMA NextInv ==
  ASSUME IndInv, [Next]_vars
  PROVE  IndInv'
<1>1. CASE UNCHANGED vars
  BY <1>1 DEF vars, IndInv, RegistryBounded
<1>2. ASSUME NEW now \in Times, observe(now) PROVE IndInv'
  BY <1>2, ObserveQuietInv, ObserveOpenedInv, ObserveDisplacingInv, ObserveRefreshedInv,
     ObserveRefusedInv DEF observe
<1>3. ASSUME NEW now \in Times, NEW visited \in Walks, advance(now, visited) PROVE IndInv'
  BY <1>3, AdvanceInv
<1>4. CASE all
  BY <1>4 DEF all, IndInv, RegistryBounded
<1>5. ASSUME NEW id \in Ids, restore(id) PROVE IndInv'
  BY <1>5, RestoreInv
<1>6. CASE Restart
  <2>1. DOMAIN episodes' = {} /\ Cardinality(DOMAIN episodes') = 0
    BY <1>6, FS_EmptySet DEF Restart
  <2>2. RegistryBounded'
    BY <2>1, RegistryAssumption DEF RegistryBounded
  <2>3. QED
    BY <1>6, <2>2 DEF Restart, IndInv, Sound
<1>7. QED
  BY <1>1, <1>2, <1>3, <1>4, <1>5, <1>6 DEF Next

\* The inductive invariant of the registry (episode.cpp): at every state its
\* episodes, and those of the copy a snapshot took, are sound with respect to the
\* latest time used, and there are at most max_episodes of them.
THEOREM Invariance == Spec => []IndInv
<1>1. Init => IndInv
  BY InitInv
<1>2. IndInv /\ [Next]_vars => IndInv'
  BY NextInv
<1>3. QED
  BY <1>1, <1>2, PTL DEF Spec

\* RegistryInv, the invariant of the episode registry (episode.cpp): it is well
\* formed and never exceeds max_episodes, and the transitions and counters of
\* every episode account for its revision, state, severity, peak and
\* observations, for every limit, window and set of ids.
THEOREM RegistryCorrect == Spec => []RegistryInv
<1>1. IndInv => RegistryInv
  BY IndInvType DEF RegistryInv, IndInv, HistoryAccounts, PeakCoversHistory, Sound, Accounted
<1>2. QED
  BY <1>1, Invariance, PTL

\* ClosedOnlyWhenIdle: an episode found resolved or expired was last asserted
\* its window ago, however late operations arrive and whatever was restored.
THEOREM ClosedWhenIdle == Spec => []ClosedOnlyWhenIdle
<1>1. IndInv => ClosedOnlyWhenIdle
  BY DEF IndInv, Sound, IdleAt, ClosedOnlyWhenIdle
<1>2. QED
  BY <1>1, Invariance, PTL

\* LiveNeverDisplaced (docs/limits.md): short of a restart only a closed episode
\* leaves the registry, one at a time and counted.
THEOREM LiveKept == Spec => LiveNeverDisplaced
<1>1. ASSUME IndInv, [Next]_vars PROVE [LiveStays]_vars
  <2>1. ASSUME DOMAIN episodes \subseteq DOMAIN episodes' PROVE LiveStays
    BY <2>1 DEF LiveStays
  <2>2. ASSUME NEW now \in Times, observe(now) PROVE LiveStays
    <3>1. ASSUME NEW id \in Ids, NEW severity \in Severities, ObserveDisplacing(id, severity, now)
          PROVE  LiveStays
      <4>1. Victim \in Displaceable
        BY <1>1, <3>1, IndInvType, VictimDisplaceable DEF ObserveDisplacing
      <4>2. DOMAIN episodes' = (DOMAIN episodes \ {Victim}) \cup {id} /\ id \notin DOMAIN episodes
            /\ dropped' = dropped + 1
        BY <3>1 DEF ObserveDisplacing, Put, Without
      <4>3. DOMAIN episodes \ DOMAIN episodes' = {Victim}
        BY <4>1, <4>2 DEF Displaceable
      <4>4. QED
        BY <4>1, <4>2, <4>3 DEF LiveStays, Displaceable
    <3>2. ASSUME NEW subject \in Scopes, ObserveQuiet(subject, now) PROVE LiveStays
      BY <2>1, <3>2 DEF ObserveQuiet
    <3>3. ASSUME NEW id \in Ids, NEW severity \in Severities, ObserveOpened(id, severity, now)
          PROVE  LiveStays
      BY <2>1, <3>3 DEF ObserveOpened, Put
    <3>4. ASSUME NEW id \in Ids, NEW severity \in Severities, ObserveRefreshed(id, severity, now)
          PROVE  LiveStays
      BY <2>1, <3>4 DEF ObserveRefreshed
    <3>5. ASSUME NEW id \in Ids, ObserveRefused(id, now) PROVE LiveStays
      BY <2>1, <3>5 DEF ObserveRefused
    <3>6. QED
      BY <2>2, <3>1, <3>2, <3>3, <3>4, <3>5 DEF observe
  <2>3. ASSUME NEW now \in Times, NEW visited \in Walks, advance(now, visited) PROVE LiveStays
    BY <2>1, <2>3 DEF advance
  <2>4. CASE all
    BY <2>1, <2>4 DEF all
  <2>5. ASSUME NEW id \in Ids, restore(id) PROVE LiveStays
    BY <2>1, <2>5 DEF restore, Put
  <2>6. CASE Restart
    BY <2>6 DEF Restart, LiveStays, Restarted
  <2>7. QED
    BY <1>1, <2>2, <2>3, <2>4, <2>5, <2>6 DEF Next
<1>2. QED
  BY <1>1, Invariance, PTL DEF Spec, LiveNeverDisplaced

\* RevisionNeverRetreats: no operation lowers the revision of an episode it
\* finds, and only a restore changes an episode without advancing it.
THEOREM RevisionsKept == Spec => RevisionNeverRetreats
<1>1. ASSUME IndInv, [Next]_vars PROVE [RevisionsAdvance]_vars
  <2>1. \A id \in DOMAIN episodes : Accounted(episodes[id]) /\ episodes[id].revision \in Nat
    BY <1>1 DEF IndInv, Sound, Accounted, Episode
  <2>2. \A now \in Times : now \in Nat
    BY RegistryAssumption
  <2>3. ASSUME NEW now \in Times, observe(now) PROVE RevisionsAdvance
    <3>1. ASSUME NEW id \in Ids, NEW severity \in Severities, ObserveDisplacing(id, severity, now)
          PROVE  RevisionsAdvance
      BY <3>1 DEF ObserveDisplacing, Put, Without, RevisionsAdvance
    <3>2. ASSUME NEW subject \in Scopes, ObserveQuiet(subject, now) PROVE RevisionsAdvance
      <4>1. \A id \in DOMAIN episodes :
              Quiesced(episodes[id], now).revision = episodes[id].revision + 1
        BY <2>1, <2>2, QuiescedAccounted
      <4>2. \A id \in DOMAIN episodes : \/ episodes'[id] = episodes[id]
                                        \/ episodes'[id] = Quiesced(episodes[id], now)
        BY <3>2 DEF ObserveQuiet
      <4>3. QED
        BY <2>1, <4>1, <4>2 DEF RevisionsAdvance
    <3>3. ASSUME NEW id \in Ids, NEW severity \in Severities, ObserveOpened(id, severity, now)
          PROVE  RevisionsAdvance
      BY <3>3 DEF ObserveOpened, Put, RevisionsAdvance
    <3>4. ASSUME NEW id \in Ids, NEW severity \in Severities, ObserveRefreshed(id, severity, now)
          PROVE  RevisionsAdvance
      <4>1. id \in DOMAIN episodes
            /\ episodes' = [episodes EXCEPT ![id] = Refreshed(episodes[id], severity, now)]
        BY <3>4 DEF ObserveRefreshed
      <4>2. Refreshed(episodes[id], severity, now).revision = episodes[id].revision + 1
        BY <2>1, <2>2, <4>1, RefreshedAccounted
      <4>3. QED
        BY <2>1, <4>1, <4>2 DEF RevisionsAdvance
    <3>5. ASSUME NEW id \in Ids, ObserveRefused(id, now) PROVE RevisionsAdvance
      BY <3>5 DEF ObserveRefused, RevisionsAdvance
    <3>6. QED
      BY <2>3, <3>1, <3>2, <3>3, <3>4, <3>5 DEF observe
  <2>4. ASSUME NEW now \in Times, NEW visited \in Walks, advance(now, visited)
        PROVE  RevisionsAdvance
    <3>1. \A id \in DOMAIN episodes :
            \/ Advanced(episodes[id], now) = episodes[id]
            \/ Advanced(episodes[id], now).revision = episodes[id].revision + 1
      BY <2>1, <2>2, AdvancedAccounted
    <3>2. \A id \in DOMAIN episodes : \/ episodes'[id] = episodes[id]
                                      \/ episodes'[id] = Advanced(episodes[id], now)
      BY <2>4 DEF advance
    <3>3. QED
      BY <2>1, <3>1, <3>2 DEF RevisionsAdvance
  <2>5. CASE all
    BY <2>5 DEF all, RevisionsAdvance
  <2>6. ASSUME NEW id \in Ids, restore(id) PROVE RevisionsAdvance
    <3>1. \A i \in DOMAIN episodes \cap DOMAIN episodes' : i # id => episodes'[i] = episodes[i]
      BY <2>6 DEF restore, Put
    <3>2. ASSUME id \in DOMAIN episodes
          PROVE  episodes'[id].revision \in Nat /\ episodes[id].revision <= episodes'[id].revision
      <4>1. episodes'[id] = saved[id] /\ episodes[id].revision <= saved[id].revision
        BY <2>6, <3>2 DEF restore, Put
      <4>2. saved[id].revision \in Nat
        BY <1>1, <2>6 DEF IndInv, Sound, Accounted, Episode, restore
      <4>3. QED
        BY <4>1, <4>2
    <3>3. ASSUME id \in DOMAIN episodes
          PROVE  \/ episodes'[id].revision > episodes[id].revision
                 \/ restore(id) /\ episodes'[id].revision = episodes[id].revision
      BY <2>1, <2>6, <3>2, <3>3
    <3> HIDE DEF restore
    <3>4. QED
      BY <3>1, <3>3 DEF RevisionsAdvance
  <2>7. CASE Restart
    BY <2>7 DEF Restart, RevisionsAdvance, Restarted
  <2>8. QED
    BY <1>1, <2>3, <2>4, <2>5, <2>6, <2>7 DEF Next
<1>2. QED
  BY <1>1, Invariance, PTL DEF Spec, RevisionNeverRetreats
=============================================================================
