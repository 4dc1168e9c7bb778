-------------------------- MODULE MCEvidenceStore --------------------------
(***************************************************************************)
(* Small instances of EvidenceStore.                                       *)
(***************************************************************************)
EXTENDS EvidenceStore

CONSTANTS c1, c2, c3

Vec(b, i, e, g, r, q) == [boot |-> b, incarnation |-> i, epoch |-> e,
                          generation |-> g, revision |-> r, sequence |-> q]

\* Collector c1 sends two records of its first boot, observed in the opposite
\* order, one that would change its incarnation without a reboot and one of its
\* second boot; collectors c2 and c3 send one each.
Sound ==
  LET From(c, S, f, t) == [source : {c}, subject : S, fence : {f},
                           observed_at : {t}, authority : {1}, valid : {TRUE}]
  IN  From(c1, {1, 2}, Vec(1, 1, 1, 1, 1, 1), 2)
        \cup From(c1, {1, 2}, Vec(1, 1, 1, 1, 1, 2), 1)
        \cup From(c1, {1}, Vec(1, 2, 1, 1, 1, 1), 2)
        \cup From(c1, {1, 2}, Vec(2, 2, 1, 1, 1, 1), 2)
        \cup From(c2, {1, 2}, Vec(1, 1, 1, 1, 1, 1), 1)
        \cup From(c3, {1}, Vec(1, 1, 1, 1, 1, 1), 1)

\* What is refused: malformed, of a subject the topology does not know, without
\* an incarnation, without authority.
Unsound ==
  LET Like(s, i, a, v) == [source |-> c1, subject |-> s, observed_at |-> 1,
                           fence |-> Vec(1, i, 1, 1, 1, 1),
                           authority |-> a, valid |-> v]
  IN  {Like(1, 1, 1, FALSE), Like(3, 1, 1, TRUE), Like(1, 0, 1, TRUE),
       Like(1, 1, 0, TRUE)}

StoreInputs == Sound \cup Unsound

\* Records that were saved, before or after their source rebooted, and one of
\* a damaged snapshot.
StoreRecoverable ==
  LET Saved(c, s, q, t, retired, valid) ==
        [source |-> c, subject |-> s, fence |-> Vec(1, 1, 1, 1, 1, q),
         observed_at |-> t, retired |-> retired, valid |-> valid]
  IN  {Saved(c1, s, 2, 1, r, TRUE) : s \in {1, 2}, r \in BOOLEAN}
        \cup {Saved(c2, 1, 1, 2, FALSE, TRUE), Saved(c2, 2, 1, 1, FALSE, FALSE)}

Collectors == {c1, c2, c3}
=============================================================================
