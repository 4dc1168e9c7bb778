------------------------------- MODULE Fence -------------------------------
(***************************************************************************)
(* The fencing decision of src/src/model/generation.cpp as pure operators. *)
(*                                                                         *)
(* Every record carries a fence vector: the boot and incarnation of the    *)
(* source that produced it, the generation vector (epoch, generation,      *)
(* revision) it was observed under and a sequence number.  The store keeps *)
(* the last accepted vector of each source and lets evaluate_fence decide  *)
(* whether an incoming vector supersedes it.                               *)
(*                                                                         *)
(* The source identity of a vector is not part of the record here: the     *)
(* store only reaches evaluate_fence after validate_evidence has required  *)
(* a valid source equal to the provenance source, so the branch            *)
(* kRejectedUnknownSource is dead.  Numbers are 64-bit in the code; the    *)
(* only arithmetic, last.sequence + 1, is evaluated when the incoming      *)
(* sequence is greater than last.sequence and cannot wrap.                 *)
(***************************************************************************)
EXTENDS Naturals

FenceVector == [boot : Nat, incarnation : Nat, epoch : Nat,
                generation : Nat, revision : Nat, sequence : Nat]

\* The default constructed vector of a source that was never accepted.
ZeroFence == [boot |-> 0, incarnation |-> 0, epoch |-> 0,
              generation |-> 0, revision |-> 0, sequence |-> 0]

\* SourceFenceState: what the store remembers of a source.
SourceFenceState == [last : FenceVector, has_state : BOOLEAN, live : BOOLEAN,
                     accepted : Nat, rejected : Nat]

NewSource == [last |-> ZeroFence, has_state |-> FALSE, live |-> FALSE,
              accepted |-> 0, rejected |-> 0]

-----------------------------------------------------------------------------
(***************************************************************************)
(* Lexicographic, except that a higher epoch must not lower the            *)
(* generation: such a vector is inconsistent and cannot be ordered.        *)
(***************************************************************************)
compare_generation(candidate, reference) ==
  LET Order(a, b) == IF a < b THEN "older" ELSE "newer"
  IN  IF candidate.epoch = reference.epoch
      THEN IF candidate.generation # reference.generation
           THEN Order(candidate.generation, reference.generation)
           ELSE IF candidate.revision # reference.revision
                THEN Order(candidate.revision, reference.revision)
                ELSE "equal"
      ELSE IF /\ candidate.epoch > reference.epoch
              /\ candidate.generation < reference.generation
           THEN "incomparable"
           ELSE Order(candidate.epoch, reference.epoch)

\* The most specific reason an older generation vector is refused.
StaleReason(incoming, last) ==
  IF incoming.epoch < last.epoch THEN "rejected_stale_epoch"
  ELSE IF incoming.generation < last.generation
       THEN "rejected_stale_generation"
       ELSE "rejected_stale_revision"

\* Mutant: a repeated sequence number passes as in order.
SequenceDecision_AllowsRepeat(incoming, last) ==
  IF incoming.sequence < last.sequence THEN "rejected_replayed_sequence"
  ELSE IF incoming.sequence > last.sequence + 1
       THEN "accepted_gap_detected"
       ELSE "accepted_in_order"

\* The sequence has to advance inside one epoch and generation.
SequenceDecision(incoming, last) ==
  IF incoming.sequence <= last.sequence THEN "rejected_replayed_sequence"
  ELSE IF incoming.sequence > last.sequence + 1
       THEN "accepted_gap_detected"
       ELSE "accepted_in_order"

\* Same boot and incarnation: the generation vector decides, then the
\* sequence.  A new epoch or generation restarts the sequence; a new revision
\* does not.
GenerationDecision(incoming, last) ==
  LET order == compare_generation(incoming, last)
  IN  IF order = "older" THEN StaleReason(incoming, last)
      ELSE IF order = "incomparable"
           THEN "rejected_incomparable_generation"
           ELSE IF order = "newer" /\ incoming.epoch > last.epoch
                THEN "accepted_epoch_advance"
                ELSE IF /\ order = "newer"
                        /\ incoming.generation > last.generation
                     THEN "accepted_generation_advance"
                     ELSE SequenceDecision(incoming, last)

\* Mutant: a new incarnation is accepted under the old boot id.
BootDecision_AnyIncarnation(incoming, last) ==
  IF incoming.boot < last.boot THEN "rejected_stale_incarnation"
  ELSE IF incoming.boot > last.boot THEN "accepted_reboot"
  ELSE GenerationDecision(incoming, last)

\* Boot id first: a new boot supersedes whatever came before it, an
\* incarnation may only change together with the boot id.
BootDecision(incoming, last) ==
  IF incoming.boot < last.boot THEN "rejected_stale_incarnation"
  ELSE IF incoming.boot > last.boot THEN "accepted_reboot"
  ELSE IF incoming.incarnation < last.incarnation
       THEN "rejected_stale_incarnation"
       ELSE IF incoming.incarnation > last.incarnation
            THEN "rejected_inconsistent_boot"
            ELSE GenerationDecision(incoming, last)

evaluate_fence(incoming, authority, minimum_authority, previous) ==
  IF authority < minimum_authority THEN "rejected_authority_too_low"
  ELSE IF ~previous.has_state THEN "accepted_first_observation"
       ELSE BootDecision(incoming, previous.last)

fence_accepted(decision) ==
  decision \in {"accepted_first_observation", "accepted_in_order",
                "accepted_gap_detected", "accepted_reboot",
                "accepted_epoch_advance", "accepted_generation_advance"}

\* Only a reboot asks the store to retire what the source said before.
liveness_reset(decision) == decision = "accepted_reboot"

-----------------------------------------------------------------------------
(***************************************************************************)
(* The order the properties are about: b supersedes a.  The boot id        *)
(* decides, then the epoch, then the generation, then the sequence; inside *)
(* one boot the incarnation is fixed and neither the generation nor the    *)
(* revision of one generation goes back.                                   *)
(***************************************************************************)
Supersedes(b, a) ==
  \/ b.boot > a.boot
  \/ /\ b.boot = a.boot
     /\ b.incarnation = a.incarnation
     /\ \/ b.epoch > a.epoch /\ b.generation >= a.generation
        \/ b.epoch = a.epoch /\ b.generation > a.generation
        \/ /\ b.epoch = a.epoch
           /\ b.generation = a.generation
           /\ b.revision >= a.revision
           /\ b.sequence > a.sequence
=============================================================================
