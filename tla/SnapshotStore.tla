--------------------------- MODULE SnapshotStore ---------------------------
(***************************************************************************)
(* The snapshot files (src/src/persistence/store.cpp): save rotates the    *)
(* primary into the fallback and replaces it through a temporary file,     *)
(* load takes the primary or else the fallback.                            *)
(*                                                                         *)
(* One mutex serialises save and load within the process, so at most one   *)
(* save is under way; its file operations are steps of their own, because  *)
(* the process may die between any two of them and each may fail.  Removal *)
(* errors are ignored by the code: a file may stay.  The copy and the      *)
(* write are not atomic: dying inside one leaves a torn file.              *)
(*                                                                         *)
(* A snapshot is a number, the order in which it was handed to save.  A    *)
(* torn or damaged file is one that decode_snapshot refuses (payload and   *)
(* section checksums, exact length).  Whether a file exists is found out   *)
(* reliably and a good file can be read.  Power loss is not modelled: the  *)
(* code calls no fsync and claims nothing.                                 *)
(***************************************************************************)
EXTENDS Integers

CONSTANTS
  MaxSaves,   \* bound of the model: calls of save
  MaxDamage   \* how many files at rest are damaged before a save succeeds

ASSUME SnapshotAssumption == MaxSaves \in Nat /\ MaxDamage \in Nat

None == 0
Torn == -1

VARIABLES
  primary, fallback, temporary,  \* the files: None, Torn or a snapshot
  step,       \* the next file operation of the save under way
  requested,  \* the snapshot last handed to save
  reported,   \* the snapshot of the last save that reported success
  loaded,     \* the snapshot the last load returned
  damage      \* files damaged since the last save that reported success

vars == <<primary, fallback, temporary, step, requested, reported, loaded, damage>>

Init ==
  /\ primary = None /\ fallback = None /\ temporary = None
  /\ step = "idle"
  /\ requested = 0 /\ reported = 0 /\ loaded = 0
  /\ damage = 0

Files == <<primary, fallback, temporary>>
Calls == <<requested, reported, loaded, damage>>

-----------------------------------------------------------------------------
(***************************************************************************)
(* save                                                                    *)
(***************************************************************************)
\* Mutant: the primary is replaced without keeping it as the fallback.
save_NoFallback ==
  /\ step = "idle" /\ requested < MaxSaves
  /\ requested' = requested + 1
  /\ step' = "create_temporary"
  /\ UNCHANGED <<Files, reported, loaded, damage>>

\* A save fails before it touches a file (the content cannot be encoded, the
\* directory not created) or starts with the rotation of the primary, if any.
save ==
  /\ step = "idle" /\ requested < MaxSaves
  /\ requested' = requested + 1
  /\ step' \in {"idle", IF primary # None THEN "remove_fallback" ELSE "create_temporary"}
  /\ UNCHANGED <<Files, reported, loaded, damage>>

RemoveFallback ==
  /\ step = "remove_fallback"
  /\ fallback' \in {None, fallback}
  /\ step' = "copy"
  /\ UNCHANGED <<primary, temporary, Calls>>

\* copy_file fails before it touches the target, or starts writing it.
CopyBegins ==
  /\ step = "copy"
  /\ \/ fallback' = Torn /\ step' = "copying"
     \/ UNCHANGED fallback /\ step' = "idle"
  /\ UNCHANGED <<primary, temporary, Calls>>

CopyEnds ==
  /\ step = "copying"
  /\ \/ fallback' = primary /\ step' = "create_temporary"
     \/ UNCHANGED fallback /\ step' = "idle"
  /\ UNCHANGED <<primary, temporary, Calls>>

\* write_file_atomic: the temporary file is truncated ...
CreateTemporary ==
  /\ step = "create_temporary"
  /\ \/ temporary' = Torn /\ step' = "write"
     \/ UNCHANGED temporary /\ step' = "idle"
  /\ UNCHANGED <<primary, fallback, Calls>>

\* ... written and flushed ...
Write ==
  /\ step = "write"
  /\ \/ temporary' = requested /\ step' = "remove_primary"
     \/ UNCHANGED temporary /\ step' = "idle"
  /\ UNCHANGED <<primary, fallback, Calls>>

\* ... and renamed over a primary that was removed before.
RemovePrimary ==
  /\ step = "remove_primary"
  /\ primary' \in {None, primary}
  /\ step' = "rename"
  /\ UNCHANGED <<fallback, temporary, Calls>>

\* A failed rename removes the temporary file.
Rename ==
  /\ step = "rename"
  /\ \/ primary' = temporary /\ temporary' = None /\ reported' = requested /\ damage' = 0
     \/ temporary' \in {None, temporary} /\ UNCHANGED <<primary, reported, damage>>
  /\ step' = "idle"
  /\ UNCHANGED <<fallback, requested, loaded>>

-----------------------------------------------------------------------------
\* load: the primary if it decodes, else the fallback if it does.
Recoverable ==
  IF primary > 0 THEN primary ELSE IF fallback > 0 THEN fallback ELSE None

\* Mutant: the fallback is preferred.
load_FallbackFirst ==
  /\ step = "idle"
  /\ loaded' = IF fallback > 0 THEN fallback ELSE IF primary > 0 THEN primary ELSE None
  /\ UNCHANGED <<Files, step, requested, reported, damage>>

load ==
  /\ step = "idle"
  /\ loaded' = Recoverable
  /\ UNCHANGED <<Files, step, requested, reported, damage>>

\* The process dies inside save and is started again.
Crash ==
  /\ step # "idle"
  /\ step' = "idle"
  /\ UNCHANGED <<Files, Calls>>

\* A file at rest loses its integrity, between two saves.
Damage ==
  /\ step = "idle" /\ damage < MaxDamage
  /\ damage' = damage + 1
  /\ \/ primary > 0 /\ primary' = Torn /\ UNCHANGED fallback
     \/ fallback > 0 /\ fallback' = Torn /\ UNCHANGED primary
  /\ UNCHANGED <<temporary, step, requested, reported, loaded>>

Next ==
  \/ save \/ RemoveFallback \/ CopyBegins \/ CopyEnds
  \/ CreateTemporary \/ Write \/ RemovePrimary \/ Rename
  \/ load \/ Crash \/ Damage

Spec == Init /\ [][Next]_vars
-----------------------------------------------------------------------------
(***************************************************************************)
(* Properties.                                                             *)
(***************************************************************************)
Steps == {"idle", "remove_fallback", "copy", "copying", "create_temporary",
          "write", "remove_primary", "rename"}

\* Type invariant: files hold nothing, a torn snapshot or one handed to save.
TypeOK ==
  /\ primary \in Int /\ fallback \in Int /\ temporary \in Int
  /\ {primary, fallback, temporary} \subseteq Torn..requested
  /\ step \in Steps
  /\ requested \in Nat /\ reported \in Nat /\ loaded \in Nat /\ damage \in Nat

\* A save that reported success stays recoverable until a file is damaged,
\* whatever later saves run into: crashes and failures at any of their file
\* operations.  Damage done before the save was made good by it.
SavedStaysRecoverable == damage = 0 => Recoverable >= reported

\* Seen from outside the files are the register AtomicSnapshot: what is
\* recoverable is what load would return, and the register is spoiled while the
\* primary is a file that does not decode.
Atomic ==
  INSTANCE AtomicSnapshot WITH
    recoverable <- Recoverable, saving <- (step # "idle"), spoiled <- (primary = Torn)

\* Saves are atomic and ordered and loads return the recoverable snapshot.  It is
\* taken away by damage to a file at rest, in the step that damages it, and by a
\* save that finds the primary damaged: such a save removes the good fallback and
\* copies the damaged file over it before its own snapshot is written, so that an
\* error or a crash from there on leaves nothing to load, although the code sets
\* out to keep "the previous good snapshot as the fallback".  Whenever the primary
\* is sound or absent no crash, failed file operation or save that reported an
\* error takes anything away, also after damage to the fallback.
SavesAreAtomic == Atomic!Spec
=============================================================================
