--------------------------- MODULE AtomicSnapshot ---------------------------
(***************************************************************************)
(* What SnapshotStore amounts to, seen by its callers: a register.  A save *)
(* replaces the recoverable snapshot by the one it was given, at once, or  *)
(* leaves it alone; a load returns the recoverable snapshot.  Crashes and  *)
(* errors end a save and are otherwise invisible, with one exception that  *)
(* the register names: while the file of the last save is damaged          *)
(* (spoiled), what is recoverable comes from the file before it, and the   *)
(* next save overwrites that one first (Overwrite).                        *)
(*                                                                         *)
(* What is recoverable is lost in no other way: by damage to a file, one   *)
(* step per file damaged, or by a save while the register is spoiled.      *)
(* Snapshots are numbered in the order they are handed to save; 0 is none. *)
(***************************************************************************)
EXTENDS Naturals

VARIABLES
  requested,   \* the snapshot last handed to save
  recoverable, \* the snapshot a load would return
  loaded,      \* the snapshot the last load returned
  saving,      \* a save is under way
  spoiled,     \* the file of the last save is there and damaged
  damage       \* files damaged since the last save that took effect

vars == <<requested, recoverable, loaded, saving, spoiled, damage>>

Init ==
  /\ requested = 0 /\ recoverable = 0 /\ loaded = 0
  /\ saving = FALSE /\ spoiled = FALSE /\ damage = 0

\* A save starts, or fails before it touches a file.
Request ==
  /\ ~saving
  /\ requested' = requested + 1
  /\ saving' \in BOOLEAN
  /\ UNCHANGED <<recoverable, loaded, spoiled, damage>>

Commit ==
  /\ saving
  /\ recoverable' = requested
  /\ saving' = FALSE /\ spoiled' = FALSE /\ damage' = 0
  /\ UNCHANGED <<requested, loaded>>

\* An error or the death of the process ends a save: nothing else changes.
Abandon ==
  /\ saving
  /\ saving' = FALSE
  /\ UNCHANGED <<requested, recoverable, loaded, spoiled, damage>>

Load ==
  /\ ~saving
  /\ loaded' = recoverable
  /\ UNCHANGED <<requested, recoverable, saving, spoiled, damage>>

\* A file is damaged: the one of the last save, and an older snapshot or none is
\* left, or the one before it.
Damage ==
  /\ ~saving
  /\ damage' = damage + 1
  /\ \/ ~spoiled /\ spoiled' = TRUE /\ recoverable' \in 0..recoverable
     \/ spoiled' = spoiled /\ recoverable' \in {0, recoverable}
  /\ UNCHANGED <<requested, loaded, saving>>

\* A save loses the only good snapshot before it has written its own ...
Overwrite ==
  /\ saving /\ spoiled
  /\ recoverable' = 0
  /\ UNCHANGED <<requested, loaded, saving, spoiled, damage>>

\* ... and then removes the damaged file.
Discard ==
  /\ saving /\ spoiled /\ recoverable = 0
  /\ spoiled' = FALSE
  /\ UNCHANGED <<requested, recoverable, loaded, saving, damage>>

Next == Request \/ Commit \/ Abandon \/ Load \/ Damage \/ Overwrite \/ Discard

Spec == Init /\ [][Next]_vars
=============================================================================
