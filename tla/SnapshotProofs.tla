-------------------------- MODULE SnapshotProofs --------------------------
(***************************************************************************)
(* The files of SnapshotStore and the format of SnapshotCodec.             *)
(*                                                                         *)
(* The files, for any number of saves, crashes and failed file operations: *)
(* what a save reported stays recoverable until a file at rest is damaged, *)
(* and the files implement a register whose saves are atomic and which     *)
(* loses what it holds by damage to a file or by a save that rotates a     *)
(* damaged primary, and in no other way.  The argument is the rotation:    *)
(* while the primary may disappear, the fallback equals it; while the      *)
(* fallback may be torn, the primary is there; a fallback is never newer   *)
(* than a primary that can be read.                                        *)
(*                                                                         *)
(* The format, for any contents, limits and policies and any number of     *)
(* damaged places: what was saved loads again, damage is never read as     *)
(* data, and what is accepted is sound.  The argument is about what a      *)
(* reader of tokens takes from a section: all of a list and nothing else,  *)
(* and only what has the fields it asks for.                               *)
(***************************************************************************)
EXTENDS SnapshotStore, SnapshotCodec, SequenceTheorems, WellFoundedInduction, TLAPS

\* The steps of a save that write the fallback, and those that follow.
Rotating == {"remove_fallback", "copy", "copying"}
Replacing == {"create_temporary", "write", "remove_primary", "rename"}

\* A save that got so far has written the temporary file.
SaveInv ==
  /\ step # "idle" => requested > 0
  /\ step \in {"remove_primary", "rename"} => temporary = requested

\* The rotation: only a primary that is there is rotated, and from then on it is
\* absent or has a copy.
Rotation ==
  /\ step \in Rotating => primary # 0
  /\ step \in Replacing => primary = 0 \/ primary = fallback

\* Losing the primary goes back in time, never forward.
Ordered == primary > 0 => fallback <= primary

\* Without damage the primary is sound or absent, and nothing reported is lost.
NothingLost == damage = 0 => primary >= 0 /\ reported <= Recoverable

RotationInv == SaveInv /\ Ordered /\ Rotation /\ NothingLost

LEMMA TypesHold == Spec => []TypeOK
<1>1. Init => TypeOK
  BY DEF Init, TypeOK, None, Torn, Steps
<1>2. TypeOK /\ [Next]_vars => TypeOK'
  <2> SUFFICES ASSUME TypeOK, [Next]_vars PROVE TypeOK'
    OBVIOUS
  <2> USE DEF TypeOK, None, Torn, Steps, Files, Calls
  <2>1. CASE save
    BY <2>1 DEF save
  <2>2. CASE RemoveFallback
    BY <2>2 DEF RemoveFallback
  <2>3. CASE CopyBegins
    BY <2>3 DEF CopyBegins
  <2>4. CASE CopyEnds
    BY <2>4 DEF CopyEnds
  <2>5. CASE CreateTemporary
    BY <2>5 DEF CreateTemporary
  <2>6. CASE Write
    BY <2>6 DEF Write
  <2>7. CASE RemovePrimary
    BY <2>7 DEF RemovePrimary
  <2>8. CASE Rename
    BY <2>8 DEF Rename
  <2>9. CASE load
    BY <2>9 DEF load, Recoverable
  <2>10. CASE Crash
    BY <2>10 DEF Crash
  <2>11. CASE Damage
    BY <2>11 DEF Damage
  <2>12. CASE UNCHANGED vars
    BY <2>12 DEF vars
  <2>13. QED
    BY <2>1, <2>2, <2>3, <2>4, <2>5, <2>6, <2>7, <2>8, <2>9, <2>10, <2>11, <2>12 DEF Next
<1>3. QED
  BY <1>1, <1>2, PTL DEF Spec

\* What is written to the files is what was handed to save, or torn.
THEOREM FilesTyped == Spec => []TypeOK
BY TypesHold

LEMMA SaveStep ==
  ASSUME TypeOK, SaveInv, [Next]_vars
  PROVE  SaveInv'
<1> USE DEF SaveInv, TypeOK, Files, Calls
<1>1. CASE save
  BY <1>1 DEF save
<1>2. CASE RemoveFallback \/ CopyBegins \/ CopyEnds
  BY <1>2 DEF RemoveFallback, CopyBegins, CopyEnds
<1>3. CASE CreateTemporary \/ Write
  BY <1>3 DEF CreateTemporary, Write
<1>4. CASE RemovePrimary \/ Rename
  BY <1>4 DEF RemovePrimary, Rename
<1>5. CASE load \/ Crash \/ Damage
  BY <1>5 DEF load, Crash, Damage
<1>6. CASE UNCHANGED vars
  BY <1>6 DEF vars
<1>7. QED
  BY <1>1, <1>2, <1>3, <1>4, <1>5, <1>6 DEF Next

LEMMA OrderedStep ==
  ASSUME TypeOK, SaveInv, Ordered, [Next]_vars
  PROVE  Ordered'
<1> USE DEF Ordered, TypeOK, Files, Calls, None, Torn
<1>1. CASE save \/ load \/ Crash
  BY <1>1 DEF save, load, Crash
<1>2. CASE RemoveFallback \/ CopyBegins \/ CopyEnds
  BY <1>2 DEF RemoveFallback, CopyBegins, CopyEnds
<1>3. CASE CreateTemporary \/ Write
  BY <1>3 DEF CreateTemporary, Write
<1>4. CASE RemovePrimary
  BY <1>4 DEF RemovePrimary
<1>5. CASE Rename
  BY <1>5 DEF Rename, SaveInv
<1>6. CASE Damage
  BY <1>6 DEF Damage
<1>7. CASE UNCHANGED vars
  BY <1>7 DEF vars
<1>8. QED
  BY <1>1, <1>2, <1>3, <1>4, <1>5, <1>6, <1>7 DEF Next

LEMMA RotationStep ==
  ASSUME TypeOK, Rotation, [Next]_vars
  PROVE  Rotation'
<1> USE DEF Rotation, Rotating, Replacing, Files, Calls, None, Torn
<1>1. CASE save \/ load \/ Crash
  BY <1>1 DEF save, load, Crash
<1>2. CASE RemoveFallback \/ CopyBegins \/ CopyEnds
  BY <1>2 DEF RemoveFallback, CopyBegins, CopyEnds
<1>3. CASE CreateTemporary \/ Write
  BY <1>3 DEF CreateTemporary, Write
<1>4. CASE RemovePrimary \/ Rename
  BY <1>4 DEF RemovePrimary, Rename
<1>5. CASE Damage
  BY <1>5 DEF Damage
<1>6. CASE UNCHANGED vars
  BY <1>6 DEF vars
<1>7. QED
  BY <1>1, <1>2, <1>3, <1>4, <1>5, <1>6 DEF Next

\* A step of a save other than a rename that succeeds leaves what can be read
\* alone, unless the primary is damaged; then it may be lost, and not before that
\* the damaged primary goes.
LEMMA SavingStep ==
  ASSUME TypeOK, Ordered, Rotation, primary' = primary \/ step = "remove_primary",
         \/ RemoveFallback \/ CopyBegins \/ CopyEnds \/ CreateTemporary
         \/ Write \/ RemovePrimary
  PROVE  /\ damage' = damage /\ reported' = reported
         /\ requested' = requested /\ loaded' = loaded
         /\ \/ Recoverable' = Recoverable /\ (primary' = Torn <=> primary = Torn)
            \/ /\ primary = Torn /\ primary' = Torn /\ Recoverable' = 0 /\ step' # "idle"
            \/ /\ primary = Torn /\ primary' = 0 /\ Recoverable = 0 /\ Recoverable' = 0
               /\ step' # "idle"
<1> USE DEF None, Torn
<1>1. primary \in Int /\ fallback \in Int /\ primary >= -1 /\ fallback >= -1
  BY DEF TypeOK
<1>2. CASE RemoveFallback \/ CopyBegins \/ CopyEnds
  <2>1. primary' = primary /\ primary # 0 /\ UNCHANGED Calls
    BY <1>2 DEF RemoveFallback, CopyBegins, CopyEnds, Rotation, Rotating
  <2>2. CASE primary > 0
    BY <1>1, <2>1, <2>2 DEF Recoverable, Calls
  <2>3. CASE primary = -1
    <3>1. \/ fallback' = fallback
          \/ fallback' \in {0, -1} /\ step' # "idle"
      BY <1>2, <2>3 DEF RemoveFallback, CopyBegins, CopyEnds
    <3>2. QED
      BY <1>1, <2>1, <2>3, <3>1 DEF Recoverable, Calls
  <2>4. QED
    BY <1>1, <2>1, <2>2, <2>3
<1>3. CASE CreateTemporary \/ Write
  BY <1>3 DEF CreateTemporary, Write, Recoverable, Calls
<1>4. CASE RemovePrimary
  <2>1. /\ primary = 0 \/ primary = fallback
        /\ primary' \in {0, primary} /\ fallback' = fallback
        /\ step' # "idle" /\ UNCHANGED Calls
    BY <1>4 DEF RemovePrimary, Rotation, Replacing
  <2>2. QED
    BY <1>1, <2>1 DEF Recoverable, Calls
<1>5. QED
  BY <1>2, <1>3, <1>4

\* A rename puts the snapshot handed to save in place, or changes no file that a
\* load reads.
LEMMA RenameStep ==
  ASSUME TypeOK, SaveInv, Rename
  PROVE  /\ requested' = requested /\ loaded' = loaded /\ step = "rename" /\ step' = "idle"
         /\ \/ /\ Recoverable' = requested /\ primary' > 0 /\ damage' = 0
               /\ reported' = requested
            \/ /\ Recoverable' = Recoverable /\ primary' = primary /\ damage' = damage
               /\ reported' = reported
<1> USE DEF None, Torn
<1>1. temporary = requested /\ requested > 0
  BY DEF Rename, SaveInv
<1>2. CASE primary' = temporary /\ temporary' = None /\ reported' = requested /\ damage' = 0
  BY <1>1, <1>2 DEF Rename, Recoverable
<1>3. CASE UNCHANGED <<primary, reported, damage>>
  BY <1>3 DEF Rename, Recoverable
<1>4. QED
  BY <1>2, <1>3 DEF Rename

\* Damage to a file leaves what can be read, something older, or nothing.
LEMMA FileDamageStep ==
  ASSUME TypeOK, Ordered, Damage
  PROVE  /\ step = "idle" /\ step' = step /\ damage' = damage + 1
         /\ requested' = requested /\ loaded' = loaded
         /\ \/ primary # Torn /\ primary' = Torn /\ Recoverable' \in 0..Recoverable
            \/ primary' = primary /\ Recoverable' \in {0, Recoverable}
<1> USE DEF None, Torn
<1>1. primary \in Int /\ fallback \in Int /\ Recoverable \in Nat
  BY DEF TypeOK, Recoverable
<1>2. \/ primary > 0 /\ primary' = -1 /\ fallback' = fallback
      \/ fallback' = -1 /\ primary' = primary
  BY DEF Damage
<1>3. QED
  BY <1>1, <1>2 DEF Damage, Recoverable, Ordered

LEMMA NothingLostStep ==
  ASSUME TypeOK, RotationInv, [Next]_vars
  PROVE  NothingLost'
<1> USE DEF None, Torn
<1>1. primary \in Int /\ damage \in Nat /\ reported \in Nat /\ requested \in Nat
  BY DEF TypeOK
<1>2. CASE save \/ load \/ Crash \/ UNCHANGED vars
  BY <1>2 DEF save, load, Crash, vars, Files, Calls, RotationInv, NothingLost, Recoverable
<1>3. CASE RemoveFallback \/ CopyBegins \/ CopyEnds \/ CreateTemporary
           \/ Write \/ RemovePrimary
  <2>1. primary' = primary \/ (step = "remove_primary" /\ primary' \in {0, primary})
    BY <1>3 DEF RemoveFallback, CopyBegins, CopyEnds, CreateTemporary, Write, RemovePrimary
  <2>2. QED
    BY <1>1, <1>3, <2>1, SavingStep DEF RotationInv, NothingLost
<1>4. CASE Rename
  <2>1. \/ Recoverable' = requested /\ primary' > 0 /\ reported' = requested
        \/ /\ Recoverable' = Recoverable /\ primary' = primary
           /\ damage' = damage /\ reported' = reported
    BY <1>4, RenameStep DEF RotationInv
  <2>2. primary' \in Int
    BY <1>1, <1>4 DEF Rename, TypeOK
  <2>3. QED
    BY <1>1, <2>1, <2>2 DEF RotationInv, NothingLost
<1>5. CASE Damage
  BY <1>1, <1>5, FileDamageStep DEF RotationInv, NothingLost
<1>6. QED
  BY <1>2, <1>3, <1>4, <1>5 DEF Next

\* Every step is one of the register, or none.
LEMMA RegisterStep ==
  ASSUME TypeOK, RotationInv, [Next]_vars
  PROVE  [Atomic!Next]_(Atomic!vars)
<1>1. CASE save
  <2>1. /\ Recoverable' = Recoverable /\ primary' = primary /\ step = "idle"
        /\ requested' = requested + 1 /\ loaded' = loaded /\ damage' = damage
    BY <1>1 DEF save, Recoverable, Files
  <2>2. Atomic!Request
    BY <2>1 DEF Atomic!Request
  <2>3. QED
    BY <2>2 DEF Atomic!Next
<1>2. CASE load
  <2>1. /\ Recoverable' = Recoverable /\ primary' = primary /\ step = "idle" /\ step' = step
        /\ requested' = requested /\ loaded' = Recoverable /\ damage' = damage
    BY <1>2 DEF load, Recoverable, Files
  <2>2. Atomic!Load
    BY <2>1 DEF Atomic!Load
  <2>3. QED
    BY <2>2 DEF Atomic!Next
<1>3. CASE Crash
  <2>1. /\ Recoverable' = Recoverable /\ primary' = primary /\ step # "idle" /\ step' = "idle"
        /\ requested' = requested /\ loaded' = loaded /\ damage' = damage
    BY <1>3 DEF Crash, Recoverable, Files, Calls
  <2>2. Atomic!Abandon
    BY <2>1 DEF Atomic!Abandon
  <2>3. QED
    BY <2>2 DEF Atomic!Next
<1>4. CASE RemoveFallback \/ CopyBegins \/ CopyEnds \/ CreateTemporary
           \/ Write \/ RemovePrimary
  <2>1. /\ primary' = primary \/ step = "remove_primary"
        /\ step # "idle"
    BY <1>4 DEF RemoveFallback, CopyBegins, CopyEnds, CreateTemporary, Write, RemovePrimary
  <2>2. damage' = damage /\ requested' = requested /\ loaded' = loaded
    BY <1>4, <2>1, SavingStep DEF RotationInv
  <2>3. CASE Recoverable' = Recoverable /\ (primary' = Torn <=> primary = Torn)
    <3>1. CASE step' # "idle"
      <4>1. UNCHANGED Atomic!vars
        BY <2>1, <2>2, <2>3, <3>1 DEF Atomic!vars
      <4>2. QED
        BY <4>1
    <3>2. CASE step' = "idle"
      <4>1. Atomic!Abandon
        BY <2>1, <2>2, <2>3, <3>2 DEF Atomic!Abandon
      <4>2. QED
        BY <4>1 DEF Atomic!Next
    <3>3. QED
      BY <3>1, <3>2
  <2>4. CASE primary = Torn /\ primary' = Torn /\ Recoverable' = 0 /\ step' # "idle"
    <3>1. Atomic!Overwrite
      BY <2>1, <2>2, <2>4 DEF Atomic!Overwrite
    <3>2. QED
      BY <3>1 DEF Atomic!Next
  <2>5. CASE /\ primary = Torn /\ primary' = 0 /\ Recoverable = 0 /\ Recoverable' = 0
             /\ step' # "idle"
    <3>1. Atomic!Discard
      BY <2>1, <2>2, <2>5 DEF Atomic!Discard, Torn
    <3>2. QED
      BY <3>1 DEF Atomic!Next
  <2>6. QED
    BY <1>4, <2>1, <2>3, <2>4, <2>5, SavingStep DEF RotationInv
<1>5. CASE Rename
  <2>1. requested' = requested /\ loaded' = loaded /\ step # "idle" /\ step' = "idle"
    BY <1>5, RenameStep DEF RotationInv
  <2>2. CASE Recoverable' = requested /\ primary' > 0 /\ damage' = 0
    <3>1. primary' # Torn
      BY <2>2 DEF Torn
    <3>2. Atomic!Commit
      BY <2>1, <2>2, <3>1 DEF Atomic!Commit
    <3>3. QED
      BY <3>2 DEF Atomic!Next
  <2>3. CASE Recoverable' = Recoverable /\ primary' = primary /\ damage' = damage
    <3>1. Atomic!Abandon
      BY <2>1, <2>3 DEF Atomic!Abandon
    <3>2. QED
      BY <3>1 DEF Atomic!Next
  <2>4. QED
    BY <1>5, <2>2, <2>3, RenameStep DEF RotationInv
<1>6. CASE Damage
  <2>1. Atomic!Damage
    BY <1>6, FileDamageStep DEF RotationInv, Atomic!Damage
  <2>2. QED
    BY <2>1 DEF Atomic!Next
<1>7. CASE UNCHANGED vars
  BY <1>7 DEF vars, Atomic!vars, Recoverable
<1>8. QED
  BY <1>1, <1>2, <1>3, <1>4, <1>5, <1>6, <1>7 DEF Next

LEMMA RotationInvariant == Spec => []RotationInv
<1>1. Init => RotationInv
  BY DEF Init, RotationInv, SaveInv, Ordered, Rotation, NothingLost, Recoverable, None, Rotating, Replacing
<1>2. TypeOK /\ RotationInv /\ [Next]_vars => RotationInv'
  BY SaveStep, OrderedStep, RotationStep, NothingLostStep DEF RotationInv
<1>3. QED
  BY <1>1, <1>2, TypesHold, PTL DEF Spec

\* A save that reported success can be recovered until a file is damaged,
\* whatever becomes of the saves that follow it.
THEOREM ReportedIsRecoverable == Spec => []SavedStaysRecoverable
<1>1. TypeOK /\ RotationInv => SavedStaysRecoverable
  BY DEF RotationInv, NothingLost, SavedStaysRecoverable, TypeOK, Recoverable, None
<1>2. QED
  BY <1>1, TypesHold, RotationInvariant, PTL

\* The files implement the register, for any number of saves and of damaged files:
\* a save takes effect at the rename or not at all, and what a load returns goes
\* back in time or is lost in a step that damages a file, or in a save that finds
\* the primary damaged and rotates it over the good fallback (Overwrite), and in
\* no other step.  A crash or a failed file operation is invisible to a load
\* unless the primary is damaged when the save begins.
THEOREM RegisterImplemented == Spec => SavesAreAtomic
<1>1. Init => Atomic!Init
  BY DEF Init, Atomic!Init, Recoverable, None, Torn
<1>2. TypeOK /\ RotationInv /\ [Next]_vars => [Atomic!Next]_(Atomic!vars)
  BY RegisterStep
<1>3. QED
  BY <1>1, <1>2, TypesHold, RotationInvariant, PTL DEF Spec, SavesAreAtomic, Atomic!Spec

-----------------------------------------------------------------------------
(***************************************************************************)
(* The snapshot format: induction, and sequences put in a row.             *)
(***************************************************************************)
LEMMA Least ==
  ASSUME NEW S \in SUBSET Nat, S # {}
  PROVE  \E x \in S : \A y \in S : x <= y
<1> DEFINE less == {ss \in Nat \X Nat : ss[1] < ss[2]}
<1>1. IsWellFoundedOn(less, Nat)
  BY NatLessThanWellFounded DEF OpToRel
<1>2. \A x, y \in Nat : <<x, y>> \in less <=> x < y
  OBVIOUS
<1> HIDE DEF less
<1>3. PICK x \in S : \A y \in S : ~(<<y, x>> \in less)
  BY <1>1, WFMin
<1>4. ASSUME NEW y \in S PROVE x <= y
  <2>1. ~(y < x)
    BY <1>2, <1>3
  <2>2. QED
    BY <2>1
<1>5. QED
  BY <1>4

\* A set with 0 and with every number its successor holds all numbers.
LEMMA Inductive ==
  ASSUME NEW S, 0 \in S, \A n \in Nat : n \in S => n + 1 \in S
  PROVE  \A n \in Nat : n \in S
<1> DEFINE out == {n \in Nat : n \notin S}
<1>1. SUFFICES ASSUME out # {} PROVE FALSE
  OBVIOUS
<1>2. PICK x \in out : \A y \in out : x <= y
  BY <1>1, Least
<1>3. x # 0 /\ x - 1 \in Nat
  BY <1>2
<1>4. x - 1 \notin out
  BY <1>2, <1>3
<1>5. (x - 1) + 1 \in S
  BY <1>3, <1>4
<1>6. QED
  BY <1>2, <1>5

LEMMA FunIsSeq ==
  ASSUME NEW n \in Nat, NEW S, NEW f \in [1..n -> S]
  PROVE  f \in Seq(S) /\ Len(f) = n
<1>1. f \in Seq(S)
  BY SeqDef
<1>2. Len(f) \in Nat /\ DOMAIN f = 1..Len(f) /\ DOMAIN f = 1..n
  BY <1>1, LenProperties
<1>3. QED
  BY <1>1, <1>2

\* FlattenSeq as a chain of prefixes, each one section longer.
LEMMA FlattenUnfolds ==
  ASSUME NEW ss, Len(ss) \in Nat \ {0}
  PROVE  \E f : /\ f[1] = ss[1]
                /\ \A i \in 2..Len(ss) : f[i] = f[i - 1] \o ss[i]
                /\ FlattenSeq(ss) = f[Len(ss)]
<1> DEFINE concat(n, f) == f = [i \in 1..n |-> IF i = 1 THEN ss[i] ELSE f[i - 1] \o ss[i]]
           N == {n \in Nat : \E f : concat(n, f)}
<1>1. 0 \in N
  <2>1. concat(0, [i \in 1..0 |-> ss[i]])
    OBVIOUS
  <2>2. QED
    BY <2>1
<1>2. ASSUME NEW n \in Nat, n \in N PROVE n + 1 \in N
  <2>1. PICK f : concat(n, f)
    BY <1>2
  <2> DEFINE new == IF n = 0 THEN ss[1] ELSE f[n] \o ss[n + 1]
             h == [i \in 1..(n + 1) |-> IF i = n + 1 THEN new ELSE f[i]]
  <2>2. (\A i \in 1..n : h[i] = f[i]) /\ h[n + 1] = new
    <3> HIDE DEF new
    <3>1. \A i \in 1..n : h[i] = f[i]
      OBVIOUS
    <3>2. n + 1 \in 1..(n + 1)
      OBVIOUS
    <3>3. QED
      BY <3>1, <3>2
  <2>3. h = [i \in 1..(n + 1) |-> h[i]]
    OBVIOUS
  <2> HIDE DEF h
  <2>4. ASSUME NEW i \in 1..(n + 1)
        PROVE  h[i] = IF i = 1 THEN ss[i] ELSE h[i - 1] \o ss[i]
    <3>1. CASE i = n + 1 /\ n = 0
      BY <2>2, <3>1
    <3>2. CASE i = n + 1 /\ n # 0
      <4>1. n \in 1..n /\ i - 1 = n /\ i # 1
        BY <3>2
      <4>2. QED
        BY <2>2, <3>2, <4>1
    <3>3. CASE i \in 1..n
      <4>1. f[i] = IF i = 1 THEN ss[i] ELSE f[i - 1] \o ss[i]
        BY <2>1, <3>3
      <4>2. i # 1 => i - 1 \in 1..n
        BY <3>3
      <4>3. QED
        BY <2>2, <3>3, <4>1, <4>2
    <3>4. QED
      BY <3>1, <3>2, <3>3
  <2>5. concat(n + 1, h)
    BY <2>3, <2>4
  <2>6. n + 1 \in Nat
    OBVIOUS
  <2>7. QED
    BY <2>5, <2>6, Zenon
<1> HIDE DEF N
<1>3. \A n \in Nat : n \in N
  BY <1>1, <1>2, Inductive
<1>4. \E f : concat(Len(ss), f)
  BY <1>3 DEF N
<1> DEFINE F == CHOOSE f : concat(Len(ss), f)
<1>5. concat(Len(ss), F)
  BY <1>4, Zenon
<1>6. FlattenSeq(ss) = F[Len(ss)]
  BY DEF FlattenSeq
<1> HIDE DEF F
<1>7. F[1] = ss[1]
  BY <1>5
<1>8. ASSUME NEW i \in 2..Len(ss) PROVE F[i] = F[i - 1] \o ss[i]
  <2>1. i \in 1..Len(ss) /\ i # 1
    OBVIOUS
  <2>2. QED
    BY <1>5, <2>1
<1>9. QED
  BY <1>6, <1>7, <1>8

\* Flattening sequences over S gives a sequence over S.
LEMMA FlattenType ==
  ASSUME NEW S, NEW n \in Nat, NEW ss \in [1..n -> Seq(S)]
  PROVE  FlattenSeq(ss) \in Seq(S)
<1>1. ss \in Seq(Seq(S)) /\ Len(ss) = n
  BY FunIsSeq
<1>2. CASE n = 0
  <2>1. FlattenSeq(ss) = ss
    BY <1>1, <1>2 DEF FlattenSeq
  <2>2. ss = <<>>
    BY <1>1, <1>2, EmptySeq
  <2>3. QED
    BY <2>1, <2>2
<1>3. CASE n # 0
  <2>1. PICK f : /\ f[1] = ss[1]
                 /\ \A i \in 2..n : f[i] = f[i - 1] \o ss[i]
                 /\ FlattenSeq(ss) = f[n]
    BY <1>1, <1>3, FlattenUnfolds
  <2> DEFINE N == {i \in Nat : i + 1 <= n => f[i + 1] \in Seq(S)}
  <2>2. 0 \in N
    BY <1>3, <2>1
  <2>3. ASSUME NEW i \in Nat, i \in N PROVE i + 1 \in N
    <3>1. SUFFICES ASSUME (i + 1) + 1 <= n PROVE f[(i + 1) + 1] \in Seq(S)
      OBVIOUS
    <3>2. i + 2 \in 2..n /\ i + 2 \in 1..n /\ (i + 2) - 1 = i + 1 /\ (i + 1) + 1 = i + 2 /\ i + 1 <= n
      BY <3>1
    <3>3. f[i + 2] = f[i + 1] \o ss[i + 2] /\ f[i + 1] \in Seq(S) /\ ss[i + 2] \in Seq(S)
      BY <2>1, <2>3, <3>2
    <3>4. f[i + 2] \in Seq(S)
      BY <3>3, ConcatProperties
    <3>5. QED
      BY <3>2, <3>4
  <2> HIDE DEF N
  <2>4. n - 1 \in Nat /\ (n - 1) + 1 = n
    BY <1>3
  <2>5. n - 1 \in N
    BY <2>2, <2>3, <2>4, Inductive
  <2>6. QED
    BY <2>1, <2>4, <2>5 DEF N
<1>4. QED
  BY <1>2, <1>3

T == Tokens \cup {Garbled}

\* Tokens of different kinds have different fields.
LEMMA FieldsDiffer ==
  /\ CountFields # TopologyFields /\ CountFields # MetadataFields /\ CountFields # ObjectFields
  /\ CountFields # EpisodeFields /\ CountFields # EvidenceFields
  /\ TopologyFields # MetadataFields /\ TopologyFields # ObjectFields
  /\ TopologyFields # EpisodeFields /\ TopologyFields # EvidenceFields
  /\ MetadataFields # ObjectFields /\ MetadataFields # EpisodeFields
  /\ MetadataFields # EvidenceFields
  /\ ObjectFields # EpisodeFields /\ ObjectFields # EvidenceFields
  /\ EpisodeFields # EvidenceFields
<1>1. "count" \in CountFields /\ "count" \notin TopologyFields /\ "count" \notin MetadataFields
      /\ "count" \notin ObjectFields /\ "count" \notin EpisodeFields /\ "count" \notin EvidenceFields
  BY DEF CountFields, TopologyFields, MetadataFields, ObjectFields, EpisodeFields, EvidenceFields
<1>2. "label" \in TopologyFields /\ "label" \notin MetadataFields
      /\ "label" \notin ObjectFields /\ "label" \notin EpisodeFields /\ "label" \notin EvidenceFields
  BY DEF TopologyFields, MetadataFields, ObjectFields, EpisodeFields, EvidenceFields
<1>3. "generation" \in MetadataFields
      /\ "generation" \notin ObjectFields /\ "generation" \notin EpisodeFields
      /\ "generation" \notin EvidenceFields
  BY DEF MetadataFields, ObjectFields, EpisodeFields, EvidenceFields
<1>4. "refs" \in ObjectFields /\ "refs" \notin EpisodeFields /\ "refs" \notin EvidenceFields
  BY DEF ObjectFields, EpisodeFields, EvidenceFields
<1>5. "key" \in EpisodeFields /\ "key" \notin EvidenceFields
  BY DEF EpisodeFields, EvidenceFields
<1>6. QED
  BY <1>1, <1>2, <1>3, <1>4, <1>5

LEMMA FieldsOf ==
  /\ \A x \in [count : Nat] : DOMAIN x = CountFields
  /\ \A x \in [generation : Nat, label : Nat] : DOMAIN x = TopologyFields
  /\ \A x \in [policy_version : Nat, created_at : Nat, generation : Nat] :
       DOMAIN x = MetadataFields
  /\ \A x \in Object_t : DOMAIN x = ObjectFields
  /\ \A x \in Episode_t : DOMAIN x = EpisodeFields
  /\ \A x \in Evidence_t : DOMAIN x = EvidenceFields
<1>1. \A x \in [count : Nat] : DOMAIN x = CountFields
  BY DEF CountFields
<1>2. \A x \in [generation : Nat, label : Nat] : DOMAIN x = TopologyFields
  BY DEF TopologyFields
<1>3. \A x \in [policy_version : Nat, created_at : Nat, generation : Nat] :
       DOMAIN x = MetadataFields
  BY DEF MetadataFields
<1>4. \A x \in Object_t : DOMAIN x = ObjectFields
  BY DEF ObjectFields, Object_t
<1>5. \A x \in Episode_t : DOMAIN x = EpisodeFields
  BY DEF EpisodeFields, Episode_t
<1>6. \A x \in Evidence_t : DOMAIN x = EvidenceFields
  BY DEF EvidenceFields, Evidence_t
<1>7. QED
  BY <1>1, <1>2, <1>3, <1>4, <1>5, <1>6

\* A token that can be read as one of a kind is one.
LEMMA TokenKinds ==
  ASSUME NEW x \in T
  PROVE  /\ Is(x, CountFields) => x \in [count : Nat]
         /\ Is(x, EpisodeFields) => x \in Episode_t
         /\ Is(x, EvidenceFields) => x \in Evidence_t
         /\ Is(x, ObjectFields) => x \in Object_t
         /\ Is(x, TopologyFields) => x \in [generation : Nat, label : Nat]
<1>1. ASSUME NEW fields, Is(x, fields)
      PROVE  DOMAIN x = fields /\ x \in Tokens
  BY <1>1 DEF Is, T
<1>2. x \in Tokens => \/ x \in [count : Nat] \/ x \in [generation : Nat, label : Nat]
                      \/ x \in [policy_version : Nat, created_at : Nat, generation : Nat]
                      \/ x \in Object_t \/ x \in Episode_t \/ x \in Evidence_t
  BY DEF Tokens
<1>3. Is(x, CountFields) => x \in [count : Nat]
  BY <1>1, <1>2, FieldsOf, FieldsDiffer
<1>4. Is(x, EpisodeFields) => x \in Episode_t
  BY <1>1, <1>2, FieldsOf, FieldsDiffer
<1>5. Is(x, EvidenceFields) => x \in Evidence_t
  BY <1>1, <1>2, FieldsOf, FieldsDiffer, Zenon
<1>6. Is(x, ObjectFields) => x \in Object_t
  BY <1>1, <1>2, FieldsOf, FieldsDiffer, Zenon
<1>7. Is(x, TopologyFields) => x \in [generation : Nat, label : Nat]
  BY <1>1, <1>2, FieldsOf, FieldsDiffer, Zenon
<1>8. QED
  BY <1>3, <1>4, <1>5, <1>6, <1>7

LEMMA NotGarbled == Garbled \notin Tokens /\ Garbled \notin Bytes /\ Garbled \notin Topology_t
BY CodecAssumption

\* What is read of a list is as long as its count says and within the bound.
LEMMA ListRead ==
  ASSUME NEW r, r.rest \in Seq(T), NEW bound, NEW fields,
         ReadList(r, bound, fields).ok
  PROVE  /\ ListThere(r, bound, fields)
         /\ r.rest[1].count \in Nat
         /\ ReadList(r, bound, fields) = AfterList(r)
<1>1. ListThere(r, bound, fields)
  <2>1. ASSUME ~ListThere(r, bound, fields) PROVE FALSE
    <3>1. ReadList(r, bound, fields) = Failed(r)
      BY <2>1, Zenon DEF ReadList
    <3>2. QED
      BY <3>1 DEF Failed
  <2>2. QED
    BY <2>1
<1>2. r.rest # <<>> /\ Is(r.rest[1], CountFields)
  BY <1>1 DEF ListThere
<1>3. r.rest[1] \in T
  BY <1>2, LenProperties, EmptySeq, ElementOfSeq
<1>4. r.rest[1].count \in Nat
  BY <1>2, <1>3, TokenKinds
<1>5. QED
  BY <1>1, <1>4, Zenon DEF ReadList
\* The list at the start of a section.
LEMMA FirstList ==
  ASSUME NEW s \in Seq(T), NEW bound \in Nat, NEW fields,
         ReadList(Reader(s), bound, fields).ok
  PROVE  LET n == s[1].count
             q == ReadList(Reader(s), bound, fields)
         IN /\ s # <<>> /\ Is(s[1], CountFields)
            /\ n \in Nat /\ n <= bound /\ n < Len(s)
            /\ \A i \in 1..n : Is(s[i + 1], fields)
            /\ q.rest = SubSeq(s, n + 2, Len(s))
            /\ q.lists[1] \in Seq(T) /\ Len(q.lists[1]) = n
            /\ \A i \in 1..n : q.lists[1][i] = s[i + 1]
<1> DEFINE r == Reader(s)
           n == s[1].count
           q == ReadList(r, bound, fields)
<1>1. r.rest = s /\ r.lists = <<>>
  BY DEF Reader
<1>2. ListThere(r, bound, fields) /\ n \in Nat /\ q = AfterList(r)
  BY <1>1, ListRead
<1> HIDE DEF r
<1>3. /\ s # <<>> /\ Is(s[1], CountFields) /\ n <= bound /\ n < Len(s)
      /\ \A i \in 1..n : Is(s[i + 1], fields)
  BY <1>1, <1>2 DEF ListThere
<1>4. q.rest = SubSeq(s, n + 2, Len(s)) /\ q.lists = Append(<<>>, SubSeq(s, 2, n + 1))
  <2>1. /\ AfterList(r).rest = SubSeq(r.rest, r.rest[1].count + 2, Len(r.rest))
        /\ AfterList(r).lists = Append(r.lists, SubSeq(r.rest, 2, r.rest[1].count + 1))
    BY DEF AfterList
  <2>2. QED
    BY <1>1, <1>2, <2>1, Zenon
<1>5. Len(s) \in Nat /\ \A i \in 1..Len(s) : s[i] \in T
  BY LenProperties, ElementOfSeq
<1> DEFINE items == SubSeq(s, 2, n + 1)
<1>6. \A i \in 2..(n + 1) : s[i] \in T
  BY <1>2, <1>3, <1>5
<1>7. items \in Seq(T) /\ Len(items) = n /\ \A i \in 1..n : items[i] = s[i + 1]
  <2>1. /\ items \in Seq(T) /\ Len(items) = (IF 2 <= n + 1 THEN (n + 1) - 2 + 1 ELSE 0)
        /\ \A i \in 1..((n + 1) - 2 + 1) : items[i] = s[2 + i - 1]
    BY <1>2, <1>6, SubSeqProperties
  <2> HIDE DEF items, n
  <2>2. Len(items) = n /\ (n + 1) - 2 + 1 = n
    BY <1>2, <2>1
  <2>3. \A i \in 1..n : items[i] = s[i + 1]
    <3>1. \A i \in 1..n : 2 + i - 1 = i + 1
      OBVIOUS
    <3>2. QED
      BY <2>1, <2>2, <3>1
  <2>4. QED
    BY <2>1, <2>2, <2>3
<1> HIDE DEF items
<1>8. q.lists[1] = items
  <2>1. Append(<<>>, items)[1] = items
    OBVIOUS
  <2>2. QED
    BY <1>4, <2>1 DEF items
<1>9. QED
  BY <1>2, <1>3, <1>4, <1>7, <1>8 DEF r

\* What is read as episodes is within the bound and has its own identities.
LEMMA EpisodesSound ==
  ASSUME NEW s \in Seq(T), NEW limits, limits.max_snapshot_episodes \in Nat,
         EpisodesOk(s, limits)
  PROVE  LET es == EpisodeReader(s, limits).lists[1]
         IN /\ Len(es) <= limits.max_snapshot_episodes
            /\ \A e \in ToSet(es) : e.id = e.key /\ Len(e.citations) <= limits.max_citations
<1>1. EpisodeReader(s, limits).ok
  BY DEF EpisodesOk, AtEnd
<1>2. Len(EpisodeReader(s, limits).lists[1]) <= limits.max_snapshot_episodes
  BY <1>1, FirstList DEF EpisodeReader
<1>3. QED
  BY <1>2 DEF EpisodesOk, EpisodeOk

\* The same of the records, a count over the bound included.
LEMMA EvidenceSound ==
  ASSUME NEW s \in Seq(T), NEW limits, limits.max_snapshot_evidence \in Nat,
         EvidenceOk(s, limits)
  PROVE  LET es == EvidenceReader(s, limits).lists[1]
         IN /\ Len(es) <= limits.max_snapshot_evidence
            /\ \A e \in ToSet(es) : e.id = e.body
<1>1. CASE OverCount(s, limits)
  <2>1. EvidenceReader(s, limits).lists[1] = <<>>
    BY <1>1 DEF EvidenceReader
  <2>2. QED
    BY <2>1 DEF EvidenceOk
<1>2. CASE ~OverCount(s, limits)
  <2>1. EvidenceReader(s, limits) =
          ReadList(Reader(s), limits.max_snapshot_evidence, EvidenceFields)
    BY <1>2, Zenon DEF EvidenceReader
  <2>2. EvidenceReader(s, limits).ok
    BY DEF EvidenceOk, AtEnd
  <2>3. Len(EvidenceReader(s, limits).lists[1]) <= limits.max_snapshot_evidence
    BY <2>1, <2>2, FirstList
  <2>4. QED
    BY <2>3 DEF EvidenceOk
<1>3. QED
  BY <1>1, <1>2

\* A list was read only if it was there.
LEMMA OkBefore ==
  ASSUME NEW r, NEW bound, NEW fields, ReadList(r, bound, fields).ok
  PROVE  r.ok /\ ListThere(r, bound, fields)
<1>1. ASSUME ~ListThere(r, bound, fields) PROVE FALSE
  <2>1. ReadList(r, bound, fields) = Failed(r)
    BY <1>1, Zenon DEF ReadList
  <2>2. QED
    BY <2>1 DEF Failed
<1>2. QED
  BY <1>1 DEF ListThere

\* Objects are read as objects, and the lists read before stay.
LEMMA ObjectsRead ==
  ASSUME NEW r, r.rest \in Seq(T), NEW n \in Nat, r.lists \in Seq(Seq(Object_t)),
         Len(r.lists) = n, NEW bound, ReadList(r, bound, ObjectFields).ok
  PROVE  LET q == ReadList(r, bound, ObjectFields)
         IN /\ q.rest \in Seq(T)
            /\ q.lists \in Seq(Seq(Object_t))
            /\ Len(q.lists) = n + 1
<1> DEFINE q == ReadList(r, bound, ObjectFields)
           s == r.rest
           c == s[1].count
           items == SubSeq(s, 2, c + 1)
<1>1. ListThere(r, bound, ObjectFields) /\ c \in Nat /\ q = AfterList(r)
  BY ListRead
<1>2. c < Len(s) /\ \A i \in 1..c : Is(s[i + 1], ObjectFields)
  BY <1>1 DEF ListThere
<1>3. q.rest = SubSeq(s, c + 2, Len(s)) /\ q.lists = Append(r.lists, items)
  <2>1. /\ AfterList(r).rest = SubSeq(r.rest, r.rest[1].count + 2, Len(r.rest))
        /\ AfterList(r).lists = Append(r.lists, SubSeq(r.rest, 2, r.rest[1].count + 1))
    BY DEF AfterList
  <2>2. QED
    BY <1>1, <2>1, Zenon
<1>4. Len(s) \in Nat /\ \A i \in 1..Len(s) : s[i] \in T
  BY LenProperties, ElementOfSeq
<1> HIDE DEF q, s, c
<1>5. q.rest \in Seq(T)
  <2>1. \A i \in (c + 2)..Len(s) : s[i] \in T
    BY <1>1, <1>4
  <2>2. c + 2 \in Int /\ Len(s) \in Int
    BY <1>1, <1>4
  <2>3. QED
    BY <1>3, <2>1, <2>2, SubSeqProperties
<1>6. items \in Seq(Object_t)
  <2>1. ASSUME NEW i \in 2..(c + 1) PROVE s[i] \in Object_t
    <3>1. i - 1 \in 1..c /\ (i - 1) + 1 = i /\ i \in 1..Len(s)
      BY <1>1, <1>2, <1>4
    <3>2. Is(s[i], ObjectFields) /\ s[i] \in T
      BY <1>2, <1>4, <3>1
    <3>3. QED
      BY <3>2, TokenKinds
  <2>2. 2 \in Int /\ c + 1 \in Int
    BY <1>1
  <2>3. QED
    BY <2>1, <2>2, SubSeqProperties
<1> HIDE DEF items
<1>7. q.lists \in Seq(Seq(Object_t)) /\ Len(q.lists) = n + 1
  BY <1>3, <1>6, AppendProperties
<1>8. QED
  BY <1>5, <1>7 DEF q

\* The place of a kind in the order of the file.
LEMMA KindPlace ==
  ASSUME NEW k \in Kinds
  PROVE  LET i == CHOOSE i \in DOMAIN KindOrder : KindOrder[i] = k
         IN i \in 1..7 /\ KindOrder[i] = k
<1>1. DOMAIN KindOrder = 1..7
  BY DEF KindOrder
<1>2. \E i \in DOMAIN KindOrder : KindOrder[i] = k
  BY Zenon DEF Kinds, ToSet
<1>3. QED
  BY <1>1, <1>2, Zenon

LEMMA SevenKinds == Kinds = {"node", "port", "link", "queue", "buffer", "path", "flow"}
<1>1. DOMAIN KindOrder = 1..7
  BY DEF KindOrder
<1>2. /\ KindOrder[1] = "node" /\ KindOrder[2] = "port" /\ KindOrder[3] = "link"
      /\ KindOrder[4] = "queue" /\ KindOrder[5] = "buffer" /\ KindOrder[6] = "path"
      /\ KindOrder[7] = "flow"
  BY DEF KindOrder
<1>3. Kinds = {KindOrder[i] : i \in 1..7}
  BY <1>1 DEF Kinds, ToSet
<1>4. \A i \in 1..7 : i = 1 \/ i = 2 \/ i = 3 \/ i = 4 \/ i = 5 \/ i = 6 \/ i = 7
  OBVIOUS
<1>5. QED
  BY <1>2, <1>3, <1>4

\* A section that was read to its end as a topology gives one.
LEMMA TopologyRead ==
  ASSUME NEW s \in Seq(T), NEW limits, s # <<>>, Is(s[1], TopologyFields),
         TopologyReader(s, limits).ok
  PROVE  TopologyOf(s, limits) \in Topology_t
<1> DEFINE read(r, k) == ReadList(r, limits.max_objects[k], ObjectFields)
           r0 == Reader(Tail(s))
           r1 == read(r0, "node")
           r2 == read(r1, "port")
           r3 == read(r2, "link")
           r4 == read(r3, "queue")
           r5 == read(r4, "buffer")
           r6 == read(r5, "path")
           r7 == read(r6, "flow")
           good(r, n) == r.rest \in Seq(T) /\ r.lists \in Seq(Seq(Object_t)) /\ Len(r.lists) = n
<1>1. TopologyReader(s, limits) = r7
  BY Zenon DEF TopologyReader
<1>2. good(r0, 0)
  <2>1. Tail(s) \in Seq(T)
    BY HeadTailProperties
  <2>2. r0.rest = Tail(s) /\ r0.lists = <<>>
    BY DEF Reader
  <2>3. QED
    BY <2>1, <2>2, EmptySeq
<1> HIDE DEF r0
<1>3. ASSUME NEW r, NEW k, NEW n \in Nat, good(r, n), read(r, k).ok
      PROVE  good(read(r, k), n + 1)
  BY <1>3, ObjectsRead
<1>4. ASSUME NEW r, NEW k, read(r, k).ok PROVE r.ok
  BY <1>4, OkBefore
<1> HIDE DEF read, good
<1>5. r7.ok
  BY <1>1
<1>6. r6.ok
  BY <1>4, <1>5, Zenon
<1>7. r5.ok
  BY <1>4, <1>6, Zenon
<1>8. r4.ok
  BY <1>4, <1>7, Zenon
<1>9. r3.ok
  BY <1>4, <1>8, Zenon
<1>10. r2.ok
  BY <1>4, <1>9, Zenon
<1>11. r1.ok
  BY <1>4, <1>10, Zenon
<1>12. good(r1, 1)
  BY <1>2, <1>3, <1>11
<1> HIDE DEF r1
<1>13. good(r2, 2)
  BY <1>12, <1>3, <1>10
<1> HIDE DEF r2
<1>14. good(r3, 3)
  BY <1>13, <1>3, <1>9
<1> HIDE DEF r3
<1>15. good(r4, 4)
  BY <1>14, <1>3, <1>8
<1> HIDE DEF r4
<1>16. good(r5, 5)
  BY <1>15, <1>3, <1>7
<1> HIDE DEF r5
<1>17. good(r6, 6)
  BY <1>16, <1>3, <1>6
<1> HIDE DEF r6
<1>18. good(r7, 7)
  BY <1>17, <1>3, <1>5
<1> HIDE DEF r7
<1>19. s[1] \in [generation : Nat, label : Nat]
  BY LenProperties, EmptySeq, ElementOfSeq, TokenKinds
<1>20. ASSUME NEW k \in Kinds
       PROVE  TopologyReader(s, limits).lists[CHOOSE i \in DOMAIN KindOrder : KindOrder[i] = k]
                \in Seq(Object_t)
  <2>1. \A i \in 1..7 : r7.lists[i] \in Seq(Object_t)
    BY <1>18, ElementOfSeq DEF good
  <2>2. QED
    BY <1>1, <2>1, KindPlace, Zenon
<1>21. QED
  BY <1>19, <1>20 DEF TopologyOf, Topology_t

-----------------------------------------------------------------------------
LEMMA FirstAndRest ==
  ASSUME NEW S, NEW x \in S, NEW m \in Seq(S)
  PROVE  /\ <<x>> \o m \in Seq(S) /\ <<x>> \o m # <<>>
         /\ (<<x>> \o m)[1] = x
         /\ Tail(<<x>> \o m) = m
         /\ Len(<<x>> \o m) = 1 + Len(m)
         /\ \A i \in 1..Len(m) : (<<x>> \o m)[i + 1] = m[i]
<1> DEFINE s == <<x>> \o m
<1>1. <<x>> \in Seq(S) /\ Len(<<x>>) = 1 /\ <<x>>[1] = x
  OBVIOUS
<1>2. /\ s \in Seq(S) /\ Len(s) = 1 + Len(m)
      /\ \A i \in 1..(1 + Len(m)) : s[i] = IF i <= 1 THEN <<x>>[i] ELSE m[i - 1]
  BY <1>1, ConcatProperties
<1>3. Len(m) \in Nat
  BY LenProperties
<1> HIDE DEF s
<1>4. s # <<>> /\ s[1] = x
  BY <1>1, <1>2, <1>3
<1>5. \A i \in 1..Len(m) : s[i + 1] = m[i]
  BY <1>2, <1>3
<1>6. Tail(s) = m
  <2>1. Tail(s) \in Seq(S) /\ Len(Tail(s)) = Len(m) /\ \A i \in 1..Len(Tail(s)) : Tail(s)[i] = s[i + 1]
    BY <1>2, <1>3, <1>4, HeadTailProperties
  <2>2. QED
    BY <1>5, <2>1, SeqEqual
<1>7. QED
  BY <1>2, <1>4, <1>5, <1>6 DEF s

\* A part of a concatenation.
LEMMA Middle ==
  ASSUME NEW S, NEW a \in Seq(S), NEW b \in Seq(S), NEW d \in Seq(S)
  PROVE  SubSeq((a \o b) \o d, Len(a) + 1, Len(a) + Len(b)) = b
<1> DEFINE ab == a \o b
           s == ab \o d
           m == SubSeq(s, Len(a) + 1, Len(a) + Len(b))
<1>1. Len(a) \in Nat /\ Len(b) \in Nat /\ Len(d) \in Nat
  BY LenProperties
<1>2. /\ ab \in Seq(S) /\ Len(ab) = Len(a) + Len(b)
      /\ \A i \in 1..(Len(a) + Len(b)) : ab[i] = IF i <= Len(a) THEN a[i] ELSE b[i - Len(a)]
  BY ConcatProperties
<1> HIDE DEF ab
<1>3. /\ s \in Seq(S) /\ Len(s) = Len(ab) + Len(d)
      /\ \A i \in 1..(Len(ab) + Len(d)) : s[i] = IF i <= Len(ab) THEN ab[i] ELSE d[i - Len(ab)]
  <2>1. ab \in Seq(S)
    BY <1>2
  <2>2. QED
    BY <2>1, ConcatProperties
<1> HIDE DEF s
<1>4. ASSUME NEW i \in 1..Len(b) PROVE s[Len(a) + i] = b[i]
  <2>1. Len(a) + i \in 1..(Len(ab) + Len(d)) /\ Len(a) + i <= Len(ab)
        /\ Len(a) + i \in 1..(Len(a) + Len(b)) /\ ~(Len(a) + i <= Len(a))
        /\ (Len(a) + i) - Len(a) = i
    BY <1>1, <1>2
  <2>2. s[Len(a) + i] = ab[Len(a) + i]
    BY <1>3, <2>1
  <2>3. ab[Len(a) + i] = b[i]
    BY <1>2, <2>1
  <2>4. QED
    BY <2>2, <2>3
<1>5. \A i \in (Len(a) + 1)..(Len(a) + Len(b)) : s[i] \in S
  <2>1. \A i \in (Len(a) + 1)..(Len(a) + Len(b)) : i \in 1..Len(s)
    BY <1>1, <1>2, <1>3
  <2>2. QED
    BY <1>3, <2>1, ElementOfSeq
<1>6. /\ m \in Seq(S)
      /\ Len(m) = IF Len(a) + 1 <= Len(a) + Len(b) THEN (Len(a) + Len(b)) - (Len(a) + 1) + 1 ELSE 0
      /\ \A i \in 1..((Len(a) + Len(b)) - (Len(a) + 1) + 1) : m[i] = s[(Len(a) + 1) + i - 1]
  <2>1. Len(a) + 1 \in Int /\ Len(a) + Len(b) \in Int
    BY <1>1
  <2>2. QED
    BY <1>5, <2>1, SubSeqProperties
<1> HIDE DEF m
<1>7. Len(m) = Len(b) /\ (Len(a) + Len(b)) - (Len(a) + 1) + 1 = Len(b)
  BY <1>1, <1>6
<1>8. \A i \in 1..Len(b) : m[i] = b[i]
  <2>1. \A i \in 1..Len(b) : (Len(a) + 1) + i - 1 = Len(a) + i
    BY <1>1
  <2>2. QED
    BY <1>4, <1>6, <1>7, <2>1
<1>9. m = b
  BY <1>6, <1>7, <1>8, SeqEqual
<1>10. QED
  BY <1>9 DEF m, s, ab

FlattensTo(a, b, d, e) ==
  /\ FlattenSeq(SubSeq(<<a, b, d, e>>, 1, 0)) = <<>>
  /\ FlattenSeq(SubSeq(<<a, b, d, e>>, 1, 1)) = a
  /\ FlattenSeq(SubSeq(<<a, b, d, e>>, 1, 2)) = a \o b
  /\ FlattenSeq(SubSeq(<<a, b, d, e>>, 1, 3)) = (a \o b) \o d
  /\ FlattenSeq(<<a, b, d, e>>) = ((a \o b) \o d) \o e

\* The prefixes of four sections, put in a row.
LEMMA FlattenFour ==
  ASSUME NEW S, NEW a \in Seq(S), NEW b \in Seq(S), NEW d \in Seq(S), NEW e \in Seq(S)
  PROVE  FlattensTo(a, b, d, e)
<1> DEFINE ss == <<a, b, d, e>>
<1>1. ss \in Seq(Seq(S)) /\ Len(ss) = 4 /\ ss[1] = a /\ ss[2] = b /\ ss[3] = d /\ ss[4] = e
  OBVIOUS
<1> HIDE DEF ss
<1>2. ASSUME NEW n \in 0..4
      PROVE  /\ Len(SubSeq(ss, 1, n)) = n
             /\ \A i \in 1..n : SubSeq(ss, 1, n)[i] = ss[i]
  <2>1. \A i \in 1..n : i \in 1..Len(ss)
    BY <1>1
  <2>2. \A i \in 1..n : ss[i] \in Seq(S)
    BY <1>1, <2>1, ElementOfSeq
  <2>3. /\ Len(SubSeq(ss, 1, n)) = IF 1 <= n THEN n - 1 + 1 ELSE 0
        /\ \A i \in 1..(n - 1 + 1) : SubSeq(ss, 1, n)[i] = ss[1 + i - 1]
    BY <2>2, SubSeqProperties
  <2>4. Len(SubSeq(ss, 1, n)) = n
    BY <2>3
  <2>5. n - 1 + 1 = n /\ \A i \in 1..n : 1 + i - 1 = i
    OBVIOUS
  <2>6. QED
    BY <2>3, <2>4, <2>5
<1>3. FlattenSeq(SubSeq(ss, 1, 0)) = <<>>
  <2>1. SubSeq(ss, 1, 0) = <<>>
    BY SubSeqEmpty
  <2>2. QED
    BY <2>1 DEF FlattenSeq
<1>4. ASSUME NEW n \in 1..4, NEW tt, Len(tt) = n, \A i \in 1..n : tt[i] = ss[i]
      PROVE  /\ n = 1 => FlattenSeq(tt) = a
             /\ n = 2 => FlattenSeq(tt) = a \o b
             /\ n = 3 => FlattenSeq(tt) = (a \o b) \o d
             /\ n = 4 => FlattenSeq(tt) = ((a \o b) \o d) \o e
  <2>1. PICK f : /\ f[1] = tt[1]
                 /\ \A i \in 2..Len(tt) : f[i] = f[i - 1] \o tt[i]
                 /\ FlattenSeq(tt) = f[Len(tt)]
    <3>1. Len(tt) \in Nat \ {0}
      BY <1>4
    <3>2. QED
      BY <3>1, FlattenUnfolds, Zenon
  <2>2. f[1] = a
    BY <1>1, <1>4, <2>1
  <2>3. n >= 2 => f[2] = f[1] \o b
    <3>1. n >= 2 => 2 \in 2..n /\ 2 - 1 = 1 /\ tt[2] = b
      BY <1>1, <1>4
    <3>2. QED
      BY <1>4, <2>1, <3>1
  <2>4. n >= 3 => f[3] = f[2] \o d
    <3>1. n >= 3 => 3 \in 2..n /\ 3 - 1 = 2 /\ tt[3] = d
      BY <1>1, <1>4
    <3>2. QED
      BY <1>4, <2>1, <3>1
  <2>5. n >= 4 => f[4] = f[3] \o e
    <3>1. n >= 4 => 4 \in 2..n /\ 4 - 1 = 3 /\ tt[4] = e
      BY <1>1, <1>4
    <3>2. QED
      BY <1>4, <2>1, <3>1
  <2>6. FlattenSeq(tt) = f[n]
    BY <1>4, <2>1
  <2>7. n = 1 => FlattenSeq(tt) = a
    BY <2>2, <2>6
  <2>8. n = 2 => FlattenSeq(tt) = a \o b
    BY <2>2, <2>3, <2>6
  <2>9. n = 3 => FlattenSeq(tt) = (a \o b) \o d
    <3>1. n = 3 => n >= 2 /\ n >= 3
      OBVIOUS
    <3>2. QED
      BY <2>2, <2>3, <2>4, <2>6, <3>1, Zenon
  <2>10. n = 4 => FlattenSeq(tt) = ((a \o b) \o d) \o e
    <3>1. n = 4 => n >= 2 /\ n >= 3 /\ n >= 4
      OBVIOUS
    <3>2. QED
      BY <2>2, <2>3, <2>4, <2>5, <2>6, <3>1, Zenon
  <2>11. QED
    BY <2>7, <2>8, <2>9, <2>10
<1>5. FlattenSeq(SubSeq(ss, 1, 1)) = a
  <2>1. Len(SubSeq(ss, 1, 1)) = 1 /\ \A i \in 1..1 : SubSeq(ss, 1, 1)[i] = ss[i]
    BY <1>2
  <2>2. 1 \in 1..4
    OBVIOUS
  <2>3. QED
    BY <1>4, <2>1, <2>2
<1>6. FlattenSeq(SubSeq(ss, 1, 2)) = a \o b
  <2>1. Len(SubSeq(ss, 1, 2)) = 2 /\ \A i \in 1..2 : SubSeq(ss, 1, 2)[i] = ss[i]
    BY <1>2
  <2>2. 2 \in 1..4
    OBVIOUS
  <2>3. QED
    BY <1>4, <2>1, <2>2
<1>7. FlattenSeq(SubSeq(ss, 1, 3)) = (a \o b) \o d
  <2>1. Len(SubSeq(ss, 1, 3)) = 3 /\ \A i \in 1..3 : SubSeq(ss, 1, 3)[i] = ss[i]
    BY <1>2
  <2>2. 3 \in 1..4
    OBVIOUS
  <2>3. QED
    BY <1>4, <2>1, <2>2
<1>8. FlattenSeq(ss) = ((a \o b) \o d) \o e
  <2>1. 4 \in 1..4 /\ Len(ss) = 4
    BY <1>1
  <2>2. QED
    BY <1>4, <2>1
<1>9. QED
  BY <1>3, <1>5, <1>6, <1>7, <1>8, Zenon DEF ss, FlattensTo

\* What is left to read begins with a list that was written.
Begins(r, items, more, bound, fields) ==
  /\ r.ok = TRUE /\ r.rest = Counted(items) \o more
  /\ items \in Seq(T) /\ more \in Seq(T)
  /\ Len(items) <= bound
  /\ \A i \in 1..Len(items) : Is(items[i], fields)

\* After it, what is left is what followed.
Continues(q, r, items, more) ==
  q.ok = TRUE /\ q.rest = more /\ q.lists = Append(r.lists, items)

\* Reading back a list that was written, whatever follows it.
LEMMA CountedRead ==
  ASSUME NEW items, NEW more, NEW bound, NEW fields, NEW r,
         Begins(r, items, more, bound, fields)
  PROVE  Continues(ReadList(r, bound, fields), r, items, more)
<1> USE DEF Begins
<1> DEFINE n == Len(items)
           c == [count |-> n]
           s == r.rest
<1>1. n \in Nat /\ Len(more) \in Nat
  BY LenProperties
<1>2. c \in [count : Nat] /\ c.count = n
  BY <1>1
<1>3. c \in Tokens /\ c \in T
  BY <1>2 DEF Tokens, T
<1>4. Is(c, CountFields)
  BY <1>2, <1>3, NotGarbled, FieldsOf DEF Is
<1> HIDE DEF c
<1>5. Counted(items) = <<c>> \o items
  BY DEF Counted, c
<1>6. /\ Counted(items) \in Seq(T) /\ Len(Counted(items)) = n + 1
      /\ Counted(items)[1] = c
      /\ \A i \in 1..n : Counted(items)[i + 1] = items[i]
  BY <1>1, <1>3, <1>5, FirstAndRest
<1> HIDE DEF s
<1>7. /\ s \in Seq(T) /\ Len(s) = (n + 1) + Len(more)
      /\ \A i \in 1..((n + 1) + Len(more)) :
           s[i] = IF i <= n + 1 THEN Counted(items)[i] ELSE more[i - (n + 1)]
  <2>1. Counted(items) \in Seq(T) /\ Len(Counted(items)) = n + 1
    BY <1>6
  <2> DEFINE w == Counted(items)
  <2>2. w \in Seq(T) /\ Len(w) = n + 1 /\ s = w \o more
    BY <2>1 DEF s
  <2> HIDE DEF w, n
  <2>3. /\ w \o more \in Seq(T) /\ Len(w \o more) = Len(w) + Len(more)
        /\ \A i \in 1..(Len(w) + Len(more)) :
             (w \o more)[i] = IF i <= Len(w) THEN w[i] ELSE more[i - Len(w)]
    BY <2>2, ConcatProperties
  <2>4. QED
    BY <2>2, <2>3 DEF w
<1>8. s # <<>> /\ s[1] = c
  BY <1>1, <1>6, <1>7
<1>9. \A i \in 1..n : s[i + 1] = items[i]
  <2>1. \A i \in 1..n : i + 1 \in 1..((n + 1) + Len(more)) /\ i + 1 <= n + 1
    BY <1>1
  <2>2. QED
    BY <1>6, <1>7, <2>1
<1>10. ListThere(r, bound, fields)
  <2>1. s[1].count = n
    BY <1>2, <1>8
  <2>2. n < Len(s)
    BY <1>1, <1>7
  <2>3. Is(s[1], CountFields) /\ s[1].count <= bound /\ s[1].count < Len(s)
    BY <1>4, <1>8, <2>1, <2>2
  <2>4. \A i \in 1..s[1].count : Is(s[i + 1], fields)
    BY <1>9, <2>1
  <2>5. QED
    BY <1>8, <2>3, <2>4 DEF ListThere, s
<1>11. SubSeq(s, 2, n + 1) = items
  <2>1. s = (<<c>> \o items) \o more
    BY <1>5 DEF s
  <2>2. <<c>> \in Seq(T) /\ Len(<<c>>) = 1
    BY <1>3
  <2>3. SubSeq(s, 1 + 1, 1 + n) = items
    BY <2>1, <2>2, Middle
  <2>4. 1 + 1 = 2 /\ 1 + n = n + 1
    BY <1>1
  <2>5. QED
    BY <2>3, <2>4
<1>12. SubSeq(s, n + 2, Len(s)) = more
  <2>1. s = (Counted(items) \o more) \o <<>>
    BY <1>6, <1>7, ConcatEmptySeq DEF s
  <2>2. SubSeq(s, (n + 1) + 1, (n + 1) + Len(more)) = more
    BY <1>6, <2>1, Middle, EmptySeq
  <2>3. (n + 1) + 1 = n + 2
    BY <1>1
  <2>4. QED
    BY <1>7, <2>2, <2>3
<1>13. ReadList(r, bound, fields) = AfterList(r)
  BY <1>10, Zenon DEF ReadList
<1>14. /\ AfterList(r).ok = TRUE
       /\ AfterList(r).rest = SubSeq(r.rest, r.rest[1].count + 2, Len(r.rest))
       /\ AfterList(r).lists = Append(r.lists, SubSeq(r.rest, 2, r.rest[1].count + 1))
  BY DEF AfterList
<1>15. r.rest[1].count = n
  BY <1>2, <1>8 DEF s
<1>16. QED
  BY <1>11, <1>12, <1>13, <1>14, <1>15, Zenon DEF s, Continues

\* A cut keeps the order and is within the bound.
LEMMA UpToFacts ==
  ASSUME NEW S, NEW s \in Seq(S), NEW n \in Nat
  PROVE  /\ UpTo(s, n) \in Seq(S)
         /\ Len(UpTo(s, n)) <= n
         /\ Len(s) <= n => UpTo(s, n) = s
         /\ \A i \in 1..Len(UpTo(s, n)) : UpTo(s, n)[i] = s[i] /\ i \in 1..Len(s)
<1>1. Len(s) \in Nat /\ \A i \in 1..Len(s) : s[i] \in S
  BY LenProperties, ElementOfSeq
<1>2. CASE Len(s) > n
  <2>1. UpTo(s, n) = SubSeq(s, 1, n)
    BY <1>2 DEF UpTo
  <2>2. \A i \in 1..n : i \in 1..Len(s) /\ s[i] \in S
    BY <1>1, <1>2
  <2>3. /\ SubSeq(s, 1, n) \in Seq(S)
        /\ Len(SubSeq(s, 1, n)) = IF 1 <= n THEN n - 1 + 1 ELSE 0
        /\ \A i \in 1..(n - 1 + 1) : SubSeq(s, 1, n)[i] = s[1 + i - 1]
    BY <2>2, SubSeqProperties
  <2>4. Len(SubSeq(s, 1, n)) = n
    BY <2>3
  <2>5. n - 1 + 1 = n /\ \A i \in 1..n : 1 + i - 1 = i
    OBVIOUS
  <2>6. \A i \in 1..n : SubSeq(s, 1, n)[i] = s[i]
    BY <2>3, <2>5
  <2>7. ~(Len(s) <= n)
    BY <1>1, <1>2
  <2>8. QED
    BY <2>1, <2>2, <2>3, <2>4, <2>6, <2>7
<1>3. CASE ~(Len(s) > n)
  BY <1>1, <1>3 DEF UpTo
<1>4. QED
  BY <1>2, <1>3

LEMMA CutIsNat == LabelCut \in Nat /\ HeaderSize \in Nat /\ EntrySize \in Nat /\ MaxDamaged \in Nat
BY CodecAssumption

\* Writing an object changes nothing that fits.
LEMMA WrittenObject ==
  ASSUME NEW o \in Object_t
  PROVE  WriteObject(o) \in Object_t /\ (Len(o.labels) <= LabelCut => WriteObject(o) = o)
<1>1. o.labels \in Seq(Nat)
  BY DEF Object_t
<1>2. /\ UpTo(o.labels, LabelCut) \in Seq(Nat)
      /\ (Len(o.labels) <= LabelCut => UpTo(o.labels, LabelCut) = o.labels)
  BY <1>1, CutIsNat, UpToFacts
<1>3. WriteObject(o) = [o EXCEPT !.labels = UpTo(o.labels, LabelCut)]
  BY DEF WriteObject
<1> DEFINE cut == UpTo(o.labels, LabelCut)
<1> HIDE DEF cut
<1>4. [o EXCEPT !.labels = cut] \in Object_t \/ cut \notin Seq(Nat)
  BY DEF Object_t
<1>5. cut = o.labels => [o EXCEPT !.labels = cut] = o
  BY DEF Object_t
<1>6. QED
  BY <1>2, <1>3, <1>4, <1>5 DEF cut

Written(t, k) == [j \in DOMAIN t.objects[k] |-> WriteObject(t.objects[k][j])]

LEMMA WrittenType ==
  ASSUME NEW t \in Topology_t, NEW k \in Kinds
  PROVE  /\ t.objects[k] \in Seq(Object_t)
         /\ Written(t, k) \in Seq(Object_t)
         /\ Written(t, k) \in Seq(T)
         /\ Len(Written(t, k)) = Len(t.objects[k])
         /\ \A i \in 1..Len(Written(t, k)) : Is(Written(t, k)[i], ObjectFields)
         /\ (\A o \in ToSet(t.objects[k]) : Len(o.labels) <= LabelCut)
              => Written(t, k) = t.objects[k]
<1> DEFINE os == t.objects[k]
           w == Written(t, k)
           n == Len(os)
<1>1. os \in Seq(Object_t)
  BY DEF Topology_t
<1>2. n \in Nat /\ DOMAIN os = 1..n /\ \A i \in 1..n : os[i] \in Object_t
  BY <1>1, LenProperties, ElementOfSeq
<1>3. w = [i \in 1..n |-> WriteObject(os[i])]
  BY <1>2 DEF Written
<1> HIDE DEF os, w, n
<1>4. w \in [1..n -> Object_t]
  BY <1>2, <1>3, WrittenObject
<1>5. w \in Seq(Object_t) /\ Len(w) = n
  BY <1>2, <1>4, FunIsSeq
<1>6. w \in Seq(T)
  <2>1. Object_t \subseteq T
    BY DEF T, Tokens
  <2>2. QED
    BY <1>5, <2>1, SeqMonotonic
<1>7. ASSUME NEW i \in 1..n PROVE Is(w[i], ObjectFields)
  <2>1. w[i] \in Object_t
    BY <1>4
  <2>2. w[i] \in Tokens
    BY <2>1 DEF Tokens
  <2>3. QED
    BY <2>1, <2>2, FieldsOf, NotGarbled DEF Is
<1>8. ASSUME \A o \in ToSet(os) : Len(o.labels) <= LabelCut PROVE w = os
  <2>1. \A i \in 1..n : os[i] \in ToSet(os)
    BY <1>2 DEF ToSet
  <2>2. \A i \in 1..n : w[i] = os[i]
    BY <1>2, <1>3, <1>8, <2>1, WrittenObject
  <2>3. QED
    BY <1>1, <1>5, <2>2, SeqEqual DEF n
<1>9. QED
  BY <1>1, <1>5, <1>6, <1>7, <1>8 DEF os, w, n

LEMMA CountedType ==
  ASSUME NEW S, NEW items \in Seq(S), S \subseteq Tokens
  PROVE  /\ Counted(items) \in Seq(T) /\ Counted(items) # <<>>
         /\ Counted(items)[1] = [count |-> Len(items)]
         /\ Is(Counted(items)[1], CountFields)
<1> DEFINE c == [count |-> Len(items)]
<1>1. Len(items) \in Nat
  BY LenProperties
<1>2. c \in [count : Nat]
  BY <1>1
<1>3. c \in Tokens
  BY <1>2 DEF Tokens
<1>4. Is(c, CountFields)
  BY <1>2, <1>3, NotGarbled, FieldsOf DEF Is
<1> HIDE DEF c
<1>5. items \in Seq(T) /\ c \in T
  BY <1>3, SeqMonotonic DEF T
<1>6. Counted(items) = <<c>> \o items
  BY DEF Counted, c
<1>7. QED
  BY <1>4, <1>5, <1>6, FirstAndRest DEF c

LEMMA HeadToken ==
  ASSUME NEW t \in Topology_t
  PROVE  LET x == [generation |-> t.generation, label |-> t.label]
         IN x \in T /\ Is(x, TopologyFields)
<1> DEFINE x == [generation |-> t.generation, label |-> t.label]
<1>1. x \in [generation : Nat, label : Nat]
  BY DEF Topology_t
<1>2. x \in Tokens
  BY <1>1 DEF Tokens
<1> HIDE DEF x
<1>3. QED
  BY <1>1, <1>2, FieldsOf, NotGarbled DEF Is, T, x

\* The lists of a topology section, from the last one back.
Lists7(t) == Counted(Written(t, "flow"))
Lists6(t) == Counted(Written(t, "path")) \o Lists7(t)
Lists5(t) == Counted(Written(t, "buffer")) \o Lists6(t)
Lists4(t) == Counted(Written(t, "queue")) \o Lists5(t)
Lists3(t) == Counted(Written(t, "link")) \o Lists4(t)
Lists2(t) == Counted(Written(t, "port")) \o Lists3(t)
Lists1(t) == Counted(Written(t, "node")) \o Lists2(t)

LEMMA ListsType ==
  ASSUME NEW t \in Topology_t
  PROVE  /\ Lists1(t) \in Seq(T) /\ Lists2(t) \in Seq(T) /\ Lists3(t) \in Seq(T)
         /\ Lists4(t) \in Seq(T) /\ Lists5(t) \in Seq(T) /\ Lists6(t) \in Seq(T)
         /\ Lists7(t) \in Seq(T)
         /\ encode_topology_section(t) =
              <<[generation |-> t.generation, label |-> t.label]>> \o Lists1(t)
<1>1. ASSUME NEW k \in Kinds PROVE Counted(Written(t, k)) \in Seq(T)
  <2>1. Object_t \subseteq Tokens
    BY DEF Tokens
  <2>2. QED
    BY <2>1, WrittenType, CountedType
<1>2. /\ "node" \in Kinds /\ "port" \in Kinds /\ "link" \in Kinds /\ "queue" \in Kinds
      /\ "buffer" \in Kinds /\ "path" \in Kinds /\ "flow" \in Kinds
  BY SevenKinds
<1>3. \A a, b \in Seq(T) : a \o b \in Seq(T)
  BY ConcatProperties
<1>7. Lists7(t) \in Seq(T)
  BY <1>1, <1>2 DEF Lists7
<1>8. Lists6(t) \in Seq(T)
  BY <1>1, <1>2, <1>3, <1>7 DEF Lists6
<1>9. Lists5(t) \in Seq(T)
  BY <1>1, <1>2, <1>3, <1>8 DEF Lists5
<1>10. Lists4(t) \in Seq(T)
  BY <1>1, <1>2, <1>3, <1>9 DEF Lists4
<1>11. Lists3(t) \in Seq(T)
  BY <1>1, <1>2, <1>3, <1>10 DEF Lists3
<1>12. Lists2(t) \in Seq(T)
  BY <1>1, <1>2, <1>3, <1>11 DEF Lists2
<1>13. Lists1(t) \in Seq(T)
  BY <1>1, <1>2, <1>3, <1>12 DEF Lists1
<1>14. encode_topology_section(t) =
              <<[generation |-> t.generation, label |-> t.label]>> \o Lists1(t)
  BY Zenon DEF encode_topology_section, Written, Lists1, Lists2, Lists3, Lists4, Lists5, Lists6, Lists7
<1>15. QED
  BY <1>7, <1>8, <1>9, <1>10, <1>11, <1>12, <1>13, <1>14

\* A list of objects that was written is read back, and what follows it is left.
LEMMA WrittenRead ==
  ASSUME NEW t \in Topology_t, NEW k \in Kinds, NEW bound, Len(t.objects[k]) <= bound,
         \A o \in ToSet(t.objects[k]) : Len(o.labels) <= LabelCut,
         NEW r, NEW more \in Seq(T), r.ok = TRUE, r.rest = Counted(Written(t, k)) \o more
  PROVE  Continues(ReadList(r, bound, ObjectFields), r, t.objects[k], more)
<1> DEFINE items == Written(t, k)
<1>1. items = t.objects[k] /\ items \in Seq(T)
      /\ \A i \in 1..Len(items) : Is(items[i], ObjectFields)
  BY WrittenType
<1>2. r.rest = Counted(items) \o more
  OBVIOUS
<1>3. Len(items) <= bound
  BY <1>1
<1> HIDE DEF items
<1>4. Begins(r, items, more, bound, ObjectFields)
  BY <1>1, <1>2, <1>3 DEF Begins
<1>5. Continues(ReadList(r, bound, ObjectFields), r, items, more)
  BY <1>4, CountedRead, Zenon
<1>6. QED
  BY <1>1, <1>5, Zenon

\* A topology whose labels are not cut is read back as it was.
LEMMA TopologyReadsBack ==
  ASSUME NEW t \in Topology_t, NEW limits,
         \A k \in Kinds : Len(t.objects[k]) <= limits.max_objects[k],
         \A k \in Kinds : \A o \in ToSet(t.objects[k]) : Len(o.labels) <= LabelCut
  PROVE  LET s == encode_topology_section(t)
         IN /\ s # <<>> /\ Is(s[1], TopologyFields)
            /\ AtEnd(TopologyReader(s, limits))
            /\ TopologyOf(s, limits) = t
<1> DEFINE s == encode_topology_section(t)
           x == [generation |-> t.generation, label |-> t.label]
           read(r, k) == ReadList(r, limits.max_objects[k], ObjectFields)
           os(k) == t.objects[k]
           good(r, n, rest) == /\ r.ok = TRUE /\ r.rest = rest
                               /\ r.lists \in Seq(Seq(Object_t)) /\ Len(r.lists) = n
                               /\ \A j \in 1..n : r.lists[j] = os(KindOrder[j])
           r0 == Reader(Tail(s))
           r1 == read(r0, "node")
           r2 == read(r1, "port")
           r3 == read(r2, "link")
           r4 == read(r3, "queue")
           r5 == read(r4, "buffer")
           r6 == read(r5, "path")
           r7 == read(r6, "flow")
<1>1. s = <<x>> \o Lists1(t) /\ Lists1(t) \in Seq(T) /\ x \in T /\ Is(x, TopologyFields)
  BY ListsType, HeadToken
<1>2. TopologyReader(s, limits) = r7
  BY Zenon DEF TopologyReader
<1> HIDE DEF x, s
<1>3. s # <<>> /\ s[1] = x /\ Tail(s) = Lists1(t)
  BY <1>1, FirstAndRest
<1>4. r0.ok = TRUE /\ r0.rest = Lists1(t) /\ r0.lists = <<>>
  BY <1>3 DEF Reader
<1> HIDE DEF r0
<1>5. ASSUME NEW k \in Kinds, NEW r, NEW more \in Seq(T),
             r.ok = TRUE, r.rest = Counted(Written(t, k)) \o more
      PROVE  read(r, k).ok = TRUE /\ read(r, k).rest = more
             /\ read(r, k).lists = Append(r.lists, os(k))
  <2> DEFINE bound == limits.max_objects[k]
  <2>1. Len(t.objects[k]) <= bound /\ \A o \in ToSet(t.objects[k]) : Len(o.labels) <= LabelCut
    OBVIOUS
  <2> HIDE DEF bound
  <2>2. Continues(ReadList(r, bound, ObjectFields), r, t.objects[k], more)
    BY <1>5, <2>1, WrittenRead, Zenon
  <2>3. QED
    BY <2>2, Zenon DEF bound, Continues
<1> HIDE DEF read, os
<1>6. /\ "node" \in Kinds /\ "port" \in Kinds /\ "link" \in Kinds /\ "queue" \in Kinds
      /\ "buffer" \in Kinds /\ "path" \in Kinds /\ "flow" \in Kinds
  BY SevenKinds
<1>7. /\ Lists2(t) \in Seq(T) /\ Lists3(t) \in Seq(T) /\ Lists4(t) \in Seq(T)
      /\ Lists5(t) \in Seq(T) /\ Lists6(t) \in Seq(T) /\ Lists7(t) \in Seq(T)
  BY ListsType
<1>8. ASSUME NEW n \in Nat, NEW k \in Kinds, KindOrder[n + 1] = k, NEW r, NEW more \in Seq(T),
             good(r, n, Counted(Written(t, k)) \o more)
      PROVE  good(read(r, k), n + 1, more)
  <2> DEFINE q == read(r, k)
  <2>1. q.ok = TRUE /\ q.rest = more /\ q.lists = Append(r.lists, os(k))
    BY <1>5, <1>8
  <2> HIDE DEF q
  <2>2. os(k) \in Seq(Object_t)
    BY WrittenType DEF os
  <2>3. /\ q.lists \in Seq(Seq(Object_t)) /\ Len(q.lists) = n + 1
        /\ \A j \in 1..n : q.lists[j] = r.lists[j]
        /\ q.lists[n + 1] = os(k)
    BY <1>8, <2>1, <2>2, AppendProperties
  <2>4. \A j \in 1..(n + 1) : q.lists[j] = os(KindOrder[j])
    <3>1. \A j \in 1..(n + 1) : j \in 1..n \/ j = n + 1
      OBVIOUS
    <3>2. QED
      BY <1>8, <2>3, <3>1
  <2>5. QED
    BY <2>1, <2>3, <2>4 DEF q
<1>9. /\ KindOrder[1] = "node" /\ KindOrder[2] = "port" /\ KindOrder[3] = "link"
      /\ KindOrder[4] = "queue" /\ KindOrder[5] = "buffer" /\ KindOrder[6] = "path"
      /\ KindOrder[7] = "flow"
  BY DEF KindOrder
<1>10. good(r0, 0, Lists1(t))
  BY <1>4, EmptySeq
<1> HIDE DEF good
<1>11. good(r1, 1, Lists2(t))
  <2>1. Lists1(t) = Counted(Written(t, "node")) \o Lists2(t)
    BY Zenon DEF Lists1
  <2>2. 0 \in Nat /\ 0 + 1 = 1
    OBVIOUS
  <2>3. good(read(r0, "node"), 0 + 1, Lists2(t))
    BY <1>6, <1>7, <1>8, <1>9, <1>10, <2>1, <2>2
  <2>4. QED
    BY <2>2, <2>3
<1> HIDE DEF r1
<1>12. good(r2, 2, Lists3(t))
  <2>1. Lists2(t) = Counted(Written(t, "port")) \o Lists3(t)
    BY Zenon DEF Lists2
  <2>2. 1 \in Nat /\ 1 + 1 = 2
    OBVIOUS
  <2>3. good(read(r1, "port"), 1 + 1, Lists3(t))
    BY <1>6, <1>7, <1>8, <1>9, <1>11, <2>1, <2>2
  <2>4. QED
    BY <2>2, <2>3
<1> HIDE DEF r2
<1>13. good(r3, 3, Lists4(t))
  <2>1. Lists3(t) = Counted(Written(t, "link")) \o Lists4(t)
    BY Zenon DEF Lists3
  <2>2. 2 \in Nat /\ 2 + 1 = 3
    OBVIOUS
  <2>3. good(read(r2, "link"), 2 + 1, Lists4(t))
    BY <1>6, <1>7, <1>8, <1>9, <1>12, <2>1, <2>2
  <2>4. QED
    BY <2>2, <2>3
<1> HIDE DEF r3
<1>14. good(r4, 4, Lists5(t))
  <2>1. Lists4(t) = Counted(Written(t, "queue")) \o Lists5(t)
    BY Zenon DEF Lists4
  <2>2. 3 \in Nat /\ 3 + 1 = 4
    OBVIOUS
  <2>3. good(read(r3, "queue"), 3 + 1, Lists5(t))
    BY <1>6, <1>7, <1>8, <1>9, <1>13, <2>1, <2>2
  <2>4. QED
    BY <2>2, <2>3
<1> HIDE DEF r4
<1>15. good(r5, 5, Lists6(t))
  <2>1. Lists5(t) = Counted(Written(t, "buffer")) \o Lists6(t)
    BY Zenon DEF Lists5
  <2>2. 4 \in Nat /\ 4 + 1 = 5
    OBVIOUS
  <2>3. good(read(r4, "buffer"), 4 + 1, Lists6(t))
    BY <1>6, <1>7, <1>8, <1>9, <1>14, <2>1, <2>2
  <2>4. QED
    BY <2>2, <2>3
<1> HIDE DEF r5
<1>16. good(r6, 6, Lists7(t))
  <2>1. Lists6(t) = Counted(Written(t, "path")) \o Lists7(t)
    BY Zenon DEF Lists6
  <2>2. 5 \in Nat /\ 5 + 1 = 6
    OBVIOUS
  <2>3. good(read(r5, "path"), 5 + 1, Lists7(t))
    BY <1>6, <1>7, <1>8, <1>9, <1>15, <2>1, <2>2
  <2>4. QED
    BY <2>2, <2>3
<1> HIDE DEF r6
<1>17. good(r7, 7, <<>>)
  <2>1. Lists7(t) = Counted(Written(t, "flow")) \o <<>> /\ <<>> \in Seq(T)
    BY <1>7, ConcatEmptySeq, EmptySeq DEF Lists7
  <2>2. 6 \in Nat /\ 6 + 1 = 7
    OBVIOUS
  <2>3. good(read(r6, "flow"), 6 + 1, <<>>)
    BY <1>6, <1>7, <1>8, <1>9, <1>16, <2>1, <2>2
  <2>4. QED
    BY <2>2, <2>3
<1> HIDE DEF r7
<1>18. ASSUME NEW k \in Kinds
       PROVE  TopologyReader(s, limits).lists[CHOOSE i \in DOMAIN KindOrder : KindOrder[i] = k]
                = t.objects[k]
  <2> DEFINE i == CHOOSE i \in DOMAIN KindOrder : KindOrder[i] = k
  <2>1. i \in 1..7 /\ KindOrder[i] = k
    BY KindPlace
  <2> HIDE DEF i
  <2>2. r7.lists[i] = os(k)
    BY <1>17, <2>1 DEF good
  <2>3. QED
    BY <1>2, <2>2, Zenon DEF os, i
<1>19. TopologyOf(s, limits) = t
  <2>1. TopologyOf(s, limits) =
          [generation |-> s[1].generation, label |-> s[1].label,
           objects |-> [k \in Kinds |-> t.objects[k]]]
    <3> DEFINE chosen(k) ==
                 TopologyReader(s, limits).lists[CHOOSE i \in DOMAIN KindOrder : KindOrder[i] = k]
    <3>1. \A k \in Kinds : chosen(k) = t.objects[k]
      BY <1>18, Zenon
    <3>2. TopologyOf(s, limits) =
            [generation |-> s[1].generation, label |-> s[1].label,
             objects |-> [k \in Kinds |-> chosen(k)]]
      BY Zenon DEF TopologyOf
    <3> HIDE DEF chosen
    <3>3. [k \in Kinds |-> chosen(k)] = [k \in Kinds |-> t.objects[k]]
      BY <3>1
    <3>4. QED
      BY <3>2, <3>3, Zenon
  <2>2. s[1].generation = t.generation /\ s[1].label = t.label
    BY <1>3 DEF x
  <2>3. t.objects = [k \in Kinds |-> t.objects[k]]
    BY DEF Topology_t
  <2>4. t = [generation |-> t.generation, label |-> t.label, objects |-> t.objects]
    BY DEF Topology_t
  <2>5. QED
    BY <2>1, <2>2, <2>3, <2>4, Zenon
<1>20. QED
  BY <1>1, <1>2, <1>3, <1>17, <1>19 DEF AtEnd, s, good

-----------------------------------------------------------------------------
\* The only list of a section.
LEMMA OnlyList ==
  ASSUME NEW items \in Seq(Tokens), NEW bound \in Nat, NEW fields
  PROVE  LET s == Counted(items)
             q == ReadList(Reader(s), bound, fields)
         IN /\ q.ok => q.lists[1] = items /\ \A i \in 1..Len(items) : Is(items[i], fields)
            /\ (Len(items) <= bound /\ \A i \in 1..Len(items) : Is(items[i], fields))
                 => q.ok /\ q.rest = <<>>
<1> DEFINE s == Counted(items)
           q == ReadList(Reader(s), bound, fields)
           n == Len(items)
<1>1. items \in Seq(T)
  BY SeqMonotonic DEF T
<1>2. s \in Seq(T) /\ s[1] = [count |-> n]
  BY CountedType
<1>3. n \in Nat /\ [count |-> n] \in T
  BY LenProperties DEF T, Tokens
<1>4. \A i \in 1..n : s[i + 1] = items[i]
  BY <1>1, <1>3, FirstAndRest DEF Counted
<1>5. ASSUME q.ok
      PROVE  q.lists[1] = items /\ \A i \in 1..n : Is(items[i], fields)
  <2> HIDE DEF s
  <2>1. s[1].count = n
    BY <1>2
  <2>2. /\ \A i \in 1..n : Is(s[i + 1], fields)
        /\ q.lists[1] \in Seq(T) /\ Len(q.lists[1]) = n
        /\ \A i \in 1..n : q.lists[1][i] = s[i + 1]
    BY <1>2, <1>5, <2>1, FirstList
  <2> HIDE DEF q
  <2>3. q.lists[1] = items
    <3> DEFINE list == q.lists[1]
    <3>1. list \in Seq(T) /\ Len(list) = Len(items) /\ \A i \in 1..Len(list) : list[i] = items[i]
      BY <1>4, <2>2
    <3> HIDE DEF list
    <3>2. list = items
      BY <1>1, <3>1, SeqEqual
    <3>3. QED
      BY <3>2 DEF list
  <2>4. QED
    BY <1>4, <2>2, <2>3
<1>6. ASSUME n <= bound, \A i \in 1..n : Is(items[i], fields)
      PROVE  q.ok /\ q.rest = <<>>
  <2>1. Reader(s).ok = TRUE /\ Reader(s).rest = s
    BY DEF Reader
  <2>2. s = Counted(items) \o <<>> /\ <<>> \in Seq(T)
    BY <1>2, ConcatEmptySeq, EmptySeq
  <2>3. Begins(Reader(s), items, <<>>, bound, fields)
    BY <1>1, <1>6, <2>1, <2>2, Zenon DEF Begins
  <2> HIDE DEF s
  <2>4. Continues(q, Reader(s), items, <<>>)
    BY <2>3, CountedRead, Zenon
  <2>5. QED
    BY <2>4 DEF Continues
<1>7. QED
  BY <1>5, <1>6

LEMMA LimitTypes ==
  ASSUME NEW l \in LimitSets
  PROVE  /\ l.max_snapshot_bytes \in Nat /\ l.max_snapshot_sections \in Nat
         /\ l.max_snapshot_episodes \in Nat /\ l.max_snapshot_evidence \in Nat
         /\ l.digest # Garbled
BY CodecAssumption

LEMMA ContentTypes ==
  ASSUME NEW c \in Contents
  PROVE  /\ c \in Content_t /\ c.created_at \in Nat /\ c.topology \in Topology_t
         /\ c.episodes \in Seq(Episode_t) /\ c.evidence \in Seq(Evidence_t)
<1>1. c \in Content_t
  BY CodecAssumption
<1>2. QED
  BY <1>1 DEF Content_t

LEMMA TokensAre ==
  /\ Episode_t \subseteq Tokens /\ Evidence_t \subseteq Tokens /\ Object_t \subseteq Tokens
  /\ \A x \in Episode_t : Is(x, EpisodeFields)
  /\ \A x \in Evidence_t : Is(x, EvidenceFields)
<1>1. Episode_t \subseteq Tokens /\ Evidence_t \subseteq Tokens /\ Object_t \subseteq Tokens
  BY DEF Tokens
<1>2. QED
  BY <1>1, FieldsOf, NotGarbled DEF Is

\* The episodes and the records that are written.
EpisodesOf(c, l) == UpTo(c.episodes, l.max_snapshot_episodes)
RecordsOf(c, l) == UpTo(c.evidence, l.max_snapshot_evidence)

LEMMA ItemTypes ==
  ASSUME NEW c \in Contents, NEW l \in LimitSets
  PROVE  /\ EpisodesOf(c, l) \in Seq(Episode_t) /\ EpisodesOf(c, l) \in Seq(Tokens)
         /\ RecordsOf(c, l) \in Seq(Evidence_t) /\ RecordsOf(c, l) \in Seq(Tokens)
         /\ Len(EpisodesOf(c, l)) <= l.max_snapshot_episodes
         /\ Len(RecordsOf(c, l)) <= l.max_snapshot_evidence
         /\ \A i \in 1..Len(EpisodesOf(c, l)) : EpisodesOf(c, l)[i] \in Episode_t
         /\ \A i \in 1..Len(RecordsOf(c, l)) : RecordsOf(c, l)[i] \in Evidence_t
         /\ ToSet(EpisodesOf(c, l)) \subseteq ToSet(c.episodes)
         /\ ToSet(RecordsOf(c, l)) \subseteq ToSet(c.evidence)
<1> DEFINE es == EpisodesOf(c, l)
           vs == RecordsOf(c, l)
<1>1. /\ es \in Seq(Episode_t) /\ Len(es) <= l.max_snapshot_episodes
      /\ \A i \in 1..Len(es) : es[i] = c.episodes[i] /\ i \in 1..Len(c.episodes)
  BY ContentTypes, LimitTypes, UpToFacts DEF EpisodesOf
<1>2. /\ vs \in Seq(Evidence_t) /\ Len(vs) <= l.max_snapshot_evidence
      /\ \A i \in 1..Len(vs) : vs[i] = c.evidence[i] /\ i \in 1..Len(c.evidence)
  BY ContentTypes, LimitTypes, UpToFacts DEF RecordsOf
<1> HIDE DEF es, vs
<1>3. es \in Seq(Tokens) /\ vs \in Seq(Tokens)
  BY <1>1, <1>2, TokensAre, SeqMonotonic
<1>4. (\A i \in 1..Len(es) : es[i] \in Episode_t) /\ (\A i \in 1..Len(vs) : vs[i] \in Evidence_t)
  BY <1>1, <1>2, ElementOfSeq
<1>5. /\ DOMAIN es = 1..Len(es) /\ DOMAIN vs = 1..Len(vs)
      /\ DOMAIN c.episodes = 1..Len(c.episodes) /\ DOMAIN c.evidence = 1..Len(c.evidence)
  BY <1>1, <1>2, ContentTypes, LenProperties
<1>6. ToSet(es) \subseteq ToSet(c.episodes)
  BY <1>1, <1>5 DEF ToSet
<1>7. ToSet(vs) \subseteq ToSet(c.evidence)
  BY <1>2, <1>5 DEF ToSet
<1>8. QED
  BY <1>1, <1>2, <1>3, <1>4, <1>6, <1>7 DEF es, vs

\* The episodes section gives the episodes that were kept.
LEMMA EpisodesReadBack ==
  ASSUME NEW c \in Contents, NEW l \in LimitSets, Admitted(c, l)
  PROVE  LET s == EpisodeSection(c.episodes, l)
         IN EpisodesOk(s, l) /\ EpisodeReader(s, l).lists[1] = EpisodesOf(c, l)
<1> DEFINE es == EpisodesOf(c, l)
           s == EpisodeSection(c.episodes, l)
           q == EpisodeReader(s, l)
<1>1. s = Counted(es)
  BY Zenon DEF EpisodeSection, EpisodesOf
<1>2. q = ReadList(Reader(Counted(es)), l.max_snapshot_episodes, EpisodeFields)
  BY <1>1, Zenon DEF EpisodeReader
<1>3. /\ es \in Seq(Tokens) /\ Len(es) <= l.max_snapshot_episodes
      /\ \A i \in 1..Len(es) : Is(es[i], EpisodeFields)
  BY ItemTypes, TokensAre
<1>4. ToSet(es) \subseteq ToSet(c.episodes)
  BY ItemTypes
<1> HIDE DEF es, s, q
<1>5. q.ok /\ q.rest = <<>> /\ q.lists[1] = es
  BY <1>2, <1>3, LimitTypes, OnlyList
<1>6. \A e \in ToSet(es) : EpisodeOk(e, l)
  BY <1>4 DEF Admitted
<1>7. QED
  BY <1>5, <1>6 DEF EpisodesOk, AtEnd, s, q, es

\* The evidence section gives the records that were kept.
LEMMA EvidenceReadBack ==
  ASSUME NEW c \in Contents, NEW l \in LimitSets, Admitted(c, l)
  PROVE  LET s == EvidenceSection(c.evidence, l)
         IN EvidenceOk(s, l) /\ EvidenceReader(s, l).lists[1] = RecordsOf(c, l)
<1> DEFINE vs == RecordsOf(c, l)
           s == EvidenceSection(c.evidence, l)
           q == EvidenceReader(s, l)
<1>1. s = Counted(vs)
  BY Zenon DEF EvidenceSection, RecordsOf
<1>2. /\ vs \in Seq(Tokens) /\ Len(vs) <= l.max_snapshot_evidence
      /\ \A i \in 1..Len(vs) : Is(vs[i], EvidenceFields)
  BY ItemTypes, TokensAre
<1>3. ToSet(vs) \subseteq ToSet(c.evidence)
  BY ItemTypes
<1> HIDE DEF vs
<1>4. s[1].count = Len(vs) /\ Len(vs) \in Nat
  <2>1. Counted(vs)[1] = [count |-> Len(vs)]
    BY <1>2, CountedType
  <2>2. Len(vs) \in Nat
    BY <1>2, LenProperties
  <2>3. QED
    BY <1>1, <2>1, <2>2
<1>5. ~OverCount(s, l)
  <2> HIDE DEF s
  <2>1. QED
    BY <1>2, <1>4, LimitTypes DEF OverCount
<1>6. q = ReadList(Reader(Counted(vs)), l.max_snapshot_evidence, EvidenceFields)
  BY <1>1, <1>5, Zenon DEF EvidenceReader
<1> HIDE DEF s, q
<1>7. q.ok /\ q.rest = <<>> /\ q.lists[1] = vs
  BY <1>2, <1>6, LimitTypes, OnlyList
<1>8. \A e \in ToSet(vs) : e.id = e.body /\ Len(e.labels) <= l.max_labels
  BY <1>3 DEF Admitted
<1>9. QED
  BY <1>7, <1>8 DEF EvidenceOk, AtEnd, s, q, vs

-----------------------------------------------------------------------------
LEMMA MetadataFacts ==
  ASSUME NEW c \in Contents, NEW p \in Policies
  PROVE  LET s == MetadataSection(c, p)
         IN /\ s \in Seq(T) /\ s # <<>>
            /\ Is(s[1], MetadataFields)
            /\ s[1].policy_version = p.version
            /\ s[1].created_at = c.created_at
<1> DEFINE m == [policy_version |-> p.version, created_at |-> c.created_at,
                 generation |-> c.topology.generation]
<1>1. p.version \in Nat /\ c.created_at \in Nat /\ c.topology.generation \in Nat
  BY CodecAssumption, ContentTypes DEF Topology_t
<1>2. m \in [policy_version : Nat, created_at : Nat, generation : Nat]
      /\ m.policy_version = p.version /\ m.created_at = c.created_at
  BY <1>1
<1>3. MetadataSection(c, p) = <<m>>
  BY Zenon DEF MetadataSection
<1> HIDE DEF m
<1>4. m \in Tokens
  BY <1>2 DEF Tokens
<1>5. Is(m, MetadataFields)
  BY <1>2, <1>4, FieldsOf, NotGarbled DEF Is
<1>6. <<m>> \in Seq(T) /\ <<m>> # <<>> /\ <<m>>[1] = m
  BY <1>4 DEF T
<1>7. QED
  BY <1>2, <1>3, <1>5, <1>6

\* The four sections, and the token each begins with.
LEMMA PendingFacts ==
  ASSUME NEW c \in Contents, NEW l \in LimitSets, NEW p \in Policies
  PROVE  LET ss == Pending(c, l, p)
         IN /\ ss \in Seq(Seq(T)) /\ Len(ss) = 4 /\ DOMAIN ss = 1..4
            /\ \A i \in 1..4 : ss[i] \in Seq(T) /\ ss[i] # <<>>
            /\ ss[1] = MetadataSection(c, p)
            /\ ss[2] = encode_topology_section(c.topology)
            /\ ss[3] = EpisodeSection(c.episodes, l)
            /\ ss[4] = EvidenceSection(c.evidence, l)
            /\ Is(ss[1][1], MetadataFields) /\ Is(ss[2][1], TopologyFields)
            /\ Is(ss[3][1], CountFields) /\ Is(ss[4][1], CountFields)
<1> DEFINE m == MetadataSection(c, p)
           t == encode_topology_section(c.topology)
           e == EpisodeSection(c.episodes, l)
           v == EvidenceSection(c.evidence, l)
<1>1. m \in Seq(T) /\ m # <<>> /\ Is(m[1], MetadataFields)
  BY MetadataFacts
<1>2. t \in Seq(T) /\ t # <<>> /\ Is(t[1], TopologyFields)
  <2> DEFINE x == [generation |-> c.topology.generation, label |-> c.topology.label]
  <2>1. t = <<x>> \o Lists1(c.topology) /\ Lists1(c.topology) \in Seq(T)
        /\ x \in T /\ Is(x, TopologyFields)
    BY ContentTypes, ListsType, HeadToken
  <2> HIDE DEF x, t
  <2>2. QED
    BY <2>1, FirstAndRest
<1>3. e \in Seq(T) /\ e # <<>> /\ Is(e[1], CountFields)
  <2>1. e = Counted(EpisodesOf(c, l))
    BY Zenon DEF EpisodeSection, EpisodesOf
  <2>2. QED
    BY <2>1, ItemTypes, CountedType
<1>4. v \in Seq(T) /\ v # <<>> /\ Is(v[1], CountFields)
  <2>1. v = Counted(RecordsOf(c, l))
    BY Zenon DEF EvidenceSection, RecordsOf
  <2>2. QED
    BY <2>1, ItemTypes, CountedType
<1>5. Pending(c, l, p) = <<m, t, e, v>>
  BY Zenon DEF Pending
<1> HIDE DEF m, t, e, v
<1> DEFINE ss == <<m, t, e, v>>
<1>6. ss \in Seq(Seq(T)) /\ Len(ss) = 4 /\ DOMAIN ss = 1..4
      /\ ss[1] = m /\ ss[2] = t /\ ss[3] = e /\ ss[4] = v
  BY <1>1, <1>2, <1>3, <1>4
<1> HIDE DEF ss
<1>7. \A i \in 1..4 : i = 1 \/ i = 2 \/ i = 3 \/ i = 4
  OBVIOUS
<1>8. \A i \in 1..4 : ss[i] \in Seq(T) /\ ss[i] # <<>>
  BY <1>1, <1>2, <1>3, <1>4, <1>6, <1>7
<1>9. Pending(c, l, p) = ss
  BY <1>5 DEF ss
<1>10. QED
  BY <1>1, <1>2, <1>3, <1>4, <1>6, <1>8, <1>9 DEF m, t, e, v

\* The table that seals four sections: where each of them lies in the payload.
Associate(x, y, z) == (x \o y) \o z = x \o (y \o z)

LEMMA Associates ==
  ASSUME NEW S, NEW x \in Seq(S), NEW y \in Seq(S), NEW z \in Seq(S)
  PROVE  Associate(x, y, z)
BY ConcatAssociative, SMT DEF Associate

GroupsAs(a, b, d, e) ==
  /\ ((a \o b) \o d) \o e = (a \o b) \o (d \o e)
  /\ ((a \o b) \o d) \o e = a \o (b \o (d \o e))

LEMMA FourInARow ==
  ASSUME NEW S, NEW a \in Seq(S), NEW b \in Seq(S), NEW d \in Seq(S), NEW e \in Seq(S)
  PROVE  GroupsAs(a, b, d, e)
<1> DEFINE ab == a \o b
           de == d \o e
<1>1. ab \in Seq(S) /\ de \in Seq(S)
  BY ConcatProperties
<1> HIDE DEF ab, de
<1>2. Associate(a, b, de)
  BY <1>1, Associates
<1>3. Associate(ab, d, e)
  BY <1>1, Associates
<1>4. QED
  BY <1>2, <1>3, Zenon DEF GroupsAs, Associate, ab, de

SealedAs(ids, ss, S) ==
  LET table == Seal(ids, ss)
      payload == FlattenSeq(ss)
  IN /\ payload \in Seq(S) /\ DOMAIN table = 1..4
     /\ \A i \in 1..4 :
          /\ table[i] = [id |-> ids[i], offset |-> table[i].offset,
                         length |-> table[i].length, crc64 |-> ss[i]]
          /\ table[i].offset \in Nat /\ table[i].length \in Nat
          /\ table[i].offset + table[i].length <= Len(payload)
          /\ SubSeq(payload, table[i].offset + 1, table[i].offset + table[i].length) = ss[i]

LEMMA Sealed ==
  ASSUME NEW S, NEW a \in Seq(S), NEW b \in Seq(S), NEW d \in Seq(S), NEW e \in Seq(S), NEW ids,
         DOMAIN ids = 1..4
  PROVE  SealedAs(ids, <<a, b, d, e>>, S)
<1> DEFINE ss == <<a, b, d, e>>
           table == Seal(ids, ss)
           payload == FlattenSeq(ss)
           at(i) == Len(FlattenSeq(SubSeq(ss, 1, i - 1)))
           ab == a \o b
           abd == ab \o d
           de == d \o e
           bde == b \o de
<1>1. ss[1] = a /\ ss[2] = b /\ ss[3] = d /\ ss[4] = e
  OBVIOUS
<1>2. /\ at(1) = Len(<<>>) /\ at(2) = Len(a) /\ at(3) = Len(ab) /\ at(4) = Len(abd)
      /\ payload = abd \o e
  <2>1. /\ FlattenSeq(SubSeq(ss, 1, 0)) = <<>> /\ FlattenSeq(SubSeq(ss, 1, 1)) = a
        /\ FlattenSeq(SubSeq(ss, 1, 2)) = ab /\ FlattenSeq(SubSeq(ss, 1, 3)) = abd
        /\ payload = abd \o e
    <3>1. FlattensTo(a, b, d, e)
      BY FlattenFour
    <3>2. QED
      BY <3>1, Zenon DEF FlattensTo
  <2>2. 1 - 1 = 0 /\ 2 - 1 = 1 /\ 3 - 1 = 2 /\ 4 - 1 = 3
    OBVIOUS
  <2>3. QED
    BY <2>1, <2>2, Zenon
<1>3. table = [i \in 1..4 |-> [id |-> ids[i], offset |-> at(i), length |-> Len(ss[i]), crc64 |-> ss[i]]]
  BY Zenon DEF Seal
<1>4. /\ ab \in Seq(S) /\ Len(ab) = Len(a) + Len(b) /\ de \in Seq(S) /\ Len(de) = Len(d) + Len(e)
  BY ConcatProperties
<1>0. abd \o e = ab \o de /\ abd \o e = a \o bde
  <2>1. GroupsAs(a, b, d, e)
    BY FourInARow
  <2>2. QED
    BY <2>1, Zenon DEF GroupsAs
<1>5. /\ abd \in Seq(S) /\ Len(abd) = Len(ab) + Len(d)
      /\ bde \in Seq(S) /\ Len(bde) = Len(b) + Len(de)
  <2> HIDE DEF ab, de
  <2>1. QED
    BY <1>4, ConcatProperties
<1>6. payload \in Seq(S) /\ Len(payload) = Len(abd) + Len(e)
  <2> HIDE DEF abd, payload
  <2>1. QED
    BY <1>2, <1>5, ConcatProperties
<1>7. Len(a) \in Nat /\ Len(b) \in Nat /\ Len(d) \in Nat /\ Len(e) \in Nat /\ Len(<<>>) = 0
      /\ <<>> \in Seq(S)
  BY LenProperties, EmptySeq
<1>8. SubSeq(payload, Len(<<>>) + 1, Len(<<>>) + Len(a)) = a
  <2>1. <<>> \o a = a
    BY ConcatEmptySeq
  <2>2. payload = a \o bde
    BY <1>0, <1>2, Zenon
  <2>3. SubSeq((<<>> \o a) \o bde, Len(<<>>) + 1, Len(<<>>) + Len(a)) = a
    <3> HIDE DEF bde
    <3>1. QED
      BY <1>5, <1>7, Middle
  <2>4. QED
    BY <2>1, <2>2, <2>3, Zenon
<1>9. SubSeq(payload, Len(a) + 1, Len(a) + Len(b)) = b
  <2>1. payload = ab \o de
    BY <1>0, <1>2, Zenon
  <2>2. SubSeq((a \o b) \o de, Len(a) + 1, Len(a) + Len(b)) = b
    <3> HIDE DEF de
    <3>1. QED
      BY <1>4, Middle
  <2>3. QED
    BY <2>1, <2>2, Zenon
<1>10. SubSeq(payload, Len(ab) + 1, Len(ab) + Len(d)) = d
  <2> HIDE DEF ab
  <2>1. SubSeq((ab \o d) \o e, Len(ab) + 1, Len(ab) + Len(d)) = d
    BY <1>4, Middle
  <2>2. QED
    BY <1>2, <2>1
<1>11. SubSeq(payload, Len(abd) + 1, Len(abd) + Len(e)) = e
  <2> HIDE DEF abd
  <2>1. SubSeq((abd \o e) \o <<>>, Len(abd) + 1, Len(abd) + Len(e)) = e
    BY <1>5, <1>7, Middle
  <2>2. payload \o <<>> = payload
    BY <1>6, ConcatEmptySeq
  <2>3. QED
    BY <1>2, <2>1, <2>2
<1> HIDE DEF ss, table, payload, at, ab, abd, de, bde
<1>12. ASSUME NEW i \in 1..4
       PROVE  /\ at(i) \in Nat /\ Len(ss[i]) \in Nat /\ at(i) + Len(ss[i]) <= Len(payload)
              /\ SubSeq(payload, at(i) + 1, at(i) + Len(ss[i])) = ss[i]
  <2> DEFINE fits(o, s) == /\ o \in Nat /\ Len(s) \in Nat /\ o + Len(s) <= Len(payload)
                           /\ SubSeq(payload, o + 1, o + Len(s)) = s
  <2> DEFINE within(o, s) == o \in Nat /\ Len(s) \in Nat /\ o + Len(s) <= Len(payload)
  <2>0. within(Len(<<>>), a) /\ within(Len(a), b) /\ within(Len(ab), d) /\ within(Len(abd), e)
    <3> DEFINE m == Len(payload)
               x == Len(a)
               y == Len(b)
               z == Len(d)
               w == Len(e)
    <3>1. x \in Nat /\ y \in Nat /\ z \in Nat /\ w \in Nat /\ Len(<<>>) = 0
      BY <1>7
    <3>2. Len(ab) = x + y /\ Len(abd) = (x + y) + z /\ m = ((x + y) + z) + w
      BY <1>4, <1>5, <1>6, Zenon
    <3> HIDE DEF m, x, y, z, w
    <3>3. /\ 0 \in Nat /\ 0 + x <= m /\ x + y <= m
          /\ x + y \in Nat /\ (x + y) + z <= m
          /\ (x + y) + z \in Nat /\ ((x + y) + z) + w <= m
      BY <3>1, <3>2
    <3>4. QED
      BY <3>1, <3>2, <3>3, Zenon DEF m, x, y, z, w
  <2> HIDE DEF within
  <2>1. fits(Len(<<>>), a)
    BY <1>8, <2>0, Zenon DEF within
  <2>2. fits(Len(a), b)
    BY <1>9, <2>0, Zenon DEF within
  <2>3. fits(Len(ab), d)
    BY <1>10, <2>0, Zenon DEF within
  <2>4. fits(Len(abd), e)
    BY <1>11, <2>0, Zenon DEF within
  <2> HIDE DEF fits
  <2>5. i = 1 \/ i = 2 \/ i = 3 \/ i = 4
    OBVIOUS
  <2>6. fits(at(i), ss[i])
    BY <1>1, <1>2, <2>1, <2>2, <2>3, <2>4, <2>5, Zenon
  <2>7. QED
    BY <2>6 DEF fits
<1>13. ASSUME NEW i \in 1..4
       PROVE  /\ table[i] = [id |-> ids[i], offset |-> table[i].offset,
                              length |-> table[i].length, crc64 |-> ss[i]]
              /\ table[i].offset = at(i) /\ table[i].length = Len(ss[i])
  BY <1>3
<1>14. DOMAIN table = 1..4
  BY <1>3
<1>15. QED
  BY <1>6, <1>12, <1>13, <1>14 DEF ss, table, payload, SealedAs

-----------------------------------------------------------------------------
\* What stays true of a file's parts, whatever was damaged.
Entries == [id : Nat, offset : Nat, length : Nat, crc64 : Seq(T) \cup {Garbled}]

Headers(c, l, p) ==
  [magic : {"COSNAP01", Garbled}, major : Nat, minor : Nat,
   limits_digest : {l.digest, Garbled}, policy_digest : {p.digest, Garbled},
   topology_digest : {c.topology, Garbled}, created_at : Nat \cup {Garbled},
   section_count : Nat, payload_bytes : Nat,
   payload_crc : {FlattenSeq(Pending(c, l, p)), Garbled}]

\* A file as it was saved: its sections lie where the table says.
Encoded(f, c, l, p) ==
  LET ss == Pending(c, l, p)
      ids == <<kMetadata, kTopology, kEpisodes, kEvidence>>
  IN /\ f = [header |-> f.header, table |-> f.table, payload |-> f.payload]
     /\ f.payload = FlattenSeq(ss) /\ f.payload \in Seq(T)
     /\ f.header = Header(c.created_at, l.digest, p.digest, c.topology, f.table, f.payload)
     /\ f.table \in Seq(Entries) /\ Len(f.table) = 4 /\ DOMAIN f.table = 1..4
     /\ \A i \in 1..4 :
          /\ f.table[i].id = ids[i] /\ f.table[i].crc64 = ss[i]
          /\ f.table[i].offset \in Nat /\ f.table[i].length \in Nat
          /\ f.table[i].offset + f.table[i].length <= Len(f.payload)
          /\ Slice(f, f.table[i]) = ss[i]

\* What encode_snapshot makes is a file whose sections lie where its table says.
LEMMA EncodedFile ==
  ASSUME NEW c \in Contents, NEW l \in LimitSets, NEW p \in Policies
  PROVE  Encoded(encode_snapshot(c, l, p), c, l, p)
<1> DEFINE ss == Pending(c, l, p)
           ids == <<kMetadata, kTopology, kEpisodes, kEvidence>>
           payload == FlattenSeq(ss)
           table == Seal(ids, ss)
           f == encode_snapshot(c, l, p)
<1>1. f = [header |-> Header(c.created_at, l.digest, p.digest, c.topology, table, payload),
           table |-> table, payload |-> payload]
  BY Zenon DEF encode_snapshot
<1>2. /\ \A i \in 1..4 : ss[i] \in Seq(T)
      /\ ss = <<ss[1], ss[2], ss[3], ss[4]>>
  <2>1. \A i \in 1..4 : ss[i] \in Seq(T)
    BY PendingFacts
  <2>2. Pending(c, l, p) =
          <<MetadataSection(c, p), encode_topology_section(c.topology),
            EpisodeSection(c.episodes, l), EvidenceSection(c.evidence, l)>>
    BY Zenon DEF Pending
  <2>3. /\ ss[1] = MetadataSection(c, p) /\ ss[2] = encode_topology_section(c.topology)
        /\ ss[3] = EpisodeSection(c.episodes, l) /\ ss[4] = EvidenceSection(c.evidence, l)
    BY PendingFacts
  <2>4. QED
    BY <2>1, <2>2, <2>3, Zenon
<1>3. DOMAIN ids = 1..4 /\ ids[1] \in Nat /\ ids[2] \in Nat /\ ids[3] \in Nat /\ ids[4] \in Nat
  BY DEF kMetadata, kTopology, kEpisodes, kEvidence
<1> HIDE DEF ss, ids, f
<1>4. SealedAs(ids, ss, T)
  <2>1. ss[1] \in Seq(T) /\ ss[2] \in Seq(T) /\ ss[3] \in Seq(T) /\ ss[4] \in Seq(T)
    BY <1>2
  <2> DEFINE a == ss[1]
             b == ss[2]
             d == ss[3]
             e == ss[4]
  <2>2. a \in Seq(T) /\ b \in Seq(T) /\ d \in Seq(T) /\ e \in Seq(T)
    BY <2>1
  <2>3. ss = <<a, b, d, e>>
    BY <1>2
  <2> HIDE DEF a, b, d, e
  <2>4. SealedAs(ids, <<a, b, d, e>>, T)
    BY <1>3, <2>2, Sealed
  <2>5. QED
    BY <2>3, <2>4
<1>5. /\ payload \in Seq(T) /\ DOMAIN table = 1..4
      /\ \A i \in 1..4 :
           /\ table[i] = [id |-> ids[i], offset |-> table[i].offset,
                          length |-> table[i].length, crc64 |-> ss[i]]
           /\ table[i].offset \in Nat /\ table[i].length \in Nat
           /\ table[i].offset + table[i].length <= Len(payload)
           /\ SubSeq(payload, table[i].offset + 1, table[i].offset + table[i].length) = ss[i]
  BY <1>4, Zenon DEF SealedAs
<1>6. table = [i \in 1..4 |-> table[i]]
  BY <1>3 DEF Seal
<1> HIDE DEF table, payload
<1>7. \A i \in 1..4 : table[i] \in Entries /\ table[i].id = ids[i] /\ table[i].crc64 = ss[i]
  <2> TAKE i \in 1..4
  <2> DEFINE x == table[i]
  <2>1. x = [id |-> ids[i], offset |-> x.offset, length |-> x.length, crc64 |-> ss[i]]
        /\ x.offset \in Nat /\ x.length \in Nat
    BY <1>5
  <2>2. ids[i] \in Nat /\ ss[i] \in Seq(T)
    <3>1. i = 1 \/ i = 2 \/ i = 3 \/ i = 4
      OBVIOUS
    <3>2. QED
      BY <1>2, <1>3, <3>1
  <2> HIDE DEF x
  <2>3. x \in Entries /\ x.id = ids[i] /\ x.crc64 = ss[i]
    BY <2>1, <2>2 DEF Entries
  <2>4. QED
    BY <2>3 DEF x
<1>8. table \in Seq(Entries) /\ Len(table) = 4
  <2>1. table \in [1..4 -> Entries]
    BY <1>6, <1>7
  <2>2. QED
    BY <2>1, FunIsSeq
<1>9. f.header = Header(c.created_at, l.digest, p.digest, c.topology, table, payload)
      /\ f.table = table /\ f.payload = payload
      /\ f = [header |-> f.header, table |-> f.table, payload |-> f.payload]
  BY <1>1
<1>10. \A i \in 1..4 : Slice(f, table[i]) = ss[i]
  BY <1>5, <1>9 DEF Slice
<1>11. \A i \in 1..4 :
         /\ f.table[i].id = ids[i] /\ f.table[i].crc64 = ss[i]
         /\ f.table[i].offset \in Nat /\ f.table[i].length \in Nat
         /\ f.table[i].offset + f.table[i].length <= Len(f.payload)
         /\ Slice(f, f.table[i]) = ss[i]
  BY <1>5, <1>7, <1>9, <1>10
<1>12. /\ f.payload = FlattenSeq(ss) /\ f.payload \in Seq(T)
       /\ f.header = Header(c.created_at, l.digest, p.digest, c.topology, f.table, f.payload)
       /\ f.table \in Seq(Entries) /\ Len(f.table) = 4 /\ DOMAIN f.table = 1..4
  <2>1. f.payload = FlattenSeq(ss)
    BY <1>9, Zenon DEF payload
  <2>2. f.payload \in Seq(T) /\ f.table \in Seq(Entries) /\ Len(f.table) = 4 /\ DOMAIN f.table = 1..4
    BY <1>5, <1>8, <1>9, Zenon
  <2>3. f.header = Header(c.created_at, l.digest, p.digest, c.topology, f.table, f.payload)
    BY <1>9, Zenon
  <2>4. QED
    BY <2>1, <2>2, <2>3, Zenon
<1>13. f = [header |-> f.header, table |-> f.table, payload |-> f.payload]
  BY <1>9, Zenon
<1>14. QED
  BY <1>11, <1>12, <1>13, Zenon DEF Encoded, ss, ids, f

\* Each section of a file as it was saved is found by its id.
LEMMA SectionsFound ==
  ASSUME NEW c \in Contents, NEW l \in LimitSets, NEW p \in Policies, NEW f, Encoded(f, c, l, p)
  PROVE  /\ Has(f, kMetadata) /\ Has(f, kTopology) /\ Has(f, kEpisodes) /\ Has(f, kEvidence)
         /\ Section(f, kMetadata) = MetadataSection(c, p)
         /\ Section(f, kTopology) = encode_topology_section(c.topology)
         /\ Section(f, kEpisodes) = EpisodeSection(c.episodes, l)
         /\ Section(f, kEvidence) = EvidenceSection(c.evidence, l)
<1> DEFINE ss == Pending(c, l, p)
           at(id) == CHOOSE i \in DOMAIN f.table : f.table[i].id = id
<1>1. DOMAIN f.table = 1..4 /\ \A i \in 1..4 : Slice(f, f.table[i]) = ss[i]
  BY Zenon DEF Encoded
<1>2. /\ f.table[1].id = kMetadata /\ f.table[2].id = kTopology
      /\ f.table[3].id = kEpisodes /\ f.table[4].id = kEvidence
  <2> DEFINE ids == <<kMetadata, kTopology, kEpisodes, kEvidence>>
  <2>1. \A i \in 1..4 : f.table[i].id = ids[i]
    BY Zenon DEF Encoded
  <2>2. ids[1] = kMetadata /\ ids[2] = kTopology /\ ids[3] = kEpisodes /\ ids[4] = kEvidence
    OBVIOUS
  <2> HIDE DEF ids
  <2>3. QED
    BY <2>1, <2>2
<1>3. \A i \in 1..4 : i = 1 \/ i = 2 \/ i = 3 \/ i = 4
  OBVIOUS
<1>4. /\ kMetadata # kTopology /\ kMetadata # kEpisodes /\ kMetadata # kEvidence
      /\ kTopology # kEpisodes /\ kTopology # kEvidence /\ kEpisodes # kEvidence
  BY DEF kMetadata, kTopology, kEpisodes, kEvidence
<1>5. Has(f, kMetadata) /\ Has(f, kTopology) /\ Has(f, kEpisodes) /\ Has(f, kEvidence)
  BY <1>1, <1>2 DEF Has
<1>6. ASSUME NEW id, Has(f, id)
      PROVE  at(id) \in 1..4 /\ f.table[at(id)].id = id
  BY <1>1, <1>6, Zenon DEF Has
<1>7. /\ Section(f, kMetadata) = Slice(f, f.table[at(kMetadata)])
      /\ Section(f, kTopology) = Slice(f, f.table[at(kTopology)])
      /\ Section(f, kEpisodes) = Slice(f, f.table[at(kEpisodes)])
      /\ Section(f, kEvidence) = Slice(f, f.table[at(kEvidence)])
  BY Zenon DEF Section
<1> HIDE DEF at
<1>8. at(kMetadata) = 1 /\ at(kTopology) = 2 /\ at(kEpisodes) = 3 /\ at(kEvidence) = 4
  <2>1. at(kMetadata) = 1
    <3>1. at(kMetadata) \in 1..4 /\ f.table[at(kMetadata)].id = kMetadata
      BY <1>5, <1>6, Zenon
    <3>2. QED
      BY <1>2, <1>3, <1>4, <3>1
  <2>2. at(kTopology) = 2
    <3>1. at(kTopology) \in 1..4 /\ f.table[at(kTopology)].id = kTopology
      BY <1>5, <1>6, Zenon
    <3>2. QED
      BY <1>2, <1>3, <1>4, <3>1
  <2>3. at(kEpisodes) = 3
    <3>1. at(kEpisodes) \in 1..4 /\ f.table[at(kEpisodes)].id = kEpisodes
      BY <1>5, <1>6, Zenon
    <3>2. QED
      BY <1>2, <1>3, <1>4, <3>1
  <2>4. at(kEvidence) = 4
    <3>1. at(kEvidence) \in 1..4 /\ f.table[at(kEvidence)].id = kEvidence
      BY <1>5, <1>6, Zenon
    <3>2. QED
      BY <1>2, <1>3, <1>4, <3>1
  <2>5. QED
    BY <2>1, <2>2, <2>3, <2>4
<1>9. 1 \in 1..4 /\ 2 \in 1..4 /\ 3 \in 1..4 /\ 4 \in 1..4
  OBVIOUS
<1>10. /\ Section(f, kMetadata) = ss[1] /\ Section(f, kTopology) = ss[2]
       /\ Section(f, kEpisodes) = ss[3] /\ Section(f, kEvidence) = ss[4]
  BY <1>1, <1>7, <1>8, <1>9, Zenon
<1>11. QED
  BY <1>5, <1>10, PendingFacts

LEMMA ElementsGive ==
  ASSUME NEW X, NEW s \in Seq(X), NEW S, \A x \in ToSet(s) : x \in S
  PROVE  s \in Seq(S)
<1>1. Len(s) \in Nat /\ s \in [1..Len(s) -> X] /\ DOMAIN s = 1..Len(s)
  BY LenProperties
<1>2. s \in [1..Len(s) -> S]
  BY <1>1 DEF ToSet
<1>3. QED
  BY <1>1, <1>2, FunIsSeq

\* An object of a topology is an object of one of the seven kinds.
LEMMA OfAKind ==
  ASSUME NEW t \in Topology_t, NEW S,
         \A k \in Kinds : \A o \in ToSet(t.objects[k]) : o \in S
  PROVE  AllObjects(t) \in Seq(S)
<1> DEFINE lists == [i \in DOMAIN KindOrder |-> t.objects[KindOrder[i]]]
<1>1. DOMAIN KindOrder = 1..7
  BY DEF KindOrder
<1>2. ASSUME NEW i \in 1..7 PROVE t.objects[KindOrder[i]] \in Seq(S)
  <2> DEFINE k == KindOrder[i]
  <2>1. k \in Kinds
    BY <1>1 DEF Kinds, ToSet
  <2> HIDE DEF k
  <2>2. t.objects[k] \in Seq(Object_t)
    BY <2>1, WrittenType
  <2>3. t.objects[k] \in Seq(S)
    BY <2>1, <2>2, ElementsGive
  <2>4. QED
    BY <2>3 DEF k
<1>3. lists \in [1..7 -> Seq(S)]
  BY <1>1, <1>2
<1> HIDE DEF lists
<1>4. FlattenSeq(lists) \in Seq(S)
  BY <1>3, FlattenType
<1>5. QED
  BY <1>4 DEF AllObjects, lists

\* The objects that were admitted and are portable pass the checks of the decoder.
LEMMA ObjectsReadBack ==
  ASSUME NEW c \in Contents, NEW l \in LimitSets, Admitted(c, l),
         \A k \in Kinds : \A o \in ToSet(c.topology.objects[k]) : PortableObject(o)
  PROVE  ObjectsOk(AllObjects(c.topology), l)
<1> DEFINE all == AllObjects(c.topology)
           named == {o \in Object_t : "" \notin ToSet(o.texts)}
<1>1. all \in Seq(named)
  <2>1. ASSUME NEW k \in Kinds, NEW o \in ToSet(c.topology.objects[k]) PROVE o \in Object_t
    <3>1. c.topology.objects[k] \in Seq(Object_t)
      BY ContentTypes, WrittenType
    <3> DEFINE os == c.topology.objects[k]
    <3>2. o \in ToSet(os) /\ os \in Seq(Object_t)
      BY <3>1
    <3> HIDE DEF os
    <3>3. PICK i \in DOMAIN os : o = os[i]
      BY <3>2 DEF ToSet
    <3>4. i \in 1..Len(os)
      BY <3>2, LenProperties
    <3>5. QED
      BY <3>2, <3>3, <3>4, ElementOfSeq
  <2>2. \A k \in Kinds : \A o \in ToSet(c.topology.objects[k]) : o \in named
    BY <2>1, Zenon DEF PortableObject
  <2> HIDE DEF named
  <2>3. QED
    BY <2>2, ContentTypes, OfAKind
<1>2. DOMAIN all = 1..Len(all)
  BY <1>1, LenProperties
<1>3. \A i \in DOMAIN all : all[i] \in named
  BY <1>1, <1>2, ElementOfSeq
<1>4. \A i \in DOMAIN all : ObjectFits(all[i], {all[j].id : j \in 1..i-1}, l)
  BY Zenon DEF Admitted
<1>5. \A i \in DOMAIN all : \A x \in ToSet(all[i].texts) : x # ""
  BY <1>3
<1> HIDE DEF all
<1>6. QED
  BY <1>4, <1>5, Zenon DEF ObjectsOk, ObjectOk, all

\* The header of a file as it was saved.
LEMMA HeaderFacts ==
  ASSUME NEW c \in Contents, NEW l \in LimitSets, NEW p \in Policies, NEW f, Encoded(f, c, l, p)
  PROVE  /\ f.header # Garbled
         /\ f.header.magic = "COSNAP01" /\ f.header.major = 1 /\ f.header.minor = 0
         /\ f.header.limits_digest = l.digest /\ f.header.policy_digest = p.digest
         /\ f.header.topology_digest = c.topology /\ f.header.created_at = c.created_at
         /\ f.header.section_count = 4 /\ f.header.payload_bytes = Len(f.payload)
         /\ f.header.payload_crc = f.payload
         /\ f.header \in Headers(c, l, p)
<1> DEFINE h == f.header
<1>1. /\ h = Header(c.created_at, l.digest, p.digest, c.topology, f.table, f.payload)
      /\ Len(f.table) = 4 /\ f.payload \in Seq(T) /\ f.payload = FlattenSeq(Pending(c, l, p))
  BY Zenon DEF Encoded
<1> HIDE DEF h
<1>2. h = [magic |-> "COSNAP01", major |-> 1, minor |-> 0, limits_digest |-> l.digest,
           policy_digest |-> p.digest, topology_digest |-> c.topology,
           created_at |-> c.created_at, section_count |-> 4,
           payload_bytes |-> Len(f.payload), payload_crc |-> f.payload]
  <2>1. Header(c.created_at, l.digest, p.digest, c.topology, f.table, f.payload) =
          [magic |-> "COSNAP01", major |-> 1, minor |-> 0, limits_digest |-> l.digest,
           policy_digest |-> p.digest, topology_digest |-> c.topology,
           created_at |-> c.created_at, section_count |-> Len(f.table),
           payload_bytes |-> Len(f.payload), payload_crc |-> f.payload]
    BY Zenon DEF Header
  <2>2. QED
    BY <1>1, <2>1, Zenon
<1>3. Len(f.payload) \in Nat
  BY <1>1, LenProperties
<1>4. c.created_at \in Nat /\ c.topology \in Topology_t
  BY ContentTypes
<1> DEFINE n == Len(f.payload)
           w == f.payload
<1>5. n \in Nat /\ w \in Bytes /\ w \in {FlattenSeq(Pending(c, l, p)), Garbled}
  BY <1>1, <1>3 DEF Bytes, T
<1>6. h = [magic |-> "COSNAP01", major |-> 1, minor |-> 0, limits_digest |-> l.digest,
           policy_digest |-> p.digest, topology_digest |-> c.topology,
           created_at |-> c.created_at, section_count |-> 4,
           payload_bytes |-> n, payload_crc |-> w]
  BY <1>2, Zenon
<1> HIDE DEF n, w
<1>7. h \in Header_t
  BY <1>4, <1>5, <1>6 DEF Header_t
<1>8. h \in Headers(c, l, p)
  BY <1>4, <1>5, <1>6 DEF Headers
<1>9. Garbled \notin Header_t
  BY CodecAssumption
<1>10. h # Garbled
  BY <1>7, <1>9
<1>11. /\ h.magic = "COSNAP01" /\ h.major = 1 /\ h.minor = 0
       /\ h.limits_digest = l.digest /\ h.policy_digest = p.digest
       /\ h.topology_digest = c.topology /\ h.created_at = c.created_at
       /\ h.section_count = 4 /\ h.payload_bytes = n /\ h.payload_crc = w
  <2>1. h.magic = "COSNAP01" /\ h.major = 1 /\ h.minor = 0
    BY <1>6
  <2>2. h.limits_digest = l.digest /\ h.policy_digest = p.digest
    BY <1>6
  <2>3. h.topology_digest = c.topology /\ h.created_at = c.created_at
    BY <1>6
  <2>4. h.section_count = 4 /\ h.payload_bytes = n /\ h.payload_crc = w
    BY <1>6
  <2>5. QED
    BY <2>1, <2>2, <2>3, <2>4
<1>12. QED
  BY <1>8, <1>10, <1>11, Zenon DEF h, n, w

\* What decode_snapshot returns for the content c.
LEMMA KeptRecord ==
  ASSUME NEW c \in Contents, NEW l
  PROVE  Kept(c, l) = [created_at |-> c.created_at, topology |-> c.topology,
                       episodes |-> EpisodesOf(c, l), evidence |-> RecordsOf(c, l)]
<1> DEFINE es == EpisodesOf(c, l)
           vs == RecordsOf(c, l)
<1>1. Kept(c, l) = [c EXCEPT !.episodes = es, !.evidence = vs]
  BY DEF Kept, EpisodesOf, RecordsOf
<1>2. c = [created_at |-> c.created_at, topology |-> c.topology,
           episodes |-> c.episodes, evidence |-> c.evidence]
  BY ContentTypes DEF Content_t
<1> HIDE DEF es, vs
<1>3. [c EXCEPT !.episodes = es, !.evidence = vs] =
        [created_at |-> c.created_at, topology |-> c.topology, episodes |-> es, evidence |-> vs]
  <2> DEFINE x == [created_at |-> c.created_at, topology |-> c.topology,
                   episodes |-> es, evidence |-> vs]
             y == [c EXCEPT !.episodes = es, !.evidence = vs]
  <2>1. DOMAIN c = {"created_at", "topology", "episodes", "evidence"}
    BY <1>2
  <2>2. DOMAIN x = DOMAIN c /\ DOMAIN y = DOMAIN c
    BY <2>1
  <2>3. \A k \in DOMAIN c : x[k] = y[k]
    <3>1. x["created_at"] = y["created_at"] /\ x["topology"] = y["topology"]
      BY <2>1
    <3>2. x["episodes"] = y["episodes"] /\ x["evidence"] = y["evidence"]
      BY <2>1
    <3> HIDE DEF x, y
    <3>3. QED
      BY <2>1, <3>1, <3>2
  <2>4. x = [k \in DOMAIN x |-> x[k]] /\ y = [k \in DOMAIN y |-> y[k]]
    OBVIOUS
  <2> HIDE DEF x, y
  <2>5. x = y
    BY <2>2, <2>3, <2>4
  <2>6. QED
    BY <2>5 DEF x, y
<1>4. QED
  BY <1>1, <1>3 DEF es, vs

\* A file as it was saved passes the checks of sizes and checksums.
LEMMA OwnTable ==
  ASSUME NEW c \in Contents, NEW l \in LimitSets, NEW p \in Policies, NEW f, Encoded(f, c, l, p)
  PROVE  PayloadOk(f) /\ TableOk(f)
<1> DEFINE n == Len(f.payload)
<1>1. /\ Len(f.table) = 4 /\ DOMAIN f.table = 1..4 /\ f.payload \in Seq(T)
  BY Zenon DEF Encoded
<1>2. /\ f.header.section_count = 4 /\ f.header.payload_bytes = n
      /\ f.header.payload_crc = f.payload
  BY HeaderFacts
<1>3. n \in Nat
  BY <1>1, LenProperties
<1> HIDE DEF n
<1>4. PayloadOk(f)
  BY <1>1, <1>2, <1>3, CutIsNat DEF PayloadOk, FileSize, n
<1>5. ASSUME NEW i \in 1..4
      PROVE  /\ f.table[i].offset + f.table[i].length <= f.header.payload_bytes
             /\ f.table[i].crc64 = Slice(f, f.table[i])
             /\ \A j \in 1..i-1 : f.table[j].id # f.table[i].id
  <2> DEFINE ss == Pending(c, l, p)
             ids == <<kMetadata, kTopology, kEpisodes, kEvidence>>
  <2>1. \A j \in 1..4 : /\ f.table[j].id = ids[j] /\ f.table[j].crc64 = ss[j]
                        /\ f.table[j].offset + f.table[j].length <= Len(f.payload)
                        /\ Slice(f, f.table[j]) = ss[j]
    BY Zenon DEF Encoded
  <2>2. ids[1] = 4 /\ ids[2] = 1 /\ ids[3] = 2 /\ ids[4] = 3
    BY DEF kMetadata, kTopology, kEpisodes, kEvidence
  <2> HIDE DEF ids, ss
  <2>3. \A j \in 1..i-1 : j \in 1..4 /\ ids[j] # ids[i]
    <3> TAKE j \in 1..i-1
    <3>1. i = 1 \/ i = 2 \/ i = 3 \/ i = 4
      OBVIOUS
    <3>2. j \in 1..4 /\ (j = 1 \/ j = 2 \/ j = 3) /\ j < i
      OBVIOUS
    <3>3. QED
      BY <2>2, <3>1, <3>2
  <2>4. \A j \in 1..i-1 : f.table[j].id # f.table[i].id
    BY <2>1, <2>3
  <2>5. f.table[i].crc64 = Slice(f, f.table[i])
    BY <2>1
  <2>6. f.table[i].offset + f.table[i].length <= f.header.payload_bytes
    BY <1>2, <2>1 DEF n
  <2>7. QED
    BY <2>4, <2>5, <2>6
<1>6. TableOk(f)
  BY <1>1, <1>5, Zenon DEF TableOk
<1>7. QED
  BY <1>4, <1>6

\* A process reads the snapshot it wrote.
LEMMA OwnSnapshotLoads ==
  ASSUME NEW c \in Contents, NEW l \in LimitSets, NEW p \in Policies, Admitted(c, l),
         NEW f, Encoded(f, c, l, p),
         FileSize(f) <= l.max_snapshot_bytes, Len(f.table) <= l.max_snapshot_sections,
         \A k \in Kinds : \A o \in ToSet(c.topology.objects[k]) : PortableObject(o)
  PROVE  Readable(f, l) /\ Decodable(f, l, p) /\ decode_snapshot(f, l) = Kept(c, l)
<1>1. Readable(f, l)
  BY DEF Readable
<1>2. HeaderOk(f.header, l, p)
  <2>1. /\ f.payload \in Seq(T) /\ Len(f.table) = 4
    BY Zenon DEF Encoded
  <2>2. Len(f.payload) <= l.max_snapshot_bytes
    <3> DEFINE n == Len(f.payload)
    <3>1. n \in Nat
      BY <2>1, LenProperties
    <3>2. HeaderSize + EntrySize * 4 + n <= l.max_snapshot_bytes
      BY <2>1 DEF FileSize
    <3> DEFINE m == l.max_snapshot_bytes
    <3>3. m \in Nat /\ HeaderSize \in Nat /\ EntrySize \in Nat /\ HeaderSize + EntrySize * 4 + n <= m
      BY <3>2, CutIsNat, LimitTypes
    <3> DEFINE e4 == EntrySize * 4
    <3>4. e4 \in Nat /\ HeaderSize + e4 + n <= m
      <4>1. e4 \in Nat
        BY <3>3
      <4>2. HeaderSize + e4 + n <= m
        BY <3>3, Zenon
      <4>3. QED
        BY <4>1, <4>2
    <3> HIDE DEF n, m, e4
    <3>5. n <= m
      BY <3>1, <3>3, <3>4
    <3>6. QED
      BY <3>5 DEF n, m
  <2>3. /\ f.header.magic = "COSNAP01" /\ f.header.major = 1 /\ f.header.minor = 0
        /\ f.header.limits_digest = l.digest /\ f.header.policy_digest = p.digest
        /\ f.header.section_count = 4 /\ f.header.payload_bytes = Len(f.payload)
    BY HeaderFacts
  <2>4. /\ f.header.section_count <= l.max_snapshot_sections
        /\ f.header.payload_bytes <= l.max_snapshot_bytes
    BY <2>1, <2>2, <2>3
  <2>5. QED
    BY <2>3, <2>4, Zenon DEF HeaderOk
<1>3. PayloadOk(f) /\ TableOk(f)
  BY OwnTable
<1>4. /\ Has(f, kMetadata) /\ Has(f, kTopology) /\ Has(f, kEpisodes) /\ Has(f, kEvidence)
      /\ Section(f, kMetadata) = MetadataSection(c, p)
      /\ Section(f, kTopology) = encode_topology_section(c.topology)
      /\ Section(f, kEpisodes) = EpisodeSection(c.episodes, l)
      /\ Section(f, kEvidence) = EvidenceSection(c.evidence, l)
  BY SectionsFound
<1>5. MetadataOk(Section(f, kMetadata), p) /\ CreatedAt(f) = c.created_at
  BY <1>4, MetadataFacts DEF MetadataOk, CreatedAt
<1>6. /\ decode_topology_section(Section(f, kTopology), l)
      /\ TopologyOf(Section(f, kTopology), l) = c.topology
  <2> DEFINE s == encode_topology_section(c.topology)
  <2>1. c.topology \in Topology_t
    BY ContentTypes
  <2>2. \A k \in Kinds : Len(c.topology.objects[k]) <= l.max_objects[k]
    BY DEF Admitted
  <2>3. /\ s # <<>> /\ Is(s[1], TopologyFields) /\ AtEnd(TopologyReader(s, l))
        /\ TopologyOf(s, l) = c.topology
    <3> DEFINE t == c.topology
    <3>1. /\ t \in Topology_t
          /\ \A k \in Kinds : Len(t.objects[k]) <= l.max_objects[k]
          /\ \A k \in Kinds : \A o \in ToSet(t.objects[k]) : Len(o.labels) <= LabelCut
      BY <2>1, <2>2, Zenon DEF PortableObject
    <3> HIDE DEF t
    <3>2. LET x == encode_topology_section(t)
          IN /\ x # <<>> /\ Is(x[1], TopologyFields)
             /\ AtEnd(TopologyReader(x, l))
             /\ TopologyOf(x, l) = t
      BY <3>1, TopologyReadsBack
    <3>3. QED
      BY <3>2, Zenon DEF t
  <2>4. ObjectsOk(AllObjects(c.topology), l)
    BY ObjectsReadBack
  <2>5. QED
    BY <1>4, <2>3, <2>4, Zenon DEF decode_topology_section
<1>7. EpisodesOk(Section(f, kEpisodes), l)
      /\ EpisodeReader(Section(f, kEpisodes), l).lists[1] = EpisodesOf(c, l)
  BY <1>4, EpisodesReadBack
<1>8. EvidenceOk(Section(f, kEvidence), l)
      /\ EvidenceReader(Section(f, kEvidence), l).lists[1] = RecordsOf(c, l)
  BY <1>4, EvidenceReadBack
<1>9. f.header # Garbled /\ f.header.topology_digest = c.topology
  BY HeaderFacts
<1>10. Decodable(f, l, p)
  BY <1>2, <1>3, <1>4, <1>5, <1>6, <1>7, <1>8, <1>9 DEF Decodable
<1>11. decode_snapshot(f, l) = [created_at |-> c.created_at, topology |-> c.topology,
                               episodes |-> EpisodesOf(c, l), evidence |-> RecordsOf(c, l)]
  <2> DEFINE es == IF Has(f, kEpisodes)
                   THEN EpisodeReader(Section(f, kEpisodes), l).lists[1] ELSE <<>>
             vs == IF Has(f, kEvidence)
                   THEN EvidenceReader(Section(f, kEvidence), l).lists[1] ELSE <<>>
  <2>1. es = EpisodesOf(c, l)
    BY <1>4, <1>7, Zenon
  <2>2. vs = RecordsOf(c, l)
    BY <1>4, <1>8, Zenon
  <2>3. decode_snapshot(f, l) =
          [created_at |-> CreatedAt(f), topology |-> TopologyOf(Section(f, kTopology), l),
           episodes |-> es, evidence |-> vs]
    BY Zenon DEF decode_snapshot
  <2> HIDE DEF es, vs
  <2>4. QED
    BY <1>5, <1>6, <2>1, <2>2, <2>3, Zenon
<1>12. QED
  BY <1>1, <1>10, <1>11, KeptRecord

-----------------------------------------------------------------------------
(***************************************************************************)
(* What the checks before any section is read rest on, whoever wrote the   *)
(* file: l and p are the limits and the policy of the process that saved   *)
(* it.                                                                     *)
(***************************************************************************)
Form(f, l, p) ==
  /\ f.payload \in Seq(T)
  /\ Len(f.table) \in Nat
  /\ \A i \in DOMAIN f.table : f.table[i].offset \in Nat /\ f.table[i].length \in Nat
  /\ f.header.payload_bytes \in Nat
  /\ f.header.limits_digest \in {l.digest, Garbled}
  /\ f.header.policy_digest \in {p.digest, Garbled}

\* A section that is found lies in the payload and is what its checksum says.
LEMMA SectionIn ==
  ASSUME NEW f, NEW l, NEW p, Form(f, l, p), PayloadOk(f), TableOk(f), NEW id, Has(f, id)
  PROVE  /\ Section(f, id) \in Seq(T)
         /\ \E i \in DOMAIN f.table : Section(f, id) = f.table[i].crc64
<1> DEFINE i == CHOOSE i \in DOMAIN f.table : f.table[i].id = id
           e == f.table[i]
           n == Len(f.payload)
<1>1. i \in DOMAIN f.table
  BY Zenon DEF Has
<1>2. Section(f, id) = Slice(f, e)
  BY Zenon DEF Section
<1> HIDE DEF i
<1>3. e.offset \in Nat /\ e.length \in Nat /\ f.payload \in Seq(T)
  BY <1>1 DEF Form
<1>4. e.offset + e.length <= f.header.payload_bytes /\ e.crc64 = Slice(f, e)
  BY <1>1, Zenon DEF TableOk
<1>5. n \in Nat /\ \A j \in 1..n : f.payload[j] \in T
  BY <1>3, LenProperties, ElementOfSeq
<1>6. f.header.payload_bytes = n
  <2> DEFINE b == f.header.payload_bytes
             a == HeaderSize + EntrySize * Len(f.table)
  <2>1. b \in Nat /\ Len(f.table) \in Nat
    BY DEF Form
  <2>2. a + b = a + n
    <3>1. HeaderSize + EntrySize * f.header.section_count + f.header.payload_bytes
            = HeaderSize + EntrySize * Len(f.table) + Len(f.payload)
      BY Zenon DEF PayloadOk, FileSize
    <3>2. f.header.section_count = Len(f.table)
      BY DEF PayloadOk
    <3>3. QED
      BY <3>1, <3>2, Zenon
  <2>3. a \in Nat
    <3>1. ASSUME NEW x \in Nat, NEW y \in Nat, NEW z \in Nat PROVE z + x * y \in Nat
      OBVIOUS
    <3>2. QED
      BY <2>1, <3>1, CutIsNat
  <2> HIDE DEF a, b, n
  <2>4. b = n
    BY <1>5, <2>1, <2>2, <2>3
  <2>5. QED
    BY <2>4 DEF b
<1>7. Slice(f, e) \in Seq(T)
  <2> DEFINE x == e.offset
             y == e.length
  <2>1. x \in Nat /\ y \in Nat /\ x + y <= n
    BY <1>3, <1>4, <1>6
  <2>2. Slice(f, e) = SubSeq(f.payload, x + 1, x + y)
    BY DEF Slice
  <2> HIDE DEF x, y, n, e
  <2>3. \A j \in (x + 1)..(x + y) : f.payload[j] \in T
    <3>1. \A j \in (x + 1)..(x + y) : j \in 1..n
      BY <1>5, <2>1
    <3>2. QED
      BY <1>5, <3>1
  <2>4. x + 1 \in Int /\ x + y \in Int
    BY <2>1
  <2>5. QED
    BY <2>2, <2>3, <2>4, SubSeqProperties
<1>8. QED
  BY <1>1, <1>2, <1>4, <1>7

\* What is accepted was decoded.
LEMMA AcceptedLoads ==
  ASSUME NEW f, NEW l, NEW p, Loaded(f, l, p).content # Refused
  PROVE  Decodable(f, l, p) /\ Loaded(f, l, p).content = decode_snapshot(f, l)
<1> DEFINE ok == Readable(f, l) /\ Decodable(f, l, p)
           d == decode_snapshot(f, l)
<1>1. Loaded(f, l, p) = [limits |-> l, policy |-> p, content |-> IF ok THEN d ELSE Refused]
  BY Zenon DEF Loaded
<1> HIDE DEF ok, d
<1>2. Loaded(f, l, p).content = IF ok THEN d ELSE Refused
  BY <1>1
<1>3. ok
  BY <1>2
<1>4. QED
  BY <1>2, <1>3 DEF ok, d

\* What was decoded is the content of four sections.
LEMMA DecodedParts ==
  ASSUME NEW f, NEW l
  PROVE  LET d == decode_snapshot(f, l)
         IN /\ d.created_at = CreatedAt(f)
            /\ d.topology = TopologyOf(Section(f, kTopology), l)
            /\ Has(f, kEpisodes) => d.episodes = EpisodeReader(Section(f, kEpisodes), l).lists[1]
            /\ ~Has(f, kEpisodes) => d.episodes = <<>>
            /\ Has(f, kEvidence) => d.evidence = EvidenceReader(Section(f, kEvidence), l).lists[1]
            /\ ~Has(f, kEvidence) => d.evidence = <<>>
<1> DEFINE es == EpisodeReader(Section(f, kEpisodes), l).lists[1]
           vs == EvidenceReader(Section(f, kEvidence), l).lists[1]
           a == CreatedAt(f)
           t == TopologyOf(Section(f, kTopology), l)
           d == decode_snapshot(f, l)
<1>1. d = [created_at |-> a, topology |-> t,
           episodes |-> IF Has(f, kEpisodes) THEN es ELSE <<>>,
           evidence |-> IF Has(f, kEvidence) THEN vs ELSE <<>>]
  BY Zenon DEF decode_snapshot
<1> HIDE DEF es, vs, a, t, d
<1>2. /\ d.created_at = a /\ d.topology = t
      /\ d.episodes = (IF Has(f, kEpisodes) THEN es ELSE <<>>)
      /\ d.evidence = (IF Has(f, kEvidence) THEN vs ELSE <<>>)
  BY <1>1
<1>3. QED
  BY <1>2, Zenon DEF es, vs, a, t, d

\* What AcceptedIsSound says of a content.
Sound(c, l) ==
  LET all == AllObjects(c.topology)
  IN /\ Len(c.episodes) <= l.max_snapshot_episodes
     /\ Len(c.evidence) <= l.max_snapshot_evidence
     /\ \A e \in ToSet(c.episodes) : e.id = e.key /\ Len(e.citations) <= l.max_citations
     /\ \A e \in ToSet(c.evidence) : e.id = e.body
     /\ \A i \in DOMAIN all : \A r \in ToSet(all[i].refs) : \E j \in 1..i-1 : all[j].id = r

LEMMA NothingIn == ToSet(<<>>) = {} /\ Len(<<>>) = 0
BY DEF ToSet

\* Whoever wrote the file: what decodes is sound.
LEMMA DecodedIsSound ==
  ASSUME NEW f, NEW l \in LimitSets, NEW p, NEW sl, NEW sp, Form(f, sl, sp), Decodable(f, l, p)
  PROVE  Sound(decode_snapshot(f, l), l)
<1> DEFINE d == decode_snapshot(f, l)
<1>1. PayloadOk(f) /\ TableOk(f) /\ Has(f, kTopology)
      /\ decode_topology_section(Section(f, kTopology), l)
      /\ (Has(f, kEpisodes) => EpisodesOk(Section(f, kEpisodes), l))
      /\ (Has(f, kEvidence) => EvidenceOk(Section(f, kEvidence), l))
  BY DEF Decodable
<1>2. l.max_snapshot_episodes \in Nat /\ l.max_snapshot_evidence \in Nat
  BY LimitTypes
<1>3. /\ Len(d.episodes) <= l.max_snapshot_episodes
      /\ \A e \in ToSet(d.episodes) : e.id = e.key /\ Len(e.citations) <= l.max_citations
  <2>1. CASE Has(f, kEpisodes)
    <3> DEFINE s == Section(f, kEpisodes)
               es == EpisodeReader(s, l).lists[1]
    <3>1. s \in Seq(T) /\ EpisodesOk(s, l)
      BY <1>1, <2>1, SectionIn
    <3> HIDE DEF s
    <3>2. /\ Len(es) <= l.max_snapshot_episodes
          /\ \A e \in ToSet(es) : e.id = e.key /\ Len(e.citations) <= l.max_citations
      BY <1>2, <3>1, EpisodesSound
    <3>3. d.episodes = es
      BY <2>1, DecodedParts, Zenon DEF s
    <3>4. QED
      BY <3>2, <3>3, Zenon
  <2>2. CASE ~Has(f, kEpisodes)
    <3>1. d.episodes = <<>>
      BY <2>2, DecodedParts, Zenon
    <3> HIDE DEF d
    <3>2. QED
      BY <1>2, <3>1, NothingIn
  <2>3. QED
    BY <2>1, <2>2
<1>4. /\ Len(d.evidence) <= l.max_snapshot_evidence
      /\ \A e \in ToSet(d.evidence) : e.id = e.body
  <2>1. CASE Has(f, kEvidence)
    <3> DEFINE s == Section(f, kEvidence)
               vs == EvidenceReader(s, l).lists[1]
    <3>1. s \in Seq(T) /\ EvidenceOk(s, l)
      BY <1>1, <2>1, SectionIn
    <3> HIDE DEF s
    <3>2. /\ Len(vs) <= l.max_snapshot_evidence
          /\ \A e \in ToSet(vs) : e.id = e.body
      BY <1>2, <3>1, EvidenceSound
    <3>3. d.evidence = vs
      BY <2>1, DecodedParts, Zenon DEF s
    <3>4. QED
      BY <3>2, <3>3, Zenon
  <2>2. CASE ~Has(f, kEvidence)
    <3>1. d.evidence = <<>>
      BY <2>2, DecodedParts, Zenon
    <3> HIDE DEF d
    <3>2. QED
      BY <1>2, <3>1, NothingIn
  <2>3. QED
    BY <2>1, <2>2
<1> DEFINE all == AllObjects(d.topology)
<1>5. \A i \in DOMAIN all : \A r \in ToSet(all[i].refs) : \E j \in 1..i-1 : all[j].id = r
  <2>1. d.topology = TopologyOf(Section(f, kTopology), l)
    BY DecodedParts, Zenon
  <2>2. ObjectsOk(all, l)
    BY <1>1, <2>1, Zenon DEF decode_topology_section
  <2> HIDE DEF all
  <2>3. \A i \in DOMAIN all : ToSet(all[i].refs) \subseteq {all[j].id : j \in 1..i-1}
    BY <2>2, Zenon DEF ObjectsOk, ObjectOk, ObjectFits
  <2>4. QED
    BY <2>3
<1>6. QED
  BY <1>3, <1>4, <1>5, Zenon DEF Sound

\* A file that was damaged, not written anew.
Base(f, c, l, p) ==
  /\ f \in [header : Headers(c, l, p), table : Seq(Entries), payload : Seq(T)]
  /\ Len(f.table) <= 4
  /\ \A i \in 1..Len(f.table) : f.table[i].crc64 \in {Pending(c, l, p)[i], Garbled}

\* A damaged file has the form of a file.
LEMMA BaseForm ==
  ASSUME NEW f, NEW c, NEW l, NEW p, Base(f, c, l, p)
  PROVE  /\ Form(f, l, p) /\ Len(f.table) \in 0..4 /\ DOMAIN f.table = 1..Len(f.table)
         /\ f.header.topology_digest \in {c.topology, Garbled}
<1>1. f.header \in Headers(c, l, p) /\ f.table \in Seq(Entries) /\ f.payload \in Seq(T)
      /\ Len(f.table) <= 4
  BY DEF Base
<1>2. Len(f.table) \in Nat /\ DOMAIN f.table = 1..Len(f.table)
  BY <1>1, LenProperties
<1>3. \A i \in DOMAIN f.table : f.table[i].offset \in Nat /\ f.table[i].length \in Nat
  <2>1. \A i \in DOMAIN f.table : f.table[i] \in Entries
    BY <1>1, <1>2, ElementOfSeq
  <2>2. \A e \in Entries : e.offset \in Nat /\ e.length \in Nat
    BY DEF Entries
  <2>3. QED
    BY <2>1, <2>2
<1>4. /\ f.header.payload_bytes \in Nat
      /\ f.header.limits_digest \in {l.digest, Garbled}
      /\ f.header.policy_digest \in {p.digest, Garbled}
      /\ f.header.topology_digest \in {c.topology, Garbled}
  <2> DEFINE h == f.header
  <2>1. h \in Headers(c, l, p)
    BY <1>1
  <2> HIDE DEF h
  <2>2. /\ h.payload_bytes \in Nat
        /\ h.limits_digest \in {l.digest, Garbled}
        /\ h.policy_digest \in {p.digest, Garbled}
        /\ h.topology_digest \in {c.topology, Garbled}
    BY <2>1 DEF Headers
  <2>3. QED
    BY <2>2 DEF h
<1>5. Form(f, l, p)
  BY <1>1, <1>2, <1>3, <1>4 DEF Form
<1>6. Len(f.table) \in 0..4
  <2> DEFINE n == Len(f.table)
  <2>1. n \in Nat /\ n <= 4
    BY <1>1, <1>2
  <2> HIDE DEF n
  <2>2. n \in 0..4
    BY <2>1
  <2>3. QED
    BY <2>2 DEF n
<1>7. QED
  BY <1>2, <1>4, <1>5, <1>6, Zenon

\* A section that passes its checksum is one of those that were written.
LEMMA OneOfTheWritten ==
  ASSUME NEW c \in Contents, NEW l \in LimitSets, NEW p \in Policies,
         NEW f, Base(f, c, l, p), PayloadOk(f), TableOk(f), NEW id, Has(f, id)
  PROVE  /\ Section(f, id) \in Seq(T)
         /\ \E i \in 1..4 : Section(f, id) = Pending(c, l, p)[i]
<1>1. Form(f, l, p) /\ Len(f.table) \in 0..4 /\ DOMAIN f.table = 1..Len(f.table)
  BY BaseForm
<1>2. Section(f, id) \in Seq(T)
  BY <1>1, SectionIn
<1>3. PICK i \in DOMAIN f.table : Section(f, id) = f.table[i].crc64
  BY <1>1, SectionIn
<1>4. Section(f, id) # Garbled
  BY <1>2, NotGarbled DEF Bytes, T
<1>5. i \in 1..Len(f.table) /\ i \in 1..4
  <2> DEFINE n == Len(f.table)
  <2>1. n \in 0..4 /\ i \in 1..n
    BY <1>1, Zenon
  <2> HIDE DEF n
  <2>2. i \in 1..4
    BY <2>1
  <2>3. QED
    BY <2>1, <2>2 DEF n
<1>6. f.table[i].crc64 \in {Pending(c, l, p)[i], Garbled}
  BY <1>5 DEF Base
<1>7. QED
  BY <1>2, <1>3, <1>4, <1>5, <1>6

\* A list is at the start of what can be read as one.
LEMMA StartsWithCount ==
  ASSUME NEW s, NEW bound, NEW fields, ReadList(Reader(s), bound, fields).ok
  PROVE  Is(s[1], CountFields)
<1> DEFINE r == Reader(s)
<1>1. r.rest = s
  BY DEF Reader
<1> HIDE DEF r
<1>2. ListThere(r, bound, fields)
  BY OkBefore DEF r
<1>3. QED
  BY <1>1, <1>2 DEF ListThere

\* The sections that begin with a count hold episodes or records.
LEMMA CountedSections ==
  ASSUME NEW c \in Contents, NEW l \in LimitSets, NEW p \in Policies, NEW s,
         \E i \in 1..4 : s = Pending(c, l, p)[i], Is(s[1], CountFields)
  PROVE  s = Counted(EpisodesOf(c, l)) \/ s = Counted(RecordsOf(c, l))
<1> DEFINE ss == Pending(c, l, p)
<1>1. /\ Is(ss[1][1], MetadataFields) /\ Is(ss[2][1], TopologyFields)
      /\ ss[3] = EpisodeSection(c.episodes, l) /\ ss[4] = EvidenceSection(c.evidence, l)
  BY PendingFacts
<1> HIDE DEF ss
<1>2. s = ss[1] \/ s = ss[2] \/ s = ss[3] \/ s = ss[4]
  <2>1. \A i \in 1..4 : i = 1 \/ i = 2 \/ i = 3 \/ i = 4
    OBVIOUS
  <2>2. \E i \in 1..4 : s = ss[i]
    BY DEF ss
  <2>3. QED
    BY <2>1, <2>2
<1>3. s # ss[1] /\ s # ss[2]
  BY <1>1, FieldsDiffer, Zenon DEF Is
<1>4. EpisodeSection(c.episodes, l) = Counted(EpisodesOf(c, l))
      /\ EvidenceSection(c.evidence, l) = Counted(RecordsOf(c, l))
  BY Zenon DEF EpisodeSection, EvidenceSection, EpisodesOf, RecordsOf
<1>5. QED
  BY <1>1, <1>2, <1>3, <1>4, Zenon

\* The records cannot be taken for episodes, nor the episodes for records.
LEMMA NotMistaken ==
  ASSUME NEW c \in Contents, NEW l \in LimitSets, NEW bound \in Nat
  PROVE  /\ ReadList(Reader(Counted(RecordsOf(c, l))), bound, EpisodeFields).ok
              => RecordsOf(c, l) = <<>>
         /\ ReadList(Reader(Counted(EpisodesOf(c, l))), bound, EvidenceFields).ok
              => EpisodesOf(c, l) = <<>>
<1> DEFINE es == EpisodesOf(c, l)
           vs == RecordsOf(c, l)
<1>1. /\ es \in Seq(Tokens) /\ vs \in Seq(Tokens)
      /\ \A i \in 1..Len(es) : Is(es[i], EpisodeFields)
      /\ \A i \in 1..Len(vs) : Is(vs[i], EvidenceFields)
  BY ItemTypes, TokensAre
<1> HIDE DEF es, vs
<1>2. /\ es # <<>> => 1 \in 1..Len(es)
      /\ vs # <<>> => 1 \in 1..Len(vs)
  BY <1>1, EmptySeq
<1>3. ASSUME ReadList(Reader(Counted(vs)), bound, EpisodeFields).ok PROVE vs = <<>>
  <2>1. \A i \in 1..Len(vs) : Is(vs[i], EpisodeFields)
    BY <1>1, <1>3, OnlyList
  <2>2. QED
    BY <1>1, <1>2, <2>1, FieldsDiffer, Zenon DEF Is
<1>4. ASSUME ReadList(Reader(Counted(es)), bound, EvidenceFields).ok PROVE es = <<>>
  <2>1. \A i \in 1..Len(es) : Is(es[i], EvidenceFields)
    BY <1>1, <1>4, OnlyList
  <2>2. QED
    BY <1>1, <1>2, <2>1, FieldsDiffer, Zenon DEF Is
<1>5. QED
  BY <1>3, <1>4 DEF es, vs

\* A section that the table still names, where save put it, is the one written.
LEMMA SectionInPlace ==
  ASSUME NEW c \in Contents, NEW l \in LimitSets, NEW p \in Policies,
         NEW f, Base(f, c, l, p), PayloadOk(f), TableOk(f), NEW i \in 1..4, NEW id,
         Named(f, i, id)
  PROVE  Has(f, id) /\ Section(f, id) = Pending(c, l, p)[i]
<1> DEFINE k == CHOOSE j \in DOMAIN f.table : f.table[j].id = id
<1>1. /\ Form(f, l, p) /\ Len(f.table) \in 0..4 /\ DOMAIN f.table = 1..Len(f.table)
      /\ i \in DOMAIN f.table /\ f.table[i].id = id
  BY BaseForm DEF Named
<1>2. Has(f, id)
  BY <1>1, Zenon DEF Has
<1>3. k \in DOMAIN f.table /\ f.table[k].id = id
  BY <1>1, Zenon
<1>4. Section(f, id) = Slice(f, f.table[k])
  BY Zenon DEF Section
<1> HIDE DEF k
<1>5. k = i
  <2>1. \A a \in DOMAIN f.table : \A b \in 1..a-1 : f.table[b].id # f.table[a].id
    BY Zenon DEF TableOk
  <2>2. k \in Nat /\ i \in Nat /\ k >= 1 /\ i >= 1
    BY <1>1, <1>3
  <2>3. CASE k < i
    <3>1. k \in 1..i-1
      BY <2>2, <2>3
    <3>2. QED
      BY <1>1, <1>3, <2>1, <3>1
  <2>4. CASE i < k
    <3>1. i \in 1..k-1
      BY <2>2, <2>4
    <3>2. QED
      BY <1>1, <1>3, <2>1, <3>1
  <2>5. QED
    BY <2>2, <2>3, <2>4
<1>6. f.table[i].crc64 = Slice(f, f.table[i])
  BY <1>1, Zenon DEF TableOk
<1>7. f.table[i].crc64 \in {Pending(c, l, p)[i], Garbled}
  BY <1>1 DEF Base
<1>8. Section(f, id) # Garbled
  <2>1. Section(f, id) \in Seq(T)
    BY <1>1, <1>2, SectionIn
  <2>2. QED
    BY <2>1, NotGarbled DEF Bytes, T
<1>9. QED
  BY <1>2, <1>4, <1>5, <1>6, <1>7, <1>8, Zenon

\* And is read back.
LEMMA NamedIsRead ==
  ASSUME NEW c \in Contents, NEW l \in LimitSets, NEW p \in Policies, Admitted(c, l),
         NEW f, Base(f, c, l, p), Decodable(f, l, p)
  PROVE  /\ Named(f, 3, kEpisodes) => decode_snapshot(f, l).episodes = EpisodesOf(c, l)
         /\ Named(f, 4, kEvidence) => decode_snapshot(f, l).evidence = RecordsOf(c, l)
<1>1. PayloadOk(f) /\ TableOk(f)
  BY DEF Decodable
<1>2. /\ Pending(c, l, p)[3] = EpisodeSection(c.episodes, l)
      /\ Pending(c, l, p)[4] = EvidenceSection(c.evidence, l)
  BY PendingFacts
<1>3. ASSUME Named(f, 3, kEpisodes) PROVE decode_snapshot(f, l).episodes = EpisodesOf(c, l)
  <2>1. Has(f, kEpisodes) /\ Section(f, kEpisodes) = Pending(c, l, p)[3]
    BY <1>1, <1>3, SectionInPlace
  <2>2. EpisodeReader(EpisodeSection(c.episodes, l), l).lists[1] = EpisodesOf(c, l)
    BY EpisodesReadBack, Zenon
  <2>3. decode_snapshot(f, l).episodes = EpisodeReader(Section(f, kEpisodes), l).lists[1]
    BY <2>1, DecodedParts, Zenon
  <2>4. Section(f, kEpisodes) = EpisodeSection(c.episodes, l)
    BY <1>2, <2>1, Zenon
  <2>5. QED
    BY <2>2, <2>3, <2>4, Zenon
<1>4. ASSUME Named(f, 4, kEvidence) PROVE decode_snapshot(f, l).evidence = RecordsOf(c, l)
  <2>1. Has(f, kEvidence) /\ Section(f, kEvidence) = Pending(c, l, p)[4]
    BY <1>1, <1>4, SectionInPlace
  <2>2. EvidenceReader(EvidenceSection(c.evidence, l), l).lists[1] = RecordsOf(c, l)
    BY EvidenceReadBack, Zenon
  <2>3. decode_snapshot(f, l).evidence = EvidenceReader(Section(f, kEvidence), l).lists[1]
    BY <2>1, DecodedParts, Zenon
  <2>4. Section(f, kEvidence) = EvidenceSection(c.evidence, l)
    BY <1>2, <2>1, Zenon
  <2>5. QED
    BY <2>2, <2>3, <2>4, Zenon
<1>5. QED
  BY <1>3, <1>4

\* Of a damaged file only what was saved is decoded.
LEMMA DamagedIsNotData ==
  ASSUME NEW c \in Contents, NEW l \in LimitSets, NEW p \in Policies,
         NEW f, Base(f, c, l, p), Decodable(f, l, p)
  PROVE  LET d == decode_snapshot(f, l)
         IN /\ d.created_at = c.created_at
            /\ d.topology = c.topology
            /\ d.episodes \in {<<>>, EpisodesOf(c, l)}
            /\ d.evidence \in {<<>>, RecordsOf(c, l)}
<1> DEFINE d == decode_snapshot(f, l)
           ss == Pending(c, l, p)
<1>1. /\ PayloadOk(f) /\ TableOk(f) /\ Has(f, kMetadata) /\ Has(f, kTopology)
      /\ MetadataOk(Section(f, kMetadata), p)
      /\ decode_topology_section(Section(f, kTopology), l)
      /\ TopologyOf(Section(f, kTopology), l) = f.header.topology_digest
      /\ (Has(f, kEpisodes) => EpisodesOk(Section(f, kEpisodes), l))
      /\ (Has(f, kEvidence) => EvidenceOk(Section(f, kEvidence), l))
  BY DEF Decodable
<1>2. ASSUME NEW id, Has(f, id)
      PROVE  Section(f, id) \in Seq(T) /\ \E i \in 1..4 : Section(f, id) = ss[i]
  BY <1>1, <1>2, OneOfTheWritten
<1>3. d.created_at = c.created_at
  <2> DEFINE s == Section(f, kMetadata)
  <2>1. PICK i \in 1..4 : s = ss[i]
    BY <1>1, <1>2
  <2>2. Is(s[1], MetadataFields)
    BY <1>1 DEF MetadataOk
  <2>3. /\ ss[1] = MetadataSection(c, p) /\ Is(ss[2][1], TopologyFields)
        /\ Is(ss[3][1], CountFields) /\ Is(ss[4][1], CountFields)
    BY PendingFacts
  <2>4. i = 1 \/ i = 2 \/ i = 3 \/ i = 4
    OBVIOUS
  <2>5. i = 1
    <3> HIDE DEF s, ss
    <3>1. i # 2
      BY <2>1, <2>2, <2>3, FieldsDiffer, Zenon DEF Is
    <3>2. i # 3
      BY <2>1, <2>2, <2>3, FieldsDiffer, Zenon DEF Is
    <3>3. i # 4
      BY <2>1, <2>2, <2>3, FieldsDiffer, Zenon DEF Is
    <3>4. QED
      BY <2>4, <3>1, <3>2, <3>3
  <2>6. s = MetadataSection(c, p)
    BY <2>1, <2>3, <2>5, Zenon
  <2>7. s[1].created_at = c.created_at
    BY <2>6, MetadataFacts
  <2>8. d.created_at = s[1].created_at
    BY DecodedParts, Zenon DEF CreatedAt
  <2>9. QED
    BY <2>7, <2>8
<1>4. d.topology = c.topology
  <2> DEFINE s == Section(f, kTopology)
             t == TopologyOf(s, l)
  <2>1. s \in Seq(T) /\ s # <<>> /\ Is(s[1], TopologyFields) /\ TopologyReader(s, l).ok
    BY <1>1, <1>2 DEF decode_topology_section, AtEnd
  <2>2. t \in Topology_t
    BY <2>1, TopologyRead
  <2>3. t \in {c.topology, Garbled}
    BY <1>1, BaseForm
  <2>4. d.topology = t
    BY DecodedParts, Zenon
  <2> HIDE DEF t, d
  <2>5. QED
    BY <2>2, <2>3, <2>4, NotGarbled
<1>5. d.episodes \in {<<>>, EpisodesOf(c, l)}
  <2>1. CASE ~Has(f, kEpisodes)
    <3>1. d.episodes = <<>>
      BY <2>1, DecodedParts, Zenon
    <3> HIDE DEF d
    <3>2. QED
      BY <3>1
  <2>2. CASE Has(f, kEpisodes)
    <3> DEFINE s == Section(f, kEpisodes)
               n == l.max_snapshot_episodes
               q == ReadList(Reader(s), n, EpisodeFields)
    <3>1. EpisodeReader(s, l).ok /\ EpisodeReader(s, l) = q
      BY <1>1, <2>2 DEF EpisodesOk, AtEnd, EpisodeReader
    <3>2. n \in Nat
      BY LimitTypes
    <3>3. d.episodes = q.lists[1]
      BY <2>2, <3>1, DecodedParts, Zenon
    <3>4. \E i \in 1..4 : s = ss[i]
      BY <1>2, <2>2
    <3> HIDE DEF s, n, d, ss
    <3>5. q.ok
      BY <3>1
    <3>6. Is(s[1], CountFields)
      BY <3>5, StartsWithCount
    <3>7. s = Counted(EpisodesOf(c, l)) \/ s = Counted(RecordsOf(c, l))
      BY <3>4, <3>6, CountedSections DEF ss
    <3>8. CASE s = Counted(EpisodesOf(c, l))
      <4>1. q.lists[1] = EpisodesOf(c, l)
        BY <3>2, <3>5, <3>8, ItemTypes, OnlyList
      <4>2. QED
        BY <3>3, <4>1, Zenon
    <3>9. CASE s = Counted(RecordsOf(c, l))
      <4>1. q.lists[1] = RecordsOf(c, l)
        BY <3>2, <3>5, <3>9, ItemTypes, OnlyList
      <4>2. RecordsOf(c, l) = <<>>
        BY <3>2, <3>5, <3>9, NotMistaken
      <4>3. QED
        BY <3>3, <4>1, <4>2, Zenon
    <3>10. QED
      BY <3>7, <3>8, <3>9
  <2>3. QED
    BY <2>1, <2>2
<1>6. d.evidence \in {<<>>, RecordsOf(c, l)}
  <2>1. CASE ~Has(f, kEvidence)
    <3>1. d.evidence = <<>>
      BY <2>1, DecodedParts, Zenon
    <3> HIDE DEF d
    <3>2. QED
      BY <3>1
  <2>2. CASE Has(f, kEvidence) /\ OverCount(Section(f, kEvidence), l)
    <3>1. EvidenceReader(Section(f, kEvidence), l).lists[1] = <<>>
      BY <2>2 DEF EvidenceReader
    <3>2. d.evidence = <<>>
      BY <2>2, <3>1, DecodedParts, Zenon
    <3> HIDE DEF d
    <3>3. QED
      BY <3>2
  <2>3. CASE Has(f, kEvidence) /\ ~OverCount(Section(f, kEvidence), l)
    <3> DEFINE s == Section(f, kEvidence)
               n == l.max_snapshot_evidence
               q == ReadList(Reader(s), n, EvidenceFields)
    <3>1. EvidenceReader(s, l).ok
      BY <1>1, <2>3 DEF EvidenceOk, AtEnd
    <3>2. EvidenceReader(s, l) = q
      BY <2>3, Zenon DEF EvidenceReader
    <3>3. n \in Nat
      BY LimitTypes
    <3>4. d.evidence = q.lists[1]
      BY <2>3, <3>2, DecodedParts, Zenon
    <3>5. \E i \in 1..4 : s = ss[i]
      BY <1>2, <2>3
    <3> HIDE DEF s, n, d, ss
    <3>6. q.ok
      BY <3>1, <3>2
    <3>7. Is(s[1], CountFields)
      BY <3>6, StartsWithCount
    <3>8. s = Counted(EpisodesOf(c, l)) \/ s = Counted(RecordsOf(c, l))
      BY <3>5, <3>7, CountedSections DEF ss
    <3>9. CASE s = Counted(RecordsOf(c, l))
      <4>1. q.lists[1] = RecordsOf(c, l)
        BY <3>3, <3>6, <3>9, ItemTypes, OnlyList
      <4>2. QED
        BY <3>4, <4>1, Zenon
    <3>10. CASE s = Counted(EpisodesOf(c, l))
      <4>1. q.lists[1] = EpisodesOf(c, l)
        BY <3>3, <3>6, <3>10, ItemTypes, OnlyList
      <4>2. EpisodesOf(c, l) = <<>>
        BY <3>3, <3>6, <3>10, NotMistaken
      <4>3. QED
        BY <3>4, <4>1, <4>2, Zenon
    <3>11. QED
      BY <3>8, <3>9, <3>10
  <2>4. QED
    BY <2>1, <2>2, <2>3
<1>7. QED
  BY <1>3, <1>4, <1>5, <1>6
-----------------------------------------------------------------------------
(***************************************************************************)
(* A file's life                                                           *)
(***************************************************************************)
\* Damage to one field of a header leaves a header.
LEMMA HeaderDamaged ==
  ASSUME NEW c, NEW l, NEW p, NEW h \in Headers(c, l, p), NEW n \in Nat
  PROVE  /\ \A k \in {"magic", "limits_digest", "policy_digest", "topology_digest", "created_at",
                      "payload_crc"} : [h EXCEPT ![k] = Garbled] \in Headers(c, l, p)
         /\ \A k \in {"major", "minor", "section_count", "payload_bytes"} :
              [h EXCEPT ![k] = n] \in Headers(c, l, p)
<1>1. [h EXCEPT !["magic"] = Garbled] \in Headers(c, l, p)
  BY DEF Headers
<1>2. [h EXCEPT !["limits_digest"] = Garbled] \in Headers(c, l, p)
  BY DEF Headers
<1>3. [h EXCEPT !["policy_digest"] = Garbled] \in Headers(c, l, p)
  BY DEF Headers
<1>4. [h EXCEPT !["topology_digest"] = Garbled] \in Headers(c, l, p)
  BY DEF Headers
<1>5. [h EXCEPT !["created_at"] = Garbled] \in Headers(c, l, p)
  BY DEF Headers
<1>6. [h EXCEPT !["payload_crc"] = Garbled] \in Headers(c, l, p)
  BY DEF Headers
<1>7. [h EXCEPT !["major"] = n] \in Headers(c, l, p)
  BY DEF Headers
<1>8. [h EXCEPT !["minor"] = n] \in Headers(c, l, p)
  BY DEF Headers
<1>9. [h EXCEPT !["section_count"] = n] \in Headers(c, l, p)
  BY DEF Headers
<1>10. [h EXCEPT !["payload_bytes"] = n] \in Headers(c, l, p)
  BY DEF Headers
<1>11. QED
  BY <1>1, <1>2, <1>3, <1>4, <1>5, <1>6, <1>7, <1>8, <1>9, <1>10, Zenon

\* The three parts of a file.
Parts(f, h, t, q) ==
  /\ f.header = h /\ f.table = t /\ f.payload = q
  /\ f = [header |-> h, table |-> t, payload |-> q]
  /\ f # NoFile

LEMMA ThreeParts ==
  ASSUME NEW h, NEW t, NEW q
  PROVE  Parts([header |-> h, table |-> t, payload |-> q], h, t, q)
<1> DEFINE f == [header |-> h, table |-> t, payload |-> q]
<1>1. "table" \in DOMAIN f /\ "table" \notin DOMAIN NoFile
  BY DEF NoFile
<1>2. f # NoFile
  BY <1>1, Zenon
<1>3. f.header = h /\ f.table = t /\ f.payload = q
  OBVIOUS
<1>4. QED
  BY <1>2, <1>3, Zenon DEF Parts

LEMMA PartReplaced ==
  ASSUME NEW H, NEW Q, NEW R, NEW f \in [header : H, table : Q, payload : R],
         NEW h, NEW t, NEW q
  PROVE  /\ [f EXCEPT !.header = h] = [header |-> h, table |-> f.table, payload |-> f.payload]
         /\ [f EXCEPT !.table = t] = [header |-> f.header, table |-> t, payload |-> f.payload]
         /\ [f EXCEPT !.payload = q] = [header |-> f.header, table |-> f.table, payload |-> q]
OBVIOUS

SwapsTo(f, h, t, q) ==
  /\ [f EXCEPT !.table = t, !.payload = q] = [header |-> f.header, table |-> t, payload |-> q]
  /\ [f EXCEPT !.header = h, !.table = t, !.payload = q]
       = [header |-> h, table |-> t, payload |-> q]

LEMMA PartsReplaced ==
  ASSUME NEW H, NEW Q, NEW R, NEW f \in [header : H, table : Q, payload : R],
         NEW h, NEW t, NEW q
  PROVE  SwapsTo(f, h, t, q)
<1> DEFINE g == [f EXCEPT !.table = t]
<1>1. g \in [header : H, table : {t}, payload : R] /\ g.header = f.header /\ g.table = t
  OBVIOUS
<1>2. [f EXCEPT !.table = t, !.payload = q] = [g EXCEPT !.payload = q]
  BY Zenon
<1>3. [g EXCEPT !.payload = q] = [header |-> f.header, table |-> t, payload |-> q]
  <2> HIDE DEF g
  <2>1. QED
    BY <1>1
<1> DEFINE k == [f EXCEPT !.header = h]
           m == [k EXCEPT !.table = t]
<1>4. k \in [header : {h}, table : Q, payload : R] /\ k.header = h
  OBVIOUS
<1>5. m \in [header : {h}, table : {t}, payload : R] /\ m.header = h /\ m.table = t
  <2> HIDE DEF k
  <2>1. QED
    BY <1>4
<1>6. [f EXCEPT !.header = h, !.table = t, !.payload = q] = [m EXCEPT !.payload = q]
  BY Zenon
<1>7. [m EXCEPT !.payload = q] = [header |-> h, table |-> t, payload |-> q]
  <2> HIDE DEF m
  <2>1. QED
    BY <1>5
<1>8. QED
  BY <1>2, <1>3, <1>6, <1>7, Zenon DEF SwapsTo

\* A file that was saved and perhaps damaged since, in n places.
Survives(f, c, l, p, n) ==
  /\ f # NoFile
  /\ f.header = Garbled \/ (Base(f, c, l, p) /\ Len(f.payload) <= l.max_snapshot_bytes + n)

\* A table of at most four entries, with the checksums that were written.
TableOf(t, c, l, p) ==
  /\ t \in Seq(Entries) /\ Len(t) <= 4
  /\ \A i \in 1..Len(t) : t[i].crc64 \in {Pending(c, l, p)[i], Garbled}

LEMMA PartsSurvive ==
  ASSUME NEW c, NEW l, NEW p, NEW n, NEW h \in Headers(c, l, p), NEW t, TableOf(t, c, l, p),
         NEW q \in Seq(T), Len(q) <= l.max_snapshot_bytes + n
  PROVE  Survives([header |-> h, table |-> t, payload |-> q], c, l, p, n)
<1> DEFINE f == [header |-> h, table |-> t, payload |-> q]
<1>1. Parts(f, h, t, q)
  BY ThreeParts
<1>2. f \in [header : Headers(c, l, p), table : Seq(Entries), payload : Seq(T)]
  BY DEF TableOf
<1> HIDE DEF f
<1>3. Base(f, c, l, p)
  BY <1>1, <1>2, Zenon DEF Base, TableOf, Parts
<1>4. QED
  BY <1>1, <1>3, Zenon DEF f, Survives, Parts

LEMMA BaseParts ==
  ASSUME NEW c, NEW l, NEW p, NEW f, Base(f, c, l, p)
  PROVE  /\ f \in [header : Headers(c, l, p), table : Seq(Entries), payload : Seq(T)]
         /\ f.header \in Headers(c, l, p) /\ f.table \in Seq(Entries) /\ f.payload \in Seq(T)
         /\ TableOf(f.table, c, l, p)
<1>1. f \in [header : Headers(c, l, p), table : Seq(Entries), payload : Seq(T)]
  BY Zenon DEF Base
<1>2. f.header \in Headers(c, l, p) /\ f.table \in Seq(Entries) /\ f.payload \in Seq(T)
  BY <1>1
<1>3. QED
  BY <1>1, <1>2, Zenon DEF Base, TableOf

\* An entry with another value in one field, in a table.
LEMMA EntryDamaged ==
  ASSUME NEW e \in Entries, NEW n \in Nat
  PROVE  /\ \A k \in {"id", "offset", "length"} :
              [e EXCEPT ![k] = n] \in Entries /\ [e EXCEPT ![k] = n].crc64 = e.crc64
         /\ [e EXCEPT !["crc64"] = Garbled] \in Entries
         /\ [e EXCEPT !["crc64"] = Garbled].crc64 = Garbled
<1>1. [e EXCEPT !["id"] = n] \in Entries /\ [e EXCEPT !["id"] = n].crc64 = e.crc64
  BY DEF Entries
<1>2. [e EXCEPT !["offset"] = n] \in Entries /\ [e EXCEPT !["offset"] = n].crc64 = e.crc64
  BY DEF Entries
<1>3. [e EXCEPT !["length"] = n] \in Entries /\ [e EXCEPT !["length"] = n].crc64 = e.crc64
  BY DEF Entries
<1>4. [e EXCEPT !["crc64"] = Garbled] \in Entries
      /\ [e EXCEPT !["crc64"] = Garbled].crc64 = Garbled
  BY DEF Entries
<1>5. QED
  BY <1>1, <1>2, <1>3, <1>4, Zenon

LEMMA TableDamaged ==
  ASSUME NEW c, NEW l, NEW p, NEW t, TableOf(t, c, l, p), NEW i \in DOMAIN t,
         NEW e \in Entries, e.crc64 = t[i].crc64 \/ e.crc64 = Garbled
  PROVE  TableOf([t EXCEPT ![i] = e], c, l, p)
<1> DEFINE u == [t EXCEPT ![i] = e]
           ok(j, x) == x \in {Pending(c, l, p)[j], Garbled}
<1>1. t \in Seq(Entries) /\ Len(t) <= 4 /\ \A j \in 1..Len(t) : ok(j, t[j].crc64)
  BY Zenon DEF TableOf
<1>2. i \in 1..Len(t)
  BY <1>1, LenProperties
<1>3. u \in Seq(Entries) /\ Len(u) = Len(t) /\ u[i] = e
      /\ \A j \in 1..Len(t) : j # i => u[j] = t[j]
  BY <1>1, <1>2, ExceptSeq
<1>4. ok(i, e.crc64)
  BY <1>1, <1>2, Zenon
<1> HIDE DEF u
<1>5. \A j \in 1..Len(u) : ok(j, u[j].crc64)
  BY <1>1, <1>3, <1>4, Zenon
<1>6. QED
  BY <1>1, <1>3, <1>5 DEF u, TableOf

LEMMA TableCut ==
  ASSUME NEW c, NEW l, NEW p, NEW t, TableOf(t, c, l, p), NEW i \in DOMAIN t
  PROVE  TableOf(SubSeq(t, 1, i - 1), c, l, p)
<1> DEFINE u == SubSeq(t, 1, i - 1)
           ok(j, x) == x \in {Pending(c, l, p)[j], Garbled}
<1>1. t \in Seq(Entries) /\ Len(t) <= 4 /\ \A j \in 1..Len(t) : ok(j, t[j].crc64)
  BY Zenon DEF TableOf
<1>2. i \in 1..Len(t) /\ Len(t) \in Nat
  BY <1>1, LenProperties
<1>3. u \in Seq(Entries) /\ Len(u) = i - 1 /\ \A j \in 1..(i - 1) : u[j] = t[j]
  BY <1>1, <1>2
<1> HIDE DEF u, ok
<1>4. Len(u) <= 4 /\ \A j \in 1..Len(u) : j \in 1..Len(t)
  BY <1>1, <1>2, <1>3
<1>5. \A j \in 1..Len(u) : ok(j, u[j].crc64)
  BY <1>1, <1>3, <1>4, Zenon
<1>6. QED
  BY <1>3, <1>4, <1>5 DEF u, ok, TableOf

\* Damage to one part of a file.
LEMMA PartDamaged ==
  ASSUME NEW c, NEW l \in LimitSets, NEW p, NEW n \in Nat, NEW f, Base(f, c, l, p),
         Len(f.payload) <= l.max_snapshot_bytes + n
  PROVE  /\ \A h \in Headers(c, l, p) : Survives([f EXCEPT !.header = h], c, l, p, n + 1)
         /\ \A t : TableOf(t, c, l, p) => Survives([f EXCEPT !.table = t], c, l, p, n + 1)
         /\ \A q \in Seq(T) :
              Len(q) <= Len(f.payload) + 1 => Survives([f EXCEPT !.payload = q], c, l, p, n + 1)
<1>1. /\ f \in [header : Headers(c, l, p), table : Seq(Entries), payload : Seq(T)]
      /\ f.header \in Headers(c, l, p) /\ f.table \in Seq(Entries) /\ f.payload \in Seq(T)
      /\ TableOf(f.table, c, l, p)
  BY BaseParts
<1> DEFINE b == l.max_snapshot_bytes
           m == Len(f.payload)
<1>2. b \in Nat
  BY LimitTypes
<1>3. m \in Nat /\ m <= b + n
  BY <1>1, LenProperties
<1> HIDE DEF m, b
<1>4. m <= b + (n + 1)
  BY <1>2, <1>3
<1>5. ASSUME NEW h \in Headers(c, l, p) PROVE Survives([f EXCEPT !.header = h], c, l, p, n + 1)
  <2>1. Survives([header |-> h, table |-> f.table, payload |-> f.payload], c, l, p, n + 1)
    BY <1>1, <1>4, PartsSurvive DEF m, b
  <2>2. [f EXCEPT !.header = h] = [header |-> h, table |-> f.table, payload |-> f.payload]
    BY <1>1, PartReplaced
  <2>3. QED
    BY <2>1, <2>2, Zenon
<1>6. ASSUME NEW t, TableOf(t, c, l, p) PROVE Survives([f EXCEPT !.table = t], c, l, p, n + 1)
  <2>1. Survives([header |-> f.header, table |-> t, payload |-> f.payload], c, l, p, n + 1)
    BY <1>1, <1>4, <1>6, PartsSurvive DEF m, b
  <2>2. [f EXCEPT !.table = t] = [header |-> f.header, table |-> t, payload |-> f.payload]
    BY <1>1, PartReplaced
  <2>3. QED
    BY <2>1, <2>2, Zenon
<1>7. ASSUME NEW q \in Seq(T), Len(q) <= m + 1
      PROVE  Survives([f EXCEPT !.payload = q], c, l, p, n + 1)
  <2>1. Len(q) <= b + (n + 1)
    <3> DEFINE k == Len(q)
    <3>1. k \in Nat /\ k <= m + 1
      BY <1>7, LenProperties
    <3> HIDE DEF k
    <3>2. k <= b + (n + 1)
      BY <1>2, <1>3, <3>1
    <3>3. QED
      BY <3>2 DEF k
  <2>2. Survives([header |-> f.header, table |-> f.table, payload |-> q], c, l, p, n + 1)
    BY <1>1, <2>1, PartsSurvive DEF b
  <2>3. [f EXCEPT !.payload = q] = [header |-> f.header, table |-> f.table, payload |-> q]
    BY <1>1, PartReplaced
  <2>4. QED
    BY <2>2, <2>3, Zenon
<1>8. QED
  BY <1>5, <1>6, <1>7, Zenon DEF m

\* Damage that cuts a file short.
LEMMA FileCut ==
  ASSUME NEW c, NEW l \in LimitSets, NEW p, NEW n \in Nat, NEW f, Base(f, c, l, p)
  PROVE  /\ \A t : Survives([f EXCEPT !.header = Garbled, !.table = t, !.payload = <<>>],
                            c, l, p, n + 1)
         /\ \A t : TableOf(t, c, l, p) =>
              Survives([f EXCEPT !.table = t, !.payload = <<>>], c, l, p, n + 1)
<1>1. /\ f \in [header : Headers(c, l, p), table : Seq(Entries), payload : Seq(T)]
      /\ f.header \in Headers(c, l, p)
  BY BaseParts
<1>2. l.max_snapshot_bytes \in Nat
  BY LimitTypes
<1>3. <<>> \in Seq(T) /\ Len(<<>>) <= l.max_snapshot_bytes + (n + 1)
  BY <1>2
<1>4. ASSUME NEW t
      PROVE  Survives([f EXCEPT !.header = Garbled, !.table = t, !.payload = <<>>],
                      c, l, p, n + 1)
  <2>1. [f EXCEPT !.header = Garbled, !.table = t, !.payload = <<>>]
          = [header |-> Garbled, table |-> t, payload |-> <<>>]
    <3>1. SwapsTo(f, Garbled, t, <<>>)
      BY <1>1, PartsReplaced
    <3>2. QED
      BY <3>1, Zenon DEF SwapsTo
  <2>2. Parts([header |-> Garbled, table |-> t, payload |-> <<>>], Garbled, t, <<>>)
    BY ThreeParts
  <2>3. QED
    BY <2>1, <2>2, Zenon DEF Parts, Survives
<1>5. ASSUME NEW t, TableOf(t, c, l, p)
      PROVE  Survives([f EXCEPT !.table = t, !.payload = <<>>], c, l, p, n + 1)
  <2>1. [f EXCEPT !.table = t, !.payload = <<>>]
          = [header |-> f.header, table |-> t, payload |-> <<>>]
    <3>1. SwapsTo(f, Garbled, t, <<>>)
      BY <1>1, PartsReplaced
    <3>2. QED
      BY <3>1, Zenon DEF SwapsTo
  <2>2. Survives([header |-> f.header, table |-> t, payload |-> <<>>], c, l, p, n + 1)
    BY <1>1, <1>3, <1>5, PartsSurvive
  <2>3. QED
    BY <2>1, <2>2, Zenon
<1>6. QED
  BY <1>4, <1>5, Zenon

\* Damage to the header leaves a header, or no file that can be read.
LEMMA HeaderStep ==
  ASSUME NEW c, NEW l \in LimitSets, NEW p, damaged \in Nat, Base(file, c, l, p),
         Len(file.payload) <= l.max_snapshot_bytes + damaged, DamageHeader
  PROVE  Survives(file', c, l, p, damaged + 1) /\ Becomes(file')
<1> DEFINE h == file.header
<1>1. h \in Headers(c, l, p)
  BY BaseParts
<1>2. \A f : Becomes(f) => file' = f /\ Becomes(file')
  BY Zenon DEF Becomes
<1>3. CASE Becomes([file EXCEPT !.header = Garbled, !.table = <<>>, !.payload = <<>>])
  <2>1. Survives([file EXCEPT !.header = Garbled, !.table = <<>>, !.payload = <<>>],
                 c, l, p, damaged + 1)
    BY FileCut
  <2>2. QED
    BY <1>2, <1>3, <2>1, Zenon
<1>4. ASSUME NEW f \in {"magic", "limits_digest", "policy_digest", "topology_digest", "created_at",
                        "payload_crc"}, Becomes([file EXCEPT !.header[f] = Garbled])
      PROVE  Survives(file', c, l, p, damaged + 1) /\ Becomes(file')
  <2>1. [h EXCEPT ![f] = Garbled] \in Headers(c, l, p)
    <3>1. 0 \in Nat
      OBVIOUS
    <3>2. QED
      BY <1>1, <3>1, HeaderDamaged
  <2>2. Survives([file EXCEPT !.header = [h EXCEPT ![f] = Garbled]], c, l, p, damaged + 1)
    BY <2>1, PartDamaged
  <2>3. [file EXCEPT !.header[f] = Garbled] = [file EXCEPT !.header = [h EXCEPT ![f] = Garbled]]
    BY Zenon
  <2>4. QED
    BY <1>2, <1>4, <2>2, <2>3, Zenon
<1>5. ASSUME NEW f \in {"major", "minor", "section_count", "payload_bytes"}, NEW v \in Near(h[f]),
             Becomes([file EXCEPT !.header[f] = v])
      PROVE  Survives(file', c, l, p, damaged + 1) /\ Becomes(file')
  <2>1. v \in Nat
    BY <1>5, Zenon DEF Near
  <2>2. [h EXCEPT ![f] = v] \in Headers(c, l, p)
    BY <1>1, <2>1, HeaderDamaged
  <2>3. Survives([file EXCEPT !.header = [h EXCEPT ![f] = v]], c, l, p, damaged + 1)
    BY <2>2, PartDamaged
  <2>4. [file EXCEPT !.header[f] = v] = [file EXCEPT !.header = [h EXCEPT ![f] = v]]
    BY Zenon
  <2>5. QED
    BY <1>2, <1>5, <2>3, <2>4, Zenon
<1>6. QED
  BY <1>3, <1>4, <1>5, Zenon DEF DamageHeader

\* Damage to the table leaves a table whose checksums are the written ones or garbled.
LEMMA TableStep ==
  ASSUME NEW c, NEW l \in LimitSets, NEW p, damaged \in Nat, Base(file, c, l, p),
         Len(file.payload) <= l.max_snapshot_bytes + damaged, DamageTable
  PROVE  Survives(file', c, l, p, damaged + 1) /\ Becomes(file')
<1> DEFINE t == file.table
<1>1. t \in Seq(Entries) /\ TableOf(t, c, l, p)
  BY BaseParts
<1>2. \A f : Becomes(f) => file' = f /\ Becomes(file')
  BY Zenon DEF Becomes
<1>3. PICK i \in DOMAIN t :
        \/ \E v \in 0..5 \ {t[i].id} : Becomes([file EXCEPT !.table[i].id = v])
        \/ \E f \in {"offset", "length"} : \E v \in Near(t[i][f]) :
             Becomes([file EXCEPT !.table[i][f] = v])
        \/ Becomes([file EXCEPT !.table[i].crc64 = Garbled])
        \/ Becomes([file EXCEPT !.table = SubSeq(@, 1, i - 1), !.payload = <<>>])
  BY Zenon DEF DamageTable
<1>4. t[i] \in Entries
  BY <1>1, ElementOfSeq, LenProperties
<1>5. ASSUME NEW e \in Entries, e.crc64 = t[i].crc64 \/ e.crc64 = Garbled
      PROVE  Survives([file EXCEPT !.table = [t EXCEPT ![i] = e]], c, l, p, damaged + 1)
  <2>1. TableOf([t EXCEPT ![i] = e], c, l, p)
    BY <1>1, <1>5, TableDamaged
  <2>2. QED
    BY <2>1, PartDamaged
<1>6. ASSUME NEW v \in 0..5, Becomes([file EXCEPT !.table[i].id = v])
      PROVE  Survives(file', c, l, p, damaged + 1) /\ Becomes(file')
  <2> DEFINE e == [t[i] EXCEPT !["id"] = v]
  <2>1. v \in Nat
    OBVIOUS
  <2>2. e \in Entries /\ (e.crc64 = t[i].crc64 \/ e.crc64 = Garbled)
    BY <1>4, <2>1, EntryDamaged, Zenon
  <2>3. Survives([file EXCEPT !.table = [t EXCEPT ![i] = e]], c, l, p, damaged + 1)
    <3> HIDE DEF e, t
    <3>1. QED
      BY <1>5, <2>2
  <2>4. [file EXCEPT !.table[i].id = v] = [file EXCEPT !.table = [t EXCEPT ![i] = e]]
    BY Zenon
  <2>5. QED
    BY <1>2, <1>6, <2>3, <2>4, Zenon
<1>7. ASSUME NEW f \in {"offset", "length"}, NEW v \in Near(t[i][f]),
             Becomes([file EXCEPT !.table[i][f] = v])
      PROVE  Survives(file', c, l, p, damaged + 1) /\ Becomes(file')
  <2> DEFINE e == [t[i] EXCEPT ![f] = v]
  <2>1. v \in Nat
    BY <1>7, Zenon DEF Near
  <2>2. e \in Entries /\ (e.crc64 = t[i].crc64 \/ e.crc64 = Garbled)
    <3>1. f \in {"id", "offset", "length"}
      BY <1>7
    <3>2. \A k \in {"id", "offset", "length"} :
            [t[i] EXCEPT ![k] = v] \in Entries /\ [t[i] EXCEPT ![k] = v].crc64 = t[i].crc64
      BY <1>4, <2>1, EntryDamaged, Zenon
    <3>3. QED
      BY <3>1, <3>2, Zenon
  <2>3. Survives([file EXCEPT !.table = [t EXCEPT ![i] = e]], c, l, p, damaged + 1)
    <3> HIDE DEF e, t
    <3>1. QED
      BY <1>5, <2>2
  <2>4. [file EXCEPT !.table[i][f] = v] = [file EXCEPT !.table = [t EXCEPT ![i] = e]]
    BY Zenon
  <2>5. QED
    BY <1>2, <1>7, <2>3, <2>4, Zenon
<1>8. ASSUME Becomes([file EXCEPT !.table[i].crc64 = Garbled])
      PROVE  Survives(file', c, l, p, damaged + 1) /\ Becomes(file')
  <2> DEFINE e == [t[i] EXCEPT !["crc64"] = Garbled]
  <2>1. 0 \in Nat
    OBVIOUS
  <2>2. e \in Entries /\ (e.crc64 = t[i].crc64 \/ e.crc64 = Garbled)
    BY <1>4, <2>1, EntryDamaged, Zenon
  <2>3. Survives([file EXCEPT !.table = [t EXCEPT ![i] = e]], c, l, p, damaged + 1)
    <3> HIDE DEF e, t
    <3>1. QED
      BY <1>5, <2>2
  <2>4. [file EXCEPT !.table[i].crc64 = Garbled] = [file EXCEPT !.table = [t EXCEPT ![i] = e]]
    BY Zenon
  <2>5. QED
    BY <1>2, <1>8, <2>3, <2>4, Zenon
<1>9. ASSUME Becomes([file EXCEPT !.table = SubSeq(@, 1, i - 1), !.payload = <<>>])
      PROVE  Survives(file', c, l, p, damaged + 1) /\ Becomes(file')
  <2>1. TableOf(SubSeq(t, 1, i - 1), c, l, p)
    BY <1>1, TableCut
  <2>2. Survives([file EXCEPT !.table = SubSeq(t, 1, i - 1), !.payload = <<>>],
                 c, l, p, damaged + 1)
    BY <2>1, FileCut
  <2>3. [file EXCEPT !.table = SubSeq(@, 1, i - 1), !.payload = <<>>]
          = [file EXCEPT !.table = SubSeq(t, 1, i - 1), !.payload = <<>>]
    BY Zenon
  <2>4. QED
    BY <1>2, <1>9, <2>2, <2>3, Zenon
<1>10. QED
  BY <1>3, <1>6, <1>7, <1>8, <1>9, Zenon

\* Damage to the payload makes it longer by one token at most.
LEMMA PayloadStep ==
  ASSUME NEW c, NEW l \in LimitSets, NEW p, damaged \in Nat, Base(file, c, l, p),
         Len(file.payload) <= l.max_snapshot_bytes + damaged, DamagePayload
  PROVE  Survives(file', c, l, p, damaged + 1) /\ Becomes(file')
<1> DEFINE q == file.payload
<1>1. q \in Seq(T) /\ Len(q) \in Nat /\ DOMAIN q = 1..Len(q)
  BY BaseParts, LenProperties
<1>2. \A f : Becomes(f) => file' = f /\ Becomes(file')
  BY Zenon DEF Becomes
<1>3. ASSUME NEW r \in Seq(T), Len(r) <= Len(q) + 1
      PROVE  Survives([file EXCEPT !.payload = r], c, l, p, damaged + 1)
  BY <1>3, PartDamaged
<1>4. Garbled \in T
  BY DEF T
<1>5. ASSUME NEW i \in DOMAIN q, Becomes([file EXCEPT !.payload[i] = Garbled])
      PROVE  Survives(file', c, l, p, damaged + 1) /\ Becomes(file')
  <2> DEFINE r == [q EXCEPT ![i] = Garbled]
  <2>1. r \in Seq(T) /\ Len(r) = Len(q)
    BY <1>1, <1>4, ExceptSeq
  <2>2. Len(r) <= Len(q) + 1
    BY <1>1, <2>1
  <2>3. Survives([file EXCEPT !.payload = r], c, l, p, damaged + 1)
    BY <1>3, <2>1, <2>2
  <2>4. [file EXCEPT !.payload[i] = Garbled] = [file EXCEPT !.payload = r]
    BY Zenon
  <2>5. QED
    BY <1>2, <1>5, <2>3, <2>4, Zenon
<1>6. ASSUME NEW n \in 0..Len(q) - 1, Becomes([file EXCEPT !.payload = SubSeq(@, 1, n)])
      PROVE  Survives(file', c, l, p, damaged + 1) /\ Becomes(file')
  <2> DEFINE r == SubSeq(q, 1, n)
             k == Len(q)
  <2>1. r \in Seq(T) /\ Len(r) <= k + 1
    <3>1. k \in Nat /\ n \in 0..k - 1
      BY <1>1
    <3> HIDE DEF k
    <3>2. n \in 0..k /\ n <= k + 1 /\ n = n - 1 + 1
      BY <3>1
    <3>3. r \in Seq(T) /\ Len(r) = n
      BY <1>1, <3>1, <3>2 DEF k
    <3>4. QED
      BY <3>2, <3>3
  <2>2. Survives([file EXCEPT !.payload = r], c, l, p, damaged + 1)
    BY <1>3, <2>1
  <2>3. [file EXCEPT !.payload = SubSeq(@, 1, n)] = [file EXCEPT !.payload = r]
    BY Zenon
  <2>4. QED
    BY <1>2, <1>6, <2>2, <2>3, Zenon
<1>7. ASSUME Becomes([file EXCEPT !.payload = Append(@, Garbled)])
      PROVE  Survives(file', c, l, p, damaged + 1) /\ Becomes(file')
  <2> DEFINE r == Append(q, Garbled)
  <2>1. r \in Seq(T) /\ Len(r) = Len(q) + 1
    BY <1>1, <1>4, AppendProperties
  <2>2. Len(r) <= Len(q) + 1
    BY <1>1, <2>1
  <2>3. Survives([file EXCEPT !.payload = r], c, l, p, damaged + 1)
    BY <1>3, <2>1, <2>2
  <2>4. [file EXCEPT !.payload = Append(@, Garbled)] = [file EXCEPT !.payload = r]
    BY Zenon
  <2>5. QED
    BY <1>2, <1>7, <2>3, <2>4, Zenon
<1>8. QED
  BY <1>5, <1>6, <1>7, Zenon DEF DamagePayload

LEMMA Beginning ==
  ASSUME NEW S, NEW s \in Seq(S), NEW j \in Nat, j <= Len(s)
  PROVE  SubSeq(s, 1, j) \in [1..j -> S]
<1>1. SubSeq(s, 1, j) \in Seq(S) /\ Len(SubSeq(s, 1, j)) = j
  BY LenProperties
<1>2. QED
  BY <1>1, LenProperties

\* What another writer makes of a file has the form of a file.
LEMMA ReplacedForm ==
  ASSUME NEW f, NEW l, NEW p, NEW n \in Nat, NEW ids, DOMAIN ids = 1..n,
         NEW ss \in Seq(Seq(T)), Len(ss) = n, NEW digest,
         f.header.limits_digest = l.digest, f.header.policy_digest = p.digest
  PROVE  Form(Replaced(f, ids, ss, digest), l, p) /\ Replaced(f, ids, ss, digest) # NoFile
<1> DEFINE t == Seal(ids, ss)
           q == FlattenSeq(ss)
           h == Header(f.header.created_at, f.header.limits_digest, f.header.policy_digest,
                       digest, t, q)
           g == Replaced(f, ids, ss, digest)
           at(i) == Len(FlattenSeq(SubSeq(ss, 1, i - 1)))
<1>1. Parts(g, h, t, q)
  <2>1. g = [header |-> h, table |-> t, payload |-> q]
    BY Zenon DEF Replaced
  <2>2. Parts([header |-> h, table |-> t, payload |-> q], h, t, q)
    BY ThreeParts
  <2>3. QED
    BY <2>1, <2>2, Zenon
<1>2. g.header = h /\ g.table = t /\ g.payload = q /\ g # NoFile
  BY <1>1, Zenon DEF Parts
<1>3. ss \in [1..n -> Seq(T)]
  BY LenProperties
<1>4. q \in Seq(T) /\ Len(q) \in Nat
  BY <1>3, FlattenType, LenProperties
<1>5. t = [i \in 1..n |-> [id |-> ids[i], offset |-> at(i), length |-> Len(ss[i]), crc64 |-> ss[i]]]
  BY DEF Seal
<1>6. ASSUME NEW i \in 1..n PROVE at(i) \in Nat /\ Len(ss[i]) \in Nat
  <2>1. i - 1 \in Nat /\ i - 1 <= n
    OBVIOUS
  <2>2. SubSeq(ss, 1, i - 1) \in [1..(i - 1) -> Seq(T)]
    BY <2>1, Beginning
  <2>3. FlattenSeq(SubSeq(ss, 1, i - 1)) \in Seq(T)
    BY <2>1, <2>2, FlattenType
  <2>4. ss[i] \in Seq(T)
    BY <1>3
  <2>5. QED
    BY <2>3, <2>4, LenProperties
<1>7. Len(t) \in Nat
  <2> DEFINE S == {t[i] : i \in 1..n}
  <2>1. t \in [1..n -> S]
    BY <1>5
  <2> HIDE DEF t, S
  <2>2. QED
    BY <2>1, FunIsSeq
<1>8. \A i \in DOMAIN t : t[i].offset \in Nat /\ t[i].length \in Nat
  <2> HIDE DEF at, t
  <2>1. QED
    BY <1>5, <1>6
<1>9. h.payload_bytes = Len(q) /\ h.limits_digest = l.digest /\ h.policy_digest = p.digest
  <2> HIDE DEF t, q
  <2>1. QED
    BY DEF Header
<1> HIDE DEF t, q, h, g
<1>10. Form(g, l, p)
  BY <1>2, <1>4, <1>7, <1>8, <1>9 DEF Form
<1>11. QED
  BY <1>2, <1>10 DEF g

LEMMA OneRemoved ==
  ASSUME NEW S, NEW s \in Seq(S), NEW i \in 1..Len(s)
  PROVE  RemoveAt(s, i) \in Seq(S) /\ Len(RemoveAt(s, i)) = Len(s) - 1
<1> DEFINE a == SubSeq(s, 1, i - 1)
           b == SubSeq(s, i + 1, Len(s))
           n == Len(s)
<1>1. n \in Nat /\ i \in 1..n
  BY LenProperties
<1>2. a \in Seq(S) /\ Len(a) = i - 1
  BY <1>1
<1>3. b \in Seq(S) /\ Len(b) = n - i
  BY <1>1
<1> HIDE DEF a, b
<1>4. a \o b \in Seq(S) /\ Len(a \o b) = Len(a) + Len(b)
  BY <1>2, <1>3, ConcatProperties
<1>5. RemoveAt(s, i) = a \o b
  BY DEF RemoveAt, a, b
<1> HIDE DEF n
<1>6. (i - 1) + (n - i) = n - 1
  BY <1>1
<1>7. Len(RemoveAt(s, i)) = n - 1 /\ RemoveAt(s, i) \in Seq(S)
  BY <1>2, <1>3, <1>4, <1>5, <1>6, Zenon
<1>8. QED
  BY <1>7 DEF n

\* A sequence with an element removed, appended or replaced.
Changes(S, s, i, e) ==
  /\ RemoveAt(s, i) \in Seq(S) /\ Len(RemoveAt(s, i)) = Len(s) - 1
  /\ Append(s, e) \in Seq(S) /\ Len(Append(s, e)) = Len(s) + 1
  /\ [s EXCEPT ![i] = e] \in Seq(S) /\ Len([s EXCEPT ![i] = e]) = Len(s)

LEMMA OneChanged ==
  ASSUME NEW S, NEW s \in Seq(S), NEW i \in 1..Len(s), NEW e \in S
  PROVE  Changes(S, s, i, e)
<1>1. RemoveAt(s, i) \in Seq(S) /\ Len(RemoveAt(s, i)) = Len(s) - 1
  BY OneRemoved
<1>2. Append(s, e) \in Seq(S) /\ Len(Append(s, e)) = Len(s) + 1
  BY AppendProperties
<1>3. [s EXCEPT ![i] = e] \in Seq(S) /\ Len([s EXCEPT ![i] = e]) = Len(s)
  BY ExceptSeq
<1>4. QED
  BY <1>1, <1>2, <1>3, Zenon DEF Changes

\* Another writer leaves a file of the right form.
LEMMA RewriteStep ==
  ASSUME NEW c \in Contents, NEW l \in LimitSets, NEW p \in Policies, Encoded(file, c, l, p),
         Rewrite
  PROVE  Form(file', l, p) /\ file' # NoFile
<1> DEFINE ids == [j \in DOMAIN file.table |-> file.table[j].id]
           sections == [j \in DOMAIN ids |-> Slice(file, file.table[j])]
           same == file.header.topology_digest
<1>1. PICK i \in DOMAIN file.table :
        \/ file' = Replaced(file, RemoveAt(ids, i), RemoveAt(sections, i), same)
        \/ file' = Replaced(file, Append(ids, file.table[i].id), Append(sections, sections[i]), same)
        \/ \E s \in Sections[file.table[i].id] :
             file' = Replaced(file, ids, [sections EXCEPT ![i] = s],
                              IF file.table[i].id = kTopology THEN TopologyOf(s, saved.limits)
                              ELSE same)
  BY Zenon DEF Rewrite
<1>2. /\ DOMAIN file.table = 1..4
      /\ \A j \in 1..4 : Slice(file, file.table[j]) = Pending(c, l, p)[j]
  BY Zenon DEF Encoded
<1>3. \A j \in 1..4 : file.table[j].id \in 1..4
  <2>1. \A j \in 1..4 : file.table[j].id = <<kMetadata, kTopology, kEpisodes, kEvidence>>[j]
    BY Zenon DEF Encoded
  <2>2. \A j \in 1..4 : <<kMetadata, kTopology, kEpisodes, kEvidence>>[j] \in 1..4
    BY DEF kMetadata, kTopology, kEpisodes, kEvidence
  <2>3. QED
    BY <2>1, <2>2
<1>4. file.header.limits_digest = l.digest /\ file.header.policy_digest = p.digest
  BY HeaderFacts
<1>5. \A j \in 1..4 : Pending(c, l, p)[j] \in Seq(T)
  BY PendingFacts
<1>6. ids \in [1..4 -> 1..4]
  BY <1>2, <1>3
<1>7. sections \in [1..4 -> Seq(T)]
  BY <1>2, <1>5
<1>8. ids \in Seq(1..4) /\ Len(ids) = 4 /\ sections \in Seq(Seq(T)) /\ Len(sections) = 4
  <2> HIDE DEF ids, sections
  <2>1. 4 \in Nat
    OBVIOUS
  <2>2. ids \in Seq(1..4) /\ Len(ids) = 4
    BY <1>6, <2>1, FunIsSeq
  <2>3. sections \in Seq(Seq(T)) /\ Len(sections) = 4
    BY <1>7, <2>1, FunIsSeq
  <2>4. QED
    BY <2>2, <2>3
<1>9. i \in 1..4 /\ sections[i] \in Seq(T) /\ file.table[i].id \in 1..4
  BY <1>2, <1>3, <1>7
<1> HIDE DEF ids, sections
<1>10. Changes(1..4, ids, i, file.table[i].id)
  <2>1. ids \in Seq(1..4) /\ i \in 1..Len(ids)
    BY <1>8, <1>9
  <2>2. file.table[i].id \in 1..4
    BY <1>9
  <2>3. QED
    BY <2>1, <2>2, OneChanged
<1>11. Changes(Seq(T), sections, i, sections[i])
  <2>1. sections \in Seq(Seq(T)) /\ i \in 1..Len(sections)
    BY <1>8, <1>9
  <2>2. sections[i] \in Seq(T)
    BY <1>9
  <2>3. QED
    BY <2>1, <2>2, OneChanged
<1>12. CASE file' = Replaced(file, RemoveAt(ids, i), RemoveAt(sections, i), same)
  <2> DEFINE u == RemoveAt(ids, i)
             v == RemoveAt(sections, i)
  <2>1. u \in Seq(1..4) /\ Len(u) = 3 /\ v \in Seq(Seq(T)) /\ Len(v) = 3
    BY <1>8, <1>10, <1>11 DEF Changes
  <2> HIDE DEF u, v
  <2>2. DOMAIN u = 1..3
    BY <2>1, LenProperties
  <2>3. Form(Replaced(file, u, v, same), l, p) /\ Replaced(file, u, v, same) # NoFile
    BY <1>4, <2>1, <2>2, ReplacedForm
  <2>4. QED
    BY <1>12, <2>3 DEF u, v
<1>13. CASE file' = Replaced(file, Append(ids, file.table[i].id), Append(sections, sections[i]), same)
  <2> DEFINE u == Append(ids, file.table[i].id)
             v == Append(sections, sections[i])
  <2>1. u \in Seq(1..4) /\ Len(u) = 5 /\ v \in Seq(Seq(T)) /\ Len(v) = 5
    BY <1>8, <1>10, <1>11 DEF Changes
  <2> HIDE DEF u, v
  <2>2. DOMAIN u = 1..5
    BY <2>1, LenProperties
  <2>3. Form(Replaced(file, u, v, same), l, p) /\ Replaced(file, u, v, same) # NoFile
    BY <1>4, <2>1, <2>2, ReplacedForm
  <2>4. QED
    BY <1>13, <2>3 DEF u, v
<1>14. ASSUME NEW s \in Sections[file.table[i].id], NEW digest,
              file' = Replaced(file, ids, [sections EXCEPT ![i] = s], digest)
       PROVE  Form(file', l, p) /\ file' # NoFile
  <2> DEFINE v == [sections EXCEPT ![i] = s]
  <2>1. s \in Seq(Tokens)
    BY <1>9, CodecAssumption
  <2>2. s \in Seq(T)
    <3>1. Tokens \subseteq T
      BY DEF T
    <3>2. QED
      BY <2>1, <3>1, SeqDef
  <2>3. v \in Seq(Seq(T)) /\ Len(v) = 4
    <3>1. sections \in Seq(Seq(T)) /\ i \in 1..Len(sections)
      BY <1>8, <1>9
    <3>2. Changes(Seq(T), sections, i, s)
      BY <2>2, <3>1, OneChanged
    <3>3. QED
      BY <1>8, <3>2 DEF Changes
  <2> HIDE DEF v
  <2>4. DOMAIN ids = 1..4
    BY <1>6
  <2>5. Form(Replaced(file, ids, v, digest), l, p) /\ Replaced(file, ids, v, digest) # NoFile
    BY <1>4, <2>3, <2>4, ReplacedForm
  <2>6. QED
    BY <1>14, <2>5 DEF v
<1>15. QED
  BY <1>1, <1>12, <1>13, <1>14, Zenon

\* A file as it was saved is one that has not been damaged.
LEMMA SavedSurvives ==
  ASSUME NEW c \in Contents, NEW l \in LimitSets, NEW p \in Policies, NEW f, Encoded(f, c, l, p),
         PayloadFits(FlattenSeq(Pending(c, l, p)), l)
  PROVE  Survives(f, c, l, p, 0)
<1> DEFINE h == f.header
           t == f.table
           q == f.payload
<1>1. /\ f = [header |-> h, table |-> t, payload |-> q]
      /\ q = FlattenSeq(Pending(c, l, p)) /\ q \in Seq(T)
      /\ h = Header(c.created_at, l.digest, p.digest, c.topology, t, q)
      /\ t \in Seq(Entries) /\ Len(t) = 4
      /\ \A i \in 1..4 : t[i].crc64 = Pending(c, l, p)[i]
  BY Zenon DEF Encoded
<1>2. TableOf(t, c, l, p)
  <2>1. Len(t) <= 4 /\ 1..Len(t) = 1..4
    BY <1>1
  <2>2. QED
    BY <1>1, <2>1, Zenon DEF TableOf
<1>3. h \in Headers(c, l, p)
  BY HeaderFacts
<1>4. Len(q) <= l.max_snapshot_bytes + 0
  <2> DEFINE m == Len(q)
             b == l.max_snapshot_bytes
  <2>1. m \in Nat /\ b \in Nat /\ m <= b
    BY <1>1, LimitTypes, LenProperties DEF PayloadFits
  <2> HIDE DEF m, b
  <2>2. m <= b + 0
    BY <2>1
  <2>3. QED
    BY <2>2 DEF m, b
<1>5. Survives([header |-> h, table |-> t, payload |-> q], c, l, p, 0)
  BY <1>1, <1>2, <1>3, <1>4, PartsSurvive
<1>6. QED
  BY <1>1, <1>5, Zenon

\* What is known of a file: what it was saved from, and that it is still
\* that, or damaged, or written anew.
MadeFrom(f, s, n, r) ==
  /\ s.content \in Contents /\ s.limits \in LimitSets /\ s.policy \in Policies
  /\ Admitted(s.content, s.limits)
  /\ n = 0 /\ ~r => f = encode_snapshot(s.content, s.limits, s.policy)
  /\ ~r => Survives(f, s.content, s.limits, s.policy, n)
  /\ r => n = 0 /\ f # NoFile /\ Form(f, s.limits, s.policy)

CodecInv ==
  /\ damaged \in 0..MaxDamaged /\ rewritten \in BOOLEAN
  /\ file = NoFile => decoded = NotDecoded /\ damaged = 0 /\ ~rewritten
  /\ file # NoFile => MadeFrom(file, saved, damaged, rewritten)
  /\ decoded # NotDecoded =>
       file # NoFile /\ \E l \in LimitSets, p \in Policies : decoded = Loaded(file, l, p)

LEMMA CodecStart == CodecInit => CodecInv
<1>1. MaxDamaged \in Nat
  BY CodecAssumption
<1>2. 0 \in 0..MaxDamaged
  BY <1>1
<1>3. QED
  BY <1>2 DEF CodecInit, CodecInv

LEMMA SaveFileStep ==
  ASSUME CodecInv, NEW l \in LimitSets, NEW p \in Policies, NEW c \in Contents, Admitted(c, l),
         SaveFile(c, l, p)
  PROVE  CodecInv'
<1> DEFINE s == [content |-> c, limits |-> l, policy |-> p]
<1>1. /\ file = NoFile /\ file' = encode_snapshot(c, l, p) /\ saved' = s
      /\ damaged' = damaged /\ rewritten' = rewritten /\ decoded' = decoded
      /\ PayloadFits(FlattenSeq(Pending(c, l, p)), l)
  BY Zenon DEF SaveFile
<1>2. damaged \in 0..MaxDamaged /\ rewritten \in BOOLEAN
      /\ decoded = NotDecoded /\ damaged = 0 /\ ~rewritten
  BY <1>1, Zenon DEF CodecInv
<1>3. Survives(file', c, l, p, 0)
  BY <1>1, EncodedFile, SavedSurvives
<1>4. s.content = c /\ s.limits = l /\ s.policy = p
  OBVIOUS
<1> HIDE DEF s
<1>5. MadeFrom(file', s, 0, FALSE)
  BY <1>1, <1>3, <1>4, Zenon DEF MadeFrom
<1>6. damaged' = 0 /\ rewritten' = FALSE
  BY <1>1, <1>2, Zenon
<1>7. MadeFrom(file', saved', damaged', rewritten')
  BY <1>1, <1>5, <1>6, Zenon
<1>8. file' # NoFile
  BY <1>3, Zenon DEF Survives
<1>9. QED
  BY <1>1, <1>2, <1>7, <1>8, Zenon DEF CodecInv

LEMMA DamageStep ==
  ASSUME CodecInv, file # NoFile, file.header # Garbled,
         DamageHeader \/ DamageTable \/ DamagePayload
  PROVE  CodecInv'
<1> DEFINE c == saved.content
           l == saved.limits
           p == saved.policy
<1>1. /\ damaged \in 0..MaxDamaged /\ rewritten \in BOOLEAN
      /\ MadeFrom(file, saved, damaged, rewritten)
  BY Zenon DEF CodecInv
<1>2. MaxDamaged \in Nat
  BY CodecAssumption
<1>3. damaged \in Nat
  BY <1>1, <1>2
<1>4. (\E f : Becomes(f)) => damaged < MaxDamaged /\ ~rewritten
  BY Zenon DEF Becomes
<1>5. \E f : Becomes(f)
  BY Zenon DEF DamageHeader, DamageTable, DamagePayload
<1>6. l \in LimitSets /\ Survives(file, c, l, p, damaged)
  BY <1>1, <1>4, <1>5, Zenon DEF MadeFrom
<1>7. Base(file, c, l, p) /\ Len(file.payload) <= l.max_snapshot_bytes + damaged
  BY <1>6, Zenon DEF Survives
<1> HIDE DEF c, l, p
<1>8. Survives(file', c, l, p, damaged + 1) /\ Becomes(file')
  <2>1. CASE DamageHeader
    BY <1>3, <1>6, <1>7, <2>1, HeaderStep
  <2>2. CASE DamageTable
    BY <1>3, <1>6, <1>7, <2>2, TableStep
  <2>3. CASE DamagePayload
    BY <1>3, <1>6, <1>7, <2>3, PayloadStep
  <2>4. QED
    BY <2>1, <2>2, <2>3, Zenon
<1>9. /\ damaged < MaxDamaged /\ ~rewritten /\ damaged' = damaged + 1 /\ decoded' = NotDecoded
      /\ saved' = saved /\ rewritten' = rewritten
  BY <1>8, Zenon DEF Becomes
<1>10. damaged + 1 \in 0..MaxDamaged /\ damaged + 1 # 0
  BY <1>2, <1>3, <1>9
<1>11. MadeFrom(file', saved, damaged + 1, rewritten)
  BY <1>1, <1>8, <1>9, <1>10, Zenon DEF MadeFrom, c, l, p
<1>12. MadeFrom(file', saved', damaged', rewritten') /\ damaged' \in 0..MaxDamaged
  BY <1>9, <1>10, <1>11, Zenon
<1>13. file' # NoFile
  BY <1>8, Zenon DEF Survives
<1>14. QED
  BY <1>1, <1>9, <1>12, <1>13, Zenon DEF CodecInv

LEMMA RewriteKeeps ==
  ASSUME CodecInv, file # NoFile, Rewrite
  PROVE  CodecInv'
<1> DEFINE c == saved.content
           l == saved.limits
           p == saved.policy
<1>1. /\ damaged \in 0..MaxDamaged /\ MadeFrom(file, saved, damaged, rewritten)
  BY Zenon DEF CodecInv
<1>2. /\ damaged = 0 /\ ~rewritten /\ rewritten' = TRUE /\ decoded' = NotDecoded
      /\ saved' = saved /\ damaged' = damaged
  BY Zenon DEF Rewrite
<1>3. /\ c \in Contents /\ l \in LimitSets /\ p \in Policies
      /\ file = encode_snapshot(c, l, p)
  BY <1>1, <1>2, Zenon DEF MadeFrom
<1> HIDE DEF c, l, p
<1>4. Encoded(file, c, l, p)
  BY <1>3, EncodedFile
<1>5. Form(file', l, p) /\ file' # NoFile
  BY <1>3, <1>4, RewriteStep
<1>6. MadeFrom(file', saved, damaged, TRUE)
  BY <1>1, <1>2, <1>5, Zenon DEF MadeFrom, c, l, p
<1>7. MadeFrom(file', saved', damaged', rewritten')
  BY <1>2, <1>6, Zenon
<1>8. QED
  BY <1>1, <1>2, <1>5, <1>7, Zenon DEF CodecInv

LEMMA LoadStep ==
  ASSUME CodecInv, NEW l \in LimitSets, NEW p \in Policies, LoadFile(l, p)
  PROVE  CodecInv'
<1>1. /\ file # NoFile /\ decoded' = Loaded(file, l, p)
      /\ file' = file /\ saved' = saved /\ damaged' = damaged /\ rewritten' = rewritten
  BY Zenon DEF LoadFile
<1>2. MadeFrom(file', saved', damaged', rewritten')
  BY <1>1, Zenon DEF CodecInv
<1>3. \E m \in LimitSets, q \in Policies : decoded' = Loaded(file', m, q)
  BY <1>1, Zenon
<1>4. QED
  BY <1>1, <1>2, <1>3, Zenon DEF CodecInv

LEMMA CodecStep == CodecInv /\ [CodecNext]_codec_vars => CodecInv'
<1>1. SUFFICES ASSUME CodecInv, [CodecNext]_codec_vars PROVE CodecInv'
  OBVIOUS
<1>2. ASSUME NEW l \in LimitSets, NEW p \in Policies, NEW c \in Contents,
             Admitted(c, l), SaveFile(c, l, p)
      PROVE  CodecInv'
  BY <1>1, <1>2, SaveFileStep
<1>3. ASSUME file # NoFile, file.header # Garbled, DamageHeader \/ DamageTable \/ DamagePayload
      PROVE  CodecInv'
  BY <1>1, <1>3, DamageStep
<1>4. ASSUME file # NoFile, Rewrite PROVE CodecInv'
  BY <1>1, <1>4, RewriteKeeps
<1>5. ASSUME NEW l \in LimitSets, NEW p \in Policies, LoadFile(l, p) PROVE CodecInv'
  BY <1>1, <1>5, LoadStep
<1>6. CASE UNCHANGED codec_vars
  BY <1>1, <1>6, Zenon DEF CodecInv, codec_vars
<1>7. QED
  BY <1>1, <1>2, <1>3, <1>4, <1>5, <1>6, Zenon DEF CodecNext

LEMMA CodecInvariant == CodecSpec => []CodecInv
BY CodecStart, CodecStep, PTL DEF CodecSpec

-----------------------------------------------------------------------------
\* What was accepted was loaded from a file that decodes.
LEMMA AcceptedFacts ==
  ASSUME CodecInv, Accepted
  PROVE  /\ file # NoFile /\ MadeFrom(file, saved, damaged, rewritten)
         /\ decoded.limits \in LimitSets /\ decoded.policy \in Policies
         /\ Decodable(file, decoded.limits, decoded.policy)
         /\ decoded.content = decode_snapshot(file, decoded.limits)
<1>1. decoded # NotDecoded
  <2>1. NotDecoded.content = Refused
    BY DEF NotDecoded, Refused
  <2>2. QED
    BY <2>1, Zenon DEF Accepted
<1>2. file # NoFile /\ MadeFrom(file, saved, damaged, rewritten)
  BY <1>1, Zenon DEF CodecInv
<1>3. PICK l \in LimitSets, p \in Policies : decoded = Loaded(file, l, p)
  BY <1>1, Zenon DEF CodecInv
<1>4. decoded.limits = l /\ decoded.policy = p
  <2> DEFINE k == IF Readable(file, l) /\ Decodable(file, l, p)
                  THEN decode_snapshot(file, l) ELSE Refused
  <2>1. decoded = [limits |-> l, policy |-> p, content |-> k]
    BY <1>3, Zenon DEF Loaded
  <2> HIDE DEF k
  <2>2. QED
    BY <2>1
<1>5. Loaded(file, l, p).content # Refused
  BY <1>3, Zenon DEF Accepted
<1>6. Decodable(file, l, p) /\ Loaded(file, l, p).content = decode_snapshot(file, l)
  BY <1>5, AcceptedLoads
<1>7. QED
  BY <1>2, <1>3, <1>4, <1>6, Zenon

\* Whoever wrote it, a file that decodes has the form of one.
LEMMA AcceptedForm ==
  ASSUME CodecInv, Accepted
  PROVE  Form(file, saved.limits, saved.policy) /\ saved.limits \in LimitSets
         /\ saved.policy \in Policies
<1>1. MadeFrom(file, saved, damaged, rewritten) /\ Decodable(file, decoded.limits, decoded.policy)
  BY AcceptedFacts
<1>2. file.header # Garbled
  BY <1>1, Zenon DEF Decodable
<1>3. saved.limits \in LimitSets /\ saved.policy \in Policies
  BY <1>1, Zenon DEF MadeFrom
<1>4. CASE rewritten
  BY <1>1, <1>3, <1>4, Zenon DEF MadeFrom
<1>5. CASE ~rewritten
  <2>1. Base(file, saved.content, saved.limits, saved.policy)
    BY <1>1, <1>2, <1>5, Zenon DEF MadeFrom, Survives
  <2>2. QED
    BY <1>3, <2>1, BaseForm
<1>6. QED
  BY <1>4, <1>5

\* The three parts of AcceptedInv.
LEMMA BoundedInv == CodecInv => FileBounded
<1>1. SUFFICES ASSUME CodecInv PROVE FileBounded
  OBVIOUS
<1>2. damaged \in 0..MaxDamaged /\ rewritten \in BOOLEAN
  BY <1>1, Zenon DEF CodecInv
<1>3. Accepted => decoded.limits \in LimitSets /\ decoded.policy \in Policies
  BY <1>1, AcceptedFacts
<1>4. ASSUME file # NoFile, ~rewritten, file.header # Garbled
      PROVE  FileSize(file) <= saved.limits.max_snapshot_bytes + HeaderSize + 4 * EntrySize + MaxDamaged
  <2> DEFINE c == saved.content
             l == saved.limits
             p == saved.policy
  <2>1. l \in LimitSets /\ Base(file, c, l, p)
        /\ Len(file.payload) <= l.max_snapshot_bytes + damaged
    BY <1>1, <1>4, Zenon DEF CodecInv, MadeFrom, Survives
  <2>2. Len(file.table) \in 0..4
    BY <2>1, BaseForm
  <2>3. Len(file.payload) \in Nat
    BY <2>1, BaseParts, LenProperties
  <2>4. l.max_snapshot_bytes \in Nat /\ HeaderSize \in Nat /\ EntrySize \in Nat /\ MaxDamaged \in Nat
    BY <2>1, LimitTypes, CodecAssumption
  <2>5. ASSUME NEW e \in Nat, NEW n \in 0..4 PROVE e * n <= 4 * e /\ e * n \in Nat /\ 4 * e \in Nat
    <3>1. n = 0 \/ n = 1 \/ n = 2 \/ n = 3 \/ n = 4
      OBVIOUS
    <3>2. QED
      BY <3>1
  <2>6. ASSUME NEW h \in Nat, NEW x \in Nat, NEW y \in Nat, NEW q \in Nat, NEW b \in Nat,
               NEW d \in Nat, NEW m \in Nat, x <= y, q <= b + d, d <= m
        PROVE  h + x + q <= b + h + y + m
    BY <2>6
  <2> DEFINE x == EntrySize * Len(file.table)
             y == 4 * EntrySize
  <2>7. x \in Nat /\ x <= y /\ y \in Nat
    BY <2>2, <2>4, <2>5, Zenon
  <2>8. damaged \in Nat /\ damaged <= MaxDamaged
    BY <1>2, <2>4
  <2> HIDE DEF x, y
  <2>9. HeaderSize + x + Len(file.payload) <= l.max_snapshot_bytes + HeaderSize + y + MaxDamaged
    BY <2>1, <2>3, <2>4, <2>6, <2>7, <2>8
  <2>10. QED
    BY <2>9, Zenon DEF FileSize, x, y
<1>5. QED
  BY <1>2, <1>3, <1>4, Zenon DEF FileBounded

LEMMA SoundInv == CodecInv => AcceptedIsSound
<1>1. SUFFICES ASSUME CodecInv, Accepted PROVE Sound(decoded.content, decoded.limits)
  BY Zenon DEF AcceptedIsSound, Sound
<1> DEFINE l == decoded.limits
           p == decoded.policy
<1>2. l \in LimitSets /\ Decodable(file, l, p) /\ decoded.content = decode_snapshot(file, l)
  BY <1>1, AcceptedFacts
<1>3. Form(file, saved.limits, saved.policy)
  BY <1>1, AcceptedForm
<1>4. Sound(decode_snapshot(file, l), l)
  BY <1>2, <1>3, DecodedIsSound
<1>5. QED
  BY <1>2, <1>4, Zenon

LEMMA ConfigurationInv == CodecInv => SameConfiguration
<1>1. SUFFICES ASSUME CodecInv, Accepted
               PROVE  decoded.limits = saved.limits /\ decoded.policy = saved.policy
  BY Zenon DEF SameConfiguration
<1> DEFINE l == decoded.limits
           p == decoded.policy
<1>2. l \in LimitSets /\ p \in Policies /\ Decodable(file, l, p)
  BY <1>1, AcceptedFacts
<1>3. file.header.limits_digest = l.digest /\ file.header.policy_digest = p.digest
  BY <1>2, Zenon DEF Decodable, HeaderOk
<1>4. /\ saved.limits \in LimitSets /\ saved.policy \in Policies
      /\ file.header.limits_digest \in {saved.limits.digest, Garbled}
      /\ file.header.policy_digest \in {saved.policy.digest, Garbled}
  BY <1>1, AcceptedForm, Zenon DEF Form
<1> HIDE DEF l, p
<1>5. l.digest # Garbled /\ (l.digest = saved.limits.digest => l = saved.limits)
  BY <1>2, <1>4, CodecAssumption
<1>6. p.digest # Garbled /\ (p.digest = saved.policy.digest => p = saved.policy)
  BY <1>2, <1>4, CodecAssumption
<1>7. l = saved.limits /\ p = saved.policy
  BY <1>3, <1>4, <1>5, <1>6
<1>8. QED
  BY <1>7, Zenon DEF l, p

(***************************************************************************)
(* Theorem: whatever was written, damaged or forged, what decode_snapshot  *)
(* accepts is sound in itself, and was saved under the limits and the      *)
(* policy of the process that loads it.                                    *)
(***************************************************************************)
THEOREM AcceptedHolds == CodecSpec => []AcceptedInv
<1>1. CodecInv => AcceptedInv
  BY BoundedInv, SoundInv, ConfigurationInv, Zenon DEF AcceptedInv
<1>2. QED
  BY <1>1, CodecInvariant, PTL

(***************************************************************************)
(* Theorem: encode_snapshot and decode_snapshot are inverse up to the      *)
(* bounds on episodes and records.  A load by the configuration that saved *)
(* returns what was saved unless the snapshot is not Portable; there is no *)
(* other reason to refuse it.                                              *)
(***************************************************************************)
THEOREM RoundTripHolds == CodecSpec => []RoundTrip
<1>1. CodecInv => RoundTrip
  <2> DEFINE c == saved.content
             l == saved.limits
             p == saved.policy
  <2>1. SUFFICES ASSUME CodecInv, decoded # NotDecoded, damaged = 0, ~rewritten,
                        decoded.limits = l, decoded.policy = p, Portable(c, l)
                 PROVE  decoded.content = Kept(c, l)
    BY Zenon DEF RoundTrip
  <2>2. file # NoFile /\ MadeFrom(file, saved, damaged, rewritten)
    BY <2>1, Zenon DEF CodecInv
  <2>3. /\ c \in Contents /\ l \in LimitSets /\ p \in Policies /\ Admitted(c, l)
        /\ file = encode_snapshot(c, l, p)
    BY <2>1, <2>2, Zenon DEF MadeFrom
  <2>4. PICK ll \in LimitSets, pp \in Policies : decoded = Loaded(file, ll, pp)
    BY <2>1, Zenon DEF CodecInv
  <2>5. decoded.limits = ll /\ decoded.policy = pp
        /\ decoded.content = IF Readable(file, ll) /\ Decodable(file, ll, pp)
                             THEN decode_snapshot(file, ll) ELSE Refused
    <3> DEFINE k == IF Readable(file, ll) /\ Decodable(file, ll, pp)
                    THEN decode_snapshot(file, ll) ELSE Refused
    <3>1. decoded = [limits |-> ll, policy |-> pp, content |-> k]
      BY <2>4, Zenon DEF Loaded
    <3> HIDE DEF k
    <3>2. decoded.limits = ll /\ decoded.policy = pp /\ decoded.content = k
      BY <3>1
    <3>3. QED
      BY <3>2, Zenon DEF k
  <2>6. /\ FileSize(file) <= l.max_snapshot_bytes /\ Len(file.table) <= l.max_snapshot_sections
        /\ \A k \in Kinds : \A o \in ToSet(c.topology.objects[k]) : PortableObject(o)
    BY <2>1, Zenon DEF Portable
  <2>7. ll = l /\ pp = p
    BY <2>1, <2>5, Zenon
  <2> HIDE DEF c, l, p
  <2>8. Encoded(file, c, l, p)
    BY <2>3, EncodedFile
  <2>9. Readable(file, l) /\ Decodable(file, l, p) /\ decode_snapshot(file, l) = Kept(c, l)
    BY <2>3, <2>6, <2>8, OwnSnapshotLoads
  <2>10. QED
    BY <2>5, <2>7, <2>9, Zenon
<1>2. QED
  BY <1>1, CodecInvariant, PTL

(***************************************************************************)
(* Theorem: damage is never read as data.  Whatever number of places were  *)
(* damaged, a file that still loads gives the time and the topology that   *)
(* were saved, and all of the episodes and of the records that were kept,  *)
(* or none of those whose entry of the table no longer names them.         *)
(***************************************************************************)
THEOREM DamageHolds == CodecSpec => []DamageIsNotData
<1>1. CodecInv => DamageIsNotData
  <2> DEFINE c == saved.content
             l == saved.limits
             p == saved.policy
             d == decoded.content
  <2>1. SUFFICES ASSUME CodecInv, Accepted, damaged > 0
                 PROVE  /\ d.created_at = Kept(c, l).created_at
                        /\ d.topology = Kept(c, l).topology
                        /\ \/ d.episodes = Kept(c, l).episodes
                           \/ d.episodes = <<>> /\ ~Named(file, 3, kEpisodes)
                        /\ \/ d.evidence = Kept(c, l).evidence
                           \/ d.evidence = <<>> /\ ~Named(file, 4, kEvidence)
    BY Zenon DEF DamageIsNotData
  <2>2. /\ MadeFrom(file, saved, damaged, rewritten)
        /\ Decodable(file, decoded.limits, decoded.policy)
        /\ d = decode_snapshot(file, decoded.limits)
    BY <2>1, AcceptedFacts
  <2>3. decoded.limits = l /\ decoded.policy = p
    BY <2>1, ConfigurationInv, Zenon DEF SameConfiguration
  <2>4. damaged # 0
    BY <2>1
  <2>5. /\ Admitted(c, l) /\ c \in Contents /\ l \in LimitSets /\ p \in Policies
        /\ Survives(file, c, l, p, damaged)
    BY <2>2, <2>4, Zenon DEF MadeFrom
  <2>6. Decodable(file, l, p) /\ d = decode_snapshot(file, l)
    BY <2>2, <2>3, Zenon
  <2>7. Base(file, c, l, p)
    BY <2>5, <2>6, Zenon DEF Survives, Decodable
  <2> HIDE DEF c, l, p, d
  <2>8. /\ d.created_at = c.created_at /\ d.topology = c.topology
        /\ d.episodes \in {<<>>, EpisodesOf(c, l)} /\ d.evidence \in {<<>>, RecordsOf(c, l)}
    BY <2>5, <2>6, <2>7, DamagedIsNotData
  <2>9. /\ Kept(c, l).created_at = c.created_at /\ Kept(c, l).topology = c.topology
        /\ Kept(c, l).episodes = EpisodesOf(c, l) /\ Kept(c, l).evidence = RecordsOf(c, l)
    BY <2>5, KeptRecord
  <2>10. /\ Named(file, 3, kEpisodes) => d.episodes = EpisodesOf(c, l)
         /\ Named(file, 4, kEvidence) => d.evidence = RecordsOf(c, l)
    BY <2>5, <2>6, <2>7, NamedIsRead
  <2>11. QED
    BY <2>8, <2>9, <2>10, Zenon
<1>2. QED
  BY <1>1, CodecInvariant, PTL

=============================================================================
