CONSTANTS
  MaxSaves = 4
  MaxDamage = 2
SPECIFICATION Spec
INVARIANTS
  SavedStaysRecoverable
PROPERTIES
  SavesAreAtomic
