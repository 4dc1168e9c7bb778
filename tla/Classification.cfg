SPECIFICATION ClassifierSpec
CONSTANTS
  policy <- MCPolicy
  max_labels = 1
  max_metadata_entries = 1
  max_note_bytes = 1
  Pool <- MCPool
  subject = 1
  generation = 1
  max_citations = 2
  MaxWindow = 3
  MaxTime = 3
INVARIANTS
  AssessmentInv
  HistoryDecidesNothing
  HarmIsWitnessed
PROPERTIES
  WaitingProvesNothing
CHECK_DEADLOCK FALSE
