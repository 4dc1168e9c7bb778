CONSTANTS
  c1 = c1
  c2 = c2
  c3 = c3
  NoName = NoName
  Sources <- Collectors
  Subjects = {1, 2, 3}
  KnownSubjects = {1, 2}
  Inputs <- StoreInputs
  Recoverable <- StoreRecoverable
  Times = {2, 3}
  max_retained_evidence = 3
  max_evidence_per_subject = 2
  max_sources = 2
  minimum_authority = 1
  require_known_subject = TRUE
  require_incarnation = TRUE
  SelfMoveClears = FALSE
  MaxAdmissions = 4
  MaxRefusals = 1
  MaxSweeps = 1
SPECIFICATION Spec
INVARIANTS
  IndexCoherent
  Bounded
  NothingSilentlyDropped
  LiveEvidenceCurrent
  FenceOrdered
PROPERTIES
  RecordsUntouched
  FenceNeverRetreats
