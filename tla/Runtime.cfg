SPECIFICATION Spec
CONSTANTS
  Collectors = {c1}
  Analysts = {n1}
  Keepers = {k1}
  Admins = {a1, a2}
  Sources = {"a", "b"}
  Subjects <- MCSubjects
  Feed <- MCFeed
  Gens <- MCGens
  Known <- MCKnown
  Times <- MCTimes
  Window = 0
  Horizons = {2}
  max_sources = 1
  max_retained_evidence = 2
  max_window_records = 1
  max_snapshot_evidence = 2
  max_episodes = 1
  MaxRevision = 3
  MaxDropped = 1
  MaxOperations = 7
  MaxRestarts = 1
INVARIANTS
  RuntimeInv
  NoVerdictFromHistory
  EpisodesKeepTheirGeneration
  OneLiveRecordPerPosition
PROPERTIES
  HistorySurvivesLoad
SYMMETRY Alike
CHECK_DEADLOCK FALSE
