CONSTANTS
  port = port
  link = link
  Ids = {1, 2}
  Scopes <- Subjects
  scope <- OneEach
  Severities = {1, 2}
  Times = {1, 3, 4}
  MaxLag = 1
  resolve_after = 1
  expire_after = 2
  max_episodes = 1
  max_episode_transitions = 2
  max_episode_assessments = 1
  MaxRevision = 4
  MaxSaved = 1
SPECIFICATION Spec
INVARIANTS
  RegistryInv
  ClosedOnlyWhenIdle
PROPERTIES
  LiveNeverDisplaced
  RevisionNeverRetreats
