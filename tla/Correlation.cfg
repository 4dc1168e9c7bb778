SPECIFICATION Spec
CONSTANTS
  Pool <- MCPool
  policy <- MCPolicy
  max_group_members = 3
  max_groups = 4
  MaxEpisodes = 6
INVARIANTS
  GroupsInv
  FirstFit
CHECK_DEADLOCK FALSE
