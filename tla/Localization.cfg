SPECIFICATION Spec
CONSTANTS
  Objects <- MCObjects
  Endpoints <- MCEndpoints
  Hops <- MCHops
  Shares <- MCShares
  Labels = {0, 1}
  limits <- MCLimits
  build_limits <- MCLimits
  max_node_labels = 0
  max_ports_per_node = 2
  max_path_hops = 3
  policy <- MCPolicy
  max_labels = 0
  max_metadata_entries = 0
  max_note_bytes = 0
  Pool <- MCPool
  Symptoms = {4}
  Claims <- MCClaims
  Replacements <- MCReplacements
  localization_policy <- MCLocalizationPolicy
  max_graph_nodes = 4
  max_graph_edges = 6
  max_window_records = 3
  now = 3
  window_start = 2
  MaxObjects = 7
  MaxRecords = 4
  MaxClaims = 2
INVARIANTS
  StructureInv
  WalkIsExact
PROPERTIES
  NeverHalfBuilt
  NamedWithProof
CHECK_DEADLOCK FALSE
