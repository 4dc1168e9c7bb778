SPECIFICATION CodecSpec
CONSTANTS
  Contents <- MCContents
  LimitSets <- MCLimitSets
  Policies <- MCPolicies
  Sections <- MCSections
  HeaderSize = 2
  EntrySize = 1
  LabelCut = 1
  MaxDamaged = 2
  Garbled = Garbled
INVARIANTS
  AcceptedInv
  RoundTrip
  DamageIsNotData
