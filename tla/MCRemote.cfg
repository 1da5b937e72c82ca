SPECIFICATION Spec
CONSTANTS
  Hosts = {big, little1, little2}
  Big = {big}
  Byte <- MCByte
  Width = 2
  Ids <- MCIds
  Zero <- MCZero
  Junk <- MCJunk
  Exchanged = TRUE
  MaxSpans = 3
SYMMETRY Symmetric
INVARIANTS
  RemoteInv
  IdentitiesTravel
PROPERTY ImplementsDapper
CHECK_DEADLOCK FALSE
