SPECIFICATION Spec
CONSTANTS
  Hosts = {big, little1, little2}
  Big = {big}
  Byte <- MCByte
  Width = 2
  Ids <- MCIds
  Zero <- MCZero
  Junk <- MCJunk
  Exchanged = FALSE
  MaxSpans = 3
PROPERTY PackInitialisesPacket
CHECK_DEADLOCK FALSE
