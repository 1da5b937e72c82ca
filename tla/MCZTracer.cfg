SPECIFICATION Spec
CONSTANTS
  Endps = {e1, e2}
  Traces = {z1, z2}
  Infos = {i1}
  Null = Null
  Ids = {0, 1}
  Zero = 0
  Garbage = Garbage
  Copying = TRUE
  MaxSpans = 2
  MaxLog = 1
INVARIANTS
  ZTracerInv
  EventsSound
  FreedOnce
  NothingLeaks
PROPERTY ImplementsDapper
SYMMETRY Symmetric
CHECK_DEADLOCK FALSE
