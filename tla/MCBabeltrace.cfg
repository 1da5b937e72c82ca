SPECIFICATION Spec
CONSTANTS
  Plugins = {"zipkin", "json"}
  Events <- MCEvents
  Ids = {0, 1}
  Zero = 0
  Texts = {"t", "s", "v"}
  None = None
  MaxEvents = 3
  MaxRuns = 2
INVARIANTS
  BabeltraceInv
  StoredInOrder
  NothingBehindABadEvent
  TimesAscend
PROPERTIES
  ImplementsDelivery
  RunEnds
CHECK_DEADLOCK FALSE
