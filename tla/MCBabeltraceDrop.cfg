SPECIFICATION Spec
CONSTANTS
  Plugins = {"zipkin", "json"}
  Events <- MCUnexpected
  Ids = {0, 1}
  Zero = 0
  Texts = {"t", "s", "v"}
  None = None
  MaxEvents = 2
  MaxRuns = 1
INVARIANT NoEventEndsARun
CHECK_DEADLOCK FALSE
