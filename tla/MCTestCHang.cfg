SPECIFICATION Spec
CONSTANTS
  Rounds = 1
  Ids <- MCIds
  Zero = 0
  Garbage <- MCGarbage
  InitResults <- MCOk
  OneProcess <- MCRacing
  MayKill = FALSE
  MayFail = FALSE
PROPERTY Completes
CHECK_DEADLOCK FALSE
