SPECIFICATION MCSpec
CONSTANTS
  Rounds = 2
  Ids <- MCIds
  Zero = 0
  Garbage <- MCGarbage
  InitResults <- MCInitResults
  OneProcess <- MCBoth
  MayKill = TRUE
  MayFail = TRUE
  None = None
  Tick = 600
  MaxEvents = 8
  MaxRuns = 1
  MaxRefused = 1
INVARIANTS
  PipelineInv
  SpansNest
  OneWrongSpanPerCrash
  ShownInParent
  RootsShown
  NamesShown
  OnlyScribeStopsIt
PROPERTIES
  CompletesListening
  NobodyWaitsForTheDead
CHECK_DEADLOCK FALSE
