SPECIFICATION Spec
CONSTANTS
  Threads = {t1, t2}
  NSymbols = 11
  full = full
  old = old
  Libraries = {full, old}
  Exports <- MCExports
  Garbage <- MCGarbage
  MaxCalls = 2
  MaxFds = 2
  None = None
INVARIANTS
  FrontInv
  SuccessMeansUsable
  NoWriteUnderUse
  SeedProvenance
PROPERTIES
  CallReturns
  ImplementsOnceInit
