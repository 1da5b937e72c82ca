SPECIFICATION Spec
CONSTANTS
  Procs = {p, q}
  Threads = {t1, t2}
  First = p
  Blind = {7}
  Base = 8
  RandMax = 3
  Longs = {8}
  Out <- MCOut
  MaxSeeds = 3
  MaxCalls = 4
SYMMETRY Symmetric
INVARIANT IdentifiersTellApart
CHECK_DEADLOCK FALSE
