SPECIFICATION MCSpec
CONSTANTS
  Endps = {e1, e2}
  Traces = {t1, t2}
  Annots = {a1}
  Infos = {i1}
  Null = Null
  Zero = Zero
  x = x
  y = y
  Ids = {Zero, x, y}
  Given = {"given", Null}
  Garbage = {0}
  MaxSpans = 3
  MaxLog = 1
INVARIANTS
  SpansFormForest
  IdentitiesSettled
  OneRootPerTrace
  EventsComplete
PROPERTIES
  ImplementsDapper
  OnlyNewTracesAreBare
  FailedCallsOnlyComplete
SYMMETRY Symmetric
CHECK_DEADLOCK FALSE
