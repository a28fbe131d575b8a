SPECIFICATION Spec
CONSTANTS
  Extent = 3
  Hole = Hole
  Layout <- MCLayout
INVARIANTS FetchIsExact ViewsAreRuns NonemptyFetchReturns
CHECK_DEADLOCK FALSE
