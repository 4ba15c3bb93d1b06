SPECIFICATION FairSpec
CONSTANTS
  Workers = {w1, w2}
  NoWorker = NoWorker
  HistoryBound = 3
  PageSize = 2
  MaxPages = 2
  FaultBound = 2
INVARIANTS
  NoGap
PROPERTIES
  CursorNeverBack
  AllReconciled
