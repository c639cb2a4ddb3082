SPECIFICATION Spec
CONSTANTS
  Workers = {w1}
  NoWorker = NoWorker
  Requests = {q1}
  Results <- TwoResults
  NoResult = NoResult
  Unreadable = {1}
  MaxRuns = 3
  MaxHead = 2
INVARIANTS
  OpenRunIsCurrent
  NoRunQueuedTwice
CHECK_DEADLOCK FALSE
