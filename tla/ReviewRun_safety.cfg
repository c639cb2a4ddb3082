SPECIFICATION FairSpec
CONSTANTS
  Workers = {w1, w2}
  NoWorker = NoWorker
  Requests = {q1}
  Results <- TwoResults
  NoResult = NoResult
  Unreadable = {}
  MaxRuns = 2
  MaxHead = 1
INVARIANTS
  FreshProposalIsCurrent
PROPERTIES
  ResultFromLatestClaim
  ImplementsLifecycle
  ReviewsEnd
CHECK_DEADLOCK FALSE
