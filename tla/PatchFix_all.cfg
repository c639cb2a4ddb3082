SPECIFICATION FairSpec
CONSTANTS
  Workers = {w1, w2}
  NoWorker = NoWorker
  MaxAttempts = 3
INVARIANTS
  DecisionAgrees
  ProvenOnce
PROPERTIES
  OnlyLatestClaimEnds
  ImplementsFixLife
  FixEnds
CHECK_DEADLOCK FALSE
