SPECIFICATION MCSpec
CONSTANTS
  Handlers = {h1, h2}
  Workers = {w1, w2}
  NoWorker = NoWorker
  MaxAttempts = 2
  MaxHead = 2
INVARIANTS
  EndIsTrue
  OneReplyEach
PROPERTIES
  OnlyLatestClaimEnds
  ImplementsCommandLife
  CommandEnds
CHECK_DEADLOCK FALSE
