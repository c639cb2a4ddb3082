SPECIFICATION FairRuntimeSpec
CONSTANTS
  Items <- MCItems
  QueueOf <- MCQueueOf
  Dead <- MCDead
  Limit = 2
  MaxTrouble = 2
INVARIANTS
  StopsWhole
PROPERTIES
  WorkRecovered
  ReadyAgain
