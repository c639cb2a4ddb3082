SPECIFICATION FairSpec
CONSTANTS
  Runs = {r1}
  Fixes = {f1}
  Commands = {}
  Workers = {w1}
  NoWorker = NoWorker
  NoEvent = NoEvent
  Batch = 4
  MaxRequeues = 1
  Busy = {}
  MaxChecks = 2
  Uninstalled = {r1}
PROPERTIES
  BacklogDrains
  ImplementsOrderedDelivery
CHECK_DEADLOCK FALSE
