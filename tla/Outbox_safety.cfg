SPECIFICATION Spec
CONSTANTS
  Runs = {r1}
  Fixes = {}
  Commands = {c1}
  Workers = {w1, w2}
  NoWorker = NoWorker
  NoEvent = NoEvent
  Batch = 2
  MaxRequeues = 0
  Busy = {r1}
  MaxChecks = 2
  Uninstalled = {}
CONSTRAINTS CommandsLast TwoAtATime
SYMMETRY WorkerSymmetry
INVARIANTS
  CheckConverges
PROPERTIES
  OnlyLateDispatchersRegressChecks
CHECK_DEADLOCK FALSE
