SPECIFICATION FairSpec
CONSTANTS
  MaxAttempts = 2
  NumCommands = 1
  Required <- MCRequired
  NumFindings = 2
  MaxTries = 2
  MaxChallenged = 1
  MaxProofs = 1
  Digests = {"asked", "other", "third"}
  Timeouts <- MCTimeouts
  Outputs <- MCOutputs
  MinTimeout = 2
  MaxTimeout = 3
  MinOutput = 1
  MaxOutput = 1
  MinWritable = 1
  Writable = 2
  MaxWritable = 3
  MaxDuration = 5
  Configs <- MCConfigs
  Changes <- MCChanges
  Guides <- MCGuides
  Budget <- MCBudget
  Prompts <- MCPrompts
  Room = 4
  Entries <- MCEntries
  Limits <- MCLimits
INVARIANTS
  TypeOK
  ConclusiveRunIsClean
  ShipsOverNoGap
  FixRestsOnEvidence
  RecordedAnswersDecide
PROPERTIES
  AttemptEnds
CHECK_DEADLOCK FALSE
