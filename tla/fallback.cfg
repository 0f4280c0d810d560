SPECIFICATION FairSpec
CONSTANTS
  c1 = c1
  c2 = c2
  Callers <- TwoCallers
  Scenarios <- Mixes
  Capacity = 2
  MaxDropped = 1
  Threads = 2
  MaxFd = 2
  MaxSockets = 3
  MaxWrites = 2
INVARIANTS TypeOK OneAnswerPerCall AnswersInOrder OwnSocket NoLeak
PROPERTIES DiskCallsReturn NetCallsReturn
CHECK_DEADLOCK FALSE
