SPECIFICATION FairSpec
CONSTANTS
  Chunk = 2
  Rounds = 6
  Programs <- All
  Buffers <- Sizes
INVARIANTS TypeOK NothingLost VerdictExact PanicNeedsPieces
PROPERTY SessionEnds
CHECK_DEADLOCK FALSE
