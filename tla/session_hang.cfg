SPECIFICATION FairSpec
CONSTANTS
  Chunk = 2
  Rounds = 2
  Programs <- Unclosed
  Buffers <- Ample
PROPERTY ServerCompletes
CHECK_DEADLOCK FALSE
