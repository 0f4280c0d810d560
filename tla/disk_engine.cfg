SPECIFICATION Spec
CONSTANTS
  t1 = t1
  t2 = t2
  p1 = p1
  NoPath = NoPath
  Tasks <- TwoTasks
  Paths <- OnePath
  MaxBlock = 2
  BufferBlocks = 1
  MaxStores = 2
  MaxCrashes = 1
  MaxTimeouts = 1
SYMMETRY Interchangeable
INVARIANTS TypeOK SyncedSurvives ReadSeesAcked WholeWritesStored
