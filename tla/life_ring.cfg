SPECIFICATION Spec
CONSTANTS
  h1 = h1
  h2 = h2
  h3 = h3
  f1 = f1
  f2 = f2
  NoFile = NoFile
  Handles <- ThreeHandles
  Files <- TwoFiles
  Options <- OneOption
  HeaderSize = 2
  CountLimit = 5
  MaxKills = 1
SYMMETRY Interchangeable
INVARIANTS TypeOK CountExact  
