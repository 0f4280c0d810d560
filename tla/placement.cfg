SPECIFICATION Spec
CONSTANTS
  Machines <- AllMachines
  WorkerCounts = {2}
  MaxIdx = 5
INVARIANTS TypeOK DetectionExact WorkersApart ReportTruthful
CHECK_DEADLOCK FALSE
