SPECIFICATION Spec
CONSTANTS
  Job = {j1, scan}
  Scan = {scan}
  MaxTries = 1
  MaxJobs = 2
  MaxHeard = 2
INVARIANT GatedOnlyInTx
CHECK_DEADLOCK FALSE
