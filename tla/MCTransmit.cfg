SPECIFICATION MCSpec
CONSTANTS
  Tasks = {t1, t2, t3}
  NoTask = NoTask
  Rates = {1, 2}
  Window = 4
  Reserve = 3
  MinReserve = 2
  Airtimes = {1, 5}
  Job = {"send", "scan"}
  Scan = {"scan"}
  MaxTries = 1
  MaxJobs = 2
  MaxHeard = 2
INVARIANTS StagedUndisturbed ListensWhenIdle ClaimedNotDrained
PROPERTIES EverySendAdmitted EveryJobReturns
CHECK_DEADLOCK FALSE
