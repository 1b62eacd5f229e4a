SPECIFICATION LiveSpec
CONSTANTS
    Requests <- ThreeCalls
    Contacts = {"c1", "c2"}
    Workloads <- MixedWorkloads
    Hash <- SameHash
    MaxAttempts = 2
    None = None
INVARIANTS  LateReplyReported
PROPERTY EveryRequestReturns
CHECK_DEADLOCK FALSE
