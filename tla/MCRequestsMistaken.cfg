SPECIFICATION LiveSpec
CONSTANTS
    Requests <- ThreeCalls
    Contacts = {"c1", "c2"}
    Workloads <- LoginMeetsStatus
    Hash <- SameHash
    MaxAttempts = 2
    None = None
PROPERTY NeverMistakenForLogin
CHECK_DEADLOCK FALSE
