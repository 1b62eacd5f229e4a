SPECIFICATION MCSpec
CONSTANTS
  Sender = {"s1", "s2"}
  Caller = {"c1", "c2"}
  Reconnector = "recon"
  None = "none"
  TxBufferSize = 2
  MaxPendingRx = 2
  ResponseQueue = 2
  MaxSends = 3
  MaxCommands = 3
  MaxHeard = 3
  MaxDrops = 2
  MaxSessions = 3
  Spent <- Budgets
  Tuple = {1, 2}
  MaxRadioSends = 2
  MaxSets = 2
  MaxRadioDrops = 1
  MaxQueue = 2
  MaxFrames = 3
  RadioSpent <- RadioBudgets
INVARIANTS
  AnswersItsOwn
  
  
  
  AgreesWhenValid
  Resyncs
PROPERTIES
  InArrivalOrder
  Recovers
CHECK_DEADLOCK FALSE
