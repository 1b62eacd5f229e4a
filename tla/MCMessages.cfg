SPECIFICATION MCSpec
CONSTANTS
  Tasks = {t1, t2}
  Crcs = {c1, c2}
  NoTask = NoTask
  NoCrc = NoCrc
  AckTimeout = 2
  AckTtl = 2
  AllowClientRepeat = TRUE
  None = None
  Plain = {"text"}
  Signed = {}
  Cli = {"cli"}
  Junk = {"junk"}
  GroupText = {"group"}
  GroupData = {"data"}
  Own = {"group"}
  ChannelOf <- Key
  Slots = {0}
  Names = {"name"}
  Secrets = {"key"}
  MultiAcks = FALSE
  QueueSize = 1
  SeenMax = 1
  Ttl = 0
  FrameMax = 4
  MaxHeard = 2
  MaxTime = 1
  MaxDrops = 1
PROPERTIES CoWaitersKept NoTimeoutWithAckInHand ImplementsPromise EverySendReturns
   AppCatchesUp
CHECK_DEADLOCK FALSE
