SPECIFICATION MCSpec
CONSTANTS
  r1 = r1
  r2 = r2
  k1 = k1
  Contacts <- MCContacts
  Replies <- MCReplies
  Sender <- MCSender
  Copies <- MCCopies
  MinMargin = 1
  Reliable = 3
  Settle = 1
  Cooldown = 3
  Ttl = 3
  CacheMax = 2
  HoldMax = 1
  InjectMax = 1
  MaxCopies = 2
  None = None
  Zero = Zero
  s1 = s1
  s2 = s2
  b1 = b1
  f1 = f1
  f2 = f2
  Key = {s1, s2}
  Freq = {f1, f2}
  RepeatFreq = {f2}
  Power = {1}
  Mode = {0}
  DefaultMode = 0
  Byte = {b1}
  Chunk <- Chunks
  MaxSignDataSize = 2
  MaxTime = 1
  Owners = {"radio", "bridge"}
  Client = {c1, c2}
  Tag = {t1}
  HostTag = {h1}
  MaxAsked = 2
INVARIANTS
  
  SignsWhatWasAcked
  
  
PROPERTIES BestCopyTaught
CHECK_DEADLOCK FALSE
