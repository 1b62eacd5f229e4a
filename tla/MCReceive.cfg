SPECIFICATION MCSpec
CONSTANTS
  r1 = r1
  r2 = r2
  r3 = r3
  dm = dm
  Receptions = {r1, r2, r3}
  Packets = {dm}
  LocalTypes = {dm}
  NoPacket = NoPacket
  Window = 3
  MaxHold = 2
  None = None
  Radio = {"r1", "r2"}
  Id = {"a", "b"}
  Peer = {"k1", "k2"}
  Self = "self"
  MaxContacts = 1
  MaxAnon = 1
  Adverts <- Heard
  Policies <- PolicyValues
  Learned = {"routed"}
  Edits <- EditValues
  MaxClock = 1
  MaxTasks = 1
  Nil = Nil
  Client = {"c1"}
  Incoming <- Asked
  Region = {"home", "secret", "any"}
  Wild = {"any"}
  RegionKeys <- RegionKeysOf
  Key = {"k1", "k2"}
  Maps <- MapValues
  Width = {1, 2}
  Maximum = 1
  Secs = 2
  MaxTime = 4
  MaxHeld = 1
  MaxChanges = 1
  MaxCount = 3
INVARIANTS ReplyMirrors  BoundExactly
PROPERTIES DeliveredOncePerWindow AdvertsOnlyRefresh 
CHECK_DEADLOCK FALSE
