SPECIFICATION Spec
CONSTANTS
  r1 = r1
  r2 = r2
  r3 = r3
  dm = dm
  Receptions = {r1, r2}
  Packets = {dm}
  LocalTypes = {dm}
  NoPacket = NoPacket
  Window = 15
  MaxHold = 16
SYMMETRY RxSymmetry
INVARIANTS OvertakenCopyDropped
