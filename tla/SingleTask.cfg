SPECIFICATION MCSpec
CONSTANTS
  VectorSize = 3
  Required = {0, 2}
  RamStart = 4
  RamEnd = 10
  Align = 2
  AddressEnd = 11
  MaxData = 2
  MaxRecords = 5
  TickMod = 9
  AuthTicks = 2
  LineTicks = 4
  ShareTicks = 3
  PassTicks = 2
  Slot = {1, 2}
CHECK_DEADLOCK FALSE
INVARIANTS VectorsLast WritesInRam StartsComplete ParsesRecords StreamIsPadded TargetIsFloor TimeoutsEarned SessionBounded
