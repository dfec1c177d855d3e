SPECIFICATION FairSpec
CONSTANTS
  i1 = i1
  i2 = i2
  i3 = i3
  sA = sA
  sB = sB
  Items = {i1, i2}
  Sessions = {sA}
  Lanes = {"default"}
  SessionOf <- SharedSessionOf
  LaneOf <- OneLaneOf
  Priority <- OnePriority
  RecoveryItems = {i2}
  LaneConcurrency <- TwoSlots
  DefaultLane = "default"
  LaneOrder <- OneLaneOrder
  MaxAttempts = 2
  MaxBoots = 3
  DeleteBusySessions = TRUE
INVARIANTS
  TypeOK
  LocksMatchExecutions
  ExecutingRowIsKept
PROPERTIES
  ImplementsWorkQueue
  EveryItemSettles
