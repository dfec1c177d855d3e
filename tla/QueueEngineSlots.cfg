SPECIFICATION Spec
CONSTANTS
  i1 = i1
  i2 = i2
  i3 = i3
  sA = sA
  sB = sB
  Items = {i1, i2, i3}
  Sessions = {sA, sB}
  Lanes = {"default", "critical"}
  SessionOf <- MixedSessionOf
  LaneOf <- MixedLaneOf
  Priority <- MixedPriority
  RecoveryItems = {i2}
  LaneConcurrency <- MixedConcurrency
  DefaultLane = "default"
  LaneOrder <- MixedLaneOrder
  MaxAttempts = 2
  MaxBoots = 1
  DeleteBusySessions = FALSE
INVARIANTS
  LaneCapRespected
  SlotsMatchExecutions
  SessionSerialized
PROPERTIES
  StartedWorkIsKept
