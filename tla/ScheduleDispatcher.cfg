CONSTANTS
  daily = daily
  watch = watch
  Schedules = {daily, watch}
  Policy <- MCPolicy
  ByHand = {watch}
  Window = 2
  MaxRuns = 3
  MaxEvents = 3
SPECIFICATION Spec
INVARIANTS TypeOK OverlapHasACause EndIsReported
PROPERTY HeldIsNotFired
CHECK_DEADLOCK FALSE
