CONSTANTS
  daily = daily
  watch = watch
  Schedules = {daily}
  Policy <- MCPolicy
  ByHand = {daily}
  Window = 2
  MaxRuns = 4
  MaxEvents = 4
SPECIFICATION Spec
PROPERTY DueIsFired
CHECK_DEADLOCK FALSE
