SPECIFICATION Spec
CONSTANTS
  i1 = i1
  i2 = i2
  i3 = i3
  clone = clone
  solo = solo
  Items = {i1, i2}
  Agents = {clone, solo}
  Spawning = {clone}
  Target <- TargetMC
  DependsOn <- DependsOnMC
  Limit = 1
  Fanout = 2
  AutoBlock = FALSE
  MaxRuns = 3
  MaxEvents = 2
  Events <- AllEvents
INVARIANTS TypeOK WipRespected OneRunPerItem EndIsFiledRight StuckHasACause OrderKept
CHECK_DEADLOCK FALSE
