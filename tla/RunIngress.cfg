CONSTANTS
  Keys = {k1}
  Sends = 2
  MaxFailures = 1
  MaxAborts = 1
SPECIFICATION Spec
INVARIANTS TypeOK WorkIsNotRepeated QueuedIsServed AnsweredInOrder
PROPERTY EveryUpdateIsAnswered
CHECK_DEADLOCK FALSE
