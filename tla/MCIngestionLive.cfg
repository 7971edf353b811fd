SPECIFICATION LiveSpec
CONSTANTS
  Events <- RetriedEvents
  Days = 1
  PruneSize = 2
  NoEvent = NoEvent
  MaxMessages = 2
  MaxTime = 2
PROPERTIES
  FailureIsRedelivered
