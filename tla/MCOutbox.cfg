SPECIFICATION LiveSpec
CONSTANTS
  MaxEntries = 2
  BatchSize = 2
  MaxPublish = 2
  MaxEvents = 3
  MaxStops = 1
INVARIANTS
  NoLoss
  FirstDeliveryInOrder
  DepthIsRowCount
  DrainSound
PROPERTIES
  ImplementsQueue
  EventuallyConfirmed
  ShutdownTerminates
