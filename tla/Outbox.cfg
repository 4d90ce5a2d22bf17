SPECIFICATION LiveSpec
CONSTANTS
  Message = {1, 2, 3}
  MaxTries = 2
  BatchSize = 2
  BusCapacity = 1
  MaxTaskStops = 1
  Null = Null
INVARIANTS
  DeliveryIsAccounted
PROPERTIES
  RecordedIsSettled
CHECK_DEADLOCK FALSE
