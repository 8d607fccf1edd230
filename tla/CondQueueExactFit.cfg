\* A decrease to exactly the number of queued messages.
CONSTANTS
  MaxProducers = 1
  MaxConsumers = 1
  InitialSize = 2
  Step = 1
  MaxCapacity = 2
  MaxMade = 4
  Keys = {"p", "c", "-"}
  Faults = {}
SPECIFICATION Spec
CHECK_DEADLOCK FALSE
INVARIANTS StoresInRing
