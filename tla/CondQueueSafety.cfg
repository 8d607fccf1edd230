\* Two threads of each kind come and go, and a decrease comes in between.
CONSTANTS
  MaxProducers = 2
  MaxConsumers = 2
  InitialSize = 2
  Step = 1
  MaxCapacity = 2
  MaxMade = 1
  Keys = {"p", "c", "P", "C", "-"}
  Faults = {}
SPECIFICATION Spec
CHECK_DEADLOCK FALSE
INVARIANTS TypeOK NobodyOverlooked
PROPERTIES ImplementsFifo
