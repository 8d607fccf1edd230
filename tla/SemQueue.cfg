\* Every key and every failing call under fairness.
CONSTANTS
  MaxProducers = 1
  MaxConsumers = 1
  InitialSize = 2
  Step = 1
  MaxCapacity = 2
  MaxMade = 2
  Keys = {"p", "c", "P", "C", "+", "-", "q"}
  Faults = {"malloc", "create", "wait"}
  Spare = 0
SPECIFICATION FairSpec
CHECK_DEADLOCK FALSE
INVARIANTS TypeOK OwnedOnce TokensAccounted
PROPERTIES ImplementsFifo ShutdownCompletes RequestCleared
