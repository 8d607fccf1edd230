\* Every key and every failing call under fairness.
CONSTANTS
  MaxProducers = 1
  MaxConsumers = 1
  InitialSize = 2
  Step = 1
  MaxCapacity = 3
  MaxMade = 3
  Keys = {"p", "c", "P", "C", "+", "-", "q"}
  Faults = {"malloc", "create", "wait"}
SPECIFICATION FairSpec
CHECK_DEADLOCK FALSE
INVARIANTS OwnedOnce
PROPERTIES ResizeServed ShutdownCompletes RetiredThreadsExit
