\* Three children, an array that grows once, every key and every fault.
CONSTANTS
  MaxChildren = 3
  InitialCapacity = 2
  Keys = {"+", "-", "l", "k", "q"}
  Faults = {"fork", "realloc", "die"}
SPECIFICATION FairSpec
CHECK_DEADLOCK FALSE
INVARIANTS TypeOK ListExact
PROPERTIES ZombiesCollected QuitEnds
