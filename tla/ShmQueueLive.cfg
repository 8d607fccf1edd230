\* Every key and every failing call under fairness.
CONSTANTS
  Producers = {p1, p2}
  Consumers = {c1}
  Message = {a}
  NoMessage = NoMessage
  Capacity = 3
  MaxChildren = 4
  MaxAdded = 2
  Keys = {"P", "p", "C", "c", "s", "q"}
  Faults = {"fork", "semop"}
SPECIFICATION FairSpec
CHECK_DEADLOCK FALSE
INVARIANTS MutualExclusion
PROPERTIES KeysServed EveryMessageExtracted
