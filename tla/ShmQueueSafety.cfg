\* Two producers and two consumers on a ring of three: producers killed anywhere, everybody by q.
CONSTANTS
  Producers = {p1, p2}
  Consumers = {c1, c2}
  Message = {a, b}
  NoMessage = NoMessage
  Capacity = 3
  MaxChildren = 4
  MaxAdded = 4
  Keys = {"P", "p", "C", "q"}
  Faults = {"fork"}
SPECIFICATION Spec
SYMMETRY Symmetry
CHECK_DEADLOCK FALSE
INVARIANTS TypeOK UnlockedRingIsWhole SlotsAccounted WaitNeverBlocks RemovedMeansAllReaped
PROPERTIES ImplementsFifo
