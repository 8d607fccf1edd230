\* Producers only: the ring fills up.
CONSTANTS
  Producers = {p1, p2}
  Consumers = {c1}
  Message = {a}
  NoMessage = NoMessage
  Capacity = 3
  MaxChildren = 4
  MaxAdded = 4
  Keys = {"P"}
  Faults = {}
SPECIFICATION Spec
CHECK_DEADLOCK FALSE
INVARIANTS EmptySlotMeansRoom
