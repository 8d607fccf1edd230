\* Two editors, every fault, under fairness.
CONSTANTS
  Editors = {e1, e2}
  NoEditor = NoEditor
  Records = {0}
  Value = {a, b}
  Zero = a
  MaxEdits = 3
  Faults = {"read", "write", "lock", "kill"}
SPECIFICATION FairSpec
CHECK_DEADLOCK FALSE
INVARIANTS TypeOK LockDiscipline
PROPERTIES NoLostUpdate ImplementsStore PutReturns
