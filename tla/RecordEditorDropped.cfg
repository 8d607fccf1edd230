\* Two editors change the same record.
CONSTANTS
  Editors = {e1, e2}
  NoEditor = NoEditor
  Records = {0}
  Value = {a, b}
  Zero = a
  MaxEdits = 2
  Faults = {}
SPECIFICATION Spec
CHECK_DEADLOCK FALSE
INVARIANTS UpdatedAsTyped
