\* Two workers, eight blocks.
CONSTANTS
  Threads = 2
  Blocks = 8
  Inputs <- MCInputs
  Faults = {"malloc"}
SPECIFICATION FairSpec
CHECK_DEADLOCK FALSE
INVARIANTS NoSharedRecord Sorted
PROPERTIES RecordsKept Ends
