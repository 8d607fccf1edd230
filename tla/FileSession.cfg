\* A session of three commands, typed or from a file of two, with a server that may
\* fail to serve it and is told to stop at any time.
CONSTANTS
  Clients = {1}
  Commands <- Session
  FileLengths = {2}
  Faults = {"accept", "thread", "recv"}
SPECIFICATION FairSpec
CHECK_DEADLOCK FALSE
INVARIANTS InStep OnlyFilesBlock NoLostWakeup
PROPERTIES AnswerComes StopsAfterQ
