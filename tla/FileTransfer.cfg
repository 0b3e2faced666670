SPECIFICATION Spec
CONSTANTS
  Peers = {"p1", "p2"}
  Chunks = 2
CHECK_DEADLOCK FALSE
INVARIANTS CompletedIsStored
