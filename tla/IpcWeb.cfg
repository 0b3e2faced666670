SPECIFICATION Spec
CONSTANTS
  Callers = {c1, c2}
  NoOne = NoOne
  MaxReq = 4
  MaxConn = 3
  MayCancel = TRUE
CHECK_DEADLOCK FALSE
SYMMETRY Symmetry
INVARIANTS
  CrossTalkNeedsCancel
  KeptStreamIsQuiet
