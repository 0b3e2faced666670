SPECIFICATION Spec
CONSTANTS
  Callers = {c1, c2, c3}
  NoOne = NoOne
  MaxReq = 4
  MaxConn = 3
  MayCancel = FALSE
CHECK_DEADLOCK FALSE
INVARIANTS
  TypeOK
  KeptStreamIsQuiet
  OverlapIsAbandoned
PROPERTIES
  ImplementsService
  CallsReturn
