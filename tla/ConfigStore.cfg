SPECIFICATION Spec
CONSTANTS
  Names = {n1, n2}
  Versions = {0, 1}
  Clients = {c1, c2}
  NoName = NoName
  MaxSubmits = 3
INVARIANTS
  TypeOK
  PendingHasToken
  ContentBacksIndex
  DownloadNotOlder
  IndexCatchesUp
PROPERTIES
  NoRollback
  TasksAreTaken
