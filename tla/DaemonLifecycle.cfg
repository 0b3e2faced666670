SPECIFICATION Spec
CONSTANTS
    MaxSessions = 2
    Tries = 2
    Foreign = {0}
    Edits = {1}
    Rpc = Rpc
    MaxFaults = 1
    None = None
INVARIANTS TypeOK ExitLeavesNone ClientsReachDaemon ReadyIsOwn 
PROPERTIES OrphansEnd
CHECK_DEADLOCK FALSE
