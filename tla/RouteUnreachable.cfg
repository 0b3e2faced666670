SPECIFICATION Spec
CONSTANTS
    Peers <- MCPeers
    Possible <- MCPossible
    Initiators <- MCInitiators
    Changing = {3}
    Plans <- MCPlans
CHECK_DEADLOCK FALSE
INVARIANTS UnreachableKept
