SPECIFICATION Spec
CONSTANTS
    Peers <- MCPeers
    Possible <- MCPossible
    Initiators <- MCInitiators
    Changing = {3}
    Plans <- MCPlans
INVARIANTS TypeOK NotAhead SavedIsHeld NoSilentGap
PROPERTIES Converges
CHECK_DEADLOCK FALSE
