SPECIFICATION Spec
CONSTANTS
    A = A
    Spaces = {A}
    Residue <- MCResidue
    May <- MCMay
    Kinds = {"file", "voice"}
    Fields = {mtu, ports, typo}
    Known = {mtu}
    Malformed = {typo}
    Tasks = {t1, t2}
    MaxOps = 2
    MaxRetries = 2
    None = None
CHECK_DEADLOCK FALSE
INVARIANTS TypeOK ListenersAreKnown AllOrNothing 
PROPERTIES CommandsReturn SyncConverges
