SPECIFICATION Spec
CONSTANTS
    Slots <- OneEach
    Dialers = {"client", "server"}
    DuplicatePeers = 2
    Bounds <- Two
INVARIANTS NoLimbo
CHECK_DEADLOCK FALSE
