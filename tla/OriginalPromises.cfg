SPECIFICATION Spec
CONSTANTS
    Slots <- OneEach
    Dialers = {"client"}
    DuplicatePeers = 2
    Bounds <- Round
INVARIANTS NoCrossTalk DisconnectTold
CHECK_DEADLOCK FALSE
