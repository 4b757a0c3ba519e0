SPECIFICATION Spec
CONSTANTS
    Slots <- OneEach
    Dialers = {"client"}
    DuplicatePeers = 2
    Bounds <- Two
INVARIANTS QueueIntact
CHECK_DEADLOCK FALSE
