SPECIFICATION Spec
CONSTANTS
    TimeRange = 64
    LowRange = 8
    TimeOverflow = 32
    RoundTripTimeouts = {1, 2}
    TimeoutLimit = 2
    TimeoutMinimum = 4
    TimeoutMaximum = 5
    PingInterval = 3
    Start = 58
    MaxStep = 2
    MaxElapsed = 22
    MaxCommands = 4
INVARIANTS UnackedEnds
CHECK_DEADLOCK FALSE
