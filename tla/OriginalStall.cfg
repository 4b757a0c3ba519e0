SPECIFICATION ChannelSpec
CONSTANTS
    RELIABLE_WINDOWS = 6
    RELIABLE_WINDOW_SIZE = 2
    FREE_RELIABLE_WINDOWS = 3
    UNSEQUENCED_WINDOWS = 4
    UNSEQUENCED_WINDOW_SIZE = 2
    FREE_UNSEQUENCED_WINDOWS = 2
    UnreliableMax = 2
    WindowBytes = 4
    MaximumWaitingData = 2
    Start = 9
    StartGroup = 6
    MaxTimeouts = 1
    Plans <- MCPlans
INVARIANT NoStall
CHECK_DEADLOCK FALSE
