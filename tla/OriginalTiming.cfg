SPECIFICATION MCSpec
CONSTANTS
    TimeRange = 64
    LowRange = 8
    TimeOverflow = 32
    RoundTripTimeouts = {1, 2}
    TimeoutLimit = 2
    TimeoutMinimum = 4
    TimeoutMaximum = 5
    PingInterval = 3
    Start = 58
    MaxStep = 2
    MaxElapsed = 18
    MaxCommands = 2
    HostIn = {0, 8}
    HostOut = {0, 11}
    PeerIn = {0, 3}
    PeerOut = {0, 3, 8}
    Word = 32
    Second = 2
    Periods = {2, 3}
    Amounts = {4, 6}
    CommandSize = 1
    Scale = 4
    Counter = 3
    Acceleration = 1
    Deceleration = 2
    DefaultRtt = 10
    Samples = {2, 12}
    WindowScale = 3
    MinWindow = 2
    MaxWindow = 4
    MaxTotal = 12
    Budgets <- MCBudgets
INVARIANTS TimersExact EchoExact SilenceEnds LimitsFit ThrottleExact
PROPERTIES NotTooEarly ShareKept NoNeedlessLimit
CHECK_DEADLOCK FALSE
