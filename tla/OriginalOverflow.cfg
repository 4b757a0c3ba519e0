SPECIFICATION FlowSpec
CONSTANTS
    HostIn = {0, 8}
    HostOut = {0, 7, 11}
    PeerIn = {0, 3}
    PeerOut = {0, 3, 8}
    Word = 32
    Second = 2
    Periods = {2, 3}
    Amounts = {4, 6}
    CommandSize = 1
    Scale = 4
    Counter = 3
    Acceleration = 1
    Deceleration = 2
    DefaultRtt = 10
    Samples = {2, 12}
    WindowScale = 3
    MinWindow = 2
    MaxWindow = 4
    MaxTotal = 12
    Budgets <- MCBudgets
PROPERTY NeverNeedless
CHECK_DEADLOCK FALSE
