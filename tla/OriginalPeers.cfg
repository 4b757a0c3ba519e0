SPECIFICATION FairSpec
CONSTANTS
    Slots <- OneEach
    Dialers = {"client"}
    DuplicatePeers = 2
    Bounds <- TwoOrRound
INVARIANTS CountsAgree EventsComplete NoLimbo SessionsApart
PROPERTIES AttemptsEnd
CHECK_DEADLOCK FALSE
