SPECIFICATION FairSpec
CONSTANTS
    NumConns = 1
    Args <- MCUser
    User <- MCUser
    Does <- MCDoes
    MaxId = 2
INVARIANTS
    WaitingPromiseIsHeld
    ResponseFindsItsCall
    OneWriteChain
    OwnResult
    RunsWhileConnected
PROPERTIES
    TimedWaitsEnd
    DestructorReleases
CHECK_DEADLOCK FALSE
