\* Two clients, one of which may vanish at any moment.
SPECIFICATION FairSpec
CONSTANTS
    NumConns = 2
    Text = {"a", "END"}
    MaxId = 2
    SendCap = 2
    RecvCap = 1
    FdSetSize = 64
    ServerSigPipe = FALSE
    Deaf = {}
    Mortal = {1}
CHECK_DEADLOCK FALSE
INVARIANTS
    IteratorValid
PROPERTIES
    ImplementsEchoPeer
    EveryRequestAnswered
