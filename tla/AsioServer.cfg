\* Two clients: one never reads its replies and may vanish.
SPECIFICATION FairSpec
CONSTANTS
    NumConns = 2
    Text = {"a", "END"}
    MaxId = 2
    SendCap = 1
    RecvCap = 1
    Threads = 2
    Deaf = {1}
    Mortal = {1}
CHECK_DEADLOCK FALSE
INVARIANTS
    OneWriteInFlight
    RepliesInRequestOrder
PROPERTIES
    ImplementsEchoPeer
    EveryRequestAnswered
