\* Two worker threads, one client that calls and one that ends its session or
\* the server, or vanishes.
SPECIFICATION FairSpec
CONSTANTS
    NumConns = 2
    Args <- SomeFunctions
    MaxId = 2
    Suppress = TRUE
    Thread = {"t1", "t2"}
    Plans <- MCPlans
CHECK_DEADLOCK FALSE
INVARIANTS
    OneChainPerSession
PROPERTIES
    ImplementsRpcPeer
    CallsAnswered
    ExitClosesSession
