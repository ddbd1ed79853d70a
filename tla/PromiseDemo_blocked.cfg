\* More outstanding requests than the socket buffers hold replies for.
SPECIFICATION FairSpec
CONSTANTS
    NumConns = 1
    Text = {"a", "END"}
    MaxId = 6
    SendCap = 1
    RecvCap = 1
    User = {"main"}
    Messages <- ManyRequests
    SigPipe = FALSE
    ServerSigPipe = FALSE
    FdSetSize = 64
    MayBreak = FALSE
CHECK_DEADLOCK FALSE
PROPERTIES
    DemoWaitersAreReleased
