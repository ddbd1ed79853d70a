\* The demo as shipped, on POSIX: one connection, three requests that fit the
\* socket buffers, a connection that may break.
SPECIFICATION FairSpec
CONSTANTS
    NumConns = 1
    Text = {"hello", "promise", "world", "END"}
    MaxId = 3
    SendCap = 2
    RecvCap = 2
    User = {"main"}
    Messages <- ThreeRequests
    SigPipe = TRUE
    ServerSigPipe = TRUE
    FdSetSize = 64
    MayBreak = TRUE
PROPERTIES
    ImplementsPromiseSystem
    MainEnds
