\* One connection that may break, two threads that call send_request().
SPECIFICATION FairSpec
CONSTANTS
    NumConns = 1
    Text = {"a", "b", "END"}
    MaxId = 3
    SendCap = 1
    RecvCap = 2
    User = {"main", "worker"}
    Messages <- TwoUsers
    SigPipe = FALSE
    MayBreak = TRUE
INVARIANTS
    TypeOK
    NoFutureOrphaned
    NoPromiseSetTwice
    LookupsSucceed
    ReplyIsEchoThenEnd
    RequestAccountedFor
PROPERTIES
    ImplementsRequestReply
    WaitersAreReleased
