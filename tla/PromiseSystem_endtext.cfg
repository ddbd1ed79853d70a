\* A request whose text is the end marker.
SPECIFICATION Spec
CONSTANTS
    NumConns = 1
    Text = {"END"}
    MaxId = 1
    SendCap = 1
    RecvCap = 2
    User = {"main"}
    Messages <- EndText
    SigPipe = FALSE
    MayBreak = FALSE
INVARIANTS
    ReplyIsEchoThenEnd
