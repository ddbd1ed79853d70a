CONSTANTS
    Thread <- MCThread
    Outside <- MCOutside
    Script <- MCScript
    MaxArrivals <- MCMaxArrivals
SPECIFICATION Spec
INVARIANTS
    TypeOK
    WorkAccounted
    QueuedOnce
PROPERTIES
    ImplementsStrand
    HandlersRun
    StopReturns
CHECK_DEADLOCK FALSE
