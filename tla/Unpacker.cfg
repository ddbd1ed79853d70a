SPECIFICATION Spec
CONSTANTS
    Messages <- MCMessages
    Encoded <- MCEncoded
    COUNTER_SIZE = 4
    InitialSize = 8
    MaxRead = 8
    Doublings = 4
    ReadSizes <- MCReadSizes
INVARIANTS
    ReadFits
    HeldIntact
    CountsMatchHolders
PROPERTIES
    AllDelivered
CHECK_DEADLOCK FALSE
