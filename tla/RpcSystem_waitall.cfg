SPECIFICATION Spec
CONSTANTS
    NumConns = 1
    Args <- MCCaller
    User <- MCCaller
    Does <- MCCallerDoes
    MaxId = 2
PROPERTIES
    WaitAllWaits
CHECK_DEADLOCK FALSE
