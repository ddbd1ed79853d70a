\* Two frames, bytes of three values, numbers of two bytes, small chunks.
SPECIFICATION Spec
CONSTANTS
    Base = 3
    Width = 2
    SomeIds = {1, 8}
    MaxPayload = 2
    MaxFrames = 2
    Chunk = 7
CHECK_DEADLOCK FALSE
INVARIANTS
    FramesSurviveChunking
PROPERTIES
    ImplementsFrameStream
