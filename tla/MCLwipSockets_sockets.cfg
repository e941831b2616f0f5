SPECIFICATION FairSpec
CONSTANTS
    c1 = c1
    c2 = c2
    Most = 3
    Conns = {c1, c2}
    Listener = Listener
    None = None
    MboxSize = 2
    MaxSegments <- Segments
INVARIANTS
    TypeOK
    EventsCounted
    SleepsWhileNothingReadable
    ReadableIsRead
PROPERTIES
    ImplementsStreams
    EndIsSeen
CHECK_DEADLOCK FALSE
