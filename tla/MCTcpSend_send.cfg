SPECIFICATION FairSpec
CONSTANTS
    Total = 3
    WriteLen = 1
    MSS = 2
    SndBuf = 4
    QueueLen = 2
    MaxRtx = 1
    PeerBuf = 2
    WireSize = 1
    AcksSize = 2
INVARIANTS
    TypeOK
    NothingForgotten
    RetransmissionRuns
    SentWithinWindow
PROPERTIES
    ImplementsPipe
    TransferEnds
CHECK_DEADLOCK FALSE
