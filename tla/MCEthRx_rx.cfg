SPECIFICATION FairSpec
CONSTANTS
    RingSize = 3
    MaxTokens = 4
    MboxSize = 2
    Size <- Pools2
    MaxFrames = 7
    None = None
    Api = Api
    PoolEmpty = PoolEmpty
    Idle = Idle
INVARIANTS
    TypeOK
    FrameForEveryToken
    NothingLeaks
PROPERTIES
    ImplementsLink
    NeverCaughtUp
    ReadUnlessCoalesced
CHECK_DEADLOCK FALSE
