SPECIFICATION Spec
CONSTANTS
    c1 = c1
    Conns = {c1, c2}
    Nobody = Nobody
    NumSockets = 4
    NumNetconns = 4
    MaxConnection = 1
    Unset <- SomeUnset
    Endings = {"fin", "rst"}
    FollowUnclean = FALSE
SYMMETRY Symmetry
CHECK_DEADLOCK FALSE
INVARIANTS
    TypeOK
    WalkIsSound
    SessionsAreIsolated
    LoopNeverBlocks
    PasvNeedsRoom
    PendingCoversBacklog
PROPERTIES
    ClosedInOwnTurn
