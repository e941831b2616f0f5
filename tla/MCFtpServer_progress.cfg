SPECIFICATION FairSpec
CONSTANTS
    c1 = c1
    Conns = {c1, c2}
    Nobody = Nobody
    NumSockets = 4
    NumNetconns = 4
    MaxConnection = 1
    Unset <- NoUnset
    Endings = {"rst"}
    FollowUnclean = FALSE
CHECK_DEADLOCK FALSE
PROPERTIES
    CommandServed
