SPECIFICATION Spec
CONSTANTS
    c1 = c1
    Conns = {c1, c2}
    Nobody = Nobody
    NumSockets = 4
    NumNetconns = 4
    MaxConnection = 2
    Unset <- NoUnset
    Endings = {"rst"}
    FollowUnclean = FALSE
SYMMETRY Symmetry
CHECK_DEADLOCK FALSE
PROPERTY
    OnlyTheCurrentIsClosed
