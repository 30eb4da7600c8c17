\* A viewer and a web client join, in any order, while the other may be stuck.
CONSTANTS
    Conns = {c1, c2}
    AckRequired = {c2}
    CameraConns = {}
    MaxLag = 1
    MaxJoins = 2
    MaxRequests = 0
SPECIFICATION FairSpec
INVARIANT WaitsAreAnswered
PROPERTY NewcomersGetVideo
CHECK_DEADLOCK FALSE
