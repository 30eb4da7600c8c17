\* One viewer is enough: its acknowledgement of one frame is taken for the next.
CONSTANTS
    Conns = {c1}
    AckRequired = {c1}
    CameraConns = {}
    MaxLag = 2
    MaxJoins = 1
    MaxRequests = 0
SPECIFICATION Spec
INVARIANT AllReceivedCurrentFrame
CHECK_DEADLOCK FALSE
