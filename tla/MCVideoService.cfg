\* Two viewers of a monitor, who may leave and come back, refresh requests and
\* changed settings, and a viewer of the camera with the monitor's index.
CONSTANTS
    Conns = {c1, c2}
    AckRequired = {}
    CameraConns = {k}
    MaxLag = 1
    MaxJoins = 2
    MaxRequests = 1
SYMMETRY MCSymmetry
SPECIFICATION Spec
INVARIANTS TypeOK NewcomersShareEncoder WaitsAreAnswered RefreshIsNotLost
CHECK_DEADLOCK FALSE
