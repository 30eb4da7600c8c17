\* One connection, two monitors and a camera: display switching, the
\* window-focus rule and promotion under fairness.
SPECIFICATION FairSpec
CONSTANTS
    Conns = {c1}
    NoConn = NoConn
    Services = {m0, m1, cam, focus}
    VideoServices = {m0, m1, cam}
    Cameras = {cam}
    Primary = m0
    Focus = focus
    Snapshotting = {m0, m1, cam}
    StateServices = {}
PROPERTIES ImplementsSubscriptions NewcomersAreServed
CHECK_DEADLOCK FALSE
