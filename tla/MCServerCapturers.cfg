\* An unsubscribe that races with a snapshot's swap.
SPECIFICATION Spec
CONSTANTS
    Conns = {c1}
    NoConn = NoConn
    Services = {m0, m1, cam, focus}
    VideoServices = {m0, m1, cam}
    Cameras = {cam}
    Primary = m0
    Focus = focus
    Snapshotting = {m0, m1, cam}
    StateServices = {}
INVARIANT UnneededCapturersRemoved
CHECK_DEADLOCK FALSE
