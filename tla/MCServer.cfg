\* Two connections, one monitor, the cursor service: joins and leaves race
\* with the snapshots.
SPECIFICATION Spec
CONSTANTS
    Conns = {c1, c2}
    NoConn = NoConn
    Services = {m0, cursor, focus}
    VideoServices = {m0}
    Cameras = {}
    Primary = m0
    Focus = focus
    Snapshotting = {m0, cursor}
    StateServices = {cursor}
SYMMETRY Symmetry
INVARIANTS TypeOK TablesDisjoint ClosedIsUnsubscribed WantedIsSubscribed PromotedIsCurrent
CHECK_DEADLOCK FALSE
