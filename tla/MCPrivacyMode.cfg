\* Two connections, the magnifier and the slow virtual displays.
CONSTANTS
    Conns = {c1, c2}
    None = None
    Impls = {mag, idd}
    AsyncImpls = {idd}
    TestedImpls = {mag}
    MaxRequests = 2
SPECIFICATION FairSpec
INVARIANTS TypeOK OthersEndItOnFailure EndsWithConnection
PROPERTY RequestsEnd
CHECK_DEADLOCK FALSE
