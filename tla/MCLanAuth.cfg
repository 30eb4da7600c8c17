\* Two sources of one prefix; delays of 0, 1 and 2 seconds of two ticks each.
CONSTANTS
    ip1 = ip1  ip2 = ip2  prefix = prefix  c1 = c1  c2 = c2  c3 = c3
    Conns = {c1, c2}
    Keys <- MCKeys
    IpOf <- MCIpOf
    KeysOf <- MCKeysOf
    Permits = 1
    Second = 2
    BackoffMax = 2
    IdleReset = 4
    MaxTime = 5
    MaxRevision = 1
SPECIFICATION Spec
INVARIANTS TypeOK RetryAfterIsEnough PermitsAreReturned
PROPERTY BackoffStands
SYMMETRY MCSymmetry
