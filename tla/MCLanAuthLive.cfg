\* Two sources, the credentials may change once, a short clock.
CONSTANTS
    ip1 = ip1  ip2 = ip2  prefix = prefix  c1 = c1  c2 = c2  c3 = c3
    Conns = {c1, c2}
    Keys <- MCKeys
    IpOf <- MCIpOf
    KeysOf <- MCKeysOf
    Permits = 1
    Second = 1
    BackoffMax = 1
    IdleReset = 1
    MaxTime = 1
    MaxRevision = 2
SPECIFICATION FairSpec
PROPERTIES CredentialChangeEndsSessions LoginsAreAnswered
