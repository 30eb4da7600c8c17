\* A second connection asks for the mode while the first one has it.
CONSTANTS
    Conns = {c1, c2}
    None = None
    Impls = {mac}
    AsyncImpls = {}
    TestedImpls = {}
    MaxRequests = 2
SPECIFICATION Spec
INVARIANT OnlyOwnerTurnsOff
CHECK_DEADLOCK FALSE
