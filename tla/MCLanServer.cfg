\* Two settings threads race with the supervisor and with each other.
SPECIFICATION FairSpec
CONSTANTS
    Addrs = {a1}
    AnyAddr = AnyAddr
    WebGateway = WebGateway
    Sources = {lan, wan}
    Private = {lan}
    Networks = {{}}
    Writers = {w1, w2}
    MaxRestarts = 1
INVARIANTS TypeOK RoundsDoNotOverlap NoLostRestart
PROPERTIES StopServiceStops SettingsAreServed
