\* LanServer::restart sets the status after the generation.
SPECIFICATION FairSpec
CONSTANTS
    Addrs = {}
    AnyAddr = AnyAddr
    WebGateway = WebGateway
    Sources = {lan}
    Private = {lan}
    Networks = {{}}
    Writers = {w1}
    MaxRestarts = 1
PROPERTY StatusSettles
