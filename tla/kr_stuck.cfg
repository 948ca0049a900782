SPECIFICATION Spec
CONSTANTS
    loc = loc
    n1 = n1
    n2 = n2
    n3 = n3
    net = net
    app = app
    Nodes = {loc, n1, n2}
    Local = loc
    Provisioners = {loc}
    NetKey = net
    AppKeys = {app}
    Broadcast = all
    ClientControl = FALSE
    Removable = {n1, n2}
    Proxies = {n1, n2}
    Flaky = {n1, n2}
    AckLoss = FALSE
    MaxConnects = 1
    MaxDisconnects = 0
    MaxDrops = 0
    MaxDups = 0
    MaxCrashes = 0
    MaxReopens = 0
    NodeOrder <- ThreeNodes
    KeyOrder <- ThreeNodesKeys
INVARIANTS
    WaitsForScheduled
CHECK_DEADLOCK FALSE
