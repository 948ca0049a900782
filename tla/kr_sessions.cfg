SPECIFICATION Spec
CONSTANTS
    loc = loc
    n1 = n1
    n2 = n2
    n3 = n3
    net = net
    app = app
    Nodes = {loc, n1, n2}
    Local = loc
    Provisioners = {loc}
    NetKey = net
    AppKeys = {app}
    Broadcast = all
    ClientControl = FALSE
    Removable = {n1, n2}
    Proxies = {n1, n2}
    Flaky = {n1, n2}
    AckLoss = TRUE
    MaxConnects = 2
    MaxDisconnects = 1
    MaxDrops = 1
    MaxDups = 0
    MaxCrashes = 1
    MaxReopens = 1
    NodeOrder <- ThreeNodes
    KeyOrder <- ThreeNodesKeys
INVARIANTS
    SwitchSafe
    PhaseSetsCurrent
    OneKeyBehind
    OldKeyRetired
CHECK_DEADLOCK FALSE
