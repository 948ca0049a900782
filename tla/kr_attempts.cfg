SPECIFICATION FairSpec
CONSTANTS
    loc = loc
    n1 = n1
    n2 = n2
    n3 = n3
    net = net
    app = app
    Nodes = {loc, n1, n2, n3}
    Local = loc
    Provisioners = {loc}
    NetKey = net
    AppKeys = {app}
    Broadcast = all
    ClientControl = FALSE
    Removable = {n1, n2}
    Proxies = {n3}
    Flaky = {n1}
    AckLoss = FALSE
    MaxConnects = 3
    MaxDisconnects = 0
    MaxDrops = 0
    MaxDups = 0
    MaxCrashes = 0
    MaxReopens = 0
    NodeOrder <- FourNodes
    KeyOrder <- FourNodesKeys
PROPERTIES
    RefreshAttemptEnds
    ConnectEnds
    RefreshCompletes
CHECK_DEADLOCK FALSE
