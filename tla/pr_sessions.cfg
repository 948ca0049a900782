SPECIFICATION FairSpec
CONSTANTS
    px = px
    a = a
    Devices = {px, a}
    Known <- KnownNodes
    GattProxies = {px}
    Rejects = {"APP_KEY"}
    DupKinds = {"BIND"}
    Finishes = {TRUE, FALSE}
    Overlaps = {TRUE}
    MAX_CONNECT_RETRIES = 2
    MaxProvisions = 2
    MaxConnects = 1
    MaxDisconnects = 1
    MaxCommands = 1
    MaxResets = 0
    MaxDrops = 1
    MaxDups = 0
INVARIANTS
    QueueIsOurs
    ProxyIsPeer
PROPERTIES
    BusyEnds
CHECK_DEADLOCK FALSE
