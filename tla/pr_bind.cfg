SPECIFICATION FairSpec
CONSTANTS
    px = px
    a = a
    Devices = {px, a}
    Known <- KnownNodes
    GattProxies = {px, a}
    Rejects = {"BIND"}
    DupKinds = {"SET", "BIND"}
    Finishes = {TRUE, FALSE}
    Overlaps = {FALSE}
    MAX_CONNECT_RETRIES = 2
    MaxProvisions = 1
    MaxConnects = 1
    MaxDisconnects = 0
    MaxCommands = 1
    MaxResets = 0
    MaxDrops = 1
    MaxDups = 0
PROPERTIES
    SuccessMeansConfigured
CHECK_DEADLOCK FALSE
