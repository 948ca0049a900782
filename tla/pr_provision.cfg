SPECIFICATION FairSpec
CONSTANTS
    px = px
    a = a
    Devices = {px, a}
    Known <- KnownNodes
    GattProxies = {px, a}
    Rejects = {"APP_KEY"}
    DupKinds = {"BIND"}
    Finishes = {TRUE, FALSE}
    Overlaps = {FALSE}
    MAX_CONNECT_RETRIES = 2
    MaxProvisions = 2
    MaxConnects = 1
    MaxDisconnects = 0
    MaxCommands = 1
    MaxResets = 1
    MaxDrops = 1
    MaxDups = 1
INVARIANTS
    TypeOK
    CompleteMeansConfigured
    DatabaseOK
PROPERTIES
    SuccessMeansConfigured
    StepsAsPromised
    EndIndicated
CHECK_DEADLOCK FALSE
