SPECIFICATION FairSpec
CONSTANTS
    ModelSeq <- LampAndSwitch
    NodeOf <- Owner
    Kind <- KindOf
    GroupNames = {"g1", "g2"}
    MaxAddress = 2
    DupKinds = {"ADD", "DELETE"}
    MaxCreates = 3
    MaxCommands = 3
    MaxFaults = 1
INVARIANTS
    TypeOK
    DatabaseFollowsNodes
    CommandDone
PROPERTIES
    CommandsEnd
CHECK_DEADLOCK FALSE
