SPECIFICATION FairSpec
CONSTANTS
    ModelSeq <- LampAndSwitch
    NodeOf <- Owner
    Kind <- KindOf
    GroupNames = {"g1", "g2", "g3"}
    MaxAddress = 2
    DupKinds = {}
    MaxCreates = 3
    MaxCommands = 2
    MaxFaults = 0
PROPERTIES
    NewGroupEmpty
CHECK_DEADLOCK FALSE
