SPECIFICATION Spec
CONSTANTS
    a = a
    b = b
    Devices = {a, b}
    Elements <- TwoElements
    MaxAddress = 6
    MaxSeq = 2
    MaxIv = 1
    MaxGiven = 3
    MaxRestarts = 1
    Inside = {FALSE}
INVARIANTS
    TypeOK
    NewNodeHeard
    FileFollowsCore
PROPERTIES
    OnlyFollowerForgotten
    OwnSequenceFresh
CHECK_DEADLOCK FALSE
