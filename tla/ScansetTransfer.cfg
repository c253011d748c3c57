SPECIFICATION FairSpec
CONSTANTS
    Size <- Lengths
    ArmBlocks = 3
    Cap = 2
    MaxScans = 4
    MaxRestarts = 1
    MaxFaults = 2
INVARIANTS
    TypeOK
    OneScan
PROPERTIES
    NewEachTime
    CatchesUp
