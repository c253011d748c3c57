SPECIFICATION Spec
CONSTANTS
    Size <- Lengths
    ArmBlocks = 3
    Cap = 2
    MaxScans = 1
    MaxRestarts = 0
    MaxFaults = 0
INVARIANTS
    StoredWhole
