SPECIFICATION FairSpec
CONSTANTS
    NArms = 1
    NChan = 6
    MaxWindows = 2
    QuietRounds = 2
    MergedArms <- FirstOne
    MaxBoots <- OneEach
    MaxResets = 0
    MaxFaults = 0
    UserRequests = {"scan"}
    LocateModes = {TRUE, FALSE}
PROPERTIES
    RescanServed
