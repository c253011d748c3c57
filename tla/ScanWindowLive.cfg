SPECIFICATION FairSpec
CONSTANTS
    NArms = 2
    NChan = 6
    MaxWindows = 2
    QuietRounds = 2
    MergedArms <- FirstTwo
    MaxBoots <- OneEach
    MaxResets = 0
    MaxFaults = 0
    UserRequests = {"scan"}
    LocateModes = {FALSE}
PROPERTIES
    WindowCloses
