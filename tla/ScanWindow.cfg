SPECIFICATION Spec
CONSTANTS
    NArms = 2
    NChan = 6
    MaxWindows = 2
    QuietRounds = 2
    MergedArms <- FirstTwo
    MaxBoots <- FirstTwice
    MaxResets = 1
    MaxFaults = 1
    UserRequests = {}
    LocateModes = {FALSE}
INVARIANTS
    TypeOK
    DeliveredArePresent
    BookedOrWhole
    DeliveryUnspent
    EveryChannelSwept
