SPECIFICATION FairSpec
CONSTANTS
    t1 = t1
    t2 = t2
    web = web
    console = console
    None = None
    Trackers <- TwoTrackers
    Callers <- TwoCallers
    MaxTargets = 2
    MaxCalls = 4
    MaxIngests = 2
INVARIANTS
    TypeOK
    OneAtATime
    StopBounded
PROPERTIES
    CancelHonoured
    CooldownKept
    HowlEnds
