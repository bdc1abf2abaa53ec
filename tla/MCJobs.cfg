CONSTANTS
    mother = mother
    father = father
    child = child
    r1 = r1
    r2 = r2
    NoJob = NoJob
    Jobs <- MCJobs
    Graphs <- MCGraphs
    Parents <- MCParents
    Runners = {r1, r2}
    MaxRetries = 2
    MaxConflicts = 1
    ByHand = {mother, father}
    MaxNodes = 5
    MaxLinks = 2
    MaxParts = 2
    u1 = u1
    u2 = u2
    u3 = u3
    root = root
    sub = sub
    Uuids <- MCUuids
    Rank <- MCRank
    Channels = {root, sub}
    Root = root
    Ancestors <- MCAncestors
    ChannelOf <- MCChannelOf
    Configurations <- MCConfigurations
    Delays = {1, 2}
    MaxClock = 3
    Meddled = {u2}
    MaxMeddling = 1
SPECIFICATION JobsSpec
SYMMETRY MCSymmetry
INVARIANTS
    OneRunnerPerJob
    NotPerformedAgain
    StartsAfterParents
    OrderIsPromised
    WakesInTime
PROPERTIES
    ThrottleKept
    SequentialKept
CHECK_DEADLOCK FALSE
