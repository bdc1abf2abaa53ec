CONSTANTS
    a = a
    b = b
    w1 = w1
    w2 = w2
    root = root
    sub = sub
    NoJob = NoJob
    Jobs = {a, b}
    Workers = {w1, w2}
    Parents <- MCParents
    Channels = {root, sub}
    Root = root
    Ancestors <- MCAncestors
    ChannelOf <- MCChannelOf
    Capacity <- MCCapacity
    Sequential = {sub}
    MaxRequests = 1
SPECIFICATION FairSpec
INVARIANT RunningMeansSent
CHECK_DEADLOCK FALSE
