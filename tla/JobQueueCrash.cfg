CONSTANTS
    mother = mother
    father = father
    child = child
    r1 = r1
    r2 = r2
    NoJob = NoJob
    Jobs <- MCJobs
    Graphs <- MCGraphs
    Parents <- MCParents
    Runners = {r1}
    MaxRetries = 2
    MaxConflicts = 0
    ByHand = {}
SPECIFICATION CrashSpec
PROPERTIES
    Released
CHECK_DEADLOCK FALSE
