SPECIFICATION FairSpec
CONSTANTS
    p1 = p1  p2 = p2  g1 = g1  s1 = s1  s2 = s2  r1 = r1
    Stable = Stable
    NoJob = NoJob
    Missing = Missing
    Partitions = {p1}
    FileCount = 3
    Stamped = {2}
    Versions = {v1, v2, v3, v4}
    Groups = {g1}
    GroupOf <- OneDayGroup
    Jobs = {r1}
    RecoverJobs = {r1}
    Scope <- OneDayScope
    JobGroup <- OneDayJobGroup
    MaxAttempts = 2
    MaxFaults = 1
    MaxExpiries = 0
PROPERTIES
    InterruptionIsSafe
CHECK_DEADLOCK FALSE
