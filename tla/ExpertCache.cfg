CONSTANTS
    a = a
    b = b
    c = c
    empty = empty
    huge = huge
    t1 = t1
    t2 = t2
    Keys = {a, b, c, huge, empty}
    Threads = {t1, t2}
    Size <- SizeOf
    Capacity = 3
    AdmitAfter = 2
    HeatCap = 2
    Snapshots <- HeatFiles
SPECIFICATION FairSpec
INVARIANTS CacheConsistent Accounting LeasesPin AdmissionHysteresis
PROPERTIES RefusalsJustified EvictsLeastRecent WaitersWake
