CONSTANTS
    Procs = {p1}
    RunIds = {r1}
    Ops = {"commit", "delete", "purge_all"}
    Sizes = {1}
    TTL = 1
    TombstoneTTL = 1
    MaxStreamBytes = 1
    MaxTotalBytes = 9
    MaxRecords = 1
    SweepLimit = 2
    Final = final
    NoRun = norun
    NoAnswer = noanswer
    MaxClock = 2
    MaxFaults = 0
    MaxCrashes = 1
SYMMETRY Symmetry
SPECIFICATION Spec
INVARIANTS
    PurgeAllErases
