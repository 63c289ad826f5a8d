CONSTANTS
    Procs = {p1}
    RunIds = {r1, r2}
    Ops = {"commit", "retrieve", "report", "delete", "purge_all", "purge_expired", "status"}
    Sizes = {1, 2}
    TTL = 1
    TombstoneTTL = 1
    MaxStreamBytes = 1
    MaxTotalBytes = 9
    MaxRecords = 2
    SweepLimit = 2
    Final = final
    NoRun = norun
    NoAnswer = noanswer
    MaxClock = 2
    MaxFaults = 0
    MaxCrashes = 2
SYMMETRY Symmetry
SPECIFICATION Spec
INVARIANTS
    LoneProcessesSucceed
