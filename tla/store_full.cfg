CONSTANTS
    Procs = {p1, p2}
    RunIds = {r1, r2, r3}
    Ops = {"commit", "purge_all", "purge_expired"}
    Sizes = {1}
    TTL = 1
    TombstoneTTL = 1
    MaxStreamBytes = 1
    MaxTotalBytes = 9
    MaxRecords = 1
    SweepLimit = 2
    Final = final
    NoRun = norun
    NoAnswer = noanswer
    MaxClock = 0
    MaxFaults = 0
    MaxCrashes = 0
SPECIFICATION FairSpec
INVARIANTS
    QuotaBound
PROPERTIES
    OperationsEnd
