CONSTANTS
    Procs = {p1, p2}
    RunIds = {r1}
    Ops = {"commit", "retrieve", "report", "delete", "purge_all", "purge_expired", "status"}
    Sizes = {1}
    TTL = 1
    TombstoneTTL = 1
    MaxStreamBytes = 1
    MaxTotalBytes = 9
    MaxRecords = 1
    SweepLimit = 2
    Final = final
    NoRun = norun
    NoAnswer = noanswer
    MaxClock = 2
    MaxFaults = 1
    MaxCrashes = 1
SYMMETRY Symmetry
SPECIFICATION Spec
INVARIANTS
    FailedReceiptUnretrievable
    TombstoneMeansGone
    DeletedMeansErased
PROPERTIES
    KeepsLifecycle
