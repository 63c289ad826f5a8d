CONSTANTS
    Programs <- AllPrograms
    PipeCapacity = 2
    Timeout = 2
    Signals = {2, 15}
    MaxSignals = 2
SPECIFICATION FairSpec
INVARIANTS
    TypeOK
    OutputKept
    GroupGone
    VerdictNamesTheReason
    StatusIsCommands
    SmallOutputCompletes
PROPERTIES
    RunEndsUnlessHeld
CHECK_DEADLOCK FALSE
