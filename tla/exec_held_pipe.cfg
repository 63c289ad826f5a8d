CONSTANTS
    Programs <- AllPrograms
    PipeCapacity = 2
    Timeout = 1
    Signals = {2, 15}
    MaxSignals = 0
SPECIFICATION FairSpec
PROPERTIES
    RunEnds
CHECK_DEADLOCK FALSE
