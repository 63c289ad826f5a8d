CONSTANTS
    Nodes <- NodeSet
    Root = "root"
    Parent <- ParentOf
    Lines <- LinesOfNode
    Blocked <- BlockedNodes
    InitialTrees <- Trees
    MaxDepth = 1
    MaxEntries = 4
    MaxDiagnostics = 2
    MaxChanges = 1
SPECIFICATION Spec
INVARIANTS
    TypeOK
    CompleteMeansAll
    PartialForCause
    GapsAreTold
    MatchesAreClean
CHECK_DEADLOCK FALSE
