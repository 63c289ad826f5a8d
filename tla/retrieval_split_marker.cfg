CONSTANTS
    Newline = "nl"
    MaxStreamBytes = 6
    MaxIndexEntries = 4
    Bytes = {"nl", "m", "k"}
    Streams <- AllStreams
    Literals = {"m", "k"}
    Markers <- MarkerSet
    Here = "here"
    Elsewhere = {"elsewhere"}
    MaxMatches = 2
    MaxScanBytes = 5
    MaxLinesPerQuery = 2
    MaxDamage = 1
    NoCursor = NoCursor
SPECIFICATION Spec
INVARIANT
    SplitMarkerBlocked
CHECK_DEADLOCK FALSE
