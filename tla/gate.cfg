CONSTANTS
    Nodes <- NodeKinds
    Links <- LinkTargets
    Root <- Work
    Cwd <- WorkDir
    Blocked = {"env"}
    Requests <- RequestSet
    Questions <- QuestionSet
    Texts <- TextSet
    ErrTexts <- ErrTextSet
    Names <- NameSet
    Statuses = {0, 1, 3, None}
    None = None
    MaxLines = 3
    MaxMatchLine = 5
    MaxFaults = 1
    Omitted <- OmittedNotice
    Marker <- MarkerNotice
    Header <- HeaderText
    Footer <- FooterText
SPECIFICATION Spec
INVARIANTS
    TypeOK
    NothingSecretLeaves
    PolicyHolds
    BlockedLeavesNothing
    KeptInFull
    SuccessIsTold
    StoredIsNamed
    AnswersFit
    ReadIsItsSpelling
