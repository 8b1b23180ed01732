CONSTANTS
    Characters <- MCCharacters
    Space = Space
    PunchFrames = {1, 2}
    Hole = Hole
    Programs = {"steady", "shrinking", "unlisted"}
    List <- MCList
    SourceFile <- MCSourceFile
    Script <- MCScript
    FirstTape <- MCFirstTape
    Missing = Missing
    Empty = Empty
    MAX_NAME = 6
    BlankFrame <- MCBlankFrame
    SEPARATORS = 1
    BLOCK = 5
    PUNCH_BLOCK = 2
    PAGE = 3
    MAX_OPEN = 10
    MaxLoads = 2
    MaxBegins = 2
    MaxPages = 2
SPECIFICATION Spec
CHECK_DEADLOCK FALSE
INVARIANTS
    TypeOK
    ReaderKeepsItsPlace
    TapeAndScriptBelongTogether
    PunchedFileIsOutput
    LoadIsAllOrNothing
