CONSTANTS
    Chars <- MCChars
    Separators <- MCSeparators
    CMD_INPUT_BUF_SIZE = 6
    CMD_HISTORY_SIZE = 2
    CMD_MAX_ARGS = 2
    CMD_MAX_CMDS = 32
    NULL = NULL
    MaxKeys = 9
SPECIFICATION Spec
CHECK_DEADLOCK FALSE
INVARIANTS
    TypeOK
    HistoryIsTheNewestLines
    RecallShowsTheIndex
    ParserFindsTheWords
PROPERTIES
    LineRunsItsCommand
