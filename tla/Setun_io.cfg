CONSTANTS
    RT = 4
    ZONE_DRUM_BEG = 5
    ZONE_DRUM_END = 40
    Tapes1 <- MCTapes1
    Tapes2 <- MCTapes2
    DrumImages <- MCDrum
    Pokes <- MCPokes
    Dumps <- MCDumps
    PrintModes <- MCPrintModes
    MaxSteps = 4
SPECIFICATION Spec
PROPERTIES
    PunchReadsBack
    PagesStayWhole
    PrintedCommandsReadBack
    DumpFollowsThePages
CHECK_DEADLOCK FALSE
