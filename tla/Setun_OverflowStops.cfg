CONSTANTS
    RT = 2
    ZONE_DRUM_BEG = 2
    ZONE_DRUM_END = 3
    Tapes1 <- MCTapes1
    Tapes2 <- MCTapes2
    DrumImages <- MCDrum
    Pokes <- MCPokes
    Dumps <- MCDumps
    PrintModes <- MCPrintModes
    MaxSteps = 2
SPECIFICATION Spec
PROPERTY OverflowStops
CHECK_DEADLOCK FALSE
