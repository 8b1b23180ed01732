CONSTANTS
    Addresses <- MCAddresses
    StartAddress = 1
    Zones <- MCZones
    Words = {w1}
    Blank = Blank
    Torn = Torn
    None = None
    COUNTER_RANGE = 2
    MaxStep = 2
    MaxCommands = 2
SPECIFICATION Spec
PROPERTY QuitIsOrderly
