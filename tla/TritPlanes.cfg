CONSTANTS
    N = 4
    Counts <- MCCounts
SPECIFICATION Spec
INVARIANTS
    TypeOK
    ImplementsNumbers
    WhatIsPrintedReadsBack
    ConversionIsRounding
    RegisterTakesLowTrits
    XorsAgree
