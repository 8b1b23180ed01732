CONSTANTS
    Names = {t1, t2}
    NULL = NULL
    Signals = {SIGSEGV, SIGFPE, SIGABRT}
    SIGABRT = SIGABRT
    UT_MAX_TESTS = 4
SPECIFICATION Spec
INVARIANT EveryFaultIsContained
