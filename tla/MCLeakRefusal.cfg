SPECIFICATION LeakSpec
CONSTANTS
    LeakChecks = {1}
INVARIANTS RefusalIsNotSilence
CHECK_DEADLOCK FALSE
