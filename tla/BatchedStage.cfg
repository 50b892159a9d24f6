SPECIFICATION FairSpec
CONSTANTS
    Calls = {c1, c2, c3}
    BatchSize = 2
    Timed = TRUE
    None = None
INVARIANTS
    WorkerHearsQueue
    NoStrandedCall
    CloseLeavesNothingRunning
PROPERTIES
    KeepsPromise
    EveryCallEnds
    CloseCompletes
CHECK_DEADLOCK FALSE
