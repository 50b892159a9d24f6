SPECIFICATION FairSpec
CONSTANTS
    Requests = {q1, q2, q3}
    PrefillSeqs = 1
    DecodeSeqs = 1
    StageLimit = 3
INVARIANTS
    PermitsConserved
    CountersTellTheTruth
    NoIdlePermit
    HandlesBounded
PROPERTIES
    EveryRequestEnds
CHECK_DEADLOCK FALSE
