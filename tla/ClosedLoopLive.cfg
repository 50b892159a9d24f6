SPECIFICATION FairSpec
CONSTANTS
    Drivers = {d1, d2}
    Initial = {d1}
    Rows = {r1, r2}
    Span = 1
    Target = 1
    Explicit = TRUE
    SampleCap = 1
    MaxSeq = 7
    None = None
PROPERTIES
    AttemptEnds
CHECK_DEADLOCK FALSE
