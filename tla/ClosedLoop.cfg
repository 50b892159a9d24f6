SPECIFICATION Spec
CONSTANTS
    Drivers = {d1, d2, d3}
    Initial = {d1, d2}
    Rows = {r1, r2}
    Span = 1
    Target = 2
    Explicit = FALSE
    SampleCap = 1
    MaxSeq = 8
    None = None
INVARIANTS
    TraceCustody
    ResultIsSound
PROPERTIES
    WindowOpensOnProof
    ClosedPopulation
SYMMETRY Symmetry
CHECK_DEADLOCK FALSE
