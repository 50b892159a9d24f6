SPECIFICATION Spec
CONSTANTS
    Writers = {w1, w2}
    Threads = {t1, t2}
    Ids = {a, b}
    Batches <- SomeBatches
    MaxVersion = 6
    None = None
    a = a
    b = b
INVARIANTS
    ReadyIsOnePair
    EntriesAreCurrent
PROPERTIES
    KeepsPromise
SYMMETRY Symmetry
