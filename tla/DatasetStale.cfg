SPECIFICATION DatasetSpec
CONSTANTS
    Chunkings = {c1, c2}
    Default = c1
    Absent = Absent
INVARIANTS
    CorpusOnDiskIsActive
CHECK_DEADLOCK FALSE
