SPECIFICATION IngestSpec
CONSTANTS
    Builders = {p1, p2}
    IngestJobs <- MCShared
    DocIds <- MCDocIds
    EmbedBatch = 2
    NoPair = NoPair
INVARIANT
    StoresHoldTheirCorpus
CHECK_DEADLOCK FALSE
