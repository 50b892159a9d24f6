SPECIFICATION MCSpec
CONSTANTS
    Nodes <- MCNodes
    Cards = 2
    Key <- MCKey
    Width <- MCWidth
    Aux <- MCAux
    NoNode = 0
    Fingerprints = {f, g}
    Metrics <- MCMetrics
    MaxSamples = 3
    Nothing = Nothing
    Procs = {p1, p2}
    Gone = Gone
    Chunkings = {c1, c2}
    Default = c1
    Absent = Absent
    Builders = {p1, p2}
    IngestJobs <- MCJobs
    DocIds <- MCDocIds
    EmbedBatch = 2
    NoPair = NoPair
    Arrivals <- MCArrivals
    LlmLines <- MCLlmLines
    DenseHits <- MCDense
    SparseHits <- MCSparse
    Relevance <- MCRelevance
    IdText <- MCIdText
    Tokens <- MCTokens
    LateScore <- MCLateScore
    AnswerSteps <- MCAnswerSteps
    StepScore <- MCStepScore
    Modified <- MCModified
    DocOrder <- MCDocOrder
    TopK = 4
    Chunk = 3
    Replicas = 2
    Blank = Blank
    NoHits = NoHits
    Candidates = {1, 2}
    Preferred <- MCPreferred
    MinSpan = 1
    Population <- MCPopulation
    MaxDone = 7
    Never = Never
    Chain <- MCChain
    Requests = {q1, q2}
    Engines = {"generator", "expander"}
    Direct = {"filter"}
    MaxInflight = 1
    BatchSize = 2
    MaxIter = 2
    Gaps = {2, 3}
    MaxWaves = 26
    MaxTail = 4
    CardIds = {0, 1}
    Total = 80
    Layouts <- MCLayouts
    AuxStages = {"encoder", "reranker"}
    Reserve <- MCReserve
    Stale = 40
    Calls = {1, 2}
    Prompts = {t1, t2}
    LoopIds = {i1, i2}
    MaxNumSeqs = {0, 1, 2}
INVARIANTS
    SlotEnginesNeverCoreside
    ScoresAreOfTheAnswers
    ServedCorpusIsCurrent
    EvaluationsSeeTheirCorpus
    IngestCoversTheCorpus
    BatchingIsInvisible
    SaturationProofIsFresh
    WindowStatsAreTheWindow
    RoundsAreAccountedFor
    EvidenceIsSound
    PlansFitTheCards
    CallsCleanUpAfterThemselves
    RequestsFitTheContext
PROPERTIES
    BrokenEnginesAreNotReused
CHECK_DEADLOCK FALSE
