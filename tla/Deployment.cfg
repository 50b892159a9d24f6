SPECIFICATION FairSpec
CONSTANTS
    u1 = u1
    u2 = u2
    p1 = p1
    NoKey = NoKey
    Keys = {u1, u2, p1}
    Pairs = {p1}
    Gpus = 2
    Blocks = 2
    Trials <- MCTrials
INVARIANTS
    CleanSlate
    SlotsServeTheTrial
    NothingOutlivesATrial
    NoPortOfACorpse
PROPERTIES
    OnlyReapedLeadersEscape
    PortRaceIsRetryable
    EvaluateEnds
CHECK_DEADLOCK FALSE
