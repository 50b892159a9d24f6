SPECIFICATION ReuseSpec
CONSTANTS
    Fingerprints = {f, g}
    Metrics <- MCMetrics
    MaxSamples = 4
    Nothing = Nothing
INVARIANTS
    AskedMetricsAreReturned
CHECK_DEADLOCK FALSE
