SPECIFICATION HistogramSpec
CONSTANTS
    Recorders = {r1, r2}
    NBuckets = 3
    NsPerUs = 2
    Latencies = {1, 7, 9}
    MaxSamples = 3
    Top = 99
INVARIANTS HistogramSafe SummarySound
CHECK_DEADLOCK FALSE
