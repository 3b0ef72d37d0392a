SPECIFICATION ServiceSpec
CONSTANTS
    panel = panel
    monitor = monitor
    low = low
    mid = mid
    high = high
    Output <- MCOutput
    Mode <- MCMode
    Layouts <- TwoLayouts
    MaxRevision = 2
    MaxToken = 9
    OpenDriver = FALSE
    NoJournal = NoJournal
    NoRequest = NoRequest
    MaxLineage = 1
    MaxQueued = 9
    LastTrial = 1
    Faults = {"metadata"}
    ReliableJournal = TRUE
PROPERTIES
    TimeoutNeverCommits
