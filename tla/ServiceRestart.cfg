SPECIFICATION FairRecovery
CONSTANTS
    panel = panel
    monitor = monitor
    low = low
    mid = mid
    high = high
    Output <- MCOutput
    Mode <- MCMode
    Layouts <- LidLayouts
    MaxRevision = 2
    MaxToken = 9
    OpenDriver = FALSE
    NoJournal = NoJournal
    NoRequest = NoRequest
    MaxLineage = 1
    MaxQueued = 0
    LastTrial = 1
    Faults = {"restart", "external", "owner"}
    ReliableJournal = TRUE
INVARIANTS
    RollbackScope
    ServiceTypeOK
PROPERTIES
    RestoreOrConsent
    JournalResolves
