SPECIFICATION FairSpec
CONSTANTS
    panel = panel
    monitor = monitor
    low = low
    mid = mid
    high = high
    Output <- MCOutput
    Mode <- MCMode
    Layouts <- SwapLayouts
    MaxRevision = 1
    MaxToken = 2
    OpenDriver = TRUE
    NoJournal = NoJournal
INVARIANTS
    TypeOK
    NoStrandedPreimage
    UnsafeNeverForward
    NoOrphanJournal
    ForwardCovered
    TokenFence
    AwaitingShowsTarget
    StagedFence
PROPERTIES
    ForwardOnce
    ReadyIsDurable
    DeadlineResolves
