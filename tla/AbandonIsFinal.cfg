SPECIFICATION Spec
CONSTANTS
    panel = panel
    monitor = monitor
    low = low
    mid = mid
    high = high
    Output <- MCOutput
    Mode <- MCMode
    Layouts <- HotplugLayouts
    MaxRevision = 1
    MaxToken = 1
    OpenDriver = FALSE
    NoJournal = NoJournal
PROPERTIES
    AbandonIsFinal
