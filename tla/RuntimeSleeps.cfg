SPECIFICATION FairRuntime
CONSTANTS
    panel = panel
    low = low
    high = high
    Output = {panel}
    Mode = {low, high}
    Layouts <- MCLayouts
    MaxRevision = 0
    MaxToken = 1
    OpenDriver = FALSE
    NoJournal = NoJournal
    Mishaps = {"refuse"}
    MaxSignals = 2
PROPERTIES
    SleepNotHeld
    GuardReturns
