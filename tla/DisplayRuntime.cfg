SPECIFICATION RuntimeSpec
CONSTANTS
    panel = panel
    low = low
    high = high
    Output = {panel}
    Mode = {low, high}
    Layouts <- MCLayouts
    MaxRevision = 1
    MaxToken = 1
    OpenDriver = FALSE
    NoJournal = NoJournal
    Mishaps = {"expire", "refuse", "authority"}
    MaxSignals = 2
INVARIANTS
    SafeMeansGuarded
    NoTrialAsleep
