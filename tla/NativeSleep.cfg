SPECIFICATION Spec
CONSTANTS
    MaxRequests = 2
    MaxSignals = 1
    Faults = {"expire", "admission", "lock", "owner"}
INVARIANTS
    ResultIsTrue
    OfferIsCurrent
PROPERTIES
    OnlyBehindLock
