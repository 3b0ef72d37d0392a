SPECIFICATION FairSpec
CONSTANTS
    MaxRequests = 1
    MaxSignals = 1
    Faults = {"fail", "owner"}
INVARIANTS
    TypeOK
PROPERTIES
    RequestEnds
    DelayReturns
    HintConverges
