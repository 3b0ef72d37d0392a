SPECIFICATION FairSpec
CONSTANTS
    None = None
    MaxOwner = 1
    MaxRevision = 1
    MaxToken = 2
    Faults = {"die", "bus", "stop", "activation", "revive", "other"}
    Write <- TurnOn
PROPERTIES
    KeepsPromise
    WriteEnds
    Converges
