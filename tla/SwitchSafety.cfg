SPECIFICATION SpecDnd
CONSTANTS
    None = None
    MaxOwner = 2
    MaxRevision = 1
    MaxToken = 2
    Faults = {"die", "other", "bus"}
    Write <- AnyWrite
INVARIANTS
    TypeOKDnd
    NoLostInvalidation
    OwnCompletion
    SavingMeansPending
    SwitchFollowsClient
PROPERTIES
    SavedIsConfirmed
VIEW WithoutHistory
