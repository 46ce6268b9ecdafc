SPECIFICATION FairServiceSpec
CONSTANTS
    MaxEntries = 2
    MaxFiles = 1
    Receipts = 2
    MaxPromotions = 1
    MaxNow = 1
    MaxFaults = 1
    MaxOperatorRuns = 1
    StartLimit = 2
    MaxHandStarts = 2
INVARIANTS
    StartsAreAccepted
PROPERTIES
    EntriesAreTriaged
CHECK_DEADLOCK FALSE
