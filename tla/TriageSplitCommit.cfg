SPECIFICATION Spec
CONSTANTS
    MaxEntries = 3
    MaxFiles = 2
    Receipts = 2
    MaxPromotions = 1
    MaxNow = 2
    MaxFaults = 1
    MaxOperatorRuns = 0
INVARIANTS
    CrashWindowsReconcile
