SPECIFICATION PowerSpec
CONSTANTS
    None = None
    h1 = h1
    h2 = h2
    StateHashes = {h1, h2}
    WatchdogResults <- DyingMonitor
    FaultPoints <- OutsideSync
    BackSteps = {}
    MaxEventFiles = 2
    ReminderInterval = 1
    MaxRollback = 1
    MaxSequence = 3
    MaxClock = 1
    MaxFaults = 3
INVARIANTS AcceptableAfterPowerLoss NoCommittedEventLost AcksMatchEvents
