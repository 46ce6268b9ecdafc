SPECIFICATION Spec
CONSTANTS
    None = None
    h1 = h1
    h2 = h2
    StateHashes = {h1, h2}
    WatchdogResults <- DyingMonitor
    FaultPoints <- Points
    BackSteps = {1}
    MaxEventFiles = 2
    ReminderInterval = 1
    MaxRollback = 0
    MaxSequence = 3
    MaxClock = 1
    MaxFaults = 2
INVARIANTS SequencesExactlyOnce CursorFollowsLog AcceptableToNextCheck
           PendingReplayRetained WithinBudget
PROPERTIES ImplementsJournal OnlyAcknowledgedRemoved
