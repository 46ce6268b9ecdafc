SPECIFICATION UnitSpec
CONSTANTS
    None = None
    h1 = h1
    h2 = h2
    StateHashes = {h1, h2}
    WatchdogResults <- EveryAnswer
    FaultPoints <- Points
    BackSteps = {}
    MaxEventFiles = 1
    ReminderInterval = 1
    MaxRollback = 1
    MaxSequence = 2
    MaxClock = 1
    MaxFaults = 1
    StartLimit = 2
PROPERTY StableAnswerIsReflected
