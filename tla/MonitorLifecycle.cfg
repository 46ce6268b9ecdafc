SPECIFICATION FairSpec
CONSTANTS
    None = None
    Sources = {s1}
    Events = {}
    Kinds = {"valid", "oversized"}
    AppendPoints = {"loop"}
    TruncatePoints = {}
    MaxRecords = 1
    Window = 1
    PrefixLines = 1
    FailureLimit = 1
    CanaryEvery = 1
    Timeout = 1
    StaleAfter = 1
    Skew = 0
    MaxReports = 2
    StartLimit = 1
    MaxLines = 2
    MaxRotations = 0
    MaxBucket = 2
    MaxBackSteps = 1
    MaxStops = 2
    MaxCrashes = 1
    MaxReadErrors = 0
INVARIANTS CheckpointAccepted ReceiptBindsCheckpoint ReportedHasReport
PROPERTIES OnlyACycleRevives RunningIsSeen DeathIsSeen StuckIsReported
