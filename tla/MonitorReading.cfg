SPECIFICATION Spec
CONSTANTS
    None = None
    Sources = {s1}
    Events = {e1}
    Kinds = {"valid", "oversized"}
    AppendPoints = {"loop", "poll"}
    TruncatePoints = {"loop"}
    MaxRecords = 2
    Window = 1
    PrefixLines = 1
    FailureLimit = 2
    CanaryEvery = 1
    Timeout = 1
    StaleAfter = 1
    Skew = 0
    MaxReports = 2
    StartLimit = 2
    MaxLines = 3
    MaxRotations = 1
    MaxBucket = 0
    MaxBackSteps = 0
    MaxStops = 0
    MaxCrashes = 1
    MaxReadErrors = 1
INVARIANTS NothingSkipped SuppressedWithinWindow RecountBounded
