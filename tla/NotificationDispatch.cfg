SPECIFICATION FairSpec
CONSTANTS
    Destinations = {"d1", "d2"}
    DestinationIds <- TwoDestinations
    MaxArtifactFiles = 5
    Troubles = {"labSpace"}
    MaxEvents = 1
    MaxPruned = 0
    MaxAuthorityCrashes = 1
    None = None
    Routes = {"r1"}
    Targets <- TwoTargets
    MaxAttempts = 2
    MaxLabCrashes = 2
INVARIANT OnlyOpenSocketRefused
PROPERTIES ImplementsDispatchOnce 
CHECK_DEADLOCK FALSE
