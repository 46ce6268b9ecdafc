SPECIFICATION UnitSpec
CONSTANTS
    Destinations = {"d1", "d2"}
    DestinationIds <- TwoDestinations
    MaxArtifactFiles = 8
    Troubles = {"space", "lease", "litter", "clock"}
    MaxEvents = 2
    MaxPruned = 1
    MaxAuthorityCrashes = 2
    StartLimit = 2
INVARIANTS CursorCoversArtifacts AdmittedEventFits
PROPERTY EventsAreProcessed
