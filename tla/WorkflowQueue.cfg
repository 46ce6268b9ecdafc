SPECIFICATION LiveSpec
CONSTANTS
    backlog = backlog
    regression = regression
    storm = storm
    protected = protected
    ambiguous = ambiguous
    unhandled = unhandled
    Alerts = {storm, backlog, ambiguous, unhandled}
    Scenario <- AllKinds
    Sessions = {s1}
    MaxIncidents = 2
    MaxMoves = 9
    MaxTries = 2
PROPERTY QueuedIsInvestigated
CHECK_DEADLOCK FALSE
