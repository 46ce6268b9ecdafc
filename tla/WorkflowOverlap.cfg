SPECIFICATION Spec
CONSTANTS
    backlog = backlog
    regression = regression
    storm = storm
    protected = protected
    ambiguous = ambiguous
    unhandled = unhandled
    Alerts = {backlog, regression, protected}
    Scenario <- AllKinds
    Sessions = {s1, s2}
    MaxIncidents = 1
    MaxMoves = 8
    MaxTries = 1
INVARIANTS ExecutionIsApproved ResolvedIsVerified RepeatsLeaveATrace
PROPERTY TerminalLeftWithATrace
SYMMETRY Overlapping
CHECK_DEADLOCK FALSE
