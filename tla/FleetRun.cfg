SPECIFICATION Spec
CONSTANTS
    h1 = h1
    h2 = h2
    h3 = h3
    Service = Service
    Manual = Manual
    Hosts <- MCHosts
    Fleet <- MCFleet
    Excluded <- MCExcluded
    OnlyHosts <- MCOnlyHosts
    Window <- MCWindow
    Recorded <- MCRecorded
    Drawn <- MCDrawn
    None = None
    PreflightExits = {0}
    Retain = 1
    MaxRuns = 2
    MaxEdits = 1
    MaxKills = 1
INVARIANTS
    TypeOK
    CompleteSummary
    HonestSummary
    KeepsNewest
    EditsSurvive
    WindowGates
PROPERTIES
    StopHonoured
    ServiceStaysUp
CHECK_DEADLOCK FALSE
