\* A suite run ends, and nothing has to follow it.
CHECK_DEADLOCK FALSE
SPECIFICATION Spec
CONSTANTS
    Modules = {"mast", "python"}
    h1 = h1
    h2 = h2
    Hashes <- MCHashes
    None = None
    SCENARIOS <- MCScenarios
    ManualPhases <- MCManualPhases
    Selections <- MCSelections
    MaxRepeat = 2
    MaxManual = 2
INVARIANTS CleanRerun
