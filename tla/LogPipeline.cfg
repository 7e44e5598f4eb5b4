SPECIFICATION Spec
CONSTANTS
    MAX_VALUE_CHARS = 10
    Events <- MCEvents
    Traceback <- MCTraceback
    Ids <- MCIds
INVARIANTS
    OnlyKnownGapsShow
    DiagnosticsSurvive
    LinesCarryTheirIds
