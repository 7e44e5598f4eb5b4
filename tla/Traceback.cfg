SPECIFICATION Spec
CONSTANTS
    MAX_VALUE_CHARS = 10
    Events <- PlainEvents
    Traceback <- MCTraceback
    Ids <- MCIds
INVARIANTS
    LinesShowNoCredential
