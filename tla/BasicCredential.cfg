SPECIFICATION Spec
CONSTANTS
    MAX_VALUE_CHARS = 10
    Events <- TextEvents
    Traceback <- MCTraceback
    Ids <- MCIds
INVARIANTS
    FieldsShowNoCredential
