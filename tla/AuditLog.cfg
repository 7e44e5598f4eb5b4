SPECIFICATION Spec
CONSTANTS
    NULL = NULL
    a1 = a1
    a2 = a2
    SlugFormat = {}
    Value <- MCValue
    Statements <- MCStatements
PROPERTIES
    AuditIsAppendOnly
