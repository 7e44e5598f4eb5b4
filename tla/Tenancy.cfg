SPECIFICATION Spec
CONSTANTS
    NULL = NULL
    t1 = t1
    t2 = t2
    u1 = u1
    u2 = u2
    r1 = r1
    r2 = r2
    e1 = e1
    s1 = s1
    s2 = s2
    deletion = deletion
    SlugFormat <- MCSlugs
    Value <- MCValue
    Statements <- MCStatements
INVARIANTS
    TypeOK
    NoCrossTenantGrant
    OneLoginPerAddress
    NoDanglingAuthority
PROPERTIES
    NoQuietDeauthorisation
    StepTouchesOneTenant
