SPECIFICATION Spec
CONSTANTS
    NULL = NULL
    t1 = t1
    t2 = t2
    u1 = u1
    k1 = k1
    k2 = k2
    k3 = k3
    v1 = v1
    c1 = c1
    c2 = c2
    x1 = x1
    x2 = x2
    h1 = h1
    h2 = h2
    fam = fam
    slug1 = slug1
    slug2 = slug2
    e1 = e1
    past = past
    later = later
    NotExpired = later
    SlugFormat <- MCSlugs
    Value <- MCValue
    Statements <- MCStatements
INVARIANTS
    NoOrphanCredential
    OnlyPeopleStopErasure
PROPERTIES
    ReaperSparesDescendants
    TenantErasureIsContained
