SPECIFICATION Spec
CONSTANTS
    NULL = NULL
    q1 = q1
    q2 = q2
    q3 = q3
    t1 = t1
    t2 = t2
    u1 = u1
    u2 = u2
    r1 = r1
    k1 = k1
    k2 = k2
    k3 = k3
    h1 = h1
    h2 = h2
    h3 = h3
    g1 = g1
    g2 = g2
    g3 = g3
    fam = fam
    e1 = e1
    e2 = e2
    now = now
    later = later
    Session <- MCSession
    PoolLimit = 2
    SlugFormat <- MCSlugs
    Value <- MCValue
    Programs <- MCPrograms
    Workloads <- MCWorkloads
    Initial <- MCInitial
INVARIANTS
    ExactlyOneActiveKey
PROPERTIES
    CommitsAreSerial
    EveryRequestEnds
