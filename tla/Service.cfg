SPECIFICATION Spec
CONSTANTS
    NULL = NULL
    Request = {q1, q2}
    Probe = probe
    Outages = 1
    Environments <- MCEnvironments
INVARIANTS
    SlotsAreConserved
    IdleLossIsInvisible
PROPERTIES
    PoolIsSlots
    ReadinessRecovers
    Stops
