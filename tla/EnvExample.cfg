SPECIFICATION Spec
CONSTANTS
    NULL = NULL
    Request = {q1}
    Probe = probe
    Outages = 0
    Environments <- ExampleEnvironments
INVARIANTS
    ExampleIsRefused
