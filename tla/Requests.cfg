SPECIFICATION Spec
CONSTANTS
    NONE = NONE
    Task = {w1, w2}
    Request = {q1, q2}
    Reason = {unknown_user, wrong_password}
    Detail = {"plain", "names_code"}
    TraceId = {trace}
INVARIANTS
    NothingForeign
    FailedLoginsAreAlike
    SentIsLogged
PROPERTIES
    EveryRequestLeaves
