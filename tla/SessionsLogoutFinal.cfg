\* Two requests over one session: the counterexample is the finding.
CONSTANTS
    Users = {u1}
    Roles = {}
    SessionIds = {s1}
    Tokens = {t1, t2, t3}
    Requests = {r1, r2}
    NoSession = NoSession
    Unsigned = Unsigned
    RefreshTokenDuration = 1
    MaxClock = 0
    MayFail = FALSE
SPECIFICATION Spec
SYMMETRY Interchangeable
PROPERTY LogoutIsFinal
