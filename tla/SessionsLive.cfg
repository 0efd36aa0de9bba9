\* No symmetry: it is unsound with liveness.  MaxClock = 0: no token expires.
CONSTANTS
    Users = {u1}
    Roles = {admin}
    SessionIds = {s1, s2}
    Tokens = {t1, t2, t3}
    Requests = {r1, r2}
    NoSession = NoSession
    Unsigned = Unsigned
    RefreshTokenDuration = 1
    MaxClock = 0
    MayFail = FALSE
SPECIFICATION LiveSpec
PROPERTY ReuseIsPunished
