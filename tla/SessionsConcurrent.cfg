\* Two requests at a time, two users: every interleaving of their statements.
CONSTANTS
    Users = {u1, u2}
    Roles = {admin}
    SessionIds = {s1, s2}
    Tokens = {t1, t2, t3}
    Requests = {r1, r2}
    NoSession = NoSession
    Unsigned = Unsigned
    RefreshTokenDuration = 1
    MaxClock = 2
    MayFail = TRUE
SPECIFICATION Spec
SYMMETRY InterchangeableUsers
INVARIANT TypeOK
INVARIANT TokenFamilies
PROPERTY RevocationSticks
PROPERTY DriftStopsRenewal
PROPERTY UserIsolation
PROPERTY ImplementsLifecycle
PROPERTY SupersededBuysNothing
