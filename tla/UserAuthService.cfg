\* Two requests at a time.
CONSTANTS
    Users = {u1}
    Roles = {USER, ADMIN}
    UserRole = USER
    Admin = ADMIN
    SessionIds = {s1, s2}
    Tokens = {t1, t2}
    Requests = {r1, r2}
    None = None
    NoSession = NoSession
    Unsigned = Unsigned
    TokenDuration = 0
    RefreshTokenDuration = 1
    MaxClock = 1
    MaxTokens = 8
CHECK_DEADLOCK FALSE
SPECIFICATION Spec
SYMMETRY Interchangeable
INVARIANT TypeOK
PROPERTY ImplementsSessions
PROPERTY ImplementsUserApi
PROPERTY RevokedUntilLogin
PROPERTY LostRolesStayLost
