\* Two requests at a time, two users, two logins, tokens that all expire before the
\* clock stops.  With every user taken and no tokens to be had, nothing is left to do.
CONSTANTS
    Users = {u1, u2}
    Roles = {USER, ADMIN}
    UserRole = USER
    Admin = ADMIN
    Requests = {r1, r2}
    None = None
    Lifetimes = {0, 1}
    MaxClock = 2
    MaxTokens = 3
CHECK_DEADLOCK FALSE
SPECIFICATION Spec
SYMMETRY Interchangeable
INVARIANT TypeOK
INVARIANT AdminNeedsAdmin
PROPERTY DeletionLocksOut
PROPERTY RolesSettle
