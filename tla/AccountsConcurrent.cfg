\* Two requests at a time over two users, two emails, two Google identities and
\* three lists of roles.  A request may fail, and with both users deleted and an
\* identity linked to one of them every request may be refused: there is nothing
\* left to do.
CONSTANTS
    Usernames = {u1, u2}
    Emails = {e1, e2}
    RoleSets = {{}, {USER}, {USER, ADMIN}}
    DefaultRole = USER
    Providers = {google}
    Google = google
    Subjects = {g1, g2}
    Requests = {r1, r2}
    None = None
    MayFail = TRUE
CHECK_DEADLOCK FALSE
SPECIFICATION Spec
SYMMETRY Interchangeable
INVARIANT TypeOK
INVARIANT LinksSound
INVARIANT CacheHoldsCommitted
INVARIANT CacheFreshWhenCalm
INVARIANT RolesWhenCalm
INVARIANT LinksLiveWhenCalm
PROPERTY OAuthAllOrNothing
PROPERTY RevivedByOAuthWhenCalm
PROPERTY DirectoryWhenCalm
PROPERTY DeletionIsFinal
PROPERTY UsersFitSessions
