\* UpdateUser races DeleteUser.
CONSTANTS
    Usernames = {u1}
    Emails = {e1}
    RoleSets = {{}, {USER}}
    DefaultRole = USER
    Providers = {google}
    Google = google
    Subjects = {g1}
    Requests = {r1, r2}
    None = None
    MayFail = FALSE
SPECIFICATION Spec
SYMMETRY Interchangeable
PROPERTY RevivedByOAuthOnly
