-------------------------- MODULE UserAuthService --------------------------
(***************************************************************************)
(* The whole service: the sessions of SessionService and the endpoints of  *)
(* UserApi over one users table and one set of signed tokens, each request *)
(* being served by the handler its route names (handler/auth.go, oauth.go, *)
(* user.go, grpc/auth.go, grpc/user.go).                                   *)
(*                                                                         *)
(* The steps are those of the two modules, taken together.  A login or a   *)
(* renewal is a request of SessionService (reqs); it signs an access and a *)
(* refresh token, and either passes the Authorized middleware (tokens).    *)
(* A call to an endpoint is a request of UserApi (calls).                  *)
(*                                                                         *)
(* An OAuth login writes the row and inserts the session in one            *)
(* transaction; here these are two steps, between which the row may be     *)
(* seen but, being locked, is not changed by others.                       *)
(***************************************************************************)
EXTENDS Integers, FiniteSets

CONSTANTS
    Users,                 \* usernames
    Roles,                 \* role codes in the roles table
    UserRole,              \* domain.USER_ROLE
    Admin,                 \* domain.ADMIN_ROLE
    SessionIds,            \* session ids
    Tokens,                \* refresh token strings
    Requests,              \* request goroutines
    None,                  \* no row in users
    NoSession,             \* no row in sessions
    Unsigned,              \* a token string the service has not signed yet
    TokenDuration,         \* config.Auth.TokenDuration, in clock ticks
    RefreshTokenDuration,  \* config.Auth.RefreshTokenDuration
    MaxClock,              \* bound: the clock stops here
    MaxTokens              \* bound: none are signed once there are so many payloads

VARIABLES
    users,     \* the users and user_roles tables
    tokens,    \* the payloads of all tokens signed so far, access and refresh
    calls,     \* what each request to an endpoint is about to do
    seeded,    \* history: whether a gRPC call ever made an admin
    sessions,  \* the sessions table
    signed,    \* the payload of every refresh token signed so far
    reqs,      \* what each login, renewal and logout is about to do
    renewals,  \* history: <<presented, issued>> for every successful renewal
    clock      \* time.Now()

sessionVars == <<sessions, signed, reqs, renewals>>

vars == <<users, tokens, calls, seeded, sessionVars, clock>>

ASSUME DurationAssumption ==
    /\ TokenDuration \in Nat /\ RefreshTokenDuration \in Nat
    /\ MaxClock \in Nat /\ MaxTokens \in Nat

ASSUME RolesAssumption == UserRole \in Roles /\ Admin \in Roles /\ UserRole # Admin

\* The users table as SessionService sees it: a row that is not there is not live.
rows == [u \in Users |-> IF users[u] = None THEN [live |-> FALSE, roles |-> {}] ELSE users[u]]

S == INSTANCE SessionService WITH users <- rows, MayFail <- TRUE

Idle == S!Idle

\* The requests as UserApi sees them: a login, a renewal past the check of its
\* roles, and the login that follows a registration are about to sign tokens.
combined ==
    [r \in Requests |->
       IF reqs[r].step = "issue" THEN reqs[r]
       ELSE IF reqs[r].step = "rotate"
         THEN [step  |-> "issue",
               user  |-> signed[reqs[r].token].user,
               roles |-> signed[reqs[r].token].roles]
       ELSE IF calls[r].step = "login" THEN Idle
       ELSE calls[r]]

Lifetimes == {TokenDuration, RefreshTokenDuration}

\* The endpoints, run over calls, and what UserApi promises of all requests.
H == INSTANCE UserApi WITH reqs <- calls
A == INSTANCE UserApi WITH reqs <- combined

ASSUME SentinelAssumption ==
    NoSession \notin S!Row /\ Unsigned \notin S!Payload /\ None \notin A!Row

-----------------------------------------------------------------------------

Init ==
    /\ users = [u \in Users |-> None]
    /\ tokens = {}
    /\ calls = [r \in Requests |-> Idle]
    /\ seeded = FALSE
    /\ sessions = [s \in SessionIds |-> NoSession]
    /\ signed = [t \in Tokens |-> Unsigned]
    /\ reqs = [r \in Requests |-> Idle]
    /\ renewals = {}
    /\ clock = 0

Free(r) == calls[r] = Idle /\ reqs[r] = Idle

\* A step of sessions that signs nothing.
Unsigning == UNCHANGED <<users, tokens, calls, seeded>>

\* An access and a refresh token, either of which the middleware will accept.
SignTokens(user, roles) ==
    /\ Cardinality(tokens) < MaxTokens
    /\ tokens' = tokens \cup {[user |-> user, roles |-> roles, exp |-> clock + d] : d \in Lifetimes}
    /\ UNCHANGED <<users, calls, seeded>>

\* Mutant of HandOver: the endpoint goes on with the request.
HandOverBoth(r) == UNCHANGED <<calls, users, tokens, seeded>>

\* The request of r moves over from the endpoints to the sessions.
HandOver(r) ==
    /\ calls' = [calls EXCEPT ![r] = Idle]
    /\ UNCHANGED <<users, tokens, seeded>>

-----------------------------------------------------------------------------
(* handler/auth.go                                                         *)

Login(r) == Free(r) /\ Unsigning /\ S!LoginRead(r)

IssueSession(r) ==
    /\ reqs[r].step = "issue"
    /\ SignTokens(reqs[r].user, reqs[r].roles)
    /\ S!IssueSession(r)

RefreshToken(r) == Free(r) /\ Unsigning /\ S!RenewVerify(r)

\* Mutant of RenewLookup: is_blocked is not looked at.
RenewLookupBlocked(r) ==
    /\ reqs[r].step = "lookup" /\ Unsigning
    /\ LET t == reqs[r].token IN
         S!Continue(r, [step |-> "checkUser", token |-> t, row |-> sessions[signed[t].sid]])

RenewLookup(r) == Unsigning /\ S!RenewLookup(r)

\* Mutant of RenewCheckUser: a renewal does not ask for the user any more.
RenewUncheckedUser(r) ==
    /\ reqs[r].step = "checkUser" /\ Unsigning
    /\ S!Continue(r, [reqs[r] EXCEPT !.step = "rotate"])

RenewCheckUser(r) == Unsigning /\ S!RenewCheckUser(r)

\* Mutant of RenewRotate: the access token gets the roles the row has by now.
RenewWithRowRoles(r) ==
    /\ reqs[r].step = "rotate"
    /\ LET old == signed[reqs[r].token] IN SignTokens(old.user, rows[old.user].roles)
    /\ S!RenewRotate(r)

\* The new tokens carry what the presented one does.
RenewRotate(r) ==
    /\ reqs[r].step = "rotate"
    /\ LET old == signed[reqs[r].token] IN SignTokens(old.user, old.roles)
    /\ S!RenewRotate(r)

BlockAllSessions(r) == Unsigning /\ S!BlockAllSessions(r)

Logout(r) == Free(r) /\ Unsigning /\ S!LogoutFind(r)

LogoutBlock(r) == Unsigning /\ S!LogoutBlock(r)

Register(r) == Free(r) /\ H!Register(r) /\ UNCHANGED sessionVars

\* Register, then Login with the credentials it was given: a second request of
\* its own, that may fail when the first has not.
RegisterAndLogin(r) ==
    /\ Free(r)
    /\ \E u \in Users :
         ~H!Stored(u) /\ H!Write(r, u, H!NewUser, [step |-> "login", user |-> u])
    /\ UNCHANGED <<seeded, sessionVars>>

\* Mutant of LoginRegistered: it goes on with the user that Register returned.
LoginUnread(r) ==
    /\ calls[r].step = "login"
    /\ HandOver(r)
    /\ reqs' = [reqs EXCEPT ![r] = [step |-> "issue", user |-> calls[r].user, roles |-> {UserRole}]]
    /\ UNCHANGED <<sessions, signed, renewals, clock>>

LoginRegistered(r) ==
    /\ calls[r].step = "login"
    /\ HandOver(r)
    /\ S!LoginRead(r) /\ reqs'[r].user = calls[r].user

-----------------------------------------------------------------------------
(* handler/oauth.go: the login of an identity that is linked, or that has  *)
(* a live row, is a Login; a deleted row is restored first, and a stranger *)
(* gets a row.                                                             *)

Callback(r) ==
    /\ Free(r) /\ UNCHANGED sessionVars
    /\ H!OAuthRead(r) \/ H!OAuthSignUp(r)

Restore(r) == H!OAuthRestore(r) /\ UNCHANGED sessionVars

\* The session of the user that was restored or created.
OpenSession(r) ==
    /\ calls[r].step = "issue"
    /\ HandOver(r)
    /\ S!LoginRead(r) /\ reqs'[r] = calls[r]

-----------------------------------------------------------------------------
(* handler/user.go and grpc/user.go                                        *)

CreateUser(r) == Free(r) /\ (H!CreateUser(r) \/ H!GrpcCreateUser(r)) /\ UNCHANGED sessionVars

InsertUser(r) == (H!CreateCommit(r) \/ H!GrpcAssignRoles(r)) /\ UNCHANGED sessionVars

UpdateUser(r) == Free(r) /\ H!UpdateUser(r) /\ UNCHANGED sessionVars

SaveUser(r) == (H!UpdateRead(r) \/ H!UpdateCommit(r)) /\ UNCHANGED sessionVars

DeleteUser(r) == Free(r) /\ H!DeleteUser(r) /\ UNCHANGED sessionVars

DeleteCommit(r) == H!DeleteCommit(r) /\ UNCHANGED sessionVars

-----------------------------------------------------------------------------

Fail(r) ==
    \/ H!Fail(r) /\ UNCHANGED sessionVars
    \/ Unsigning /\ S!Fail(r)

Tick == Unsigning /\ S!Tick

Next ==
    \/ \E r \in Requests :
         \/ Login(r)
         \/ IssueSession(r)
         \/ RefreshToken(r)
         \/ RenewLookup(r)
         \/ RenewCheckUser(r)
         \/ RenewRotate(r)
         \/ BlockAllSessions(r)
         \/ Logout(r)
         \/ LogoutBlock(r)
         \/ Register(r)
         \/ RegisterAndLogin(r)
         \/ LoginRegistered(r)
         \/ Callback(r)
         \/ Restore(r)
         \/ OpenSession(r)
         \/ CreateUser(r)
         \/ InsertUser(r)
         \/ UpdateUser(r)
         \/ SaveUser(r)
         \/ DeleteUser(r)
         \/ DeleteCommit(r)
         \/ Fail(r)
    \/ Tick

Spec == Init /\ [][Next]_vars

-----------------------------------------------------------------------------
(* Properties.                                                             *)

\* Every variable has its type, and a request is served by one handler.
TypeOK ==
    /\ S!TypeOK
    /\ A!TypeOK
    /\ \A r \in Requests : calls[r] = Idle \/ reqs[r] = Idle

\* All that handlers do to users is what SessionService allows for: whatever
\* it shows of sessions holds of the whole service.
ImplementsSessions == S!Spec

\* All that logins and renewals sign is what UserApi allows for, in particular
\* a renewal signs only roles its user had when it was checked (auth.go:222-240).
ImplementsUserApi == A!Spec

TokensOf(u) == {p \in tokens : p.user = u}

\* A login of u has read the row and is about to sign its tokens.
LoggingIn(u) == \E r \in Requests : reqs[r].step = "issue" /\ reqs[r].user = u

\* Every session of u is revoked, with nothing in flight that read it before.
LoggedOut(u) ==
    /\ ~LoggingIn(u)
    /\ \A s \in SessionIds : S!Exists(s) /\ sessions[s].user = u => S!Sealed(s)

\* Once every session of a user is revoked, he gets no token of either kind until
\* a login reads his row again, however many refresh tokens he still holds and
\* whatever renewals of them, updates of his row and other requests do meanwhile
\* (auth.go:183-245 against auth.go:303-330).
RevokedUntilLogin ==
    [][\A u \in Users :
         LoggedOut(u) => /\ TokensOf(u)' = TokensOf(u)
                         /\ LoggedOut(u)' \/ LoggingIn(u)']_vars

\* The row of u does not say roles, and no request that read it when it did is
\* about to sign them.
Outdated(u, roles) ==
    /\ rows[u] # [live |-> TRUE, roles |-> roles]
    /\ \A r \in Requests :
         ~(combined[r].step = "issue" /\ combined[r].user = u /\ combined[r].roles = roles)

\* Roles that a user has lost, or those of a user who is gone, are put into no
\* token again unless his row is given them back: not by a renewal of a token
\* that carries them, and not by a login that is late (auth.go:213-240).
LostRolesStayLost ==
    [][\A u \in Users, roles \in SUBSET Roles :
         Outdated(u, roles) =>
           /\ \A p \in tokens' \ tokens : ~(p.user = u /\ p.roles = roles)
           /\ Outdated(u, roles)' \/ users'[u] = [live |-> TRUE, roles |-> roles]]_vars

=============================================================================
