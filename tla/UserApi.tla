------------------------------ MODULE UserApi ------------------------------
(***************************************************************************)
(* Who may do what to a user row: the Authorized middleware, the checks of *)
(* handler/user.go, and the logins and renewals that put a user's roles    *)
(* into a token.  The roles a request acts with are those in its token,    *)
(* not those in the table; that the user still exists is asked of the      *)
(* table on every request.                                                 *)
(*                                                                         *)
(* AccountService has the same rows with their emails, links and cache.    *)
(* Here a row is its roles, and everything is about the steps between      *)
(* reading roles, signing a token, presenting it, and writing the row.     *)
(* GetUser changes nothing and is left out.                                *)
(***************************************************************************)
EXTENDS Integers, FiniteSets

CONSTANTS
    Users,      \* usernames
    Roles,      \* role codes in the roles table
    UserRole,   \* domain.USER_ROLE
    Admin,      \* domain.ADMIN_ROLE
    Requests,   \* request goroutines
    None,       \* no row in users
    Lifetimes,  \* TokenDuration and RefreshTokenDuration, in clock ticks
    MaxClock,   \* bound: the clock stops here
    MaxTokens   \* bound: none are signed once there are so many tokens

VARIABLES
    users,   \* the users and user_roles tables, soft-deleted rows included
    tokens,  \* the payloads of the tokens signed so far
    reqs,    \* what each request goroutine is about to do, with what it has read
    clock,   \* time.Now()
    seeded   \* history: whether a gRPC call ever made an admin

vars == <<users, tokens, reqs, clock, seeded>>

\* What the roles validator of the HTTP endpoints lets through.
RoleSets == SUBSET Roles \ {{}}

Row     == [live : BOOLEAN, roles : SUBSET Roles]
Payload == [user : Users, roles : SUBSET Roles, exp : Nat]

Idle == [step |-> "idle"]

ToAssign  == [step : {"assign"}, user : Users, roles : RoleSets]
ToIssue   == [step : {"issue", "restore"}, user : Users, roles : SUBSET Roles]
ToCreate  == [step : {"create"}, as : Payload, roles : RoleSets]
ToUpdate  == [step : {"update", "save"}, as : Payload, user : Users, roles : RoleSets]
ToDelete  == [step : {"delete"}, as : Payload, user : Users]

Request == {Idle} \cup ToAssign \cup ToIssue \cup ToCreate \cup ToUpdate \cup ToDelete

ASSUME RolesAssumption == UserRole \in Roles /\ Admin \in Roles /\ UserRole # Admin

ASSUME NoneAssumption == None \notin Row

ASSUME TimeAssumption == Lifetimes \subseteq Nat /\ MaxClock \in Nat /\ MaxTokens \in Nat

-----------------------------------------------------------------------------

Init ==
    /\ users = [u \in Users |-> None]
    /\ tokens = {}
    /\ reqs = [r \in Requests |-> Idle]
    /\ clock = 0
    /\ seeded = FALSE

Stored(u) == users[u] # None
Live(u)   == Stored(u) /\ users[u].live

Become(r, next) == reqs' = [reqs EXCEPT ![r] = next]

\* A request leaves the tables alone and goes on to its next step.
Continue(r, next) == Become(r, next) /\ UNCHANGED <<users, tokens, clock, seeded>>

\* A request writes the row of u and goes on to its next step.
Write(r, u, row, next) ==
    /\ users' = [users EXCEPT ![u] = row]
    /\ Become(r, next)
    /\ UNCHANGED <<tokens, clock>>

-----------------------------------------------------------------------------
(* Rows that come about without a token.                                   *)

NewUser == [live |-> TRUE, roles |-> {UserRole}]

Register(r) ==
    /\ reqs[r] = Idle
    /\ \E u \in Users : ~Stored(u) /\ Write(r, u, NewUser, Idle)
    /\ UNCHANGED seeded

\* The gRPC CreateUser asks for no token and takes any roles, which it assigns
\* in a statement of their own after the insert, without a transaction.
GrpcCreateUser(r) ==
    /\ reqs[r] = Idle
    /\ \E u \in Users, roles \in RoleSets :
         /\ ~Stored(u)
         /\ Write(r, u, [live |-> TRUE, roles |-> {}],
                  [step |-> "assign", user |-> u, roles |-> roles])
         /\ seeded' = (seeded \/ Admin \in roles)

GrpcAssignRoles(r) ==
    /\ reqs[r].step = "assign"
    /\ LET u == reqs[r].user IN
         Write(r, u, [users[u] EXCEPT !.roles = reqs[r].roles], Idle)
    /\ UNCHANGED seeded

\* The first OAuth login of a stranger makes a row and gets tokens for it.
OAuthSignUp(r) ==
    /\ reqs[r] = Idle
    /\ \E u \in Users :
         /\ ~Stored(u)
         /\ Write(r, u, NewUser, [step |-> "issue", user |-> u, roles |-> {UserRole}])
    /\ UNCHANGED seeded

\* An OAuth login finds the deleted row of its email, and writes it back.
OAuthRead(r) ==
    /\ reqs[r] = Idle
    /\ \E u \in Users :
         /\ Stored(u) /\ ~Live(u)
         /\ Continue(r, [step |-> "restore", user |-> u, roles |-> users[u].roles])

OAuthRestore(r) ==
    /\ reqs[r].step = "restore"
    /\ Write(r, reqs[r].user, [live |-> TRUE, roles |-> reqs[r].roles],
             [reqs[r] EXCEPT !.step = "issue"])
    /\ UNCHANGED seeded

-----------------------------------------------------------------------------
(* Tokens.                                                                 *)

\* Login reads the row; a renewal too, and goes on if its token has its roles.
LoginUser(r) ==
    /\ reqs[r] = Idle
    /\ \E u \in Users :
         Live(u) /\ Continue(r, [step |-> "issue", user |-> u, roles |-> users[u].roles])

\* An access and a refresh token with the roles that were read.
IssueTokens(r) ==
    /\ reqs[r].step = "issue" /\ Cardinality(tokens) < MaxTokens
    /\ tokens' = tokens \cup {[user |-> reqs[r].user, roles |-> reqs[r].roles,
                               exp |-> clock + d] : d \in Lifetimes}
    /\ Become(r, Idle)
    /\ UNCHANGED <<users, clock, seeded>>

\* The token is one of ours (those that are not are refused), and not expired.
VerifyToken(p) == p \in tokens /\ ~(clock > p.exp)

\* Mutant of Authorized: the table is not asked whether the user is still there.
AuthorizedUnchecked(p) == VerifyToken(p)

\* The middleware: any of our tokens, an access or a refresh one, whose user exists.
Authorized(p) == VerifyToken(p) /\ Live(p.user)

-----------------------------------------------------------------------------
(* The endpoints: what a request with the payload p may go on to do.        *)

\* Mutant of CreateUser: the route is mounted with Authorized() only.
CreateByAnyone(r) ==
    /\ reqs[r] = Idle
    /\ \E p \in tokens, roles \in RoleSets :
         /\ Authorized(p)
         /\ Continue(r, [step |-> "create", as |-> p, roles |-> roles])

\* POST /v1/users behind Authorized(ADMIN).
CreateUser(r) ==
    /\ reqs[r] = Idle
    /\ \E p \in tokens, roles \in RoleSets :
         /\ Authorized(p) /\ Admin \in p.roles
         /\ Continue(r, [step |-> "create", as |-> p, roles |-> roles])

CreateCommit(r) ==
    /\ reqs[r].step = "create"
    /\ \E u \in Users : ~Stored(u) /\ Write(r, u, [live |-> TRUE, roles |-> reqs[r].roles], Idle)
    /\ UNCHANGED seeded

\* The same codes in any order: both lists are sorted copies of sets.
roleCodesEqual(currentRoles, requestedRoles) == currentRoles = requestedRoles

\* Mutant of MayUpdate: only handing out the ADMIN role is an admin's business.
MayUpdateOtherRoles(p, u, roles) ==
    /\ p.user = u \/ Admin \in p.roles
    /\ Admin \in p.roles \/ Admin \notin roles

\* PUT /v1/users/:username: the owner or an admin; only an admin with new roles.
MayUpdate(p, u, roles) ==
    /\ p.user = u \/ Admin \in p.roles
    /\ Admin \in p.roles \/ roleCodesEqual(p.roles, roles)

\* Mutant of UpdateUser: the roles of the body are not validated.
UpdateUnvalidated(r) ==
    /\ reqs[r] = Idle
    /\ \E p \in tokens, u \in Users, roles \in SUBSET Roles :
         /\ Authorized(p) /\ MayUpdate(p, u, roles)
         /\ Continue(r, [step |-> "update", as |-> p, user |-> u, roles |-> roles])

UpdateUser(r) ==
    /\ reqs[r] = Idle
    /\ \E p \in tokens, u \in Users, roles \in RoleSets :
         /\ Authorized(p) /\ MayUpdate(p, u, roles)
         /\ Continue(r, [step |-> "update", as |-> p, user |-> u, roles |-> roles])

UpdateRead(r) ==
    /\ reqs[r].step = "update"
    /\ Continue(r, IF Live(reqs[r].user) THEN [reqs[r] EXCEPT !.step = "save"] ELSE Idle)

\* Save writes the row whether or not it was deleted since UpdateRead.
UpdateCommit(r) ==
    /\ reqs[r].step = "save"
    /\ Write(r, reqs[r].user, [live |-> TRUE, roles |-> reqs[r].roles], Idle)
    /\ UNCHANGED seeded

\* DELETE /v1/users/:username: the owner.
MayDelete(p, u) == p.user = u

DeleteUser(r) ==
    /\ reqs[r] = Idle
    /\ \E p \in tokens, u \in Users :
         /\ Authorized(p) /\ MayDelete(p, u)
         /\ Continue(r, [step |-> "delete", as |-> p, user |-> u])

\* The row is looked up again; deleting one that is deleted changes nothing.
DeleteCommit(r) ==
    /\ reqs[r].step = "delete"
    /\ LET u == reqs[r].user IN
         \/ Live(u) /\ Write(r, u, [users[u] EXCEPT !.live = FALSE], Idle) /\ UNCHANGED seeded
         \/ ~Live(u) /\ Continue(r, Idle)

-----------------------------------------------------------------------------

\* A step fails and the request ends, or its insert finds the row taken.
Fail(r) == reqs[r] # Idle /\ Continue(r, Idle)

Tick ==
    /\ clock < MaxClock
    /\ clock' = clock + 1
    /\ UNCHANGED <<users, tokens, reqs, seeded>>

Next ==
    \/ \E r \in Requests :
         \/ Register(r)
         \/ GrpcCreateUser(r)
         \/ GrpcAssignRoles(r)
         \/ OAuthSignUp(r)
         \/ OAuthRead(r)
         \/ OAuthRestore(r)
         \/ LoginUser(r)
         \/ IssueTokens(r)
         \/ CreateUser(r)
         \/ CreateCommit(r)
         \/ UpdateUser(r)
         \/ UpdateRead(r)
         \/ UpdateCommit(r)
         \/ DeleteUser(r)
         \/ DeleteCommit(r)
         \/ Fail(r)
    \/ Tick

Spec == Init /\ [][Next]_vars

-----------------------------------------------------------------------------
(* Properties.                                                             *)

\* Every variable has its type.
TypeOK ==
    /\ users \in [Users -> Row \cup {None}]
    /\ tokens \subseteq Payload
    /\ reqs \in [Requests -> Request]
    /\ clock \in 0 .. MaxClock
    /\ seeded \in BOOLEAN

\* Over HTTP an admin can only come from an admin: unless a gRPC call made one,
\* no row, no token and no request ever carries the role, whichever way stale
\* tokens, role checks and late writes interleave (router.go:62, user.go:86-105).
AdminNeedsAdmin ==
    ~seeded =>
      /\ \A u \in Users : Stored(u) => Admin \notin users[u].roles
      /\ \A p \in tokens : Admin \notin p.roles
      /\ \A r \in Requests :
           /\ reqs[r].step \in {"assign", "issue", "restore", "create", "update", "save"}
                => Admin \notin reqs[r].roles
           /\ reqs[r].step \in {"create", "update", "save", "delete"}
                => Admin \notin reqs[r].as.roles

\* Whom a request acts for, if it has a token to act with or is to get one.
ActsFor(r, u) ==
    \/ reqs[r].step \in {"issue", "restore"} /\ reqs[r].user = u
    \/ reqs[r].step \in {"create", "update", "save", "delete"} /\ reqs[r].as.user = u

\* Deleted, with no request of his in flight and none about to write the row.
LockedOut(u) ==
    /\ Stored(u) /\ ~Live(u)
    /\ \A r \in Requests :
         ~ActsFor(r, u) /\ ~(reqs[r].step = "save" /\ reqs[r].user = u)

\* Deleting a user stops all his tokens at once, long before they expire: once
\* the requests that got past the middleware are over, no request acts for him
\* and nothing brings the row back, except a new OAuth login (middleware/auth.go:57).
DeletionLocksOut ==
    [][\A u \in Users :
         LockedOut(u) => \/ LockedOut(u)'
                         \/ \E r \in Requests : reqs'[r].step = "restore" /\ reqs'[r].user = u]_vars

\* The roles of u are settled: his unexpired tokens carry them, and so does
\* whatever is about to be signed for him or written to his row.
Settled(u) ==
    /\ Stored(u)
    /\ \A p \in tokens : p.user = u /\ ~(clock > p.exp) => p.roles = users[u].roles
    /\ \A r \in Requests :
         reqs[r].step \in {"assign", "issue", "restore", "update", "save"} /\ reqs[r].user = u
           => reqs[r].step # "assign" /\ reqs[r].roles = users[u].roles

\* "Only admins can change roles" (user.go:98), as far as it goes: the handler
\* compares the body with the caller's token, so an owner whose token is older
\* than his roles can write the old ones back.  Once every such token has
\* expired and no write of other roles is on its way, nothing but a request
\* under a token with the ADMIN role unsettles the roles of a user.
RolesSettle ==
    [][\A u \in Users :
         Settled(u) => \/ Settled(u)'
                       \/ \E r \in Requests :
                            /\ reqs'[r].step = "update" /\ reqs'[r].user = u
                            /\ Admin \in reqs'[r].as.roles]_vars

=============================================================================
