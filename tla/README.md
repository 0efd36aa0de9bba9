# Verification of user-auth-service

TLA+ models of the user authentication service in this repository, TLC runs over
small instances of them, and theorems that TLAPS checks for instances of any
size. Paths below are relative to `src/`; `auth.go` and `user.go` alone are those
of `internal/core/service/`.

1. [The system](#1-the-system)
2. [The modules](#2-the-modules)
3. [The runs](#3-the-runs)
4. [What the runs found](#4-what-the-runs-found)
5. [The proofs](#5-the-proofs)
6. [What is left out](#6-what-is-left-out)
7. [The plan](#7-the-plan)

To repeat the checks, from this directory:

    tlc -workers 2 -config SessionsConcurrent.cfg MCSessionService
    tlapm SessionServiceProofs.tla

## 1. The system

The service registers users, logs them in by password or by Google, gives them an
access and a refresh token, renews and revokes those, and lets them read, change
and delete their accounts. It is one process with an HTTP server (Gin), a gRPC
server, or both, over PostgreSQL (through GORM) and Redis.

| Component | State | Operations | Modelled in |
|---|---|---|---|
| Session service (`auth.go`, `pkg/util/token.go`, `repository/session.go`) | table `sessions` | Login, ReNewAccessToken, Logout, BlockSession, BlockAllSessions | `SessionService` |
| Account service (`auth.go`, `user.go`, `grpc/user.go`) | tables `users`, `user_roles`, `oauth_accounts` | Register, CreateUser, OAuthLogin, GoogleAuthMobile, GetUser, UpdateUser, DeleteUser | `AccountService` |
| User cache (`storage/redis`) | entries `user:<username>` | Set, Get, Delete, expiry | `AccountService` |
| Repositories, unit of work (`storage/database`) | the tables above, `roles` | one statement each, or one transaction | the actions of the modules above |
| Token services (`adapter/auth`) | the key | GenerateToken, VerifyToken | `Sign`, `Verified` in `SessionService`, `VerifyToken` in `UserApi` |
| Authorization and user endpoints (`middleware/auth.go`, `handler/user.go`) | none; the payload of the request | Authorized, CreateUser, UpdateUser, DeleteUser | `UserApi` |
| Rate limiter (`middleware/ratelimit.go`) | one bucket | Allow | `RateLimiter` |
| Programs and servers (`main.go`, `cmd/`, `internal/app`, `handler/router.go`, `grpc/server.go`) | listeners, signal channels, connections | bootstrap, serve, drain, close | `ServerLifecycle` |
| Auth and OAuth HTTP handlers, gRPC servers (`handler/auth.go`, `oauth.go`, `grpc/auth.go`, `grpc/user.go`) | none | Login, Register, RegisterAndLogin, RefreshToken, Logout, Callback, LoginUser, CreateUser | `UserAuthService` |
| Configuration, OAuth setup (`pkg/config`, `pkg/oauth`) | settings | New | `LoadConfig` in `ServerLifecycle`; the settings are CONSTANTS |
| Request validation, Google ID token verifier | none | | as guards of `UserApi` and `AccountService` |
| Avatar upload, protobuf | files | | not modelled |

**How they interact.** An HTTP request passes the rate limiter, then, on the user
routes, `Authorized`, then its handler, which calls one service method. A service
method is a sequence of statements to PostgreSQL and commands to Redis. Nothing is
shared in the process but the limiter's bucket and a random generator; everything
else the requests share is in the tables and the cache, so requests, and instances
of the service, meet there and only there.

**What is hard.**

- *Statements of several requests interleave.* Only `uow.Do` opens a transaction,
  at PostgreSQL's default isolation level and without row locks; everywhere else
  each statement commits on its own. What a request read may be stale when it
  writes, and GORM's `Save` writes every column it read.
- *A request may stop anywhere*: a statement fails, the client goes away, the
  process dies. What was committed stays.
- *Two stores.* The tables and the cache change in separate steps, either of which
  may fail, and a failure of Redis is mostly just logged.
- *Tokens remember.* Access and refresh tokens carry the roles of the moment they
  were signed, and are accepted until they expire. The middleware does not tell
  the two kinds apart: a refresh token works as a bearer token as well.
- *Rows survive deletion.* Deleting a user sets `deleted_at`; the email stays in
  the unique index, the sessions stay, and an OAuth login brings the row back.
- *Shutdown* has up to two servers, three programs, a signal that goes to whoever
  is registered by then, deadlines, and calls that may hang.

**What makes each part correct.** A session is opened once, renewed with its
current token only, and never again once it is revoked; a reuse or a change of
roles ends every session of the user; no request touches another user's sessions.
An identity leads to one user and a link to a live row; an OAuth login happens
entirely or not at all; the cache shows no roles that were not committed. Only admins
make admins; only they change roles, once a user's old tokens have expired; deletion locks
the user out. The limiter lets no more through than its bucket holds and its refill adds.
A signal ends the process after the calls that use the database, as long as these end in
time.

The hazards, each at its line of code with the properties that watch it, are
listed in `PROJECT.json`.

## 2. The modules

Every module of a component is written so that it can be both checked and proved
about: parameters are CONSTANTS with named assumptions, an operation is one action
per step, and there is no recursive operator anywhere. `X.tla` is a component or an
abstract specification, `MCX.tla` its instances for TLC, `XProofs.tla` its theorems;
`AccountSequentialProofs` has those of `AccountService` for one request at a time,
`AbstractProofs` those of the two abstract specifications. Definitions marked "Mutant
of" are deliberately wrong variants; no specification uses them. They show that the
property named for them in `PROJECT.json` can fail.

### SessionService, SessionLifecycle

The `sessions` table under concurrent requests. A request goroutine `r` is idle or
about to execute its next statement, and `reqs[r]` holds what it remembers from the
earlier ones:

| Action | Code |
|---|---|
| `LoginRead`, `IssueSession` | read the user (`auth.go:104-125`), sign and insert (`pkg/util/token.go:28-73`) |
| `RenewVerify` | `VerifyToken` (`auth.go:185`) |
| `RenewLookup` | read the row and run the four checks of `auth.go:190-212` |
| `RenewCheckUser` | read the user, compare the roles (`auth.go:214-227`) |
| `RenewRotate` | sign, then `Save` the row read by `RenewLookup`, every column (`auth.go:229-254`) |
| `BlockAllSessions` | one UPDATE over the user's rows, of a reuse or changed roles |
| `LogoutFind`, `LogoutBlock` | `auth.go:257-275`, `277-285` |
| `Fail` | the request ends where it is: a failed statement, a lost client, a crash |
| `UserSaved`, `RolesAssigned`, `UserDeleted`, `Tick` | what `userRepo` does to the user meanwhile, by `Save`, by the second statement of a `Create`, by `Delete`; time |

`signed` maps every refresh token that was signed to its payload. Strings are model
values: that a token names its payload and nobody else can make one is what the
token service is for. Access tokens are never stored and match no session.
`renewals` is a history of successful renewals, for one property.

`SessionLifecycle` is what a session promises with no requests or tables: opened
once, each rotation grants a token never seen before, a revoked one never changes
again. `SessionService` implements it (`ImplementsLifecycle`) when a session counts
as revoked once it is blocked *and* no renewal that read the row earlier is still in
flight (`Sealed`). The plain reading, blocked means revoked, is false:
`LogoutIsFinal` below.

### AccountService, AccountDirectory

Users, OAuth links and the cache. A transaction is some read steps and a commit step, so
its reads may be stale when its writes take effect together; a commit that breaks a
unique index rolls back (`OAuthRollback`). A statement outside `uow.Do` and a Redis command
are steps of their own. `Preload("Roles")` reads a row and then its roles: where the roles
that were read are written or cached later, those are two steps. The hook that deletes the
links of a user is a statement before the soft deletion: a link that is committed between
the two stays (`DeleteLinks` remembers the links that it has seen), and one that collides
with a link on its way out has to wait (`Unlinking`).

| Action | Code |
|---|---|
| `Register`, `CreateUser` | one transaction that inserts a row with its roles (`auth.go:134-182`, `user.go:71-118`) |
| `GrpcCreateUser`, `GrpcAssignRoles` | the same without a transaction: row, then roles (`grpc/user.go:26-85`, `repository/user.go:21-31`) |
| `OAuthLogin`, `GoogleAuthMobile` | the reads of both flows (`auth.go:296-332`, `388-424`) |
| `OAuthReadRoles` | the second statement of `GetByEmailUnscoped` (`repository/user.go:69-79`) |
| `OAuthLink` | restore the row if it was deleted, insert the link, commit |
| `OAuthSignUp` | insert user and link, commit |
| `UpdateRead`, `UpdateCommit` | `user.go:152-195`, with `Save`'s upsert (`repository/user.go:82-91`) |
| `DeleteRead`, `DeleteInvalidate`, `InvalidateFails` | `user.go:197-206`; when Redis fails that is logged and the deletion goes on (`user.go:42-52`) |
| `DeleteLinks`, `DeleteCommit` | the hook that removes the links (`domain/user.go:49-53`), then the soft deletion, committed together |
| `GetUser`, `GetRoles` | a cache miss: the row, then its roles (`user.go:120-150`, `repository/user.go:37-45`) |
| `SetCache`, `Evict` | the last step of every handler that caches; expiry or the delete of Logout |

Of a row the model has the email, the roles, one of the constant `RoleSets`, and whether
it is deleted; a cache entry is the roles it shows. Names and image are left out. Two
variables are histories: `past` holds the roles a row had at each commit, and `calm`
says that so far requests came one at a time and none failed. What the handlers promise
only then is stated under `calm`, next to what they promise always, and checked in the
same behaviours: those in which requests race and fail go on from the calm ones.

`AccountDirectory` is what accounts are to their owners, with no transactions, caches or
requests in flight: an account is opened under a fresh name and email, an identity opens
one account, signing in brings a closed account back as it was, closing it lets go of all
its identities. As long as it is calm `AccountService` implements it (`DirectoryWhenCalm`):
`owner` maps the links to what each identity leads to, the rows are the accounts. With two
requests at a time it does not, by `LinksAreLive` and `RevivedByOAuthOnly` below.

### UserApi

Who may do what to a row: the middleware and the checks of `handler/user.go`, against
tokens that were signed earlier. `Authorized` verifies the token and looks the user up;
`CreateUser`, `UpdateUser`, `DeleteUser` run the checks and remember the payload they
were made with; `CreateCommit`, `UpdateRead`, `UpdateCommit`, `DeleteCommit` follow
later. Tokens come from `LoginUser` and `IssueTokens`, and from the OAuth sign-up and
restore. In `RolesSettle` a request to update a row under an ADMIN token is what may
change its roles: the code lets an admin update anybody, see section 4. A renewal is a
login here: it signs the same roles, if the user still has them. `seeded` is a history:
whether the gRPC `CreateUser`, which asks for no token, was ever called with the ADMIN
role.

### RateLimiter

`rate.Limiter` under `Allow`, in ticks and parts of a token so that it stays in the
integers: `last` and `tokens` are the limiter's fields, `Level` is its `advance`.
`served` is a history for the property. A refused request changes nothing.

### ServerLifecycle

The three programs. `main` is the program counter of the main goroutine, `server` the
state of each server, `notified` and `heard` the signal channels, `call` the calls of
clients, `open` the connections. Actions follow the code from `LoadConfig` to `Exit`;
`End` is `log.Fatal` or the return of `main`, and takes every goroutine with it.
`net/http`, `grpc-go` and the signal delivery of the runtime are modelled by what the
code relies on: `Shutdown` and `GracefulStop` return when the last call is over. `Stop`
(`grpc/server.go:57`) does not wait: the server is built without `WaitForHandlers`
(`grpc/server.go:22`) and no repository looks at the context, so after `GrpcTimeout` the
server is `forced` and its calls run on, in `cmd/grpc` while the deferred calls close Redis
and PostgreSQL under them.

### UserAuthService

The composition: every request is served by the handler its route names, over one
`users` table, one set of signed tokens and one `sessions` table. `S` is an instance of
`SessionService` and `H` of `UserApi`; an action is a step of one, of the other, or of
both together:

| Action | Code |
|---|---|
| `Login`, `IssueSession`, `RefreshToken`, `RenewLookup`, `RenewCheckUser`, `RenewRotate`, `BlockAllSessions`, `Logout`, `LogoutBlock` | `handler/auth.go` and `grpc/auth.go` over the steps of `SessionService`; what is signed also passes the middleware (`SignTokens`) |
| `Register`, `RegisterAndLogin`, `LoginRegistered` | `handler/auth.go`: the combined endpoint is a registration, then a login that reads the row again and may fail by itself |
| `Callback`, `Restore`, `OpenSession` | `handler/oauth.go`: restore or create the user, then open his session |
| `CreateUser`, `InsertUser`, `UpdateUser`, `SaveUser`, `DeleteUser`, `DeleteCommit` | `handler/user.go`, `grpc/user.go` over the steps of `UserApi` |

A request moves from `calls` (endpoints) to `reqs` (sessions) by `HandOver`. `A` is
`UserApi` again, over `combined`: what it sees of a request that is about to sign tokens.
Two refinements tie the modules together. `ImplementsSessions`: all that the handlers do
to users is what `SessionService` lets happen to them at any moment. `ImplementsUserApi`:
all that logins, renewals and OAuth logins sign is what `UserApi` lets a login sign. The
second is not obvious: a renewal reads no roles into its tokens but copies those of the
token presented, and it implements a login only because it has compared them with the row
(`auth.go:222`): that comparison is where the login it stands for reads the user.

### How they fit together

The modules meet in the tables. `SessionService` lets `users` change in any way the other
modules could change it, at any moment (`UserSaved`, `RolesAssigned`, `UserDeleted`);
that the handlers of `AccountService` change it in no other way is `UsersFitSessions`.
`AccountService` lets the cache lose any entry at any moment, which covers Logout.
`UserApi` has the users of `AccountService` without emails, links and cache, and a login
stands for everything that signs tokens. So what is shown of one module holds whatever the
others do; that these environments are wide enough is itself checked and proved, as
`UsersFitSessions` and the two refinements of `UserAuthService`.

## 3. The runs

| Run | Instance | What it shows |
|---|---|---|
| `sessions_concurrent` | 2 users, 2 sessions, 3 tokens, 2 requests, time to 2 | what survives every interleaving, failure, expiry and change of the user, and the refinement of `SessionLifecycle` |
| `sessions_live` | 1 user, 2 sessions, 3 tokens, 2 requests | a detected reuse or role change blocks every session of the user |
| `accounts_concurrent` | 2 users, emails, identities, 3 lists of roles, 2 requests | links stay sound, OAuth is all or nothing, the cache shows committed roles, deletion lasts, users change only as `SessionService` expects; what the handlers promise as long as nothing races or fails, and the refinement of `AccountDirectory` |
| `user_api` | 2 users, 2 roles, 2 requests, 3 tokens, time to 2 | admins come from admins, deletion locks out, settled roles are changed under an ADMIN token only |
| `user_auth_service` | 1 user, 2 roles, 2 sessions, 2 refresh tokens, 2 requests, time to 1 | the service implements both modules; what revocation and a loss of roles mean for every token |
| `rate_limiter` | burst 3, 2 ticks a second, time to 8 | the bound of a token bucket over every window |
| `server_lifecycle` | 2 calls to each server, all programs | calls keep their connections until their server's deadline; a heard signal stops the server and ends the process |
| `sessions_logout_final`, `sessions_single_use`, `accounts_stranded`, `accounts_revived`, `server_both_drained` | as small as shows it | one expected violation each: section 4 |

**The properties.**

- `TokenFamilies` row, tokens signed under its id and the memory of requests agree.
  A failed or interrupted renewal must not leave a row whose token, owner or expiry
  is not that of the token it holds.
- `RevocationSticks` once the renewals in flight are over, blocked is for ever.
- `SupersededBuysNothing` a refresh token that was replaced, with no renewal in flight
  that read the row before, never becomes current again, not by the late `Save` of another
  renewal either, and buys nothing. It is what is left of `SingleUse`.
- `DriftStopsRenewal` while a user is gone or has other roles than the token, no
  renewal gets to the rotation that was not there already.
- `UserIsolation` no request changes another user's session, in any order.
- `ImplementsLifecycle` the refinement described above.
- `ReuseIsPunished` (liveness) the announced blocking happens, to sessions opened and
  rotated in the meantime as well.
- `LinksSound` one user per identity, one identity per user and provider, and the
  link's email is the row's.
- `OAuthAllOrNothing` a user is never created or restored without its link.
- `CacheHoldsCommitted` however late a cache step comes, and whatever is committed between
  the two statements that read a row and its roles, the entry shows roles the row had at
  some commit, also where Redis failed under a deletion and the entry stays.
- `DeletionIsFinal` whatever races, a deleted user is gone until an OAuth login restores
  and links him, once there is no link to him and no update or link in flight that
  remembers him as live: what is left of `RevivedByOAuthOnly` and `LinksAreLive`.
- `UsersFitSessions` every step of the handlers does to the users what `SessionService`
  lets happen around its sessions: it saves a row live, gives it its roles late, or deletes
  it and keeps them, and touches one row only.
- `CacheFreshWhenCalm`, `RolesWhenCalm`, `LinksLiveWhenCalm`, `RevivedByOAuthWhenCalm`: as
  long as requests come one at a time and none fails, the cache agrees with the tables
  between requests, users have roles, links lead to live users, and only an OAuth login
  brings a deleted user back. Without `calm` the first can be violated until the entry
  expires, the second by a gRPC `CreateUser` that stops half-way; the others are violated
  by two requests, see section 4.
- `DirectoryWhenCalm` the refinement of `AccountDirectory`; a restored user, for one, has
  to come back with the roles he had, and a deletion has to let go of every identity.
- `AdminNeedsAdmin`, `DeletionLocksOut` and `RolesSettle` are about stale tokens and late
  writes: every step between signing the roles and writing the row is separate. The last is
  what is left of "Only admins can change roles" (`handler/user.go:98`): a user's roles are
  settled once no unexpired token of his and no write on its way has others, and then only a
  request under an ADMIN token unsettles them. Without the clause on tokens it is violated.
- `ImplementsSessions`, `ImplementsUserApi` the two refinements of the composition.
- `RevokedUntilLogin` once every session of a user is revoked and no renewal that read
  one earlier is in flight, he gets no token of either kind before a login reads his row
  again, however many refresh tokens he holds.
- `LostRolesStayLost` roles that a user has lost get into no token again unless his row is
  given them back, once the requests that read them before are over.
- `WindowBound` in any window no more passes than the burst and the drip.
- `FrontHasConnections` while a call runs in the server that the main goroutine serves
  the database and the cache are open; the exception is a call to `cmd/grpc` that outlasts
  the ten seconds.
- `ServersStop`, `SignalEndsProcess` (liveness) a server that has heard a signal stops, even
  when calls hang and whether or not the other one has heard it; when it is the server of the
  main goroutine the process ends.

**The bounds and why they are enough.** Two requests give every pair of handlers, at
every pair of statements; a third would have to depend on what both others remember, and
each handler remembers one row only. Two users are what isolation needs. Two sessions
and three tokens give a login and two renewals, or two logins and a renewal, so a
superseded token, a reuse and a second family all happen. A token lives one tick at most
and time goes to two, so tokens expire while requests are under way. In
`accounts_concurrent` the three lists of roles are none, the default and another one,
which tells apart a row half created, a restored row, one that starts anew, and an
update. In `user_api` a pair of tokens is signed at a time, and none once there are
three, so tokens of two logins with different roles coexist. In `user_auth_service` one
user is enough, because what its properties relate, sessions, tokens and the row,
belongs to one user, and isolation is the other runs' subject; access tokens expire
within their tick and refresh tokens a tick later, so either kind is met before and
after its end. `MaxTokens` cuts nothing short there: what signs tokens uses up one of
the two refresh tokens, and adds two payloads at most. `sessions_live` has no clock:
expiry only ends a renewal early, and the property starts from a detected reuse. The
bucket of 40 becomes one of 3, and 8 ticks are enough to empty and fill it twice.
`TokenRoom` and `RowRoom` in `SessionService` are the bounds in guards: a request starts
only while a token and a row are left for it, so no handler is cut short by a bound.
`MaxTokens` in `UserApi` only keeps a login waiting.

Requests, tokens, session ids, users, emails and identities are symmetric in the
safety runs, where nothing tells them apart; the liveness runs use no symmetry.

Deadlock is checked where it makes sense: off in `accounts_concurrent`, `user_api` and
`user_auth_service`, where with every name or token taken nothing may be left to do, and
in the runs of `ServerLifecycle`, where the process ends.

**Fairness.** `SessionService!LiveSpec` has weak fairness of `Proceed(r)` for every
request: a goroutine that has started is scheduled by the Go runtime, and its
statements return, which is why that run has no failures (`MayFail = FALSE`). Nothing
makes clients send requests. `ServerLifecycle!Spec` has weak fairness for each step
the goroutines take on their own and for the two timers; nothing is assumed of
clients, signals, or of a call ever finishing.

## 4. What the runs found

| Run | Where | What happens |
|---|---|---|
| `sessions_logout_final` | `auth.go:245` | A renewal reads the row, a logout (or a blocking of all sessions) commits, the renewal's `Save` writes `is_blocked = false` back: the session lives on with a new token. |
| `sessions_single_use` | `auth.go:204` | Two renewals of one refresh token both read it as current and both succeed. The reuse goes unnoticed until the loser's token is presented. |
| `accounts_stranded` | `auth.go:321`, `413` | An OAuth login links an identity to a user that is being deleted. The link survives; from then on each OAuth login of that identity answers 500 instead of restoring the user. |
| `accounts_revived` | `repository/user.go:83` | An update that read the row before it was deleted brings the user back, because `Save` upserts. |
| `server_both_drained` | `main.go:88` | `main.go` waits for the HTTP server only. When it is drained the database is closed and the process ends, with calls to the gRPC server still running. |

Each run checks the property that the quoted line of documentation states (see
`findings` in `PROJECT.json`) and TLC prints the trace. The properties that hold
next to them say how far the damage goes: `RevocationSticks` bounds the first one to
renewals that were already in flight, `TokenFamilies` shows the second leaves no
inconsistent row and `SupersededBuysNothing` that only overlapping renewals can do it,
`OAuthAllOrNothing` and `LinksSound` hold in spite of the third, `DeletionIsFinal` bounds
the third and fourth to links and updates already in flight, `RevokedUntilLogin` and
`LostRolesStayLost` say what stopping renewals is worth for access tokens in spite of the
first two, and `FrontHasConnections` and the theorem `CommandsDrain` that the last cannot
happen to the HTTP server, nor, within the deadline, to a program with one server.

Three more disagreements are listed there with a run that passes, because what the models
state is how far the code goes:

- *The rate.* README.md:44 and :149 announce 40 requests per second. The bucket of
  `ratelimit.go:12` holds 40 but gets one token per second; `WindowBound` is what it does:
  40 and one more for each second of any window, for all clients together.
- *Who changes roles.* `handler/user.go:98` and README.md:145 have it that only admins do.
  The handler compares the body with the caller's token, not with the row, so an owner whose
  token is older than a change of his roles undoes the change by sending the old list.
  `RolesSettle` holds from the moment these tokens have expired; dropping its clause on
  tokens gives this trace.
- *Who updates a user.* README.md:145 and :50 say the user himself only. The code, and the
  comment at `handler/user.go:89`, let an admin update anybody; so do `MayUpdate` and the
  exception in `RolesSettle`.

Two behaviours of the code contradict no documentation but are worth knowing. `cmd/grpc`
closes Redis and PostgreSQL under gRPC calls that outlast the ten seconds
(`grpc/server.go:57`), where the HTTP server dies by `log.Fatalf` with them still open. And
what `GetUser` caches may be names of one commit with roles of another, since `Preload` reads
them by separate statements (`repository/user.go:37-45`).

## 5. The proofs

All theorems hold for any finite or infinite sets of users, requests, tokens and calls
and for any bounds. They rest on the named assumptions of the modules only: that the
sentinels are not rows (`SentinelAssumption`, `NoneAssumption`), that durations and
bounds are naturals, that USER is a role and GOOGLE a provider (`NamesAssumption`),
that USER and ADMIN are two roles, that the two kinds of calls are disjoint. The theorems
of `AccountDirectory` assume as much of its constants (`DirectoryAssumption`): that no
account and nobody are not accounts and users.

| Module | Theorem | Property |
|---|---|---|
| `SessionServiceProofs` | `TypesHold` | `TypeOK` |
| | `FamiliesHold` | `TokenFamilies` |
| | `RevocationHolds` | `RevocationSticks` |
| | `UsersAreIsolated` | `UserIsolation` |
| | `DriftIsRefused` | `DriftStopsRenewal` |
| | `SupersededHolds` | `SupersededBuysNothing` |
| | `OneRenewalEach` | a token that bought one renewal buys another only by a renewal that overlaps it |
| | `PunishmentWaits` | a blocking that was decided on stays due until it is done: the safety half of `ReuseIsPunished` |
| | `LifecycleImplemented` | the refinement, `ImplementsLifecycle` |
| `AccountServiceProofs` | `TypesHold` | `TypeOK` |
| | `LinksAreSound` | `LinksSound` |
| | `CacheIsCommitted` | `CacheHoldsCommitted` |
| | `OAuthIsAtomic` | `OAuthAllOrNothing` |
| | `DeletionHolds` | `DeletionIsFinal` |
| | `UsersAreSessionUsers` | `UsersFitSessions`, and with it `SessionService!Spec` |
| `AccountSequentialProofs` | `CacheIsFresh` | `CacheFreshWhenCalm` |
| | `UsersHaveRoles` | `RolesWhenCalm` |
| | `LinksStayLive` | `LinksLiveWhenCalm` |
| | `RevivalIsOAuth` | `RevivedByOAuthWhenCalm` |
| | `DirectoryImplemented` | the refinement, `DirectoryWhenCalm` |
| `UserApiProofs` | `TypesHold` | `TypeOK` |
| | `AdminsComeFromAdmins` | `AdminNeedsAdmin` |
| | `DeletedIsLockedOut` | `DeletionLocksOut` |
| | `SettledRolesNeedAdmin` | `RolesSettle` |
| `UserAuthServiceProofs` | `TypesHold` | `TypeOK` |
| | `SessionsImplemented` | the refinement, `ImplementsSessions` |
| | `UserApiImplemented` | the refinement, `ImplementsUserApi` |
| | `RevokedStaysOut` | `RevokedUntilLogin` |
| | `LostRolesAreLost` | `LostRolesStayLost` |
| | `ServiceKeepsFamilies` | `TokenFamilies`, `ImplementsLifecycle` of the whole service |
| | `ServiceRefuses` | `RevocationSticks`, `SupersededBuysNothing`, `DriftStopsRenewal`, `UserIsolation` of the whole service |
| | `ServiceAuthorizes` | `AdminNeedsAdmin`, `RolesSettle` of the whole service |
| | `ServiceLocksOut` | `DeletionLocksOut` of the whole service |
| `RateLimiterProofs` | `TypesHold` | `TypeOK` |
| | `WindowBoundHolds` | `WindowBound` |
| `ServerLifecycleProofs` | `TypesHold` | `TypeOK` |
| | `ConnectionsOutliveCalls` | `FrontHasConnections` |
| | `CommandsDrain` | `BothDrained` for the programs with one server |
| | `StopIsAlwaysDue`, `StopOnlyAdvances` | the ranking behind `SignalEndsProcess` |
| `AbstractProofs` | `TokensHaveOneHolder`, `ReplacedIsOver`, `RevokedIsOver` | `OneHolder`, `ReplacedForGood`, `RevokedForGood` of `SessionLifecycle` |
| | `EmailsStayApart`, `IdentitiesOpenAccounts` | `EmailsDiffer`, `OwnersAreIn` of `AccountDirectory` |
| | `AccountsAreForGood`, `ClosedUntilSignIn` | `AccountsStay`, `ReopenedBySignIn` of `AccountDirectory` |

**The arguments.**

*Sessions.* The invariant is `TypeOK` with the four parts of `TokenFamilies`, which is
inductive because the last part, `RequestsMatchTokens`, says what requests remember:
without it `RenewRotate` could write back a row of another family. Revocation follows
from the invariant: a sealed session has no renewal past its lookup, a lookup does not
pass a blocked row, so no step clears the flag. Isolation holds because a row, the
tokens of its family and the requests that carry them name one user throughout; drift,
because only `RenewRotate` changes a token and only a renewal that was let past the
check gets there. The refinement maps `IssueSession` to
`Open`, `RenewRotate` to `Rotate`, and a step that seals sessions (a blocking, or the
end of the last renewal in flight) to `Revoke`; all others stutter. A rotation grants
a token that was not signed before, which is why no token is current twice.

*Tokens that were used.* No step gives a session a token that was signed before, so a token
that is not its session's stays that way (`ReplacedKept`); a renewal needs to have seen it
there, and those that have are the ones `Superseded` excludes. `OneRenewalEach` adds that
the first of a pair in `renewals` was replaced when the pair got there (`RenewedIsReplaced`).
A due blocking cannot be missed: rows stay and keep their user (`RowStays`), and the request
can do nothing but block them or fail (`BlockingWaits`).

*Accounts.* A handler commits what it read a while ago. The invariant therefore says
that what a request remembers is still true when it commits (`Remembered`): the row it
found is there, with the email it had, and the roles it is about to write or to cache
are among those the row has had (`RowsInPast`, and the history `past`). No step can make
this false, as a deletion leaves the row, `Saved` keeps its email, and the history only
grows (`RowsStay`). `LinksSound` needs it for the link that `OAuthLink` creates to a row
read earlier, `CacheHoldsCommitted` for `SetCache`. `OAuthIsAtomic` follows from the
unique indexes (`LinkInsertable`), by which the link of a commit is a new one.
`DeletionIsFinal` needs no more than that every write of a live row is an update or link in
flight that remembers it, or a sign-up, which inserts a fresh one; `UsersFitSessions` is the
same look at every write of `users`, through the mapping `rows`.

*Accounts, one request at a time.* `CalmInv` says that, as long as it is calm, at most one
request is in flight and everything agrees but for what that request is about to put
right (`Consistent`): links lead to live users, cache entries show the row, users have
roles, and what the request has read still holds (`ReadsHold`). A step keeps this because
no other request can come between it and the step before (`Alone`). The four `WhenCalm`
properties are `Consistent` with no request in flight, and the refinement follows step by
step: a commit whose reads still hold is one atomic operation of the directory. `owner` is
defined by CHOOSE; that it is the user of the link is `LinksSound` again (`OwnerKnown`).

*User endpoints.* The invariant adds to the types that the row a gRPC call is still to
assign roles to exists (`Assigning`), and that unless a gRPC call brought the role in nobody
holds it or is about to (`AdminNeedsAdmin`). `RolesSettle` needs no more: while a user's
roles are settled, whoever starts an update of his row without ADMIN is the owner under an
unexpired token, which carries the roles of the row, so what he may ask for are those
(`SettledStays`); every later step writes or signs what is remembered (`ContinueSettled`,
`WriteSettled`), and tokens only expire.

*The whole service.* `SP` and `AP` are the proof modules of the two components under the
same substitutions as `S` and `A`, so their invariants and theorems are available for the
composition once every action of it is shown to be an action of each (`NextAllowed`).
That shows the refinements, and with them that `SP!Inv` and `AP!Inv` are invariants of the
service; the one thing added is that a request is served by one handler at a time. For a
renewal to be a step of `UserApi` its check must map to the reading of a login, which
`RenewCheckUser` gives, and for a registration to be a step of `SessionService` the row must
not have been there. The two properties of tokens then leave the steps that sign:
`RenewRotate` needs a session that is not sealed, and a row that had the roles when
the request passed the check. `PartsRun` lifts all of the components' theorems: the
whole service is a behaviour of `SP!Spec` and `AP!Spec`, so what was proved of each part in
its own environment holds with all endpoints at work on the same users.

*The limiter.* `WindowBound` is not inductive: it says nothing of the bucket. The
strengthening relates the two: for every start of a window, what was served in it and
what is left in the bucket come to no more than the capacity and the time that has
passed.

*The servers.* As long as the server it waits for is up or draining the main goroutine is in
`serve` (`FrontWaits`), and past it that server has stopped, by itself or by force
(`FrontStopped`); nothing is closed before (`OpenWhileServing`), and only the gRPC server is
ever stopped by force (`HttpUnforced`). After the signal one of the fair steps to
the end is always due, hanging calls or not (`StopDue`), each of them lowers `Remaining`,
which starts at six at most, and no step of clients, servers or signals raises it.

*The abstract specifications.* A token is spent when it is granted and stays so, so a grant
never makes an old one current; an email is given to a new account only and kept by it; an
identity joins an account that is open from that step on, and is let go when it closes.
`SessionService` inherits the first three theorems by `LifecycleImplemented`,
`AccountService` the others as long as it is calm, by `DirectoryImplemented`.

**Model-checked only.** Liveness (`ReuseIsPunished`, `ServersStop`, `SignalEndsProcess`), which is out of
this prover's reach with its fairness and ENABLED. What it needs besides is proved:
`PunishmentWaits`, `StopIsAlwaysDue` and `StopOnlyAdvances`. Every other property of a passing run is proved.
`SingleUse`, `LogoutIsFinal`, `BothDrained` and, once it is not calm any more,
`LinksAreLive` and `RevivedByOAuthOnly` do not hold.

## 6. What is left out

- *Avatar upload* writes one file under a fresh name and shares nothing.
- *Configuration values and OAuth setup.* That the configuration is read, and may fail, is a
  step of the start; the durations it holds are constants of the modules. Which providers
  goth knows changes after the start as little as the roles table.
- *Redirects of OAuth* (`Begin`): gothic keeps its state in a cookie, not here.
- *JWT or PASETO.* Both accept a token until its expiry; that one still takes it in the
  very second of it and the other does not is below the clock's resolution.
- *Names and image of a user*, which no decision depends on, in the table and in the cache.
- *Reads of a row and its roles in one step.* `AccountService` reads them in two. In
  `SessionService`, `UserApi` and `UserAuthService` a login, a renewal and an OAuth restore
  read both at once. For a login or renewal that is a read at the last moment between the
  two statements at which the row was live, since roles change with a row that is saved
  live; it is not only when the gRPC `CreateUser` assigns roles to a row deleted meanwhile.
  An OAuth restore may read the roles later than the model has it, if somebody else restored
  the row first.
- *Answers.* What a request answers, a 500 after a commit included, is not in the state.
- *The pool of connections.* Every statement inside `uow.Do` goes through the repositories
  of its transaction, so a request never waits for a second connection while it holds one.
- *Protocol buffers* are generated.
- *Cryptography and passwords.* A token that verifies was signed by the service; a
  login that gets past the password check is one the user may do.
- *Validation of single fields*, except the list of roles.
- *`DeleteByPrefix("users:*")`* matches no key the service ever writes.
- *Roles table.* Seeded at start, never changed afterwards.
- *PostgreSQL and Redis* are taken to do what they document: a statement is atomic, a
  commit is atomic, unique indexes hold. Retries inside go-redis are not modelled.
- *The random generator* (`pkg/util/random.go:18`) is used without a lock. Any name may
  come out of it in the models, taken ones included.
- *Wording and status codes* of answers, logs, client address and user agent.

## 7. The plan

In this order, the most important behaviour first. Done:

1. `SessionService` with its concurrent, liveness and violation runs; the abstract
   `SessionLifecycle` and the refinement; all its safety properties and the refinement
   proved.
2. `AccountService`: accounts, links, cache; what holds under concurrency proved.
3. `RateLimiter`, checked and proved.
4. `UserApi`: authorization, checked and proved.
5. `ServerLifecycle`: start and stop, checked and proved for safety.
6. What `AccountService` promises with one request at a time (`calm`), proved.
7. `RolesSettle`: what an owner's stale token can do to his roles, and when that is over.
8. `ServerLifecycle`: the configuration, and both servers drained before the process ends,
   which `main.go:88` does not wait for.
9. `UserAuthService`: the composition, with the auth, OAuth and gRPC handlers, its two
   refinements and the properties of tokens, all proved.
10. `AccountDirectory`, and how far `AccountService` implements it, proved.
11. What is left of the refuted properties (`SupersededBuysNothing`, `DeletionIsFinal`,
    `CommandsDrain`), proved; the users of `AccountService` as those of `SessionService`.
12. The components' theorems lifted to `UserAuthService`, the promises of the abstract
    specifications, and the safety halves of the liveness properties, all proved.

Worth doing if the code changes: a lock or a compare-and-set in `RenewRotate` and in
`OAuthLink` would turn `LogoutIsFinal`, `SingleUse` and `LinksAreLive` into properties of passing
runs, and `SessionService` could then implement `SessionLifecycle` with blocked for revoked.
