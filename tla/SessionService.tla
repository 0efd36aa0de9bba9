--------------------------- MODULE SessionService ---------------------------
(***************************************************************************)
(* The sessions behind the refresh tokens: Login, ReNewAccessToken and     *)
(* Logout of core/service/auth.go, run by concurrent request goroutines    *)
(* over the sessions and users tables.                                     *)
(*                                                                         *)
(* Outside uow.Do every repository call is a PostgreSQL transaction of its *)
(* own, so a request is a sequence of steps, one per statement, and any    *)
(* statement of another request may run between two of them.  What the     *)
(* handler remembers between its statements is kept in reqs[r].            *)
(*                                                                         *)
(* Signing a token touches nothing shared and is part of the step of the   *)
(* statement that stores it.  Access tokens are left out: they are never   *)
(* stored, and their random ID matches no session row.                     *)
(***************************************************************************)
EXTENDS Integers, FiniteSets

CONSTANTS
    Users,                 \* usernames
    Roles,                 \* role codes
    SessionIds,            \* session ids: the token ID of a refresh token family
    Tokens,                \* refresh token strings
    Requests,              \* request goroutines
    NoSession,             \* no row in the sessions table
    Unsigned,              \* a token string the service has not signed yet
    RefreshTokenDuration,  \* config.Auth.RefreshTokenDuration, in clock ticks
    MaxClock,              \* bound: the clock stops here
    MayFail                \* whether a statement may fail (or the process crash)

VARIABLES
    users,     \* the users and user_roles tables: whether the row is live, its roles
    sessions,  \* the sessions table
    signed,    \* the payload of every refresh token signed so far
    reqs,      \* what each request goroutine is about to do, with what it has read
    renewals,  \* history: <<presented, issued>> for every successful renewal
    clock      \* time.Now()

vars == <<users, sessions, signed, reqs, renewals, clock>>

Times    == 0 .. MaxClock
Expiries == 0 .. MaxClock + RefreshTokenDuration

Row     == [user : Users, token : Tokens, blocked : BOOLEAN, exp : Expiries]
Payload == [sid : SessionIds, user : Users, roles : SUBSET Roles, exp : Expiries]

Idle == [step |-> "idle"]

ToIssue   == [step : {"issue"}, user : Users, roles : SUBSET Roles]
ToLookup  == [step : {"lookup"}, token : Tokens]
ToCheck   == [step : {"checkUser"}, token : Tokens, row : Row]
ToRotate  == [step : {"rotate"}, token : Tokens, row : Row]
ToPunish  == [step : {"blockAll"}, user : Users]
ToLogout  == [step : {"block"}, sid : SessionIds]

Request == {Idle} \cup ToIssue \cup ToLookup \cup ToCheck \cup ToRotate
             \cup ToPunish \cup ToLogout

ASSUME SentinelAssumption == NoSession \notin Row /\ Unsigned \notin Payload

ASSUME DurationAssumption ==
    RefreshTokenDuration \in Nat /\ MaxClock \in Nat /\ MayFail \in BOOLEAN

-----------------------------------------------------------------------------
(* The tables start empty: no user row is live, no token is signed.        *)

Init ==
    /\ users = [u \in Users |-> [live |-> FALSE, roles |-> {}]]
    /\ sessions = [s \in SessionIds |-> NoSession]
    /\ signed = [t \in Tokens |-> Unsigned]
    /\ reqs = [r \in Requests |-> Idle]
    /\ renewals = {}
    /\ clock = 0

Exists(s) == sessions[s] # NoSession
Issued(t) == signed[t] # Unsigned

\* Bounds: a request that may sign a token, or insert a row, starts only while
\* one is left for every such request in flight.
TokenRoom ==
    Cardinality({t \in Tokens : ~Issued(t)}) >
      Cardinality({r \in Requests : reqs[r].step \in {"issue", "lookup", "checkUser", "rotate"}})

RowRoom ==
    Cardinality({s \in SessionIds : ~Exists(s)}) >
      Cardinality({r \in Requests : reqs[r].step = "issue"})

\* A request leaves the tables alone and goes on to its next step.
Continue(r, next) ==
    /\ reqs' = [reqs EXCEPT ![r] = next]
    /\ UNCHANGED <<users, sessions, signed, renewals, clock>>

Return(r) == reqs' = [reqs EXCEPT ![r] = Idle]

\* Mutant of Sign: the id handed in is dropped, the payload names no session.
SignWithoutId(t, sid, user, roles) ==
    /\ ~Issued(t)
    /\ signed' = [signed EXCEPT ![t] = [sid |-> NoSession, user |-> user, roles |-> roles,
                                        exp |-> clock + RefreshTokenDuration]]

\* tokenService.GenerateToken for the refresh token t.
Sign(t, sid, user, roles) ==
    /\ ~Issued(t)
    /\ signed' = [signed EXCEPT ![t] = [sid |-> sid, user |-> user, roles |-> roles,
                                        exp |-> clock + RefreshTokenDuration]]

\* tokenService.VerifyToken: our signature, and not past its expiry.
Verified(t) == Issued(t) /\ ~(clock > signed[t].exp)

-----------------------------------------------------------------------------
(* Login: read the user row, then sign the tokens and insert the session.  *)

LoginRead(r) ==
    /\ reqs[r] = Idle /\ TokenRoom /\ RowRoom
    /\ \E u \in Users :
         /\ users[u].live
         /\ Continue(r, [step |-> "issue", user |-> u, roles |-> users[u].roles])

\* sessionRepo.Create: the id is the primary key.
Insert(s, row) == ~Exists(s) /\ sessions' = [sessions EXCEPT ![s] = row]

IssueSession(r) ==
    /\ reqs[r].step = "issue"
    /\ \E s \in SessionIds, t \in Tokens :
         /\ Sign(t, s, reqs[r].user, reqs[r].roles)
         /\ Insert(s, [user |-> reqs[r].user, token |-> t, blocked |-> FALSE,
                       exp |-> clock + RefreshTokenDuration])
    /\ Return(r)
    /\ UNCHANGED <<users, renewals, clock>>

-----------------------------------------------------------------------------
(* ReNewAccessToken.                                                       *)

RenewVerify(r) ==
    /\ reqs[r] = Idle /\ TokenRoom
    /\ \E t \in Tokens : /\ Verified(t)
                         /\ Continue(r, [step |-> "lookup", token |-> t])

\* Mutant of Usable: the is_blocked check is forgotten.
UsableBlocked(s, user) == Exists(s) /\ sessions[s].user = user

\* The row is there, not blocked, and of the payload's user.
Usable(s, user) == Exists(s) /\ ~sessions[s].blocked /\ sessions[s].user = user

\* Mutant of RenewLookup: the presented token is not compared with the stored one.
RenewLookupAnyToken(r) ==
    /\ reqs[r].step = "lookup"
    /\ LET t   == reqs[r].token
           row == sessions[signed[t].sid]
           ok  == Usable(signed[t].sid, signed[t].user) /\ ~(clock > row.exp)
       IN  \/ ~ok /\ Continue(r, Idle)
           \/ ok /\ Continue(r, [step |-> "checkUser", token |-> t, row |-> row])

RenewLookup(r) ==
    /\ reqs[r].step = "lookup"
    /\ LET t   == reqs[r].token
           row == sessions[signed[t].sid]
           ok  == Usable(signed[t].sid, signed[t].user)
       IN  \/ ~ok /\ Continue(r, Idle)
           \/ ok /\ row.token # t /\ Continue(r, [step |-> "blockAll", user |-> row.user])
           \/ ok /\ row.token = t /\ clock > row.exp /\ Continue(r, Idle)
           \/ /\ ok /\ row.token = t /\ ~(clock > row.exp)
              /\ Continue(r, [step |-> "checkUser", token |-> t, row |-> row])

\* Mutant of roleCodesEqual: the token may carry fewer roles than the user has.
rolesStillHeld(a, b) == b \subseteq a

\* The same codes in any order: both lists are sorted copies of sets.
roleCodesEqual(a, b) == a = b

RenewCheckUser(r) ==
    /\ reqs[r].step = "checkUser"
    /\ LET t == reqs[r].token
           u == users[reqs[r].row.user]
       IN  \/ ~u.live /\ Continue(r, Idle)
           \/ /\ u.live /\ ~roleCodesEqual(u.roles, signed[t].roles)
              /\ Continue(r, [step |-> "blockAll", user |-> reqs[r].row.user])
           \/ /\ u.live /\ roleCodesEqual(u.roles, signed[t].roles)
              /\ Continue(r, [step |-> "rotate", token |-> t, row |-> reqs[r].row])

\* Mutants of Rotated: one of the two assignments of auth.go:243-244 is missing.
KeepExpiry(row, t) == [row EXCEPT !.token = t]
KeepToken(row, t)  == [row EXCEPT !.exp = clock + RefreshTokenDuration]

\* The row Save writes back: the snapshot with a new token and expiry.
Rotated(row, t) == [user |-> row.user, token |-> t, blocked |-> row.blocked,
                    exp |-> clock + RefreshTokenDuration]

\* sessionRepo.Update is gorm's Save: every column is written, is_blocked too,
\* from the row RenewLookup read.
RenewRotate(r) ==
    /\ reqs[r].step = "rotate"
    /\ LET old == signed[reqs[r].token] IN
         \E t \in Tokens :
           /\ Sign(t, old.sid, old.user, old.roles)
           /\ sessions' = [sessions EXCEPT ![old.sid] = Rotated(reqs[r].row, t)]
           /\ renewals' = renewals \cup {<<reqs[r].token, t>>}
    /\ Return(r)
    /\ UNCHANGED <<users, clock>>

\* Mutants of OfUser: the WHERE clause is lost, or the UPDATE is limited to a row.
OfAnyUser(s, user)   == Exists(s)
FirstOfUser(s, user) == s = CHOOSE x \in SessionIds : Exists(x) /\ sessions[x].user = user

OfUser(s, user) == Exists(s) /\ sessions[s].user = user

\* sessionRepo.BlockAllSessions: one UPDATE over the rows of the user.
BlockAllSessions(r) ==
    /\ reqs[r].step = "blockAll"
    /\ sessions' = [s \in SessionIds |->
                      IF OfUser(s, reqs[r].user)
                        THEN [sessions[s] EXCEPT !.blocked = TRUE]
                        ELSE sessions[s]]
    /\ Return(r)
    /\ UNCHANGED <<users, signed, renewals, clock>>

-----------------------------------------------------------------------------
(* Logout: verify the token and read the row, then block it.               *)

LogoutFind(r) ==
    /\ reqs[r] = Idle
    /\ \E t \in Tokens :
         /\ Verified(t)
         /\ Usable(signed[t].sid, signed[t].user)
         /\ Continue(r, [step |-> "block", sid |-> signed[t].sid])

LogoutBlock(r) ==
    /\ reqs[r].step = "block"
    /\ sessions' = [sessions EXCEPT ![reqs[r].sid].blocked = TRUE]
    /\ Return(r)
    /\ UNCHANGED <<users, signed, renewals, clock>>

-----------------------------------------------------------------------------
(* What happens around the requests.                                       *)

\* A statement fails, or the process dies with the request in flight: the
\* request ends where it is, with what it wrote so far.
Fail(r) == MayFail /\ reqs[r] # Idle /\ Continue(r, Idle)

\* A user row is created, updated or restored: userRepo.Create and Update.
UserSaved(u, roles) ==
    /\ users' = [users EXCEPT ![u] = [live |-> TRUE, roles |-> roles]]
    /\ UNCHANGED <<sessions, signed, reqs, renewals, clock>>

\* userRepo.Delete: the row is soft-deleted, its sessions are left alone.
UserDeleted(u) ==
    /\ users[u].live
    /\ users' = [users EXCEPT ![u].live = FALSE]
    /\ UNCHANGED <<sessions, signed, reqs, renewals, clock>>

\* The second statement of a userRepo.Create outside a transaction gives the row
\* its roles, even when it has been deleted since.
RolesAssigned(u, roles) ==
    /\ users' = [users EXCEPT ![u].roles = roles]
    /\ UNCHANGED <<sessions, signed, reqs, renewals, clock>>

Tick ==
    /\ clock < MaxClock
    /\ clock' = clock + 1
    /\ UNCHANGED <<users, sessions, signed, reqs, renewals>>

\* What a request does on its own once it has started.
Proceed(r) ==
    \/ IssueSession(r)
    \/ RenewLookup(r)
    \/ RenewCheckUser(r)
    \/ RenewRotate(r)
    \/ BlockAllSessions(r)
    \/ LogoutBlock(r)

Next ==
    \/ \E r \in Requests :
         \/ LoginRead(r)
         \/ RenewVerify(r)
         \/ LogoutFind(r)
         \/ Proceed(r)
         \/ Fail(r)
    \/ \E u \in Users, roles \in SUBSET Roles : UserSaved(u, roles) \/ RolesAssigned(u, roles)
    \/ \E u \in Users : UserDeleted(u)
    \/ Tick

Spec == Init /\ [][Next]_vars

\* A request goroutine that has started is scheduled until it returns.
Fairness == \A r \in Requests : WF_vars(Proceed(r))

LiveSpec == Spec /\ Fairness

-----------------------------------------------------------------------------
(* Properties.                                                             *)

\* Every variable has its type.
TypeOK ==
    /\ users \in [Users -> [live : BOOLEAN, roles : SUBSET Roles]]
    /\ sessions \in [SessionIds -> Row \cup {NoSession}]
    /\ signed \in [Tokens -> Payload \cup {Unsigned}]
    /\ reqs \in [Requests -> Request]
    /\ renewals \subseteq Tokens \X Tokens
    /\ clock \in Times

StoredTokensMatch ==
    \A s \in SessionIds : Exists(s) =>
      LET t == sessions[s].token IN
        /\ Issued(t)
        /\ signed[t].sid = s
        /\ signed[t].user = sessions[s].user
        /\ signed[t].exp = sessions[s].exp

SignedTokensHaveSessions ==
    \A t \in Tokens : Issued(t) =>
      Exists(signed[t].sid) /\ sessions[signed[t].sid].user = signed[t].user

FamiliesShareRoles ==
    \A t1, t2 \in Tokens :
      Issued(t1) /\ Issued(t2) /\ signed[t1].sid = signed[t2].sid
        => signed[t1].roles = signed[t2].roles

\* What a request remembers agrees with the tables.
Remembered(req) ==
    /\ req.step = "lookup" => Issued(req.token)
    /\ req.step \in {"checkUser", "rotate"} =>
         LET t == req.token IN
           /\ Issued(t)
           /\ req.row = [user |-> signed[t].user, token |-> t,
                        blocked |-> FALSE, exp |-> signed[t].exp]
    /\ req.step = "block" => Exists(req.sid)

RequestsMatchTokens == \A r \in Requests : Remembered(reqs[r])

\* A session and the refresh tokens signed under its id stay one family,
\* however requests interleave and wherever they stop: the row's token is one
\* the service signed for that session and user, with the row's expiry, no
\* signed token is without a row, a renewal never changes the roles that were
\* granted at login, and the row a renewal is about to write back is the one its
\* token belonged to (auth.go:236-245).
TokenFamilies ==
    /\ StoredTokensMatch
    /\ SignedTokensHaveSessions
    /\ FamiliesShareRoles
    /\ RequestsMatchTokens

\* A renewal of session s has read the row and not yet returned.
Renewing(s) ==
    \E r \in Requests : /\ reqs[r].step \in {"checkUser", "rotate"}
                       /\ signed[reqs[r].token].sid = s

\* Blocked, with no renewal in flight that read the row before.
Sealed(s) == Exists(s) /\ sessions[s].blocked /\ ~Renewing(s)

\* Blocking a session is final once the renewals that had already read its row
\* are over: only their Save can write is_blocked back (auth.go:245,
\* repository/session.go:36), and no later request gets past the blocked row.
RevocationSticks ==
    [][\A s \in SessionIds : Sealed(s) => Sealed(s)']_vars

\* Blocking a session is final, as Logout and the reuse detection promise it.
LogoutIsFinal ==
    [][\A s \in SessionIds :
         Exists(s) /\ sessions[s].blocked => sessions'[s].blocked]_vars

\* A refresh token buys one renewal: no two renewals presented the same one.
SingleUse ==
    \A p, q \in renewals : p[1] = q[1] => p = q

\* The session of t has another token by now, and no renewal that found t to be
\* its token is still in flight.
Superseded(t) ==
    /\ Issued(t) /\ sessions[signed[t].sid].token # t
    /\ \A r \in Requests : reqs[r].step \in {"checkUser", "rotate"} => reqs[r].token # t

\* A refresh token that was replaced buys nothing any more, once the renewals
\* that read the row before the replacement are over: it never becomes the
\* session's token again, by no late Save of another renewal either, and no
\* renewal that presents it succeeds (auth.go:204, 236-245).
SupersededBuysNothing ==
    [][\A t \in Tokens :
         Superseded(t) => Superseded(t)' /\ \A p \in renewals' \ renewals : p[1] # t]_vars

\* The family of s was granted other roles than its user has now, or the user
\* is gone.
Drifted(s) ==
    LET row == sessions[s] IN
    Exists(s) /\ (~users[row.user].live \/ users[row.user].roles # signed[row.token].roles)

\* While a user is gone or has other roles than those in a token, the session
\* of that token is never renewed: only a renewal that had passed the check of
\* auth.go:214-222 before the change may still finish, and as long as the change
\* stands no other reaches the rotation.
DriftStopsRenewal ==
    [][\A s \in SessionIds :
         /\ Drifted(s) /\ users' = users
         /\ \A r \in Requests : reqs[r].step = "rotate" => signed[reqs[r].token].sid # s
         => /\ sessions'[s].token = sessions[s].token
            /\ \A r \in Requests : reqs'[r].step = "rotate" => signed'[reqs'[r].token].sid # s
      ]_vars

\* The user a request acts for: the one whose token or password it presented.
ActsFor(r) ==
    CASE reqs[r].step \in {"issue", "blockAll"} -> reqs[r].user
      [] reqs[r].step = "block" -> sessions[reqs[r].sid].user
      [] OTHER -> signed[reqs[r].token].user

\* A request changes no session of another user, and never hands a session over:
\* the username checks of auth.go:201 and 270 find nothing because no row and
\* payload ever disagree.
UserIsolation ==
    [][\A r \in Requests, s \in SessionIds :
         reqs'[r] # reqs[r] /\ sessions'[s] # sessions[s]
           => /\ sessions'[s].user = ActsFor(r)
              /\ Exists(s) => sessions[s].user = ActsFor(r)]_vars

\* Reuse detection does what it announces (auth.go:204-208, 222-226): once a
\* renewal has found a superseded token or changed roles, every session its user
\* has at that moment is blocked, provided no statement fails.
ReuseIsPunished ==
    \A r \in Requests, s \in SessionIds :
      (reqs[r].step = "blockAll" /\ Exists(s) /\ sessions[s].user = reqs[r].user)
        ~> (Exists(s) /\ sessions[s].blocked)

-----------------------------------------------------------------------------
(* What a session promises, whatever the statements in between: it opens    *)
(* once, is rotated to a fresh token while it is open, and stays revoked    *)
(* once it is.  A session counts as revoked when it is Sealed.              *)

sealed == {s \in SessionIds : Sealed(s)}

sessionStatus == [s \in SessionIds |-> IF ~Exists(s) THEN "none"
                                      ELSE IF s \in sealed THEN "revoked" ELSE "open"]

currentToken == [s \in SessionIds |-> IF Exists(s) THEN sessions[s].token ELSE NoSession]

issuedTokens == {t \in Tokens : Issued(t)}

Lifecycle == INSTANCE SessionLifecycle WITH
    Ids     <- SessionIds,
    NoToken <- NoSession,
    status  <- sessionStatus,
    current <- currentToken,
    spent   <- issuedTokens

\* The service implements the lifecycle of SessionLifecycle: in particular no
\* refresh token ever becomes a session's current token twice.
ImplementsLifecycle == Lifecycle!Spec

=============================================================================
