--------------------------- MODULE AccountService ---------------------------
(***************************************************************************)
(* User accounts: registration, creation over HTTP and gRPC, OAuth login,  *)
(* update, deletion and the cached read of core/service/auth.go and        *)
(* core/service/user.go, over the users, user_roles and oauth_accounts     *)
(* tables and the Redis cache.                                             *)
(*                                                                         *)
(* Inside uow.Do a handler first reads and then writes, at PostgreSQL's    *)
(* default isolation level: its writes take effect together at the commit, *)
(* its reads may be stale by then.  So a transaction is some read steps    *)
(* and a commit step; a commit that breaks a unique index rolls back.  A   *)
(* repo call outside uow.Do and a Redis command are a step each.           *)
(*                                                                         *)
(* Preload reads a row and then its roles, each by a statement of its own, *)
(* in uow.Do as well as outside: where both count they are two steps.      *)
(*                                                                         *)
(* Of a row the model has the email, the roles and deleted_at.  Names and  *)
(* image, which nothing decides on, are left out, in the table and in the  *)
(* cache.  The session that OAuth login inserts is that of SessionService; *)
(* an OAuth login that finds a link changes nothing here.                  *)
(***************************************************************************)
EXTENDS Integers, FiniteSets

CONSTANTS
    Usernames,     \* what util.RandomUsername may draw
    Emails,
    RoleSets,      \* sets of role codes that requests may ask for, and rows have
    DefaultRole,   \* domain.USER_ROLE
    Providers,     \* goth provider names
    Google,        \* the provider of the mobile flow
    Subjects,      \* user ids at a provider
    Requests,      \* request goroutines
    None,          \* no row in users, no entry in the cache
    MayFail        \* whether a step may fail, or the process crash

VARIABLES
    users,  \* the users and user_roles tables, soft-deleted rows included
    links,  \* the oauth_accounts table
    cache,  \* Redis: the roles in the entry "user:<username>"
    reqs,   \* what each request goroutine is about to do, with what it has read
    past,   \* history: the roles each row has had at some commit
    calm    \* history: requests came one at a time so far, and none failed

vars == <<users, links, cache, reqs, past, calm>>

User     == [email : Emails, live : BOOLEAN, roles : RoleSets]
Link     == [user : Usernames, provider : Providers, subject : Subjects, email : Emails]

Idle == [step |-> "idle"]

ToSignUp     == [step : {"signUp"}, provider : Providers, subject : Subjects, email : Emails]
ToLinkRoles  == [step : {"linkRoles"}, link : Link, restore : BOOLEAN]
ToLink       == [step : {"link"}, link : Link, restore : BOOLEAN, roles : RoleSets]
ToAssign     == [step : {"assignRoles"}, user : Usernames, roles : RoleSets]
ToUpdate     == [step : {"update"}, user : Usernames, roles : RoleSets]
ToInvalidate == [step : {"invalidate"}, user : Usernames]
ToDelete     == [step : {"delete"}, user : Usernames]
ToSoftDelete == [step : {"softDelete"}, user : Usernames, unlinks : SUBSET Link]
ToGetRoles   == [step : {"getRoles"}, user : Usernames]
ToCache      == [step : {"cacheSet"}, user : Usernames, roles : RoleSets]

Request == {Idle} \cup ToSignUp \cup ToLinkRoles \cup ToLink \cup ToAssign \cup ToUpdate
             \cup ToInvalidate \cup ToDelete \cup ToSoftDelete \cup ToGetRoles \cup ToCache

ASSUME SentinelAssumption ==
    /\ None \notin User /\ None \notin Usernames
    /\ \A roles \in RoleSets : roles # None

ASSUME NamesAssumption ==
    {} \in RoleSets /\ {DefaultRole} \in RoleSets /\ Google \in Providers /\ MayFail \in BOOLEAN

-----------------------------------------------------------------------------

Init ==
    /\ users = [u \in Usernames |-> None]
    /\ links = {}
    /\ cache = [u \in Usernames |-> None]
    /\ reqs = [r \in Requests |-> Idle]
    /\ past = [u \in Usernames |-> {}]
    /\ calm = TRUE

Stored(u) == users[u] # None
Live(u)   == Stored(u) /\ users[u].live

\* The unique indexes of users: username and email, deleted rows included.
UserInsertable(u, email) ==
    /\ ~Stored(u)
    /\ \A v \in Usernames : Stored(v) => users[v].email # email

\* Mutant of InsertableAmong: the index (username, provider) is missing.
SubjectUnlinked(l, ls) ==
    \A m \in ls : <<m.provider, m.subject>> # <<l.provider, l.subject>>

\* The unique indexes of oauth_accounts, were ls its rows.
InsertableAmong(l, ls) ==
    \A m \in ls : /\ <<m.provider, m.subject>> # <<l.provider, l.subject>>
                  /\ <<m.user, m.provider>> # <<l.user, l.provider>>

LinkInsertable(l) == InsertableAmong(l, links)

\* The links that open transactions of DeleteUser have deleted.  Whoever inserts
\* one that they keep out waits for the transaction to end.
Unlinking == {l \in links : \E r \in Requests :
                reqs[r].step = "softDelete" /\ l \in reqs[r].unlinks}

\* Write the row of u, remembering the roles it gets.
WriteUser(u, row) ==
    /\ users' = [users EXCEPT ![u] = row]
    /\ past' = [past EXCEPT ![u] = @ \cup {row.roles}]

\* The row of u as Save leaves it: live, with the roles handed in, its own email.
Saved(u, roles) == [email |-> users[u].email, live |-> TRUE, roles |-> roles]

Become(r, next) == reqs' = [reqs EXCEPT ![r] = next]
Return(r)       == Become(r, Idle)

CacheSet(u, roles) == [step |-> "cacheSet", user |-> u, roles |-> roles]

-----------------------------------------------------------------------------
(* New users.                                                              *)

\* One transaction inserts the row with its roles; then the cache is set.
InsertUser(r, u, email, roles) ==
    /\ UserInsertable(u, email)
    /\ WriteUser(u, [email |-> email, live |-> TRUE, roles |-> roles])
    /\ Become(r, CacheSet(u, roles))

Register(r) ==
    /\ reqs[r] = Idle
    /\ \E u \in Usernames, email \in Emails : InsertUser(r, u, email, {DefaultRole})
    /\ UNCHANGED <<links, cache>>

\* Mutant of CreateUser: without the roles validator the list may be empty.
CreateUnvalidated(r) ==
    /\ reqs[r] = Idle
    /\ \E u \in Usernames, email \in Emails, roles \in RoleSets : InsertUser(r, u, email, roles)
    /\ UNCHANGED <<links, cache>>

\* The roles validator wants at least one known code, each once.
CreateUser(r) ==
    /\ reqs[r] = Idle
    /\ \E u \in Usernames, email \in Emails, roles \in RoleSets \ {{}} :
         InsertUser(r, u, email, roles)
    /\ UNCHANGED <<links, cache>>

\* The gRPC handler calls userRepo.Create outside a transaction: the row is
\* committed first, its roles by a second statement.
GrpcCreateUser(r) ==
    /\ reqs[r] = Idle
    /\ \E u \in Usernames, email \in Emails, roles \in RoleSets \ {{}} :
         /\ UserInsertable(u, email)
         /\ WriteUser(u, [email |-> email, live |-> TRUE, roles |-> {}])
         /\ Become(r, [step |-> "assignRoles", user |-> u, roles |-> roles])
    /\ UNCHANGED <<links, cache>>

GrpcAssignRoles(r) ==
    /\ reqs[r].step = "assignRoles"
    /\ LET u == reqs[r].user IN
         /\ WriteUser(u, [users[u] EXCEPT !.roles = reqs[r].roles])
         /\ Become(r, CacheSet(u, reqs[r].roles))
    /\ UNCHANGED <<links, cache>>

-----------------------------------------------------------------------------
(* OAuth login: the web flow and the Google mobile flow.                   *)

\* The reads of an identity that has no link yet: is there a row, perhaps a
\* deleted one, with the email the provider reports?
OAuthRead(r, provider, subject, email) ==
    /\ reqs[r] = Idle
    /\ \A l \in links : <<l.provider, l.subject>> # <<provider, subject>>
    /\ \/ /\ \A u \in Usernames : Stored(u) => users[u].email # email
          /\ Become(r, [step |-> "signUp", provider |-> provider,
                        subject |-> subject, email |-> email])
       \/ \E u \in Usernames :
            /\ Stored(u) /\ users[u].email = email
            /\ Become(r, [step |-> "linkRoles", restore |-> ~users[u].live,
                          link |-> [user |-> u, provider |-> provider,
                                    subject |-> subject, email |-> email]])
    /\ UNCHANGED <<users, links, cache, past>>

OAuthLogin(r) ==
    \E provider \in Providers, subject \in Subjects, email \in Emails :
      OAuthRead(r, provider, subject, email)

GoogleAuthMobile(r) ==
    \E subject \in Subjects, email \in Emails : OAuthRead(r, Google, subject, email)

\* The roles of the row that was found, by the second statement of Preload.
OAuthReadRoles(r) ==
    /\ reqs[r].step = "linkRoles"
    /\ LET l == reqs[r].link IN
         Become(r, [step |-> "link", link |-> l, restore |-> reqs[r].restore,
                    roles |-> users[l.user].roles])
    /\ UNCHANGED <<users, links, cache, past>>

\* Mutant of OAuthLink: the link is created after the commit that restores.
OAuthRestoreFirst(r) ==
    /\ reqs[r].step = "link"
    /\ LET l == reqs[r].link IN
         /\ IF reqs[r].restore
              THEN WriteUser(l.user, Saved(l.user, reqs[r].roles))
              ELSE UNCHANGED <<users, past>>
         /\ links' = links \cup {m \in {l} : LinkInsertable(m)}
         /\ Become(r, CacheSet(l.user, reqs[r].roles))
    /\ UNCHANGED cache

\* Mutant of OAuthLink: the email column is not filled in.
OAuthLinkNoEmail(r) ==
    /\ reqs[r].step = "link"
    /\ LET l == reqs[r].link IN
         /\ LinkInsertable(l)
         /\ links' = links \cup {[user |-> l.user, provider |-> l.provider, subject |-> l.subject]}
         /\ Become(r, CacheSet(l.user, reqs[r].roles))
    /\ UNCHANGED <<users, cache, past>>

\* Mutant of OAuthLink: a restored user starts again with the default role.
OAuthRestoreAsNew(r) ==
    /\ reqs[r].step = "link"
    /\ LET l     == reqs[r].link
           roles == IF reqs[r].restore THEN {DefaultRole} ELSE reqs[r].roles
       IN  /\ LinkInsertable(l)
           /\ IF reqs[r].restore
                THEN WriteUser(l.user, Saved(l.user, roles))
                ELSE UNCHANGED <<users, past>>
           /\ links' = links \cup {l}
           /\ Become(r, CacheSet(l.user, roles))
    /\ UNCHANGED cache

\* Commit the link, and with it the restored row as it was read.
OAuthLink(r) ==
    /\ reqs[r].step = "link"
    /\ LET l == reqs[r].link IN
         /\ LinkInsertable(l)
         /\ IF reqs[r].restore
              THEN WriteUser(l.user, Saved(l.user, reqs[r].roles))
              ELSE UNCHANGED <<users, past>>
         /\ links' = links \cup {l}
         /\ Become(r, CacheSet(l.user, reqs[r].roles))
    /\ UNCHANGED cache

\* Commit a new user together with its link.
OAuthSignUp(r) ==
    /\ reqs[r].step = "signUp"
    /\ \E u \in Usernames :
         LET l == [user |-> u, provider |-> reqs[r].provider,
                   subject |-> reqs[r].subject, email |-> reqs[r].email]
         IN  /\ LinkInsertable(l)
             /\ InsertUser(r, u, l.email, {DefaultRole})
             /\ links' = links \cup {l}
    /\ UNCHANGED cache

\* An index of the commit is violated: the transaction rolls back.
OAuthRollback(r) ==
    /\ \/ reqs[r].step = "link" /\ ~InsertableAmong(reqs[r].link, links \ Unlinking)
       \/ /\ reqs[r].step = "signUp"
          /\ \E u \in Usernames :
               \/ ~UserInsertable(u, reqs[r].email)
               \/ \E l \in links \ Unlinking : /\ l.provider = reqs[r].provider
                                               /\ l.subject = reqs[r].subject
    /\ Return(r)
    /\ UNCHANGED <<users, links, cache, past>>

-----------------------------------------------------------------------------
(* UpdateUser: read the row, commit the new values, set the cache.         *)

\* Mutant of UpdateRead: the cache is written before the transaction commits.
UpdateCacheFirst(r) ==
    /\ reqs[r] = Idle
    /\ \E u \in Usernames, roles \in RoleSets \ {{}} :
         /\ Live(u)
         /\ Become(r, [step |-> "update", user |-> u, roles |-> roles])
         /\ cache' = [cache EXCEPT ![u] = roles]
    /\ UNCHANGED <<users, links, past>>

\* Mutant of UpdateRead: the row is read Unscoped, deleted or not.
UpdateUnscoped(r) ==
    /\ reqs[r] = Idle
    /\ \E u \in Usernames, roles \in RoleSets \ {{}} :
         /\ Stored(u)
         /\ Become(r, [step |-> "update", user |-> u, roles |-> roles])
    /\ UNCHANGED <<users, links, cache, past>>

UpdateRead(r) ==
    /\ reqs[r] = Idle
    /\ \E u \in Usernames, roles \in RoleSets \ {{}} :
         /\ Live(u)
         /\ Become(r, [step |-> "update", user |-> u, roles |-> roles])
    /\ UNCHANGED <<users, links, cache, past>>

\* gorm's Save finds no live row to update if the user was deleted meanwhile,
\* and then upserts the row as it was read, deleted_at = NULL included.
UpdateCommit(r) ==
    /\ reqs[r].step = "update"
    /\ LET u == reqs[r].user IN
         /\ WriteUser(u, Saved(u, reqs[r].roles))
         /\ Become(r, CacheSet(u, reqs[r].roles))
    /\ UNCHANGED <<links, cache>>

-----------------------------------------------------------------------------
(* DeleteUser: read the row, invalidate the cache, soft-delete.            *)

DeleteRead(r) ==
    /\ reqs[r] = Idle
    /\ \E u \in Usernames : Live(u) /\ Become(r, [step |-> "invalidate", user |-> u])
    /\ UNCHANGED <<users, links, cache, past>>

\* Mutant of DeleteInvalidate: only "users:*" is deleted, which matches no entry.
DeletePrefixOnly(r) ==
    /\ reqs[r].step = "invalidate"
    /\ Become(r, [step |-> "delete", user |-> reqs[r].user])
    /\ UNCHANGED <<users, links, cache, past>>

DeleteInvalidate(r) ==
    /\ reqs[r].step = "invalidate"
    /\ cache' = [cache EXCEPT ![reqs[r].user] = None]
    /\ Become(r, [step |-> "delete", user |-> reqs[r].user])
    /\ UNCHANGED <<users, links, past>>

\* Redis fails: that is logged, and the deletion goes on.
InvalidateFails(r) ==
    /\ MayFail /\ reqs[r].step = "invalidate"
    /\ Become(r, [step |-> "delete", user |-> reqs[r].user])
    /\ UNCHANGED <<users, links, cache, past>>

\* Mutant of DeleteLinks: without the BeforeDelete hook the links stay.
DeleteKeepLinks(r) ==
    /\ reqs[r].step = "delete"
    /\ Become(r, [step |-> "softDelete", user |-> reqs[r].user, unlinks |-> {}])
    /\ UNCHANGED <<users, links, cache, past>>

\* The BeforeDelete hook deletes the links there are, in the transaction of the
\* deletion but by a statement before it.
DeleteLinks(r) ==
    /\ reqs[r].step = "delete"
    /\ LET u == reqs[r].user IN
         Become(r, [step |-> "softDelete", user |-> u, unlinks |-> {l \in links : l.user = u}])
    /\ UNCHANGED <<users, links, cache, past>>

\* Mutant of DeleteCommit: the roles are removed as well, not only the links.
DeleteRoles(r) ==
    /\ reqs[r].step = "softDelete"
    /\ users' = [users EXCEPT ![reqs[r].user] = [@ EXCEPT !.live = FALSE, !.roles = {}]]
    /\ links' = links \ reqs[r].unlinks
    /\ Return(r)
    /\ UNCHANGED <<cache, past>>

\* The soft deletion is committed, and the hook's with it.
DeleteCommit(r) ==
    /\ reqs[r].step = "softDelete"
    /\ users' = [users EXCEPT ![reqs[r].user].live = FALSE]
    /\ links' = links \ reqs[r].unlinks
    /\ Return(r)
    /\ UNCHANGED <<cache, past>>

-----------------------------------------------------------------------------
(* The cache.                                                              *)

\* GetUser after a miss: the row is read.  A hit returns the entry and changes
\* nothing.
GetUser(r) ==
    /\ reqs[r] = Idle
    /\ \E u \in Usernames :
         cache[u] = None /\ Live(u) /\ Become(r, [step |-> "getRoles", user |-> u])
    /\ UNCHANGED <<users, links, cache, past>>

\* Its roles are read, perhaps of a row that was changed or deleted since, and
\* cached by a later step.
GetRoles(r) ==
    /\ reqs[r].step = "getRoles"
    /\ LET u == reqs[r].user IN Become(r, CacheSet(u, users[u].roles))
    /\ UNCHANGED <<users, links, cache, past>>

\* The last step of every handler that caches a user.  When Redis fails the
\* error is logged or answered, and the entry stays as it was: Fail.  The
\* companion DeleteByPrefix of "users:*" matches no key.
SetCache(r) ==
    /\ reqs[r].step = "cacheSet"
    /\ cache' = [cache EXCEPT ![reqs[r].user] = reqs[r].roles]
    /\ Return(r)
    /\ UNCHANGED <<users, links, past>>

\* The entry's TTL runs out, or Logout deletes it.
Evict(u) ==
    /\ cache[u] # None
    /\ cache' = [cache EXCEPT ![u] = None]
    /\ UNCHANGED <<users, links, reqs, past>>

-----------------------------------------------------------------------------

\* A step fails, or the process dies: what was committed stays, nothing else.
Fail(r) ==
    /\ MayFail /\ reqs[r] # Idle
    /\ Return(r)
    /\ UNCHANGED <<users, links, cache, past>>

OneAtATime == \A r, s \in Requests : reqs[r] # Idle /\ reqs[s] # Idle => r = s

\* What the handlers do as long as nothing fails.
Handle ==
    \/ \E r \in Requests :
         \/ Register(r)
         \/ CreateUser(r)
         \/ GrpcCreateUser(r)
         \/ GrpcAssignRoles(r)
         \/ OAuthLogin(r)
         \/ GoogleAuthMobile(r)
         \/ OAuthReadRoles(r)
         \/ OAuthLink(r)
         \/ OAuthSignUp(r)
         \/ OAuthRollback(r)
         \/ UpdateRead(r)
         \/ UpdateCommit(r)
         \/ DeleteRead(r)
         \/ DeleteInvalidate(r)
         \/ DeleteLinks(r)
         \/ DeleteCommit(r)
         \/ GetUser(r)
         \/ GetRoles(r)
         \/ SetCache(r)
    \/ \E u \in Usernames : Evict(u)

Next ==
    \/ Handle /\ calm' = (calm /\ OneAtATime')
    \/ (\E r \in Requests : Fail(r) \/ InvalidateFails(r)) /\ calm' = FALSE

Spec == Init /\ [][Next]_vars

-----------------------------------------------------------------------------
(* Properties.                                                             *)

\* Every variable has its type.
TypeOK ==
    /\ users \in [Usernames -> User \cup {None}]
    /\ links \subseteq Link
    /\ cache \in [Usernames -> {None} \cup RoleSets]
    /\ reqs \in [Requests -> Request]
    /\ past \in [Usernames -> SUBSET RoleSets]
    /\ calm \in BOOLEAN

\* Whatever races, an identity at a provider leads to one user, a user has one
\* identity per provider, and a link only ever joins an identity to the row
\* that holds the email it was made with (auth.go:296-361).
LinksSound ==
    \A l \in links :
      /\ Stored(l.user) /\ users[l.user].email = l.email
      /\ \A m \in links :
           \/ m.provider = l.provider /\ m.subject = l.subject
           \/ m.provider = l.provider /\ m.user = l.user
           => m = l

\* The OAuth transaction is all or nothing: a user it creates or restores is
\* linked to the identity in the same commit, and it touches no other user
\* (auth.go:312-327, 348-356).
OAuthAllOrNothing ==
    [][\A r \in Requests :
         reqs[r].step \in {"link", "signUp"} /\ reqs'[r] # reqs[r] /\ users' # users
           => \E l \in links' \ links :
                \A u \in Usernames : users'[u] # users[u] => u = l.user /\ users'[u].live]_vars

\* However late a handler gets to its cache step, whether its transaction
\* committed or not, and however its row and its roles were read, an entry only
\* ever shows roles that were committed (user.go:181-193, 208; auth.go:158-173,
\* 370-374).
CacheHoldsCommitted ==
    \A u \in Usernames : cache[u] # None => cache[u] \in past[u]

Quiet == \A r \in Requests : reqs[r] = Idle

\* With one request at a time, and no failure, a cache entry never disagrees
\* with the table once the request is over: user.go:206 deletes the entry that
\* DeleteUser makes stale, user.go:191 replaces the one UpdateUser does.
CacheFreshWhenCalm ==
    calm /\ Quiet => \A u \in Usernames : cache[u] # None => Live(u) /\ cache[u] = users[u].roles

\* With one request at a time, and no failure, no user is left without a role:
\* the validator, the default role and the gRPC fallback (grpc/user.go:33) each
\* see to it that there is one, and a restored user gets back what it had.
RolesWhenCalm ==
    calm /\ Quiet => \A u \in Usernames : Stored(u) => users[u].roles # {}

\* A link leads to a live user: an OAuth login that finds a link whose user is
\* deleted answers 500 (auth.go:299-303), for good, instead of restoring it.
LinksAreLive == \A l \in links : Live(l.user)

\* One request at a time never leaves a link with a deleted user: the hook of
\* domain/user.go:49 removes them, and OAuth login restores the user it links.
LinksLiveWhenCalm == calm => LinksAreLive

\* A step brings a deleted user back, and it is not an OAuth login's.
RevivedOtherwise ==
    \E u \in Usernames :
      /\ Stored(u) /\ ~Live(u) /\ users'[u].live
      /\ \A r \in Requests :
           reqs[r].step = "link" /\ reqs[r].link.user = u => reqs'[r] = reqs[r]

\* A deleted user comes back by an OAuth login only.
RevivedByOAuthOnly == [][~RevivedOtherwise]_vars

\* With one request at a time a deleted user comes back by an OAuth login only:
\* nothing but a deletion in the middle of an update makes Save insert the row
\* again (repository/user.go:83).
RevivedByOAuthWhenCalm == [][calm' => ~RevivedOtherwise]_vars

\* Deleted for good: no identity leads to u, and no request in flight had read
\* its row while it was live.
Deleted(u) ==
    /\ Stored(u) /\ ~users[u].live
    /\ \A l \in links : l.user # u
    /\ \A r \in Requests :
         /\ reqs[r].step = "update" => reqs[r].user # u
         /\ reqs[r].step \in {"linkRoles", "link"} => reqs[r].link.user # u \/ reqs[r].restore

\* Whatever races, a user deleted for good stays so until an OAuth login brings
\* it back, linked to the identity that signed in: no update, late role or cache
\* step of another request revives it, and no link is left to the deleted row
\* (user.go:151-215, auth.go:296-361, repository/user.go:83).
DeletionIsFinal ==
    [][\A u \in Usernames :
         Deleted(u) => \/ Deleted(u)'
                       \/ users'[u].live /\ \E l \in links' \ links : l.user = u]_vars

\* The user each identity leads to, for a set of links.
ownerIn(ls) ==
    [i \in Providers \X Subjects |->
       IF \E l \in ls : <<l.provider, l.subject>> = i
         THEN CHOOSE u \in Usernames : \E l \in ls : <<l.provider, l.subject>> = i /\ l.user = u
         ELSE None]

owner == ownerIn(links)

Directory == INSTANCE AccountDirectory WITH
    NewRoles  <- {DefaultRole},
    NoAccount <- None,
    Nobody    <- None,
    accounts  <- users

\* With one request at a time, and no failure, the handlers' reads, commits and
\* cache steps come to the atomic operations of AccountDirectory: in particular
\* a deletion lets all identities go, and who signs in again finds his account
\* as he left it (user.go:206, auth.go:296-361, repository/user.go:83).
DirectoryWhenCalm ==
    Directory!Init /\ [][calm' => Directory!Next]_<<users, owner>>

\* The users table as SessionService sees it: a row that is not there is not live.
rows == [u \in Usernames |->
           IF Stored(u) THEN [live |-> users[u].live, roles |-> users[u].roles]
                        ELSE [live |-> FALSE, roles |-> {}]]

\* SessionService with no session and no request of its own: what is left of it
\* is what may happen to the users.
Sessions == INSTANCE SessionService WITH
    Users <- Usernames, Roles <- UNION RoleSets, users <- rows,
    SessionIds <- {}, Tokens <- {}, Requests <- {}, NoSession <- None, Unsigned <- None,
    RefreshTokenDuration <- 0, MaxClock <- 0, MayFail <- FALSE,
    sessions <- [s \in {} |-> None], signed <- [t \in {} |-> None],
    reqs <- [r \in {} |-> Idle], renewals <- {}, clock <- 0

\* Whatever the handlers race, one step of theirs does to the users what
\* SessionService lets happen around its sessions: a row is saved live, gets its
\* roles late, or is deleted and keeps them, and no step touches two rows
\* (repository/user.go:18-96).  This is Sessions!Spec, whose other variables are
\* constants here.
UsersFitSessions == Sessions!Init /\ [][rows' # rows => Sessions!Next]_rows

=============================================================================
