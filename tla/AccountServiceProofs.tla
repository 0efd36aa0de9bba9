------------------------ MODULE AccountServiceProofs ------------------------
(***************************************************************************)
(* Theorems of AccountService, for any users, emails, identities, roles    *)
(* and concurrent requests.  Rows never go away, keep their email, and     *)
(* have their roles in past; so what a request remembers of a row          *)
(* (Memory) is still true when it commits, whatever ran in between, and    *)
(* that makes the invariant inductive.                                     *)
(***************************************************************************)
EXTENDS AccountService, TLAPS

USE DEF Stored

\* What the request record q says of the rows is true of the tables us and ps.
Memory(q, us, ps) ==
    /\ q.step \in {"assignRoles", "update", "invalidate", "delete", "softDelete", "getRoles"}
         => us[q.user] # None
    /\ q.step \in {"linkRoles", "link"} => /\ us[q.link.user] # None
                                          /\ us[q.link.user].email = q.link.email
    /\ q.step = "link" => q.roles \in ps[q.link.user]
    /\ q.step = "cacheSet" => q.roles \in ps[q.user]

Remembered == \A r \in Requests : Memory(reqs[r], users, past)

\* The history knows the roles of every row.
RowsInPast == \A u \in Usernames : Stored(u) => users[u].roles \in past[u]

\* TypeOK without calm, which no handler reads.
TablesTyped ==
    /\ users \in [Usernames -> User \cup {None}]
    /\ links \subseteq Link
    /\ cache \in [Usernames -> {None} \cup RoleSets]
    /\ reqs \in [Requests -> Request]
    /\ past \in [Usernames -> SUBSET RoleSets]

CalmTyped == calm \in BOOLEAN

Inv == TablesTyped /\ LinksSound /\ CacheHoldsCommitted /\ RowsInPast /\ Remembered

\* A row stays and keeps its email, the history only grows.
RowsStay ==
    \A u \in Usernames :
      /\ Stored(u) => users'[u] # None /\ users'[u].email = users[u].email
      /\ past[u] \subseteq past'[u]

-----------------------------------------------------------------------------
(* Lemmas.                                                                 *)

\* The step a request is at tells which fields it has.
LEMMA Carries ==
    ASSUME NEW q \in Request
    PROVE  /\ q.step = "signUp" => q \in ToSignUp
           /\ q.step = "linkRoles" => q \in ToLinkRoles
           /\ q.step = "link" => q \in ToLink
           /\ q.step = "assignRoles" => q \in ToAssign
           /\ q.step = "update" => q \in ToUpdate
           /\ q.step = "invalidate" => q \in ToInvalidate
           /\ q.step = "delete" => q \in ToDelete
           /\ q.step = "softDelete" => q \in ToSoftDelete
           /\ q.step = "getRoles" => q \in ToGetRoles
           /\ q.step = "cacheSet" => q \in ToCache
  BY DEF Request, Idle, ToSignUp, ToLinkRoles, ToLink, ToAssign, ToUpdate, ToInvalidate, ToDelete,
         ToSoftDelete, ToGetRoles, ToCache

\* The users a request names are usernames.
LEMMA NamesUsers ==
    ASSUME NEW q \in Request
    PROVE  /\ q.step \in {"assignRoles", "update", "invalidate", "delete", "softDelete",
                           "getRoles", "cacheSet"}
                => q.user \in Usernames
           /\ q.step \in {"linkRoles", "link"} => q.link \in Link /\ q.link.user \in Usernames
  BY Carries DEF ToLinkRoles, ToLink, ToAssign, ToUpdate, ToInvalidate, ToDelete, ToSoftDelete,
                 ToGetRoles, ToCache, Link

\* An idle request names nobody.
LEMMA IdleFits == Idle \in Request /\ \A us, ps : Memory(Idle, us, ps)
  BY DEF Idle, Request, Memory

\* A request that will set the cache to roles the row had.
LEMMA CacheSetFits ==
    ASSUME NEW u \in Usernames, NEW roles \in RoleSets
    PROVE  /\ CacheSet(u, roles) \in Request
           /\ \A us, ps : roles \in ps[u] => Memory(CacheSet(u, roles), us, ps)
  <1>1. CacheSet(u, roles) \in Request
    BY DEF CacheSet, Request, ToCache
  <1>2. \A us, ps : roles \in ps[u] => Memory(CacheSet(u, roles), us, ps)
    BY DEF CacheSet, Memory
  <1> QED
    BY <1>1, <1>2

\* Writing a row that keeps its email.
LEMMA WriteUserEffect ==
    ASSUME TablesTyped, RowsInPast, NEW u \in Usernames, NEW row \in User,
           Stored(u) => row.email = users[u].email, WriteUser(u, row)
    PROVE  /\ users' \in [Usernames -> User \cup {None}]
           /\ past' \in [Usernames -> SUBSET RoleSets]
           /\ RowsStay /\ RowsInPast'
           /\ users'[u] = row /\ users'[u] # None /\ row.roles \in past'[u]
           /\ \A v \in Usernames : v # u => users'[v] = users[v]
  <1>1. row # None /\ row.roles \in RoleSets
    BY SentinelAssumption DEF User
  <1>2. /\ users' \in [Usernames -> User \cup {None}]
        /\ users'[u] = row
        /\ \A v \in Usernames : v # u => users'[v] = users[v]
    BY DEF TablesTyped, WriteUser
  <1>3. /\ past' \in [Usernames -> SUBSET RoleSets]
        /\ past'[u] = past[u] \cup {row.roles}
        /\ \A v \in Usernames : v # u => past'[v] = past[v]
    BY <1>1 DEF TablesTyped, WriteUser
  <1>4. RowsStay
    BY <1>1, <1>2, <1>3 DEF RowsStay
  <1>5. RowsInPast'
    BY <1>1, <1>2, <1>3 DEF RowsInPast
  <1> QED
    BY <1>1, <1>2, <1>3, <1>4, <1>5

\* A step of request r over tables in which rows stay.
LEMMA RequestStep ==
    ASSUME Inv, NEW r \in Requests, NEW next \in Request, reqs' = [reqs EXCEPT ![r] = next],
           users' \in [Usernames -> User \cup {None}],
           past' \in [Usernames -> SUBSET RoleSets],
           RowsStay, RowsInPast', links' \subseteq Link, LinksSound',
           cache' = cache, Memory(next, users', past')
    PROVE  Inv'
  <1>1. reqs' \in [Requests -> Request] /\ reqs'[r] = next
        /\ \A q \in Requests : q # r => reqs'[q] = reqs[q]
    BY DEF Inv, TablesTyped
  <1>2. TablesTyped'
    BY <1>1 DEF Inv, TablesTyped
  <1>3. CacheHoldsCommitted'
    BY DEF Inv, CacheHoldsCommitted, RowsStay
  <1>4. \A q \in Requests : Memory(reqs'[q], users', past')
    <2> TAKE q \in Requests
    <2>1. CASE q = r
      BY <1>1, <2>1
    <2>2. CASE q # r
      <3>1. reqs'[q] = reqs[q] /\ reqs[q] \in Request /\ Memory(reqs[q], users, past)
        BY <1>1, <2>2 DEF Inv, TablesTyped, Remembered
      <3>2. Memory(reqs[q], users', past')
        BY <3>1, NamesUsers DEF Memory, RowsStay
      <3> QED
        BY <3>1, <3>2
    <2> QED
      BY <2>1, <2>2
  <1>5. Remembered'
    BY <1>4 DEF Remembered
  <1> QED
    BY <1>2, <1>3, <1>5 DEF Inv

\* A step that leaves the tables alone.
LEMMA ReadStep ==
    ASSUME Inv, NEW r \in Requests, NEW next \in Request, Become(r, next),
           UNCHANGED <<users, links, cache, past>>, Memory(next, users, past)
    PROVE  Inv'
  <1>1. RowsStay /\ RowsInPast' /\ LinksSound'
    BY DEF Inv, RowsStay, RowsInPast, LinksSound
  <1> QED
    BY <1>1, RequestStep DEF Become, Inv, TablesTyped

\* Links stay sound when rows stay and links only go.
LEMMA FewerLinks ==
    ASSUME Inv, RowsStay, links' \subseteq links
    PROVE  links' \subseteq Link /\ LinksSound'
  <1>1. links \subseteq Link /\ \A l \in links : l.user \in Usernames
    BY DEF Inv, TablesTyped, Link
  <1> QED
    BY <1>1 DEF Inv, LinksSound, RowsStay

\* Links stay sound when one is added that breaks no index and names its row.
LEMMA OneMoreLink ==
    ASSUME Inv, RowsStay, NEW l \in Link, LinkInsertable(l), links' = links \cup {l},
           users'[l.user] # None, users'[l.user].email = l.email
    PROVE  links' \subseteq Link /\ LinksSound'
  <1>1. links \subseteq Link /\ \A m \in links : m.user \in Usernames
    BY DEF Inv, TablesTyped, Link
  <1>2. \A m \in links' : users'[m.user] # None /\ users'[m.user].email = m.email
    BY <1>1 DEF Inv, LinksSound, RowsStay
  <1>3. \A m, n \in links' : \/ n.provider = m.provider /\ n.subject = m.subject
                             \/ n.provider = m.provider /\ n.user = m.user
                             => n = m
    BY DEF Inv, LinksSound, LinkInsertable, InsertableAmong
  <1> QED
    BY <1>1, <1>2, <1>3 DEF LinksSound

\* A row is written and the cache set next; no link is made.
LEMMA WriteStep ==
    ASSUME Inv, NEW r \in Requests, NEW u \in Usernames, NEW row \in User,
           Stored(u) => row.email = users[u].email, WriteUser(u, row),
           NEW next \in Request, Become(r, next), UNCHANGED <<links, cache>>,
           users'[u] # None /\ row.roles \in past'[u] => Memory(next, users', past')
    PROVE  Inv'
  <1>1. /\ users' \in [Usernames -> User \cup {None}]
        /\ past' \in [Usernames -> SUBSET RoleSets]
        /\ RowsStay /\ RowsInPast'
        /\ users'[u] # None /\ row.roles \in past'[u]
    BY WriteUserEffect DEF Inv
  <1>2. links' \subseteq Link /\ LinksSound'
    BY <1>1, FewerLinks
  <1> QED
    BY <1>1, <1>2, RequestStep DEF Become

-----------------------------------------------------------------------------
(* The actions keep the invariant.                                         *)

LEMMA InitInv == Init => Inv
  BY IdleFits DEF Init, Inv, TablesTyped, LinksSound, CacheHoldsCommitted, RowsInPast, Remembered

\* A new row, whose email and name are free.
LEMMA InsertStep ==
    ASSUME Inv, NEW r \in Requests, NEW u \in Usernames, NEW email \in Emails,
           NEW roles \in RoleSets, InsertUser(r, u, email, roles), UNCHANGED <<links, cache>>
    PROVE  Inv'
  <1> DEFINE row == [email |-> email, live |-> TRUE, roles |-> roles]
  <1>1. row \in User /\ row.roles = roles
    BY DEF User
  <1>2. ~Stored(u) /\ WriteUser(u, row) /\ Become(r, CacheSet(u, roles))
    BY DEF InsertUser, UserInsertable
  <1> HIDE DEF row
  <1> QED
    BY <1>1, <1>2, WriteStep, CacheSetFits

LEMMA RegisterInv == ASSUME Inv, NEW r \in Requests, Register(r) PROVE Inv'
  BY InsertStep, NamesAssumption DEF Register

LEMMA CreateUserInv == ASSUME Inv, NEW r \in Requests, CreateUser(r) PROVE Inv'
  BY InsertStep DEF CreateUser

LEMMA GrpcCreateUserInv == ASSUME Inv, NEW r \in Requests, GrpcCreateUser(r) PROVE Inv'
  <1>1. PICK u \in Usernames, email \in Emails, roles \in RoleSets \ {{}} :
          /\ ~Stored(u)
          /\ WriteUser(u, [email |-> email, live |-> TRUE, roles |-> {}])
          /\ Become(r, [step |-> "assignRoles", user |-> u, roles |-> roles])
    BY DEF GrpcCreateUser, UserInsertable
  <1> DEFINE row  == [email |-> email, live |-> TRUE, roles |-> {}]
             next == [step |-> "assignRoles", user |-> u, roles |-> roles]
  <1>2. row \in User
    BY NamesAssumption DEF User
  <1>3. next \in Request
    BY DEF Request, ToAssign
  <1>4. users'[u] # None => Memory(next, users', past')
    BY DEF Memory
  <1>5. UNCHANGED <<links, cache>> /\ WriteUser(u, row) /\ Become(r, next) /\ ~Stored(u)
    BY <1>1 DEF GrpcCreateUser
  <1> HIDE DEF row, next
  <1> QED
    BY <1>2, <1>3, <1>4, <1>5, WriteStep

\* A stored row is written with other roles, and the cache set next.
LEMMA RewriteStep ==
    ASSUME Inv, NEW r \in Requests, NEW u \in Usernames, Stored(u), NEW live \in BOOLEAN,
           NEW roles \in RoleSets, Become(r, CacheSet(u, roles)), UNCHANGED <<links, cache>>,
           NEW row, row = [email |-> users[u].email, live |-> live, roles |-> roles],
           WriteUser(u, row)
    PROVE  Inv'
  <1>1. users[u].email \in Emails
    BY DEF Inv, TablesTyped, User
  <1>2. row \in User /\ row.email = users[u].email /\ row.roles = roles
    BY <1>1 DEF User
  <1> QED
    BY <1>2, WriteStep, CacheSetFits

LEMMA GrpcAssignRolesInv == ASSUME Inv, NEW r \in Requests, GrpcAssignRoles(r) PROVE Inv'
  <1> DEFINE u == reqs[r].user
  <1>1. reqs[r].step = "assignRoles" /\ reqs[r] \in Request /\ Memory(reqs[r], users, past)
    BY DEF GrpcAssignRoles, Inv, TablesTyped, Remembered
  <1>2. u \in Usernames /\ Stored(u) /\ reqs[r].roles \in RoleSets
    BY <1>1, Carries DEF ToAssign, Memory
  <1>3. users[u] \in User /\ users[u].live \in BOOLEAN
    BY <1>2 DEF Inv, TablesTyped, User
  <1>4. [users[u] EXCEPT !.roles = reqs[r].roles]
          = [email |-> users[u].email, live |-> users[u].live, roles |-> reqs[r].roles]
    BY <1>3 DEF User
  <1> QED
    BY <1>2, <1>3, <1>4, RewriteStep DEF GrpcAssignRoles

LEMMA UpdateCommitInv == ASSUME Inv, NEW r \in Requests, UpdateCommit(r) PROVE Inv'
  <1> DEFINE u == reqs[r].user
  <1>1. reqs[r].step = "update" /\ reqs[r] \in Request /\ Memory(reqs[r], users, past)
    BY DEF UpdateCommit, Inv, TablesTyped, Remembered
  <1>2. u \in Usernames /\ Stored(u) /\ reqs[r].roles \in RoleSets
    BY <1>1, Carries DEF ToUpdate, Memory
  <1>3. users[u] \in User
    BY <1>2 DEF Inv, TablesTyped
  <1> QED
    BY <1>2, RewriteStep DEF UpdateCommit, Saved

LEMMA OAuthReadInv ==
    ASSUME Inv, NEW r \in Requests, NEW provider \in Providers, NEW subject \in Subjects,
           NEW email \in Emails, OAuthRead(r, provider, subject, email)
    PROVE  Inv'
  <1>1. UNCHANGED <<users, links, cache, past>>
    BY DEF OAuthRead
  <1>2. CASE Become(r, [step |-> "signUp", provider |-> provider,
                        subject |-> subject, email |-> email])
    <2> DEFINE next == [step |-> "signUp", provider |-> provider,
                        subject |-> subject, email |-> email]
    <2>1. next \in Request /\ Memory(next, users, past) /\ Become(r, next)
      BY <1>2 DEF Request, ToSignUp, Memory
    <2> HIDE DEF next
    <2> QED
      BY <1>1, <2>1, ReadStep
  <1>3. ASSUME NEW u \in Usernames, Stored(u), users[u].email = email,
               Become(r, [step |-> "linkRoles", restore |-> ~users[u].live,
                          link |-> [user |-> u, provider |-> provider,
                                    subject |-> subject, email |-> email]])
        PROVE  Inv'
    <2> DEFINE l    == [user |-> u, provider |-> provider, subject |-> subject, email |-> email]
               next == [step |-> "linkRoles", restore |-> ~users[u].live, link |-> l]
    <2>1. users[u].live \in BOOLEAN
      BY <1>3 DEF Inv, TablesTyped, User
    <2>2. l \in Link /\ l.user = u /\ l.email = email
      BY DEF Link
    <2>3. Become(r, next)
      BY <1>3
    <2> HIDE DEF l
    <2>4. next \in Request /\ next.step = "linkRoles" /\ next.link = l
      BY <2>1, <2>2 DEF Request, ToLinkRoles
    <2> HIDE DEF next
    <2>5. Memory(next, users, past)
      BY <1>3, <2>2, <2>4 DEF Memory
    <2> QED
      BY <1>1, <2>3, <2>4, <2>5, ReadStep
  <1> QED
    BY <1>2, <1>3 DEF OAuthRead

LEMMA OAuthReadRolesInv == ASSUME Inv, NEW r \in Requests, OAuthReadRoles(r) PROVE Inv'
  <1> DEFINE l    == reqs[r].link
             next == [step |-> "link", link |-> l, restore |-> reqs[r].restore,
                      roles |-> users[l.user].roles]
  <1>1. reqs[r].step = "linkRoles" /\ reqs[r] \in ToLinkRoles /\ Memory(reqs[r], users, past)
    BY Carries DEF OAuthReadRoles, Inv, TablesTyped, Remembered
  <1>2. l \in Link /\ l.user \in Usernames /\ reqs[r].restore \in BOOLEAN
    BY <1>1 DEF ToLinkRoles, Link
  <1>3. Stored(l.user) /\ users[l.user].email = l.email
    BY <1>1 DEF Memory
  <1>4. users[l.user].roles \in RoleSets /\ users[l.user].roles \in past[l.user]
    BY <1>2, <1>3 DEF Inv, TablesTyped, User, RowsInPast
  <1>5. Become(r, next) /\ UNCHANGED <<users, links, cache, past>>
    BY DEF OAuthReadRoles
  <1> HIDE DEF l
  <1>6. /\ next \in Request
        /\ next.step = "link" /\ next.link = l /\ next.roles = users[l.user].roles
    BY <1>2, <1>4 DEF Request, ToLink
  <1> HIDE DEF next
  <1>7. Memory(next, users, past)
    BY <1>3, <1>4, <1>6 DEF Memory
  <1> QED
    BY <1>5, <1>6, <1>7, ReadStep

LEMMA OAuthLinkInv == ASSUME Inv, NEW r \in Requests, OAuthLink(r) PROVE Inv'
  <1> DEFINE l    == reqs[r].link
             u    == l.user
             next == CacheSet(u, reqs[r].roles)
  <1>1. reqs[r].step = "link" /\ reqs[r] \in Request /\ Memory(reqs[r], users, past)
    BY DEF OAuthLink, Inv, TablesTyped, Remembered
  <1>2. l \in Link /\ u \in Usernames /\ reqs[r].roles \in RoleSets
    BY <1>1, Carries, NamesUsers DEF ToLink
  <1>3. Stored(u) /\ users[u].email = l.email /\ reqs[r].roles \in past[u]
    BY <1>1 DEF Memory
  <1>4. /\ LinkInsertable(l) /\ links' = links \cup {l} /\ cache' = cache
        /\ reqs' = [reqs EXCEPT ![r] = next]
    BY DEF OAuthLink, Become
  <1>5. /\ users' \in [Usernames -> User \cup {None}]
        /\ past' \in [Usernames -> SUBSET RoleSets]
        /\ RowsStay /\ RowsInPast'
    <2>1. CASE WriteUser(u, Saved(u, reqs[r].roles))
      <3>1. users[u].email \in Emails
        BY <1>2, <1>3 DEF Inv, TablesTyped, User
      <3>2. Saved(u, reqs[r].roles) \in User /\ Saved(u, reqs[r].roles).email = users[u].email
        BY <3>1, <1>2 DEF Saved, User
      <3> QED
        BY <1>2, <2>1, <3>2, WriteUserEffect DEF Inv
    <2>2. CASE UNCHANGED <<users, past>>
      BY <2>2 DEF Inv, TablesTyped, RowsStay, RowsInPast
    <2> QED
      BY <2>1, <2>2 DEF OAuthLink
  <1>6. users'[u] # None /\ users'[u].email = l.email /\ reqs[r].roles \in past'[u]
    BY <1>2, <1>3, <1>5 DEF RowsStay
  <1>7. links' \subseteq Link /\ LinksSound'
    BY <1>2, <1>4, <1>5, <1>6, OneMoreLink
  <1>8. next \in Request /\ Memory(next, users', past')
    BY <1>2, <1>6, CacheSetFits
  <1> HIDE DEF next
  <1> QED
    BY <1>4, <1>5, <1>7, <1>8, RequestStep

LEMMA OAuthSignUpInv == ASSUME Inv, NEW r \in Requests, OAuthSignUp(r) PROVE Inv'
  <1> DEFINE roles == {DefaultRole}
             email == reqs[r].email
  <1>1. reqs[r].step = "signUp" /\ reqs[r] \in ToSignUp
    BY Carries DEF OAuthSignUp, Inv, TablesTyped
  <1>2. /\ reqs[r].provider \in Providers /\ reqs[r].subject \in Subjects
        /\ email \in Emails /\ roles \in RoleSets
    BY <1>1, NamesAssumption DEF ToSignUp
  <1>3. PICK u \in Usernames :
          LET m == [user |-> u, provider |-> reqs[r].provider,
                    subject |-> reqs[r].subject, email |-> email]
          IN  LinkInsertable(m) /\ InsertUser(r, u, email, roles) /\ links' = links \cup {m}
    BY DEF OAuthSignUp
  <1> DEFINE l    == [user |-> u, provider |-> reqs[r].provider,
                      subject |-> reqs[r].subject, email |-> email]
             row  == [email |-> email, live |-> TRUE, roles |-> roles]
             next == CacheSet(u, roles)
  <1>4. /\ LinkInsertable(l) /\ links' = links \cup {l} /\ cache' = cache
        /\ reqs' = [reqs EXCEPT ![r] = next]
        /\ WriteUser(u, row) /\ ~Stored(u)
    BY <1>3 DEF OAuthSignUp, InsertUser, UserInsertable, Become
  <1>5. l \in Link /\ l.user = u /\ l.email = email
    BY <1>2 DEF Link
  <1>6. row \in User /\ row.email = email /\ row.roles = roles
    BY <1>2 DEF User
  <1> HIDE DEF l, row
  <1>7. /\ users' \in [Usernames -> User \cup {None}]
        /\ past' \in [Usernames -> SUBSET RoleSets]
        /\ RowsStay /\ RowsInPast'
        /\ users'[u] = row /\ users'[u] # None /\ roles \in past'[u]
    BY <1>4, <1>6, WriteUserEffect DEF Inv
  <1>8. links' \subseteq Link /\ LinksSound'
    BY <1>4, <1>5, <1>6, <1>7, OneMoreLink
  <1>9. next \in Request /\ Memory(next, users', past')
    BY <1>2, <1>7, CacheSetFits
  <1> HIDE DEF next
  <1> QED
    BY <1>4, <1>7, <1>8, <1>9, RequestStep

LEMMA ReturnsInv ==
    ASSUME Inv, NEW r \in Requests, Return(r), UNCHANGED <<users, links, cache, past>>
    PROVE  Inv'
  BY ReadStep, IdleFits DEF Return

LEMMA UpdateReadInv == ASSUME Inv, NEW r \in Requests, UpdateRead(r) PROVE Inv'
  <1>1. PICK u \in Usernames, roles \in RoleSets \ {{}} :
          Stored(u) /\ Become(r, [step |-> "update", user |-> u, roles |-> roles])
    BY DEF UpdateRead, Live
  <1> DEFINE next == [step |-> "update", user |-> u, roles |-> roles]
  <1>2. next \in Request /\ Memory(next, users, past) /\ Become(r, next)
    BY <1>1 DEF Request, ToUpdate, Memory
  <1> HIDE DEF next
  <1> QED
    BY <1>2, ReadStep DEF UpdateRead

LEMMA DeleteReadInv == ASSUME Inv, NEW r \in Requests, DeleteRead(r) PROVE Inv'
  <1>1. PICK u \in Usernames : Stored(u) /\ Become(r, [step |-> "invalidate", user |-> u])
    BY DEF DeleteRead, Live
  <1> DEFINE next == [step |-> "invalidate", user |-> u]
  <1>2. next \in Request /\ Memory(next, users, past) /\ Become(r, next)
    BY <1>1 DEF Request, ToInvalidate, Memory
  <1> HIDE DEF next
  <1> QED
    BY <1>2, ReadStep DEF DeleteRead

\* A step that writes an entry of the cache: nothing, or roles the row had.
LEMMA CacheStep ==
    ASSUME Inv, NEW r \in Requests, NEW next \in Request, Become(r, next),
           NEW u \in Usernames, NEW c, cache' = [cache EXCEPT ![u] = c],
           c = None \/ (c \in RoleSets /\ c \in past[u]),
           UNCHANGED <<users, links, past>>, Memory(next, users, past)
    PROVE  Inv'
  <1>1. reqs' \in [Requests -> Request] /\ reqs'[r] = next
        /\ \A q \in Requests : q # r => reqs'[q] = reqs[q]
    BY DEF Inv, TablesTyped, Become
  <1>2. cache' \in [Usernames -> {None} \cup RoleSets] /\ cache'[u] = c
        /\ \A v \in Usernames : v # u => cache'[v] = cache[v]
    BY DEF Inv, TablesTyped
  <1>3. TablesTyped'
    BY <1>1, <1>2 DEF Inv, TablesTyped
  <1>4. CacheHoldsCommitted'
    BY <1>2 DEF Inv, CacheHoldsCommitted
  <1>5. Remembered'
    BY <1>1 DEF Inv, Remembered
  <1>6. LinksSound' /\ RowsInPast'
    BY DEF Inv, LinksSound, RowsInPast
  <1> QED
    BY <1>3, <1>4, <1>5, <1>6 DEF Inv

LEMMA DeleteInvalidateInv == ASSUME Inv, NEW r \in Requests, DeleteInvalidate(r) PROVE Inv'
  <1> DEFINE u    == reqs[r].user
             next == [step |-> "delete", user |-> u]
  <1>1. reqs[r].step = "invalidate" /\ reqs[r] \in Request /\ Memory(reqs[r], users, past)
    BY DEF DeleteInvalidate, Inv, TablesTyped, Remembered
  <1>2. u \in Usernames /\ Stored(u)
    BY <1>1, NamesUsers DEF Memory
  <1>3. next \in Request /\ Memory(next, users, past) /\ Become(r, next)
    BY <1>2 DEF Request, ToDelete, Memory, DeleteInvalidate
  <1> HIDE DEF next
  <1> QED
    BY <1>2, <1>3, CacheStep DEF DeleteInvalidate

LEMMA InvalidateFailsInv == ASSUME Inv, NEW r \in Requests, InvalidateFails(r) PROVE Inv'
  <1> DEFINE u    == reqs[r].user
             next == [step |-> "delete", user |-> u]
  <1>1. reqs[r].step = "invalidate" /\ reqs[r] \in Request /\ Memory(reqs[r], users, past)
    BY DEF InvalidateFails, Inv, TablesTyped, Remembered
  <1>2. u \in Usernames /\ Stored(u)
    BY <1>1, NamesUsers DEF Memory
  <1>3. next \in Request /\ Memory(next, users, past) /\ Become(r, next)
    BY <1>2 DEF Request, ToDelete, Memory, InvalidateFails
  <1> HIDE DEF next
  <1> QED
    BY <1>3, ReadStep DEF InvalidateFails

LEMMA DeleteLinksInv == ASSUME Inv, NEW r \in Requests, DeleteLinks(r) PROVE Inv'
  <1> DEFINE u       == reqs[r].user
             unlinks == {l \in links : l.user = u}
             next    == [step |-> "softDelete", user |-> u, unlinks |-> unlinks]
  <1>1. reqs[r].step = "delete" /\ reqs[r] \in Request /\ Memory(reqs[r], users, past)
    BY DEF DeleteLinks, Inv, TablesTyped, Remembered
  <1>2. u \in Usernames /\ Stored(u) /\ unlinks \in SUBSET Link
    BY <1>1, NamesUsers DEF Memory, Inv, TablesTyped
  <1>3. Become(r, next) /\ UNCHANGED <<users, links, cache, past>>
    BY DEF DeleteLinks
  <1> HIDE DEF unlinks
  <1>4. next \in Request /\ Memory(next, users, past)
    BY <1>2 DEF Request, ToSoftDelete, Memory
  <1> HIDE DEF next
  <1> QED
    BY <1>3, <1>4, ReadStep

LEMMA SetCacheInv == ASSUME Inv, NEW r \in Requests, SetCache(r) PROVE Inv'
  <1>1. reqs[r].step = "cacheSet" /\ reqs[r] \in Request /\ Memory(reqs[r], users, past)
    BY DEF SetCache, Inv, TablesTyped, Remembered
  <1>2. reqs[r].user \in Usernames /\ reqs[r].roles \in RoleSets
        /\ reqs[r].roles \in past[reqs[r].user]
    BY <1>1, Carries DEF Memory, ToCache
  <1> QED
    BY <1>2, CacheStep, IdleFits DEF SetCache, Return

LEMMA DeleteCommitInv == ASSUME Inv, NEW r \in Requests, DeleteCommit(r) PROVE Inv'
  <1> DEFINE u == reqs[r].user
  <1>1. reqs[r].step = "softDelete" /\ reqs[r] \in Request /\ Memory(reqs[r], users, past)
    BY DEF DeleteCommit, Inv, TablesTyped, Remembered
  <1>2. u \in Usernames /\ Stored(u)
    BY <1>1, NamesUsers DEF Memory
  <1>3. users[u] \in User
    BY <1>2 DEF Inv, TablesTyped
  <1> DEFINE row == [users[u] EXCEPT !.live = FALSE]
  <1>4. row \in User /\ row.email = users[u].email /\ row.roles = users[u].roles
    BY <1>3 DEF User
  <1>5. users' = [users EXCEPT ![u] = row] /\ past' = past /\ cache' = cache
        /\ links' \subseteq links /\ reqs' = [reqs EXCEPT ![r] = Idle]
    BY DEF DeleteCommit, Return, Become
  <1> HIDE DEF row
  <1>6. row # None
    BY <1>4, SentinelAssumption
  <1>7. /\ users' \in [Usernames -> User \cup {None}] /\ users'[u] = row
        /\ \A v \in Usernames : v # u => users'[v] = users[v]
    BY <1>2, <1>4, <1>5 DEF Inv, TablesTyped
  <1>8. RowsStay /\ RowsInPast'
    BY <1>2, <1>4, <1>5, <1>6, <1>7 DEF Inv, RowsStay, RowsInPast
  <1>9. links' \subseteq Link /\ LinksSound' /\ past' \in [Usernames -> SUBSET RoleSets]
    BY <1>5, <1>8, FewerLinks DEF Inv, TablesTyped
  <1> QED
    BY <1>5, <1>7, <1>8, <1>9, RequestStep, IdleFits

LEMMA GetUserInv == ASSUME Inv, NEW r \in Requests, GetUser(r) PROVE Inv'
  <1>1. PICK u \in Usernames : Stored(u) /\ Become(r, [step |-> "getRoles", user |-> u])
    BY DEF GetUser, Live
  <1> DEFINE next == [step |-> "getRoles", user |-> u]
  <1>2. next \in Request /\ Memory(next, users, past) /\ Become(r, next)
    BY <1>1 DEF Request, ToGetRoles, Memory
  <1> HIDE DEF next
  <1> QED
    BY <1>2, ReadStep DEF GetUser

LEMMA GetRolesInv == ASSUME Inv, NEW r \in Requests, GetRoles(r) PROVE Inv'
  <1> DEFINE u == reqs[r].user
  <1>1. reqs[r].step = "getRoles" /\ reqs[r] \in Request /\ Memory(reqs[r], users, past)
    BY DEF GetRoles, Inv, TablesTyped, Remembered
  <1>2. u \in Usernames /\ Stored(u)
    BY <1>1, NamesUsers DEF Memory
  <1>3. users[u].roles \in RoleSets /\ users[u].roles \in past[u]
    BY <1>2 DEF Inv, TablesTyped, User, RowsInPast
  <1> QED
    BY <1>2, <1>3, CacheSetFits, ReadStep DEF GetRoles

LEMMA EvictInv == ASSUME Inv, NEW u \in Usernames, Evict(u) PROVE Inv'
  <1>1. cache' \in [Usernames -> {None} \cup RoleSets] /\ cache'[u] = None
        /\ \A v \in Usernames : v # u => cache'[v] = cache[v]
    BY DEF Evict, Inv, TablesTyped
  <1>2. TablesTyped' /\ CacheHoldsCommitted'
    BY <1>1 DEF Evict, Inv, TablesTyped, CacheHoldsCommitted
  <1>3. LinksSound' /\ RowsInPast' /\ Remembered'
    BY DEF Evict, Inv, LinksSound, RowsInPast, Remembered
  <1> QED
    BY <1>2, <1>3 DEF Inv

LEMMA NextInv == Inv /\ [Next]_vars => Inv'
  <1> SUFFICES ASSUME Inv, [Next]_vars PROVE Inv'
    OBVIOUS
  <1>1. CASE UNCHANGED vars
    BY <1>1 DEF vars, Inv, TablesTyped, LinksSound, CacheHoldsCommitted, RowsInPast, Remembered
  <1>2. ASSUME NEW r \in Requests, OAuthLogin(r) \/ GoogleAuthMobile(r)
        PROVE  Inv'
    BY <1>2, OAuthReadInv, NamesAssumption DEF OAuthLogin, GoogleAuthMobile
  <1>3. ASSUME NEW r \in Requests, OAuthRollback(r) \/ Fail(r)
        PROVE  Inv'
    BY <1>3, ReturnsInv DEF OAuthRollback, Fail
  <1> QED
    BY <1>1, <1>2, <1>3, RegisterInv, CreateUserInv, GrpcCreateUserInv, GrpcAssignRolesInv,
       OAuthLinkInv, OAuthSignUpInv, UpdateReadInv, UpdateCommitInv, DeleteReadInv,
       DeleteInvalidateInv, InvalidateFailsInv, DeleteLinksInv, DeleteCommitInv, GetUserInv,
       GetRolesInv, OAuthReadRolesInv, SetCacheInv, EvictInv
       DEF Next, Handle

-----------------------------------------------------------------------------
(* The properties.                                                         *)

LEMMA Invariance == Spec => []Inv
  BY InitInv, NextInv, PTL DEF Spec

LEMMA CalmIsBoolean == Spec => []CalmTyped
  <1>1. Init => CalmTyped
    BY DEF Init, CalmTyped
  <1>2. CalmTyped /\ [Next]_vars => CalmTyped'
    BY DEF Next, vars, CalmTyped
  <1> QED
    BY <1>1, <1>2, PTL DEF Spec

LEMMA TablesAndCalm == Inv /\ CalmTyped => TypeOK
  BY DEF Inv, TablesTyped, CalmTyped, TypeOK

\* Every variable has its type, whatever the handlers of core/service/auth.go
\* and user.go are in the middle of.
THEOREM TypesHold == Spec => []TypeOK
  BY Invariance, CalmIsBoolean, TablesAndCalm, PTL

\* For any number of concurrent logins, updates and deletions, an identity has
\* one user and a link joins it to the row with its email (auth.go:296-361).
THEOREM LinksAreSound == Spec => []LinksSound
  BY Invariance, PTL DEF Inv

\* No interleaving of handlers, failed commit or late cache step leaves an
\* entry that was never committed (user.go:181-193, 208; auth.go:158-173).
THEOREM CacheIsCommitted == Spec => []CacheHoldsCommitted
  BY Invariance, PTL DEF Inv

\* The request whose entry in reqs a step changes is the one that took it.
LEMMA OwnStep ==
  ASSUME Inv, NEW r \in Requests, NEW s \in Requests, NEW next, Become(s, next),
         reqs'[r] # reqs[r]
  PROVE  s = r
  BY DEF Inv, TablesTyped, Become

LEMMA LinkCommits ==
  ASSUME Inv, NEW r \in Requests, OAuthLink(r), users' # users
  PROVE  \E l \in links' \ links :
           \A u \in Usernames : users'[u] # users[u] => u = l.user /\ users'[u].live
  <1> DEFINE l == reqs[r].link
  <1>1. l \notin links /\ l \in links'
    BY DEF OAuthLink, LinkInsertable, InsertableAmong
  <1>2. users' = [users EXCEPT ![l.user] = Saved(l.user, reqs[r].roles)]
    BY DEF OAuthLink, WriteUser
  <1>3. \A u \in Usernames : users'[u] # users[u] => u = l.user /\ users'[u].live
    BY <1>2 DEF Inv, TablesTyped, Saved
  <1> QED
    BY <1>1, <1>3

LEMMA SignUpCommits ==
  ASSUME Inv, NEW r \in Requests, OAuthSignUp(r), users' # users
  PROVE  \E l \in links' \ links :
           \A u \in Usernames : users'[u] # users[u] => u = l.user /\ users'[u].live
  <1>1. PICK w \in Usernames :
          LET l == [user |-> w, provider |-> reqs[r].provider,
                    subject |-> reqs[r].subject, email |-> reqs[r].email]
          IN  /\ LinkInsertable(l)
              /\ InsertUser(r, w, l.email, {DefaultRole})
              /\ links' = links \cup {l}
    BY DEF OAuthSignUp
  <1> DEFINE l   == [user |-> w, provider |-> reqs[r].provider,
                     subject |-> reqs[r].subject, email |-> reqs[r].email]
             row == [email |-> l.email, live |-> TRUE, roles |-> {DefaultRole}]
  <1>2. l \notin links /\ l \in links'
    BY <1>1 DEF LinkInsertable, InsertableAmong
  <1>3. users' = [users EXCEPT ![w] = row] /\ row.live /\ l.user = w
    BY <1>1 DEF InsertUser, WriteUser
  <1> HIDE DEF row, l
  <1>4. \A u \in Usernames : users'[u] # users[u] => u = l.user /\ users'[u].live
    BY <1>3 DEF Inv, TablesTyped
  <1> QED
    BY <1>2, <1>4

LEMMA OAuthStep ==
  ASSUME Inv, Next, NEW r \in Requests, reqs[r].step \in {"link", "signUp"},
         reqs'[r] # reqs[r], users' # users
  PROVE  OAuthLink(r) \/ OAuthSignUp(r)
  <1>1. reqs[r] # Idle
    BY DEF Idle
  <1>2. ASSUME NEW s \in Requests, Register(s) \/ CreateUser(s) \/ GrpcCreateUser(s)
        PROVE  FALSE
    <2>1. reqs[s] = Idle /\ \E next : Become(s, next)
      BY <1>2 DEF Register, CreateUser, GrpcCreateUser, InsertUser
    <2> QED
      BY <1>1, <2>1, OwnStep
  <1>3. ASSUME NEW s \in Requests, GrpcAssignRoles(s) \/ UpdateCommit(s) \/ DeleteCommit(s)
        PROVE  FALSE
    <2>1. reqs[s].step \in {"assignRoles", "update", "softDelete"} /\ \E next : Become(s, next)
      BY <1>3 DEF GrpcAssignRoles, UpdateCommit, DeleteCommit, Return
    <2> QED
      BY <2>1, OwnStep
  <1>4. ASSUME NEW s \in Requests, OAuthLink(s) \/ OAuthSignUp(s)
        PROVE  OAuthLink(r) \/ OAuthSignUp(r)
    <2>1. \E next : Become(s, next)
      BY <1>4 DEF OAuthLink, OAuthSignUp, InsertUser
    <2> QED
      BY <1>4, <2>1, OwnStep
  <1> QED
    BY <1>2, <1>3, <1>4
       DEF Next, Handle, OAuthLogin, GoogleAuthMobile, OAuthRead, OAuthReadRoles, OAuthRollback,
           UpdateRead, DeleteRead, DeleteInvalidate, InvalidateFails, DeleteLinks, GetUser,
           GetRoles, SetCache, Fail, Evict

\* For any number of concurrent handlers, the commit of an OAuth login writes
\* the link and the user it belongs to, or neither (auth.go:312-327, 348-356).
THEOREM OAuthIsAtomic == Spec => OAuthAllOrNothing
  <1> DEFINE Step ==
        \A r \in Requests :
          reqs[r].step \in {"link", "signUp"} /\ reqs'[r] # reqs[r] /\ users' # users
            => \E l \in links' \ links :
                 \A u \in Usernames : users'[u] # users[u] => u = l.user /\ users'[u].live
  <1>1. Inv /\ [Next]_vars => [Step]_vars
    BY OAuthStep, LinkCommits, SignUpCommits
  <1> QED
    BY <1>1, Invariance, PTL DEF Spec, OAuthAllOrNothing

-----------------------------------------------------------------------------
(* Deletion.                                                               *)

\* The row of a deleted user is a row, and not live.
LEMMA DeletedRow ==
  ASSUME Inv, NEW u \in Usernames, Deleted(u)
  PROVE  users[u] \in User /\ users[u] # None /\ users[u].live = FALSE
  BY DEF Deleted, Inv, TablesTyped, User

\* What a step of request r has to leave alone for u to stay deleted.
LEMMA StillDeleted ==
  ASSUME Inv, NEW u \in Usernames, Deleted(u), NEW r \in Requests, NEW next, Become(r, next),
         users'[u] # None, ~users'[u].live, \A l \in links' : l.user # u,
         next.step = "update" => next.user # u,
         next.step \in {"linkRoles", "link"} => next.link.user # u \/ next.restore
  PROVE  Deleted(u)'
  <1>1. \A q \in Requests :
          /\ reqs'[q].step = "update" => reqs'[q].user # u
          /\ reqs'[q].step \in {"linkRoles", "link"} => reqs'[q].link.user # u \/ reqs'[q].restore
    BY DEF Deleted, Become, Inv, TablesTyped
  <1> QED
    BY <1>1 DEF Deleted

\* A request that leaves users and links alone, and reads no live row of u.
LEMMA ReadKeepsDeleted ==
  ASSUME Inv, NEW u \in Usernames, Deleted(u), NEW r \in Requests, NEW next, Become(r, next),
         UNCHANGED <<users, links>>,
         next.step = "update" => next.user # u,
         next.step \in {"linkRoles", "link"} => next.link.user # u \/ next.restore
  PROVE  Deleted(u)'
  <1>1. users'[u] # None /\ ~users'[u].live /\ \A l \in links' : l.user # u
    BY DeletedRow DEF Deleted
  <1> QED
    BY <1>1, StillDeleted

\* A new user has another name, since the deleted row keeps its own.
LEMMA InsertKeepsDeleted ==
  ASSUME Inv, NEW u \in Usernames, Deleted(u), NEW r \in Requests, NEW v \in Usernames,
         NEW email, NEW row, UserInsertable(v, email), WriteUser(v, row), NEW next, Become(r, next),
         next.step \notin {"update", "linkRoles", "link"}, \A l \in links' \ links : l.user = v
  PROVE  Deleted(u)'
  <1>1. v # u /\ users'[u] = users[u]
    BY DEF UserInsertable, WriteUser, Deleted, Inv, TablesTyped
  <1>2. users'[u] # None /\ ~users'[u].live /\ \A l \in links' : l.user # u
    BY <1>1, DeletedRow DEF Deleted
  <1> QED
    BY <1>2, StillDeleted

LEMMA DeletionStep ==
  ASSUME Inv, [Next]_vars, NEW u \in Usernames, Deleted(u)
  PROVE  Deleted(u)' \/ (users'[u].live /\ \E l \in links' \ links : l.user = u)
  <1>1. CASE UNCHANGED <<users, links, reqs>>
    BY <1>1 DEF Deleted
  <1>2. ASSUME NEW r \in Requests, NEW v \in Usernames, NEW email, NEW roles,
               InsertUser(r, v, email, roles), links' = links
        PROVE  Deleted(u)'
    <2> DEFINE row == [email |-> email, live |-> TRUE, roles |-> roles]
    <2>1. UserInsertable(v, email) /\ WriteUser(v, row) /\ Become(r, CacheSet(v, roles))
      BY <1>2 DEF InsertUser
    <2>2. CacheSet(v, roles).step \notin {"update", "linkRoles", "link"}
      BY DEF CacheSet
    <2> HIDE DEF row
    <2> QED
      BY <1>2, <2>1, <2>2, InsertKeepsDeleted
  <1>3. ASSUME NEW r \in Requests, Register(r) \/ CreateUser(r)
        PROVE  Deleted(u)'
    BY <1>2, <1>3 DEF Register, CreateUser
  <1>4. ASSUME NEW r \in Requests, GrpcCreateUser(r)
        PROVE  Deleted(u)'
    <2>1. PICK v \in Usernames, email \in Emails, roles \in RoleSets \ {{}} :
            /\ UserInsertable(v, email)
            /\ WriteUser(v, [email |-> email, live |-> TRUE, roles |-> {}])
            /\ Become(r, [step |-> "assignRoles", user |-> v, roles |-> roles])
      BY <1>4 DEF GrpcCreateUser
    <2> DEFINE next == [step |-> "assignRoles", user |-> v, roles |-> roles]
               row  == [email |-> email, live |-> TRUE, roles |-> {}]
    <2>2. next.step \notin {"update", "linkRoles", "link"}
      OBVIOUS
    <2>3. WriteUser(v, row) /\ Become(r, next) /\ links' = links
      BY <1>4, <2>1 DEF GrpcCreateUser
    <2> HIDE DEF next, row
    <2> QED
      BY <2>1, <2>2, <2>3, InsertKeepsDeleted
  <1>5. ASSUME NEW r \in Requests, GrpcAssignRoles(r)
        PROVE  Deleted(u)'
    <2> DEFINE v   == reqs[r].user
               row == [users[v] EXCEPT !.roles = reqs[r].roles]
    <2>1. v \in Usernames /\ reqs[r].roles \in RoleSets
      BY <1>5, Carries DEF GrpcAssignRoles, Inv, TablesTyped, ToAssign
    <2>2. /\ users' = [users EXCEPT ![v] = row] /\ links' = links
          /\ Become(r, CacheSet(v, reqs[r].roles))
      BY <1>5 DEF GrpcAssignRoles, WriteUser
    <2>3. users'[u] # None /\ ~users'[u].live
      <3>1. CASE u = v
        <4>1. row \in User /\ row.live = FALSE
          BY <2>1, <3>1, DeletedRow DEF User
        <4>2. users'[u] = row
          BY <2>2, <3>1 DEF Inv, TablesTyped
        <4> QED
          BY <4>1, <4>2, SentinelAssumption
      <3>2. CASE u # v
        BY <2>1, <2>2, <3>2, DeletedRow DEF Inv, TablesTyped
      <3> QED
        BY <3>1, <3>2
    <2>4. CacheSet(v, reqs[r].roles).step \notin {"update", "linkRoles", "link"}
      BY DEF CacheSet
    <2> QED
      BY <2>2, <2>3, <2>4, StillDeleted DEF Deleted
  <1>6. ASSUME NEW r \in Requests, NEW provider \in Providers, NEW subject \in Subjects,
               NEW email \in Emails, OAuthRead(r, provider, subject, email)
        PROVE  Deleted(u)'
    <2>1. CASE Become(r, [step |-> "signUp", provider |-> provider,
                          subject |-> subject, email |-> email])
      BY <1>6, <2>1, ReadKeepsDeleted DEF OAuthRead
    <2>2. ASSUME NEW v \in Usernames,
                 Become(r, [step |-> "linkRoles", restore |-> ~users[v].live,
                            link |-> [user |-> v, provider |-> provider,
                                      subject |-> subject, email |-> email]])
          PROVE  Deleted(u)'
      <3> DEFINE next == [step |-> "linkRoles", restore |-> ~users[v].live,
                          link |-> [user |-> v, provider |-> provider,
                                    subject |-> subject, email |-> email]]
      <3>1. next.link.user = v /\ next.restore = (~users[v].live) /\ next.step = "linkRoles"
        OBVIOUS
      <3>2. next.link.user # u \/ next.restore
        BY <3>1, DeletedRow
      <3>3. Become(r, next) /\ UNCHANGED <<users, links>>
        BY <1>6, <2>2 DEF OAuthRead
      <3> HIDE DEF next
      <3> QED
        BY <3>1, <3>2, <3>3, ReadKeepsDeleted
    <2> QED
      BY <1>6, <2>1, <2>2 DEF OAuthRead
  <1>7. ASSUME NEW r \in Requests, OAuthLink(r)
        PROVE  Deleted(u)' \/ (users'[u].live /\ \E l \in links' \ links : l.user = u)
    <2> DEFINE l == reqs[r].link
    <2>1. l \in Link /\ l.user \in Usernames /\ l \notin links /\ links' = links \cup {l}
      BY <1>7, NamesUsers DEF OAuthLink, LinkInsertable, InsertableAmong, Inv, TablesTyped
    <2>2. CASE l.user = u
      <3>1. reqs[r].restore
        BY <1>7, <2>2 DEF OAuthLink, Deleted
      <3>2. users' = [users EXCEPT ![u] = Saved(u, reqs[r].roles)]
        BY <1>7, <2>2, <3>1 DEF OAuthLink, WriteUser
      <3>3. users'[u].live
        BY <3>2 DEF Saved, Inv, TablesTyped
      <3> QED
        BY <2>1, <2>2, <3>3
    <2>3. CASE l.user # u
      <3>1. users'[u] = users[u]
        BY <1>7, <2>3 DEF OAuthLink, WriteUser, Inv, TablesTyped
      <3>2. Become(r, CacheSet(l.user, reqs[r].roles))
            /\ CacheSet(l.user, reqs[r].roles).step \notin {"update", "linkRoles", "link"}
        BY <1>7 DEF OAuthLink, CacheSet
      <3>3. users'[u] # None /\ ~users'[u].live /\ \A m \in links' : m.user # u
        BY <2>1, <2>3, <3>1, DeletedRow DEF Deleted
      <3> QED
        BY <3>2, <3>3, StillDeleted
    <2> QED
      BY <2>2, <2>3
  <1>8. ASSUME NEW r \in Requests, OAuthSignUp(r)
        PROVE  Deleted(u)'
    <2>1. PICK v \in Usernames :
            LET l == [user |-> v, provider |-> reqs[r].provider,
                      subject |-> reqs[r].subject, email |-> reqs[r].email]
            IN  InsertUser(r, v, l.email, {DefaultRole}) /\ links' = links \cup {l}
      BY <1>8 DEF OAuthSignUp
    <2> DEFINE l   == [user |-> v, provider |-> reqs[r].provider,
                       subject |-> reqs[r].subject, email |-> reqs[r].email]
               row == [email |-> l.email, live |-> TRUE, roles |-> {DefaultRole}]
    <2>2. /\ UserInsertable(v, l.email) /\ WriteUser(v, row)
          /\ Become(r, CacheSet(v, {DefaultRole})) /\ links' = links \cup {l} /\ l.user = v
      BY <2>1 DEF InsertUser
    <2>3. CacheSet(v, {DefaultRole}).step \notin {"update", "linkRoles", "link"}
      BY DEF CacheSet
    <2> HIDE DEF l, row
    <2> QED
      BY <2>2, <2>3, InsertKeepsDeleted
  <1>9. ASSUME NEW r \in Requests, UpdateRead(r)
        PROVE  Deleted(u)'
    <2>1. PICK v \in Usernames, roles \in RoleSets \ {{}} :
            Live(v) /\ Become(r, [step |-> "update", user |-> v, roles |-> roles])
      BY <1>9 DEF UpdateRead
    <2>2. v # u
      BY <2>1, DeletedRow DEF Live
    <2> QED
      BY <1>9, <2>1, <2>2, ReadKeepsDeleted DEF UpdateRead
  <1>10. ASSUME NEW r \in Requests, UpdateCommit(r)
         PROVE  Deleted(u)'
    <2> DEFINE v == reqs[r].user
    <2>1. v # u /\ users' = [users EXCEPT ![v] = Saved(v, reqs[r].roles)] /\ links' = links
      BY <1>10 DEF UpdateCommit, WriteUser, Deleted
    <2>2. users'[u] # None /\ ~users'[u].live /\ \A m \in links' : m.user # u
      BY <2>1, DeletedRow DEF Deleted, Inv, TablesTyped
    <2>3. Become(r, CacheSet(v, reqs[r].roles))
          /\ CacheSet(v, reqs[r].roles).step \notin {"update", "linkRoles", "link"}
      BY <1>10 DEF UpdateCommit, CacheSet
    <2> QED
      BY <2>2, <2>3, StillDeleted
  <1>11. ASSUME NEW r \in Requests, DeleteCommit(r)
         PROVE  Deleted(u)'
    <2> DEFINE v   == reqs[r].user
               row == [users[v] EXCEPT !.live = FALSE]
    <2>1. /\ users' = [users EXCEPT ![v] = row] /\ links' \subseteq links
          /\ Become(r, Idle) /\ Idle.step \notin {"update", "linkRoles", "link"}
      BY <1>11 DEF DeleteCommit, Return, Idle
    <2>2. users'[u] # None /\ ~users'[u].live
      <3>1. CASE u = v
        <4>1. row \in User /\ row.live = FALSE
          BY <3>1, DeletedRow DEF User
        <4>2. users'[u] = row
          BY <2>1, <3>1 DEF Inv, TablesTyped
        <4> QED
          BY <4>1, <4>2, SentinelAssumption
      <3>2. CASE u # v
        BY <2>1, <3>2, DeletedRow DEF Inv, TablesTyped
      <3> QED
        BY <3>1, <3>2
    <2> QED
      BY <2>1, <2>2, StillDeleted DEF Deleted
  <1>12. ASSUME NEW r \in Requests, DeleteRead(r) \/ GetUser(r)
         PROVE  Deleted(u)'
    <2>1. PICK v \in Usernames : \/ Become(r, [step |-> "invalidate", user |-> v])
                                 \/ Become(r, [step |-> "getRoles", user |-> v])
      BY <1>12 DEF DeleteRead, GetUser
    <2> QED
      BY <1>12, <2>1, ReadKeepsDeleted DEF DeleteRead, GetUser
  <1>13. ASSUME NEW r \in Requests,
                \/ OAuthRollback(r) \/ DeleteInvalidate(r) \/ InvalidateFails(r)
                \/ DeleteLinks(r) \/ GetRoles(r) \/ SetCache(r) \/ Fail(r)
         PROVE  Deleted(u)'
    <2> DEFINE Onwards(next) ==
                 Become(r, next) /\ next.step \notin {"update", "linkRoles", "link"}
    <2>1. \E next : Onwards(next)
      <3>1. ASSUME OAuthRollback(r) \/ SetCache(r) \/ Fail(r)
            PROVE  Onwards(Idle)
        BY <3>1 DEF OAuthRollback, SetCache, Fail, Return, Idle
      <3>2. ASSUME DeleteInvalidate(r) \/ InvalidateFails(r)
            PROVE  Onwards([step |-> "delete", user |-> reqs[r].user])
        BY <3>2 DEF DeleteInvalidate, InvalidateFails
      <3>3. ASSUME DeleteLinks(r)
            PROVE  Onwards([step |-> "softDelete", user |-> reqs[r].user,
                            unlinks |-> {l \in links : l.user = reqs[r].user}])
        BY <3>3 DEF DeleteLinks
      <3>4. ASSUME GetRoles(r)
            PROVE  Onwards(CacheSet(reqs[r].user, users[reqs[r].user].roles))
        BY <3>4 DEF GetRoles, CacheSet
      <3> HIDE DEF Onwards
      <3> QED
        BY <1>13, <3>1, <3>2, <3>3, <3>4
    <2>2. UNCHANGED <<users, links>>
      BY <1>13 DEF OAuthRollback, DeleteInvalidate, InvalidateFails, DeleteLinks, GetRoles,
                   SetCache, Fail
    <2> QED
      BY <2>1, <2>2, ReadKeepsDeleted
  <1>14. ASSUME NEW r \in Requests, OAuthReadRoles(r)
         PROVE  Deleted(u)'
    <2> DEFINE l    == reqs[r].link
               next == [step |-> "link", link |-> l, restore |-> reqs[r].restore,
                        roles |-> users[l.user].roles]
    <2>1. next.step = "link" /\ next.link = l /\ next.restore = reqs[r].restore
      OBVIOUS
    <2>2. l.user # u \/ reqs[r].restore
      BY <1>14 DEF OAuthReadRoles, Deleted
    <2>3. Become(r, next) /\ UNCHANGED <<users, links>>
      BY <1>14 DEF OAuthReadRoles
    <2> HIDE DEF next
    <2> QED
      BY <2>1, <2>2, <2>3, ReadKeepsDeleted
  <1> QED
    BY <1>1, <1>3, <1>4, <1>5, <1>6, <1>7, <1>8, <1>9, <1>10, <1>11, <1>12, <1>13, <1>14,
       NamesAssumption
       DEF Next, Handle, OAuthLogin, GoogleAuthMobile, Evict, vars

\* For any number of concurrent handlers, a user whom no identity leads to and
\* no request in flight had read while live stays deleted until an OAuth login
\* brings it back and links it (user.go:199-215, auth.go:307-327).
THEOREM DeletionHolds == Spec => DeletionIsFinal
  <1>1. Inv /\ [Next]_vars =>
          [\A u \in Usernames :
             Deleted(u) => \/ Deleted(u)'
                           \/ users'[u].live /\ \E l \in links' \ links : l.user = u]_vars
    BY DeletionStep
  <1> QED
    BY <1>1, Invariance, PTL DEF Spec, DeletionIsFinal

-----------------------------------------------------------------------------
(* The users as SessionService sees them.                                  *)

\* A row that is written shows up in rows, and nothing else does.
LEMMA RowsWritten ==
  ASSUME Inv, NEW u \in Usernames, NEW row \in User, users' = [users EXCEPT ![u] = row]
  PROVE  rows' = [rows EXCEPT ![u] = [live |-> row.live, roles |-> row.roles]]
  <1> DEFINE seen == [live |-> row.live, roles |-> row.roles]
  <1>1. users'[u] = row /\ row # None /\ \A v \in Usernames : v # u => users'[v] = users[v]
    BY SentinelAssumption DEF Inv, TablesTyped
  <1>2. rows'[u] = seen
    BY <1>1 DEF rows
  <1>3. \A v \in Usernames : v # u => rows'[v] = rows[v]
    BY <1>1 DEF rows
  <1>4. rows' = [v \in Usernames |-> rows'[v]] /\ rows = [v \in Usernames |-> rows[v]]
    BY DEF rows
  <1> HIDE DEF seen
  <1>5. rows' = [rows EXCEPT ![u] = seen]
    BY <1>2, <1>3, <1>4
  <1> QED
    BY <1>5 DEF seen

\* A row that is saved live is a UserSaved of SessionService.
LEMMA SaveFits ==
  ASSUME Inv, NEW u \in Usernames, NEW row \in User, row.live, WriteUser(u, row)
  PROVE  Sessions!Next
  <1>1. row.roles \in SUBSET UNION RoleSets /\ row.live = TRUE
    BY DEF User
  <1>2. rows' = [rows EXCEPT ![u] = [live |-> TRUE, roles |-> row.roles]]
    BY <1>1, RowsWritten DEF WriteUser
  <1>3. Sessions!UserSaved(u, row.roles)
    BY <1>2 DEF Sessions!UserSaved
  <1> QED
    BY <1>1, <1>3 DEF Sessions!Next

\* A new row, with the cache to be set next.
LEMMA InsertFits ==
  ASSUME Inv, NEW r \in Requests, NEW u \in Usernames, NEW email \in Emails,
         NEW roles \in RoleSets, InsertUser(r, u, email, roles)
  PROVE  Sessions!Next
  <1> DEFINE row == [email |-> email, live |-> TRUE, roles |-> roles]
  <1>1. row \in User /\ row.live /\ WriteUser(u, row)
    BY DEF InsertUser, User
  <1> HIDE DEF row
  <1> QED
    BY <1>1, SaveFits

\* What Save writes to a row that is stored.
LEMMA SavedFits ==
  ASSUME Inv, NEW u \in Usernames, Stored(u), NEW roles \in RoleSets,
         WriteUser(u, Saved(u, roles))
  PROVE  Sessions!Next
  <1>1. Saved(u, roles) \in User /\ Saved(u, roles).live
    BY DEF Saved, User, Inv, TablesTyped
  <1> QED
    BY <1>1, SaveFits

LEMMA UsersStep ==
  ASSUME Inv, Next
  PROVE  Sessions!Next \/ users' = users
  <1>1. ASSUME NEW r \in Requests, Register(r) \/ CreateUser(r)
        PROVE  Sessions!Next
    BY <1>1, InsertFits, NamesAssumption DEF Register, CreateUser
  <1>2. ASSUME NEW r \in Requests, GrpcCreateUser(r)
        PROVE  Sessions!Next
    <2>1. PICK u \in Usernames, email \in Emails :
            WriteUser(u, [email |-> email, live |-> TRUE, roles |-> {}])
      BY <1>2 DEF GrpcCreateUser
    <2> DEFINE row == [email |-> email, live |-> TRUE, roles |-> {}]
    <2>2. row \in User /\ row.live /\ WriteUser(u, row)
      BY <2>1, NamesAssumption DEF User
    <2> HIDE DEF row
    <2> QED
      BY <2>2, SaveFits
  <1>3. ASSUME NEW r \in Requests, GrpcAssignRoles(r)
        PROVE  Sessions!Next
    <2> DEFINE u     == reqs[r].user
               roles == reqs[r].roles
               row   == [users[u] EXCEPT !.roles = roles]
    <2>1. u \in Usernames /\ roles \in RoleSets /\ users[u] # None
      BY <1>3, Carries DEF GrpcAssignRoles, Inv, TablesTyped, ToAssign, Remembered, Memory
    <2>2. users[u] \in User
      BY <2>1 DEF Inv, TablesTyped
    <2>3. row \in User /\ row.live = users[u].live /\ row.roles = roles
      BY <2>1, <2>2 DEF User
    <2>4. users' = [users EXCEPT ![u] = row]
      BY <1>3 DEF GrpcAssignRoles, WriteUser
    <2>5. rows[u] = [live |-> users[u].live, roles |-> users[u].roles]
      BY <2>1 DEF rows
    <2> HIDE DEF row
    <2>6. rows' = [rows EXCEPT ![u] = [live |-> users[u].live, roles |-> roles]]
      BY <2>1, <2>3, <2>4, RowsWritten
    <2>7. [rows[u] EXCEPT !.roles = roles] = [live |-> users[u].live, roles |-> roles]
      BY <2>5
    <2>8. Sessions!RolesAssigned(u, roles)
      BY <2>6, <2>7 DEF Sessions!RolesAssigned
    <2> QED
      BY <2>1, <2>8 DEF Sessions!Next
  <1>4. ASSUME NEW r \in Requests, OAuthLink(r)
        PROVE  Sessions!Next \/ users' = users
    <2>1. reqs[r].step = "link" /\ reqs[r] \in Request /\ Memory(reqs[r], users, past)
      BY <1>4 DEF OAuthLink, Inv, TablesTyped, Remembered
    <2>2. reqs[r].link.user \in Usernames /\ Stored(reqs[r].link.user)
      BY <2>1, NamesUsers DEF Memory
    <2>3. reqs[r].roles \in RoleSets
      BY <2>1, Carries DEF ToLink
    <2> QED
      BY <1>4, <2>2, <2>3, SavedFits DEF OAuthLink
  <1>5. ASSUME NEW r \in Requests, OAuthSignUp(r)
        PROVE  Sessions!Next
    <2>1. reqs[r].email \in Emails /\ {DefaultRole} \in RoleSets
      BY <1>5, Carries, NamesAssumption DEF OAuthSignUp, Inv, TablesTyped, ToSignUp
    <2>2. \E u \in Usernames : InsertUser(r, u, reqs[r].email, {DefaultRole})
      BY <1>5 DEF OAuthSignUp
    <2> QED
      BY <2>1, <2>2, InsertFits
  <1>6. ASSUME NEW r \in Requests, UpdateCommit(r)
        PROVE  Sessions!Next
    <2>1. reqs[r].step = "update" /\ reqs[r] \in Request /\ Memory(reqs[r], users, past)
      BY <1>6 DEF UpdateCommit, Inv, TablesTyped, Remembered
    <2>2. reqs[r].user \in Usernames /\ Stored(reqs[r].user) /\ reqs[r].roles \in RoleSets
      BY <2>1, Carries DEF ToUpdate, Memory
    <2> QED
      BY <1>6, <2>2, SavedFits DEF UpdateCommit
  <1>7. ASSUME NEW r \in Requests, DeleteCommit(r)
        PROVE  Sessions!Next \/ users' = users
    <2> DEFINE u   == reqs[r].user
               row == [users[u] EXCEPT !.live = FALSE]
    <2>1. u \in Usernames /\ users[u] # None
      BY <1>7, NamesUsers DEF DeleteCommit, Inv, TablesTyped, Remembered, Memory
    <2>2. users[u] \in User
      BY <2>1 DEF Inv, TablesTyped
    <2>3. row \in User /\ row.live = FALSE /\ row.roles = users[u].roles
      BY <2>2 DEF User
    <2>4. users' = [users EXCEPT ![u] = row]
      BY <1>7 DEF DeleteCommit
    <2>5. rows[u] = [live |-> users[u].live, roles |-> users[u].roles]
      BY <2>1 DEF rows
    <2>6. CASE users[u].live
      <3> HIDE DEF row
      <3>1. rows' = [rows EXCEPT ![u] = [live |-> FALSE, roles |-> users[u].roles]]
        BY <2>1, <2>3, <2>4, RowsWritten
      <3>2. [rows[u] EXCEPT !.live = FALSE] = [live |-> FALSE, roles |-> users[u].roles]
        <4>1. PICK v : v = FALSE
          OBVIOUS
        <4>2. [rows[u] EXCEPT !.live = v] = [live |-> v, roles |-> users[u].roles]
          BY <2>5
        <4> QED
          BY <4>1, <4>2, Zenon
      <3>3. rows[u].live
        BY <2>5, <2>6
      <3>4. Sessions!UserDeleted(u)
        BY <3>1, <3>2, <3>3 DEF Sessions!UserDeleted
      <3> QED
        BY <2>1, <3>4 DEF Sessions!Next
    <2>7. CASE users[u].live = FALSE
      <3>1. row = users[u]
        BY <2>2, <2>7 DEF User
      <3> HIDE DEF row
      <3> QED
        BY <2>4, <3>1 DEF Inv, TablesTyped
    <2> QED
      BY <2>2, <2>6, <2>7 DEF User
  <1> QED
    BY <1>1, <1>2, <1>3, <1>4, <1>5, <1>6, <1>7
       DEF Next, Handle, OAuthLogin, GoogleAuthMobile, OAuthRead, OAuthReadRoles, OAuthRollback,
           UpdateRead, DeleteRead, DeleteInvalidate, InvalidateFails, DeleteLinks, GetUser,
           GetRoles, SetCache, Evict, Fail

\* The accounts are such an environment as SessionService assumes of its users:
\* what is proved of sessions under it holds under all that the handlers of
\* auth.go and user.go do to a row (repository/user.go:18-96).
THEOREM UsersAreSessionUsers == Spec => UsersFitSessions /\ Sessions!Spec
  <1>1. Init => Sessions!Init
    <2> SUFFICES ASSUME Init PROVE Sessions!Init
      OBVIOUS
    <2>1. rows = [u \in Usernames |-> [live |-> FALSE, roles |-> {}]]
      BY DEF Init, rows
    <2> QED
      BY <2>1 DEF Sessions!Init
  <1>2. Inv /\ [Next]_vars => users' = users \/ Sessions!Next
    BY UsersStep DEF vars
  <1>3. Inv /\ [Next]_vars => [rows' # rows => Sessions!Next]_rows
    BY <1>2 DEF rows
  <1>4. Inv /\ [Next]_vars => [Sessions!Next]_(Sessions!vars)
    <2>1. users' = users => UNCHANGED Sessions!vars
      BY DEF Sessions!vars, rows, Idle
    <2> QED
      BY <1>2, <2>1
  <1> QED
    BY <1>1, <1>3, <1>4, Invariance, PTL DEF Spec, UsersFitSessions, Sessions!Spec

=============================================================================
