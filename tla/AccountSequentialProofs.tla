----------------------- MODULE AccountSequentialProofs -----------------------
(***************************************************************************)
(* What AccountService promises as long as requests come one at a time and *)
(* nothing fails, for any users, emails, identities and roles.             *)
(*                                                                         *)
(* While it is calm at most one request is in flight, so what it read is   *)
(* not only something that was true once (Memory): it is still true.       *)
(* Consistent says so, and says what the tables and the cache look like    *)
(* around it: the one stale entry is the one it is about to replace, the   *)
(* one user without a role is the one it is about to give roles to.        *)
(***************************************************************************)
EXTENDS AccountServiceProofs

USE DEF Stored

\* A row is not the sentinel.
LEMMA RowsAreNotNone == \A row \in User : row # None
  BY SentinelAssumption

\* What the request record q has read still holds in the tables us and cache ch.
ReadsHold(q, us, ch) ==
    /\ q.step \in {"linkRoles", "link"} => q.restore = ~us[q.link.user].live
    /\ q.step = "link" => q.roles = us[q.link.user].roles
    /\ q.step \in {"assignRoles", "update", "invalidate", "delete", "softDelete", "getRoles",
                    "cacheSet"} => us[q.user].live
    /\ q.step \in {"update", "assignRoles"} => q.roles # {}
    /\ q.step \in {"delete", "softDelete"} => ch[q.user] = None
    /\ q.step = "cacheSet" => us[q.user] # None /\ q.roles = us[q.user].roles

\* Nothing is out of step but what q is about to put right.
Consistent(q, us, ch, ls) ==
    /\ ReadsHold(q, us, ch)
    /\ q.step = "softDelete" => q.unlinks = {l \in ls : l.user = q.user}
    /\ \A l \in ls : us[l.user] # None /\ us[l.user].live
    /\ \A u \in Usernames : ch[u] # None =>
         /\ us[u] # None /\ us[u].live
         /\ ch[u] = us[u].roles \/ (q.step = "cacheSet" /\ q.user = u)
    /\ \A u \in Usernames :
         us[u] # None /\ us[u].roles = {} => q.step = "assignRoles" /\ q.user = u

\* q is what the request in flight is about to do, if there is one.
Running(q) ==
    \/ Quiet /\ q = Idle
    \/ \E r \in Requests : q = reqs[r] /\ reqs[r] # Idle

CalmInv ==
    calm => OneAtATime /\ \E q : Running(q) /\ Consistent(q, users, cache, links)

-----------------------------------------------------------------------------
(* One request at a time.                                                  *)

\* Request r is the only one, before and after its step.
LEMMA Alone ==
    ASSUME Inv, OneAtATime, OneAtATime', NEW r \in Requests, NEW next, Become(r, next),
           reqs[r] # Idle \/ next # Idle
    PROVE  /\ reqs'[r] = next
           /\ \A q : Running(q) => q = reqs[r]
           /\ Running(next)'
  <1>1. reqs'[r] = next /\ \A q \in Requests : q # r => reqs'[q] = reqs[q]
    BY DEF Inv, TablesTyped, Become
  <1>2. \A q \in Requests : q # r => reqs[q] = Idle /\ reqs'[q] = Idle
    BY <1>1 DEF OneAtATime
  <1>3. \A q : Running(q) => q = reqs[r]
    BY <1>2 DEF Running, Quiet
  <1>4. Running(next)'
    BY <1>1, <1>2 DEF Running, Quiet
  <1> QED
    BY <1>1, <1>3, <1>4

\* A step of r that keeps its request and the tables consistent.
LEMMA CalmStep ==
    ASSUME Inv, CalmInv, calm, OneAtATime', NEW r \in Requests, NEW next, Become(r, next),
           reqs[r] # Idle \/ next # Idle,
           Consistent(reqs[r], users, cache, links) => Consistent(next, users', cache', links')
    PROVE  CalmInv'
  <1>1. PICK q : Running(q) /\ Consistent(q, users, cache, links)
    BY DEF CalmInv
  <1>2. OneAtATime
    BY DEF CalmInv
  <1>3. q = reqs[r] /\ Running(next)'
    BY <1>1, <1>2, Alone
  <1> QED
    BY <1>1, <1>3 DEF CalmInv

-----------------------------------------------------------------------------
(* The actions keep what is consistent so.                                 *)

\* A step of r after which request and tables are consistent.
Keeps(r) ==
    \E next : /\ Become(r, next)
              /\ reqs[r] # Idle \/ next # Idle
              /\ Consistent(next, users', cache', links')

\* The row of u is live with its roles, what points at it is linked or about
\* to be cached, and everything else is as it was.
LEMMA WriteAndCache ==
    ASSUME Inv, NEW q, Consistent(q, users, cache, links), q.step # "cacheSet",
           NEW u \in Usernames, NEW row, row.live, row.roles # {}, row # None,
           q.step = "assignRoles" => q.user = u,
           users'[u] = row, \A v \in Usernames : v # u => users'[v] = users[v],
           cache' = cache, \A l \in links' : l \in links \/ l.user = u
    PROVE  Consistent(CacheSet(u, row.roles), users', cache', links')
  <1> DEFINE next == CacheSet(u, row.roles)
  <1>1. next.step = "cacheSet" /\ next.user = u /\ next.roles = row.roles
    BY DEF CacheSet
  <1> HIDE DEF next
  <1>2. ReadsHold(next, users', cache')
    BY <1>1 DEF ReadsHold
  <1>3. \A l \in links' : users'[l.user] # None /\ users'[l.user].live
    <2>1. \A l \in links : l.user \in Usernames
      BY DEF Inv, TablesTyped, Link
    <2> QED
      BY <2>1 DEF Consistent
  <1>4. \A v \in Usernames : cache'[v] # None =>
          /\ users'[v] # None /\ users'[v].live
          /\ cache'[v] = users'[v].roles \/ (next.step = "cacheSet" /\ next.user = v)
    BY <1>1 DEF Consistent
  <1>5. \A v \in Usernames : users'[v] # None /\ users'[v].roles = {} => FALSE
    BY DEF Consistent
  <1> QED
    BY <1>1, <1>2, <1>3, <1>4, <1>5 DEF Consistent, next

LEMMA InsertCalm ==
    ASSUME Inv, NEW r \in Requests, Consistent(reqs[r], users, cache, links),
           reqs[r].step \in {"idle", "signUp"}, NEW u \in Usernames, NEW email \in Emails,
           NEW roles \in RoleSets, roles # {}, InsertUser(r, u, email, roles),
           cache' = cache, \A l \in links' : l \in links \/ l.user = u
    PROVE  Keeps(r)
  <1> DEFINE row == [email |-> email, live |-> TRUE, roles |-> roles]
  <1>1. row \in User /\ row.roles = roles /\ row.live /\ row # None
    BY RowsAreNotNone DEF User
  <1>2. users' = [users EXCEPT ![u] = row] /\ Become(r, CacheSet(u, roles))
    BY DEF InsertUser, WriteUser
  <1> HIDE DEF row
  <1>3. users'[u] = row /\ \A v \in Usernames : v # u => users'[v] = users[v]
    BY <1>2 DEF Inv, TablesTyped
  <1>4. Consistent(CacheSet(u, roles), users', cache', links')
    BY <1>1, <1>3, WriteAndCache
  <1>5. CacheSet(u, roles) # Idle
    BY DEF CacheSet, Idle
  <1> QED
    BY <1>2, <1>4, <1>5 DEF Keeps

LEMMA RegisterCalm ==
    ASSUME Inv, NEW r \in Requests, Consistent(reqs[r], users, cache, links), Register(r)
    PROVE  Keeps(r)
  <1>1. reqs[r].step = "idle"
    BY DEF Register, Idle
  <1> QED
    BY <1>1, InsertCalm, NamesAssumption DEF Register

LEMMA CreateUserCalm ==
    ASSUME Inv, NEW r \in Requests, Consistent(reqs[r], users, cache, links), CreateUser(r)
    PROVE  Keeps(r)
  <1>1. reqs[r].step = "idle"
    BY DEF CreateUser, Idle
  <1> QED
    BY <1>1, InsertCalm DEF CreateUser

LEMMA GrpcCreateUserCalm ==
    ASSUME Inv, NEW r \in Requests, Consistent(reqs[r], users, cache, links), GrpcCreateUser(r)
    PROVE  Keeps(r)
  <1>1. reqs[r].step = "idle"
    BY DEF GrpcCreateUser, Idle
  <1>2. PICK u \in Usernames, email \in Emails, roles \in RoleSets \ {{}} :
          /\ ~Stored(u)
          /\ WriteUser(u, [email |-> email, live |-> TRUE, roles |-> {}])
          /\ Become(r, [step |-> "assignRoles", user |-> u, roles |-> roles])
    BY DEF GrpcCreateUser, UserInsertable
  <1> DEFINE row  == [email |-> email, live |-> TRUE, roles |-> {}]
             next == [step |-> "assignRoles", user |-> u, roles |-> roles]
  <1>3. row \in User /\ row # None /\ row.live
    BY NamesAssumption, RowsAreNotNone DEF User
  <1>4. next.step = "assignRoles" /\ next.user = u /\ next.roles # {} /\ next # Idle
    BY DEF Idle
  <1>5. users' = [users EXCEPT ![u] = row] /\ Become(r, next)
    BY <1>2 DEF WriteUser
  <1> HIDE DEF row, next
  <1>6. users'[u] = row /\ \A v \in Usernames : v # u => users'[v] = users[v]
    BY <1>5 DEF Inv, TablesTyped
  <1>7. cache' = cache /\ links' = links /\ \A l \in links : l.user \in Usernames
    BY DEF GrpcCreateUser, Inv, TablesTyped, Link
  <1>8. ReadsHold(next, users', cache')
    BY <1>3, <1>4, <1>6 DEF ReadsHold
  <1>9. Consistent(next, users', cache', links')
    BY <1>1, <1>2, <1>3, <1>4, <1>6, <1>7, <1>8 DEF Consistent
  <1> QED
    BY <1>4, <1>5, <1>9 DEF Keeps

LEMMA GrpcAssignRolesCalm ==
    ASSUME Inv, NEW r \in Requests, Consistent(reqs[r], users, cache, links), GrpcAssignRoles(r)
    PROVE  Keeps(r)
  <1> DEFINE u == reqs[r].user
             roles == reqs[r].roles
             row == [users[u] EXCEPT !.roles = roles]
  <1>1. reqs[r].step = "assignRoles" /\ reqs[r] \in Request /\ Memory(reqs[r], users, past)
    BY DEF GrpcAssignRoles, Inv, TablesTyped, Remembered
  <1>2. u \in Usernames /\ Stored(u) /\ roles \in RoleSets
    BY <1>1, Carries DEF ToAssign, Memory
  <1>3. roles # {} /\ users[u] \in User /\ users[u].live
    BY <1>1, <1>2 DEF Consistent, ReadsHold, Inv, TablesTyped
  <1>4. row \in User /\ row.roles = roles /\ row.live
    BY <1>2, <1>3 DEF User
  <1>5. users' = [users EXCEPT ![u] = row] /\ Become(r, CacheSet(u, roles))
        /\ UNCHANGED <<links, cache>>
    BY DEF GrpcAssignRoles, WriteUser
  <1> HIDE DEF row
  <1>6. users'[u] = row /\ \A v \in Usernames : v # u => users'[v] = users[v]
    BY <1>2, <1>5 DEF Inv, TablesTyped
  <1>7. row # None
    BY <1>4, SentinelAssumption
  <1>8. CacheSet(u, roles) # Idle
    BY DEF CacheSet, Idle
  <1>9. Consistent(CacheSet(u, roles), users', cache', links')
    BY <1>1, <1>2, <1>3, <1>4, <1>5, <1>6, <1>7, WriteAndCache
  <1> QED
    BY <1>5, <1>8, <1>9 DEF Keeps

LEMMA UpdateCommitCalm ==
    ASSUME Inv, NEW r \in Requests, Consistent(reqs[r], users, cache, links), UpdateCommit(r)
    PROVE  Keeps(r)
  <1> DEFINE u == reqs[r].user
             roles == reqs[r].roles
             row == Saved(u, roles)
  <1>1. reqs[r].step = "update" /\ reqs[r] \in Request /\ Memory(reqs[r], users, past)
    BY DEF UpdateCommit, Inv, TablesTyped, Remembered
  <1>2. u \in Usernames /\ Stored(u) /\ roles \in RoleSets
    BY <1>1, Carries DEF ToUpdate, Memory
  <1>3. roles # {} /\ users[u].email \in Emails
    BY <1>1, <1>2 DEF Consistent, ReadsHold, Inv, TablesTyped, User
  <1>4. row \in User /\ row.roles = roles /\ row.live /\ row # None
    BY <1>2, <1>3, RowsAreNotNone DEF User, Saved
  <1>5. users' = [users EXCEPT ![u] = row] /\ Become(r, CacheSet(u, roles))
        /\ UNCHANGED <<links, cache>>
    BY DEF UpdateCommit, WriteUser
  <1> HIDE DEF row
  <1>6. users'[u] = row /\ \A v \in Usernames : v # u => users'[v] = users[v]
    BY <1>2, <1>5 DEF Inv, TablesTyped
  <1>7. CacheSet(u, roles) # Idle
    BY DEF CacheSet, Idle
  <1>8. Consistent(CacheSet(u, roles), users', cache', links')
    BY <1>1, <1>2, <1>3, <1>4, <1>5, <1>6, WriteAndCache
  <1> QED
    BY <1>5, <1>7, <1>8 DEF Keeps

LEMMA OAuthLinkCalm ==
    ASSUME Inv, NEW r \in Requests, Consistent(reqs[r], users, cache, links), OAuthLink(r)
    PROVE  Keeps(r)
  <1> DEFINE u == reqs[r].link.user
             roles == reqs[r].roles
             row == IF reqs[r].restore THEN Saved(u, roles) ELSE users[u]
  <1>1. reqs[r].step = "link" /\ reqs[r] \in Request /\ Memory(reqs[r], users, past)
    BY DEF OAuthLink, Inv, TablesTyped, Remembered
  <1>2. u \in Usernames /\ Stored(u) /\ roles \in RoleSets /\ users[u] \in User
    BY <1>1, Carries, NamesUsers DEF ToLink, Memory, Inv, TablesTyped
  <1>3. reqs[r].restore = ~users[u].live /\ roles = users[u].roles /\ roles # {}
    BY <1>1, <1>2 DEF Consistent, ReadsHold
  <1>4. row \in User /\ row.roles = roles /\ row.live
    BY <1>2, <1>3 DEF User, Saved
  <1>5. users' = [users EXCEPT ![u] = row]
    BY <1>2 DEF OAuthLink, WriteUser, Inv, TablesTyped
  <1>6. /\ Become(r, CacheSet(u, roles)) /\ cache' = cache
        /\ \A l \in links' : l \in links \/ l.user = u
    BY DEF OAuthLink
  <1> HIDE DEF row
  <1>7. users'[u] = row /\ \A v \in Usernames : v # u => users'[v] = users[v]
    BY <1>2, <1>5 DEF Inv, TablesTyped
  <1>8. row # None /\ CacheSet(u, roles) # Idle
    BY <1>4, SentinelAssumption DEF CacheSet, Idle
  <1>9. Consistent(CacheSet(u, roles), users', cache', links')
    BY <1>1, <1>2, <1>3, <1>4, <1>6, <1>7, <1>8, WriteAndCache
  <1> QED
    BY <1>6, <1>8, <1>9 DEF Keeps

LEMMA OAuthSignUpCalm ==
    ASSUME Inv, NEW r \in Requests, Consistent(reqs[r], users, cache, links), OAuthSignUp(r)
    PROVE  Keeps(r)
  <1>1. reqs[r].step = "signUp" /\ reqs[r] \in ToSignUp
    BY Carries DEF OAuthSignUp, Inv, TablesTyped
  <1>2. reqs[r].email \in Emails
    BY <1>1 DEF ToSignUp
  <1>3. PICK u \in Usernames :
          LET l == [user |-> u, provider |-> reqs[r].provider,
                    subject |-> reqs[r].subject, email |-> reqs[r].email]
          IN  InsertUser(r, u, l.email, {DefaultRole}) /\ links' = links \cup {l}
    BY DEF OAuthSignUp
  <1>4. /\ InsertUser(r, u, reqs[r].email, {DefaultRole})
        /\ \A l \in links' : l \in links \/ l.user = u
        /\ cache' = cache
    BY <1>3 DEF OAuthSignUp
  <1> QED
    BY <1>1, <1>2, <1>4, InsertCalm, NamesAssumption

\* A step that leaves tables and cache alone, by a request whose presence they
\* do not depend on.
LEMMA ReadCalm ==
    ASSUME NEW q, Consistent(q, users, cache, links), q.step \notin {"cacheSet", "assignRoles"},
           UNCHANGED <<users, links, cache>>, NEW next, ReadsHold(next, users, cache),
           next.step # "softDelete"
    PROVE  Consistent(next, users', cache', links')
  BY DEF Consistent

LEMMA OAuthReadCalm ==
    ASSUME Inv, NEW r \in Requests, Consistent(reqs[r], users, cache, links),
           NEW provider, NEW subject, NEW email, OAuthRead(r, provider, subject, email)
    PROVE  Keeps(r)
  <1>1. reqs[r].step = "idle" /\ UNCHANGED <<users, links, cache>>
    BY DEF OAuthRead, Idle
  <1>2. CASE Become(r, [step |-> "signUp", provider |-> provider,
                        subject |-> subject, email |-> email])
    <2> DEFINE next == [step |-> "signUp", provider |-> provider,
                        subject |-> subject, email |-> email]
    <2>1. /\ ReadsHold(next, users, cache) /\ next # Idle /\ next.step # "softDelete"
          /\ Become(r, next)
      BY <1>2 DEF ReadsHold, Idle
    <2> HIDE DEF next
    <2> QED
      BY <1>1, <2>1, ReadCalm DEF Keeps
  <1>3. ASSUME NEW u \in Usernames,
               Become(r, [step |-> "linkRoles", restore |-> ~users[u].live,
                          link |-> [user |-> u, provider |-> provider,
                                    subject |-> subject, email |-> email]])
        PROVE  Keeps(r)
    <2> DEFINE l    == [user |-> u, provider |-> provider, subject |-> subject, email |-> email]
               next == [step |-> "linkRoles", restore |-> ~users[u].live, link |-> l]
    <2>1. l.user = u
      OBVIOUS
    <2> HIDE DEF l
    <2>2. next.step = "linkRoles" /\ next.link = l /\ next # Idle
      BY DEF Idle
    <2>3. next.restore = ~users[u].live
      OBVIOUS
    <2>4. Become(r, next)
      BY <1>3 DEF l
    <2> HIDE DEF next
    <2>5. ReadsHold(next, users, cache)
      BY <2>1, <2>2, <2>3 DEF ReadsHold
    <2> QED
      BY <1>1, <2>2, <2>4, <2>5, ReadCalm DEF Keeps
  <1> QED
    BY <1>2, <1>3 DEF OAuthRead

LEMMA OAuthReadRolesCalm ==
    ASSUME Inv, NEW r \in Requests, Consistent(reqs[r], users, cache, links), OAuthReadRoles(r)
    PROVE  Keeps(r)
  <1> DEFINE l    == reqs[r].link
             next == [step |-> "link", link |-> l, restore |-> reqs[r].restore,
                      roles |-> users[l.user].roles]
  <1>1. reqs[r].step = "linkRoles" /\ Become(r, next) /\ UNCHANGED <<users, links, cache>>
    BY DEF OAuthReadRoles
  <1>2. reqs[r].restore = ~users[l.user].live
    BY <1>1 DEF Consistent, ReadsHold
  <1>3. /\ next.step = "link" /\ next.link = l /\ next.restore = reqs[r].restore
        /\ next.roles = users[l.user].roles /\ next # Idle
    BY DEF Idle
  <1> HIDE DEF next
  <1>4. ReadsHold(next, users, cache)
    BY <1>2, <1>3 DEF ReadsHold
  <1> QED
    BY <1>1, <1>3, <1>4, ReadCalm DEF Keeps

LEMMA OAuthRollbackCalm ==
    ASSUME Inv, NEW r \in Requests, Consistent(reqs[r], users, cache, links), OAuthRollback(r)
    PROVE  Keeps(r)
  <1>1. /\ reqs[r].step \in {"link", "signUp"} /\ reqs[r] # Idle
        /\ Become(r, Idle) /\ UNCHANGED <<users, links, cache>>
    BY DEF OAuthRollback, Return, Idle
  <1>2. ReadsHold(Idle, users, cache) /\ Idle.step # "softDelete"
    BY DEF ReadsHold, Idle
  <1> QED
    BY <1>1, <1>2, ReadCalm DEF Keeps

LEMMA UpdateReadCalm ==
    ASSUME Inv, NEW r \in Requests, Consistent(reqs[r], users, cache, links), UpdateRead(r)
    PROVE  Keeps(r)
  <1>1. PICK u \in Usernames, roles \in RoleSets \ {{}} :
          Live(u) /\ Become(r, [step |-> "update", user |-> u, roles |-> roles])
    BY DEF UpdateRead
  <1> DEFINE next == [step |-> "update", user |-> u, roles |-> roles]
  <1>2. /\ ReadsHold(next, users, cache) /\ next # Idle /\ next.step # "softDelete"
        /\ Become(r, next)
    BY <1>1 DEF ReadsHold, Live, Idle
  <1>3. reqs[r].step = "idle" /\ UNCHANGED <<users, links, cache>>
    BY DEF UpdateRead, Idle
  <1> HIDE DEF next
  <1> QED
    BY <1>2, <1>3, ReadCalm DEF Keeps

LEMMA DeleteReadCalm ==
    ASSUME Inv, NEW r \in Requests, Consistent(reqs[r], users, cache, links), DeleteRead(r)
    PROVE  Keeps(r)
  <1>1. PICK u \in Usernames : Live(u) /\ Become(r, [step |-> "invalidate", user |-> u])
    BY DEF DeleteRead
  <1> DEFINE next == [step |-> "invalidate", user |-> u]
  <1>2. /\ ReadsHold(next, users, cache) /\ next # Idle /\ next.step # "softDelete"
        /\ Become(r, next)
    BY <1>1 DEF ReadsHold, Live, Idle
  <1>3. reqs[r].step = "idle" /\ UNCHANGED <<users, links, cache>>
    BY DEF DeleteRead, Idle
  <1> HIDE DEF next
  <1> QED
    BY <1>2, <1>3, ReadCalm DEF Keeps

LEMMA GetUserCalm ==
    ASSUME Inv, NEW r \in Requests, Consistent(reqs[r], users, cache, links), GetUser(r)
    PROVE  Keeps(r)
  <1>1. PICK u \in Usernames : Live(u) /\ Become(r, [step |-> "getRoles", user |-> u])
    BY DEF GetUser
  <1> DEFINE next == [step |-> "getRoles", user |-> u]
  <1>2. /\ ReadsHold(next, users, cache) /\ next # Idle /\ next.step # "softDelete"
        /\ Become(r, next)
    BY <1>1 DEF ReadsHold, Live, Idle
  <1>3. reqs[r].step = "idle" /\ UNCHANGED <<users, links, cache>>
    BY DEF GetUser, Idle
  <1> HIDE DEF next
  <1> QED
    BY <1>2, <1>3, ReadCalm DEF Keeps

LEMMA GetRolesCalm ==
    ASSUME Inv, NEW r \in Requests, Consistent(reqs[r], users, cache, links), GetRoles(r)
    PROVE  Keeps(r)
  <1> DEFINE u    == reqs[r].user
             next == CacheSet(u, users[u].roles)
  <1>1. /\ reqs[r].step = "getRoles" /\ reqs[r] # Idle
        /\ Become(r, next) /\ UNCHANGED <<users, links, cache>>
    BY DEF GetRoles, Idle
  <1>2. Stored(u) /\ users[u].live
    BY <1>1 DEF Inv, Remembered, Memory, Consistent, ReadsHold
  <1>3. next.step = "cacheSet" /\ next.user = u /\ next.roles = users[u].roles
    BY DEF CacheSet
  <1> HIDE DEF next
  <1>4. ReadsHold(next, users, cache)
    BY <1>2, <1>3 DEF ReadsHold
  <1> QED
    BY <1>1, <1>3, <1>4, ReadCalm DEF Keeps

LEMMA DeleteInvalidateCalm ==
    ASSUME Inv, NEW r \in Requests, Consistent(reqs[r], users, cache, links), DeleteInvalidate(r)
    PROVE  Keeps(r)
  <1> DEFINE u    == reqs[r].user
             next == [step |-> "delete", user |-> u]
  <1>1. reqs[r].step = "invalidate" /\ reqs[r] \in Request
    BY DEF DeleteInvalidate, Inv, TablesTyped
  <1>2. u \in Usernames /\ users[u].live
    BY <1>1, NamesUsers DEF Consistent, ReadsHold
  <1>3. /\ cache' = [cache EXCEPT ![u] = None] /\ Become(r, next) /\ reqs[r] # Idle
        /\ UNCHANGED <<users, links>>
    BY <1>1 DEF DeleteInvalidate, Idle
  <1>4. cache'[u] = None /\ \A v \in Usernames : cache'[v] # None => cache'[v] = cache[v]
    BY <1>2, <1>3 DEF Inv, TablesTyped
  <1>5. next.step = "delete" /\ next.user = u
    OBVIOUS
  <1> HIDE DEF next
  <1>6. ReadsHold(next, users', cache')
    BY <1>2, <1>3, <1>4, <1>5 DEF ReadsHold
  <1>7. Consistent(next, users', cache', links')
    BY <1>1, <1>3, <1>4, <1>5, <1>6 DEF Consistent
  <1> QED
    BY <1>3, <1>7 DEF Keeps

LEMMA DeleteLinksCalm ==
    ASSUME Inv, NEW r \in Requests, Consistent(reqs[r], users, cache, links), DeleteLinks(r)
    PROVE  Keeps(r)
  <1> DEFINE u    == reqs[r].user
             next == [step |-> "softDelete", user |-> u, unlinks |-> {l \in links : l.user = u}]
  <1>1. /\ reqs[r].step = "delete" /\ reqs[r] # Idle
        /\ Become(r, next) /\ UNCHANGED <<users, links, cache>>
    BY DEF DeleteLinks, Idle
  <1>2. users[u].live /\ cache[u] = None
    BY <1>1 DEF Consistent, ReadsHold
  <1>3. /\ next.step = "softDelete" /\ next.user = u
        /\ next.unlinks = {l \in links : l.user = u}
    OBVIOUS
  <1> HIDE DEF next
  <1>4. ReadsHold(next, users, cache)
    BY <1>2, <1>3 DEF ReadsHold
  <1>5. Consistent(next, users', cache', links')
    BY <1>1, <1>3, <1>4 DEF Consistent
  <1> QED
    BY <1>1, <1>5 DEF Keeps

LEMMA DeleteCommitCalm ==
    ASSUME Inv, NEW r \in Requests, Consistent(reqs[r], users, cache, links), DeleteCommit(r)
    PROVE  Keeps(r)
  <1> DEFINE u   == reqs[r].user
             row == [users[u] EXCEPT !.live = FALSE]
  <1>1. reqs[r].step = "softDelete" /\ reqs[r] \in Request /\ Memory(reqs[r], users, past)
    BY DEF DeleteCommit, Inv, TablesTyped, Remembered
  <1>2. u \in Usernames /\ Stored(u) /\ cache[u] = None /\ users[u] \in User
    BY <1>1, NamesUsers DEF Consistent, ReadsHold, Memory, Inv, TablesTyped
  <1>9. reqs[r].unlinks = {l \in links : l.user = u}
    BY <1>1 DEF Consistent
  <1>3. row.roles = users[u].roles
    BY <1>2 DEF User
  <1>4. /\ users' = [users EXCEPT ![u] = row] /\ links' = {l \in links : l.user # u}
        /\ cache' = cache /\ Become(r, Idle) /\ reqs[r] # Idle
    BY <1>1, <1>9 DEF DeleteCommit, Return, Idle
  <1> HIDE DEF row
  <1>5. users'[u] = row /\ \A v \in Usernames : v # u => users'[v] = users[v]
    BY <1>2, <1>4 DEF Inv, TablesTyped
  <1>6. \A l \in links' : l \in links /\ l.user \in Usernames /\ l.user # u
    BY <1>4 DEF Inv, TablesTyped, Link
  <1>7. ReadsHold(Idle, users', cache')
    BY DEF ReadsHold, Idle
  <1>8. Consistent(Idle, users', cache', links')
    <2>1. \A v \in Usernames : cache'[v] # None =>
            users'[v] # None /\ users'[v].live /\ cache'[v] = users'[v].roles
      BY <1>1, <1>2, <1>4, <1>5 DEF Consistent
    <2>2. \A v \in Usernames : users'[v] # None => users'[v].roles # {}
      BY <1>1, <1>2, <1>3, <1>5 DEF Consistent
    <2>3. \A l \in links' : users'[l.user] # None /\ users'[l.user].live
      BY <1>5, <1>6 DEF Consistent
    <2> QED
      BY <1>7, <2>1, <2>2, <2>3 DEF Consistent, Idle
  <1> QED
    BY <1>4, <1>8 DEF Keeps

LEMMA SetCacheCalm ==
    ASSUME Inv, NEW r \in Requests, Consistent(reqs[r], users, cache, links), SetCache(r)
    PROVE  Keeps(r)
  <1> DEFINE u == reqs[r].user
  <1>1. reqs[r].step = "cacheSet" /\ reqs[r] \in Request
    BY DEF SetCache, Inv, TablesTyped
  <1>2. ReadsHold(reqs[r], users, cache) /\ u \in Usernames
    BY <1>1, NamesUsers DEF Consistent
  <1>9. Stored(u) /\ users[u].live /\ reqs[r].roles = users[u].roles
    BY <1>1, <1>2 DEF ReadsHold
  <1>3. /\ cache' = [cache EXCEPT ![u] = reqs[r].roles] /\ Become(r, Idle) /\ reqs[r] # Idle
        /\ UNCHANGED <<users, links>>
    BY <1>1 DEF SetCache, Return, Idle
  <1>4. cache'[u] = users[u].roles /\ \A v \in Usernames : v # u => cache'[v] = cache[v]
    BY <1>2, <1>9, <1>3 DEF Inv, TablesTyped
  <1>5. ReadsHold(Idle, users', cache')
    BY DEF ReadsHold, Idle
  <1>6. Consistent(Idle, users', cache', links')
    <2>1. \A v \in Usernames : cache'[v] # None =>
            users[v] # None /\ users[v].live /\ cache'[v] = users[v].roles
      BY <1>1, <1>2, <1>9, <1>4 DEF Consistent
    <2>2. \A v \in Usernames : users[v] # None => users[v].roles # {}
      BY <1>1 DEF Consistent
    <2>3. \A l \in links : users[l.user] # None /\ users[l.user].live
      BY DEF Consistent
    <2> QED
      BY <1>3, <1>5, <2>1, <2>2, <2>3 DEF Consistent, Idle
  <1> QED
    BY <1>3, <1>6 DEF Keeps

LEMMA EvictCalm ==
    ASSUME Inv, CalmInv, NEW u \in Usernames, Evict(u), calm
    PROVE  CalmInv'
  <1>1. PICK q : Running(q) /\ Consistent(q, users, cache, links)
    BY DEF CalmInv
  <1>2. \A v \in Usernames : cache'[v] = None \/ cache'[v] = cache[v]
    BY DEF Evict, Inv, TablesTyped
  <1>3. UNCHANGED <<users, links, reqs>>
    BY DEF Evict
  <1>4. q.step \in {"delete", "softDelete"} => q.user \in Usernames
    BY <1>1, NamesUsers DEF Running, Inv, TablesTyped, Idle
  <1>5. ReadsHold(q, users', cache')
    BY <1>1, <1>2, <1>3, <1>4 DEF Consistent, ReadsHold
  <1>6. Consistent(q, users', cache', links')
    BY <1>1, <1>2, <1>3, <1>5 DEF Consistent
  <1>7. Running(q)' /\ OneAtATime'
    BY <1>1, <1>3 DEF Running, Quiet, CalmInv, OneAtATime
  <1> QED
    BY <1>6, <1>7 DEF CalmInv

LEMMA CachingIsBusy == \A u, roles : CacheSet(u, roles) # Idle
  BY DEF CacheSet, Idle

\* A request that starts is on its way after its first step.
LEMMA Starts ==
    ASSUME NEW r \in Requests,
           \/ Register(r) \/ CreateUser(r) \/ GrpcCreateUser(r) \/ OAuthSignUp(r)
           \/ OAuthLogin(r) \/ GoogleAuthMobile(r) \/ UpdateRead(r) \/ DeleteRead(r)
           \/ GetUser(r)
    PROVE  \E next : Become(r, next) /\ next # Idle
  <1>1. CASE Register(r) \/ CreateUser(r) \/ OAuthSignUp(r)
    <2>1. \E u, roles : Become(r, CacheSet(u, roles))
      BY <1>1 DEF Register, CreateUser, OAuthSignUp, InsertUser
    <2> QED
      BY <2>1, CachingIsBusy
  <1>2. CASE GetUser(r)
    <2>1. PICK u : Become(r, [step |-> "getRoles", user |-> u])
      BY <1>2 DEF GetUser
    <2>2. [step |-> "getRoles", user |-> u] # Idle
      BY DEF Idle
    <2> QED
      BY <2>1, <2>2
  <1>3. CASE GrpcCreateUser(r)
    <2>1. PICK u, roles : Become(r, [step |-> "assignRoles", user |-> u, roles |-> roles])
      BY <1>3 DEF GrpcCreateUser
    <2>2. [step |-> "assignRoles", user |-> u, roles |-> roles] # Idle
      BY DEF Idle
    <2> QED
      BY <2>1, <2>2
  <1>4. CASE UpdateRead(r)
    <2>1. PICK u, roles : Become(r, [step |-> "update", user |-> u, roles |-> roles])
      BY <1>4 DEF UpdateRead
    <2>2. [step |-> "update", user |-> u, roles |-> roles] # Idle
      BY DEF Idle
    <2> QED
      BY <2>1, <2>2
  <1>5. CASE DeleteRead(r)
    <2>1. PICK u : Become(r, [step |-> "invalidate", user |-> u])
      BY <1>5 DEF DeleteRead
    <2>2. [step |-> "invalidate", user |-> u] # Idle
      BY DEF Idle
    <2> QED
      BY <2>1, <2>2
  <1>6. ASSUME NEW provider, NEW subject, NEW email, OAuthRead(r, provider, subject, email)
        PROVE  \E next : Become(r, next) /\ next # Idle
    <2>1. CASE Become(r, [step |-> "signUp", provider |-> provider,
                          subject |-> subject, email |-> email])
      <3>1. [step |-> "signUp", provider |-> provider,
             subject |-> subject, email |-> email] # Idle
        BY DEF Idle
      <3> QED
        BY <2>1, <3>1
    <2>2. ASSUME NEW restore, NEW link,
                 Become(r, [step |-> "linkRoles", restore |-> restore, link |-> link])
          PROVE  \E next : Become(r, next) /\ next # Idle
      <3>1. [step |-> "linkRoles", restore |-> restore, link |-> link] # Idle
        BY DEF Idle
      <3> QED
        BY <2>2, <3>1
    <2> QED
      BY <1>6, <2>1, <2>2 DEF OAuthRead
  <1> QED
    BY <1>1, <1>2, <1>3, <1>4, <1>5, <1>6 DEF OAuthLogin, GoogleAuthMobile

\* A step after which it is still calm: a handler's, with nothing beside it.
LEMMA NextCalm == Inv /\ CalmInv /\ [Next]_vars => CalmInv'
  <1> SUFFICES ASSUME Inv, CalmInv, [Next]_vars, calm' PROVE CalmInv'
    BY DEF CalmInv
  <1>1. CASE UNCHANGED vars
    BY <1>1 DEF vars, CalmInv, OneAtATime, Running, Quiet
  <1>2. CASE Handle /\ calm' = (calm /\ OneAtATime')
    <2>1. calm /\ OneAtATime'
      BY <1>2
    <2>2. OneAtATime /\ \E q : Running(q) /\ Consistent(q, users, cache, links)
      BY <2>1 DEF CalmInv
    <2>3. ASSUME NEW r \in Requests, NEW next, Become(r, next), reqs[r] # Idle \/ next # Idle
          PROVE  Consistent(reqs[r], users, cache, links)
      BY <2>1, <2>2, <2>3, Alone
    <2>4. ASSUME NEW r \in Requests, Consistent(reqs[r], users, cache, links) => Keeps(r),
                 NEW next, Become(r, next), reqs[r] # Idle \/ next # Idle
          PROVE  CalmInv'
      BY <2>1, <2>3, <2>4, CalmStep DEF Keeps
    <2>5. ASSUME NEW r \in Requests,
                 \/ Register(r) \/ CreateUser(r) \/ GrpcCreateUser(r) \/ OAuthSignUp(r)
                 \/ UpdateRead(r) \/ DeleteRead(r) \/ GetUser(r)
          PROVE  CalmInv'
      BY <2>4, <2>5, Starts, RegisterCalm, CreateUserCalm, GrpcCreateUserCalm,
         OAuthSignUpCalm, UpdateReadCalm, DeleteReadCalm, GetUserCalm
    <2>6. ASSUME NEW r \in Requests, OAuthLogin(r) \/ GoogleAuthMobile(r)
          PROVE  CalmInv'
      <3>1. \E next : Become(r, next) /\ next # Idle
        BY <2>6, Starts
      <3>2. Consistent(reqs[r], users, cache, links) => Keeps(r)
        BY <2>6, OAuthReadCalm DEF OAuthLogin, GoogleAuthMobile
      <3> QED
        BY <2>4, <3>1, <3>2
    <2>7. ASSUME NEW r \in Requests,
                 \/ GrpcAssignRoles(r) \/ UpdateCommit(r) \/ OAuthReadRoles(r) \/ OAuthLink(r)
                 \/ OAuthRollback(r) \/ DeleteInvalidate(r) \/ DeleteLinks(r)
                 \/ DeleteCommit(r) \/ GetRoles(r) \/ SetCache(r)
          PROVE  CalmInv'
      <3>1. reqs[r] # Idle /\ \E next : Become(r, next)
        BY <2>7 DEF GrpcAssignRoles, UpdateCommit, OAuthReadRoles, OAuthLink, OAuthRollback,
                    DeleteInvalidate, DeleteLinks, DeleteCommit, GetRoles, SetCache, Return, Idle
      <3> QED
        BY <2>4, <2>7, <3>1, GrpcAssignRolesCalm, UpdateCommitCalm, OAuthReadRolesCalm,
           OAuthLinkCalm, OAuthRollbackCalm, DeleteInvalidateCalm, DeleteLinksCalm,
           DeleteCommitCalm, GetRolesCalm, SetCacheCalm
    <2> QED
      BY <1>2, <2>1, <2>5, <2>6, <2>7, EvictCalm DEF Handle
  <1> QED
    BY <1>1, <1>2 DEF Next

LEMMA InitCalm == Init => CalmInv
  <1> SUFFICES ASSUME Init PROVE Running(Idle) /\ Consistent(Idle, users, cache, links)
    BY DEF Init, CalmInv, OneAtATime
  <1>1. ReadsHold(Idle, users, cache)
    BY DEF ReadsHold, Idle
  <1> QED
    BY <1>1 DEF Init, Running, Quiet, Consistent, Idle

LEMMA CalmInvariance == Spec => [](Inv /\ CalmInv)
  <1>1. Init => Inv /\ CalmInv
    BY InitInv, InitCalm
  <1>2. (Inv /\ CalmInv) /\ [Next]_vars => (Inv /\ CalmInv)'
    BY NextInv, NextCalm
  <1> QED
    BY <1>1, <1>2, PTL DEF Spec

-----------------------------------------------------------------------------
(* The properties.                                                         *)

LEMMA QuietTables ==
    ASSUME CalmInv, calm, Quiet PROVE Consistent(Idle, users, cache, links)
  BY DEF CalmInv, Running, Quiet

\* One request at a time leaves no stale entry behind, whatever the requests
\* and however many (user.go:191, 206).
THEOREM CacheIsFresh == Spec => []CacheFreshWhenCalm
  <1>1. Inv /\ CalmInv => CacheFreshWhenCalm
    <2> SUFFICES ASSUME CalmInv, calm, Quiet, NEW u \in Usernames, cache[u] # None
                 PROVE  Live(u) /\ cache[u] = users[u].roles
      BY DEF CacheFreshWhenCalm
    <2> QED
      BY QuietTables DEF Consistent, Idle, Live
  <1> QED
    BY <1>1, CalmInvariance, PTL

\* One request at a time leaves no user without a role (user.go:71, auth.go:134,
\* grpc/user.go:33), through any deletions, restorations and updates.
THEOREM UsersHaveRoles == Spec => []RolesWhenCalm
  <1>1. Inv /\ CalmInv => RolesWhenCalm
    <2> SUFFICES ASSUME CalmInv, calm, Quiet, NEW u \in Usernames, Stored(u)
                 PROVE  users[u].roles # {}
      BY DEF RolesWhenCalm
    <2> QED
      BY QuietTables DEF Consistent, Idle
  <1> QED
    BY <1>1, CalmInvariance, PTL

\* One request at a time never links an identity to a user that is deleted, in
\* the middle of a request neither (domain/user.go:49, auth.go:312-327).
THEOREM LinksStayLive == Spec => []LinksLiveWhenCalm
  <1>1. Inv /\ CalmInv => LinksLiveWhenCalm
    BY DEF CalmInv, Consistent, LinksLiveWhenCalm, LinksAreLive, Live
  <1> QED
    BY <1>1, CalmInvariance, PTL

\* One request at a time restores a deleted user by an OAuth login only: gorm's
\* upsert never finds the row deleted (repository/user.go:83).
THEOREM RevivalIsOAuth == Spec => RevivedByOAuthWhenCalm
  <1> DEFINE Step == calm' => ~RevivedOtherwise
  <1>1. Inv /\ CalmInv /\ [Next]_vars => [Step]_vars
    <2> SUFFICES ASSUME Inv, CalmInv, Next, calm', NEW u \in Usernames, Stored(u),
                        ~Live(u), users'[u].live,
                        \A r \in Requests :
                          reqs[r].step = "link" /\ reqs[r].link.user = u => reqs'[r] = reqs[r]
                 PROVE  FALSE
      BY DEF RevivedOtherwise
    <2>1. Handle /\ calm /\ OneAtATime'
      BY DEF Next
    <2>2. OneAtATime /\ \E q : Running(q) /\ Consistent(q, users, cache, links)
      BY <2>1 DEF CalmInv
    <2>3. users' # users
      BY DEF Live
    <2>4. ASSUME NEW r \in Requests, NEW v \in Usernames, ~Stored(v), NEW row,
                 users' = [users EXCEPT ![v] = row]
          PROVE  FALSE
      BY <2>4 DEF Inv, TablesTyped, Live
    <2>5. ASSUME NEW r \in Requests, Register(r) \/ CreateUser(r) \/ GrpcCreateUser(r)
                                       \/ OAuthSignUp(r)
          PROVE  FALSE
      BY <2>4, <2>5 DEF Register, CreateUser, GrpcCreateUser, OAuthSignUp, InsertUser,
                        UserInsertable, WriteUser
    <2>6. ASSUME NEW r \in Requests, OAuthLink(r)
          PROVE  FALSE
      <3>1. reqs[r].step = "link" /\ reqs[r].link.user # u
        <4>1. reqs'[r] = CacheSet(reqs[r].link.user, reqs[r].roles) /\ reqs[r].step = "link"
          BY <2>6 DEF OAuthLink, Become, Inv, TablesTyped
        <4>2. reqs'[r].step = "cacheSet"
          BY <4>1 DEF CacheSet
        <4> QED
          BY <4>1, <4>2
      <3>2. users'[u] = users[u]
        BY <2>6, <3>1 DEF OAuthLink, WriteUser, Inv, TablesTyped
      <3> QED
        BY <3>2 DEF Live
    <2>7. ASSUME NEW r \in Requests, GrpcAssignRoles(r)
          PROVE  FALSE
      <3> DEFINE v == reqs[r].user
                 row == [users[v] EXCEPT !.roles = reqs[r].roles]
      <3>1. users' = [users EXCEPT ![v] = row]
        BY <2>7 DEF GrpcAssignRoles, WriteUser
      <3>2. users[u] \in User
        BY DEF Inv, TablesTyped
      <3>3. v = u => row.live = users[u].live
        BY <3>2 DEF User
      <3> HIDE DEF row
      <3>4. users'[u] = users[u] \/ (v = u /\ users'[u] = row)
        BY <3>1 DEF Inv, TablesTyped
      <3> QED
        BY <3>3, <3>4 DEF Live
    <2>8. ASSUME NEW r \in Requests, UpdateCommit(r)
          PROVE  FALSE
      <3> DEFINE v == reqs[r].user
      <3>1. /\ reqs[r].step = "update" /\ reqs[r] # Idle
            /\ users' = [users EXCEPT ![v] = Saved(v, reqs[r].roles)]
            /\ Become(r, CacheSet(v, reqs[r].roles))
        BY <2>8 DEF UpdateCommit, WriteUser, Idle
      <3>2. Consistent(reqs[r], users, cache, links)
        BY <2>1, <2>2, <3>1, Alone
      <3>3. users[v].live
        BY <3>1, <3>2 DEF Consistent, ReadsHold
      <3>4. v # u
        BY <3>3 DEF Live
      <3> QED
        BY <3>1, <3>4 DEF Inv, TablesTyped, Live
    <2>9. ASSUME NEW r \in Requests, DeleteCommit(r)
          PROVE  FALSE
      <3> DEFINE v == reqs[r].user
                 row == [users[v] EXCEPT !.live = FALSE]
      <3>1. users' = [users EXCEPT ![v] = row]
        BY <2>9 DEF DeleteCommit
      <3>2. users[u] \in User
        BY DEF Inv, TablesTyped
      <3>3. v = u => ~row.live
        BY <3>2 DEF User
      <3> HIDE DEF row
      <3>4. users'[u] = users[u] \/ (v = u /\ users'[u] = row)
        BY <3>1 DEF Inv, TablesTyped
      <3> QED
        BY <3>3, <3>4 DEF Live
    <2> QED
      BY <2>1, <2>3, <2>5, <2>6, <2>7, <2>8, <2>9
         DEF Handle, OAuthLogin, GoogleAuthMobile, OAuthRead, OAuthRollback, UpdateRead,
             OAuthReadRoles, DeleteRead, DeleteInvalidate, DeleteLinks, GetUser, GetRoles,
             SetCache, Evict
  <1> QED
    BY <1>1, CalmInvariance, PTL DEF Spec, RevivedByOAuthWhenCalm

-----------------------------------------------------------------------------
(* The directory of accounts.                                              *)

Identity(l) == <<l.provider, l.subject>>

\* One user per identity, in a set of links.
OneOwner(ls) == \A l, m \in ls : Identity(l) = Identity(m) => l.user = m.user

\* A link tells whom its identity leads to.
LEMMA OwnerKnown ==
    ASSUME NEW ls \in SUBSET Link, OneOwner(ls), NEW l \in ls
    PROVE  /\ Identity(l) \in Providers \X Subjects
           /\ ownerIn(ls)[Identity(l)] = l.user
  <1>1. Identity(l) \in Providers \X Subjects /\ l.user \in Usernames
    BY DEF Link, Identity
  <1> DEFINE Leads(u) == \E m \in ls : Identity(m) = Identity(l) /\ m.user = u
  <1>2. \A u \in Usernames : Leads(u) <=> u = l.user
    BY DEF OneOwner
  <1>3. (CHOOSE u \in Usernames : Leads(u)) = l.user
    BY <1>1, <1>2
  <1>4. ownerIn(ls)[Identity(l)]
          = IF \E m \in ls : Identity(m) = Identity(l)
              THEN CHOOSE u \in Usernames : Leads(u) ELSE None
    BY <1>1 DEF ownerIn, Identity
  <1> QED
    BY <1>1, <1>3, <1>4

\* Without a link an identity leads to nobody.
LEMMA OwnerUnknown ==
    ASSUME NEW ls, NEW i \in Providers \X Subjects, \A l \in ls : Identity(l) # i
    PROVE  ownerIn(ls)[i] = None
  BY DEF ownerIn, Identity

LEMMA OwnerShape == \A ls : ownerIn(ls) = [i \in Providers \X Subjects |-> ownerIn(ls)[i]]
  BY DEF ownerIn

LEMMA LinksHaveOneOwner == ASSUME Inv PROVE links \in SUBSET Link /\ OneOwner(links)
  <1>1. links \subseteq Link
    BY DEF Inv, TablesTyped
  <1>2. ASSUME NEW l \in links, NEW m \in links, Identity(l) = Identity(m)
        PROVE  l.user = m.user
    <2>1. l.provider = m.provider /\ l.subject = m.subject
      BY <1>2 DEF Identity
    <2> QED
      BY <2>1 DEF Inv, LinksSound
  <1> QED
    BY <1>1, <1>2 DEF OneOwner

\* A link that breaks no index lets its identity join its user.
LEMMA LinkJoins ==
    ASSUME Inv, NEW l \in Link, LinkInsertable(l), links' = links \cup {l}
    PROVE  /\ Identity(l) \in Directory!Identities
           /\ Directory!Join(Identity(l), l.user)
  <1> DEFINE i == Identity(l)
  <1>1. i \in Providers \X Subjects /\ l.user \in Usernames /\ i[1] = l.provider
    BY DEF Link, Identity
  <1>2. links \in SUBSET Link /\ OneOwner(links)
    BY LinksHaveOneOwner
  <1>3. \A m \in links : Identity(m) # i /\ ~(m.user = l.user /\ m.provider = l.provider)
    BY DEF LinkInsertable, InsertableAmong, Identity
  <1>4. links' \in SUBSET Link /\ OneOwner(links')
    BY <1>2, <1>3 DEF OneOwner
  <1>5. owner[i] = None
    BY <1>1, <1>3, OwnerUnknown DEF owner
  <1>6. ASSUME NEW subject \in Subjects, owner[<<i[1], subject>>] = l.user PROVE FALSE
    <2> DEFINE j == <<i[1], subject>>
    <2>1. j \in Providers \X Subjects
      BY <1>1 DEF Link
    <2>2. CASE \A m \in links : Identity(m) # j
      BY <1>1, <1>6, <2>1, <2>2, OwnerUnknown, SentinelAssumption DEF owner
    <2>3. ASSUME NEW m \in links, Identity(m) = j PROVE FALSE
      <3>1. m.user = l.user
        BY <1>2, <1>6, <2>3, OwnerKnown DEF owner
      <3>2. m.provider = l.provider
        BY <1>1, <2>3 DEF Identity
      <3> QED
        BY <1>3, <3>1, <3>2
    <2> QED
      BY <2>2, <2>3
  <1>7. owner' = [owner EXCEPT ![i] = l.user]
    <2>1. ASSUME NEW j \in Providers \X Subjects
          PROVE  owner'[j] = IF j = i THEN l.user ELSE owner[j]
      <3>1. CASE j = i
        BY <1>4, <3>1, OwnerKnown DEF owner
      <3>2. ASSUME j # i, NEW m \in links, Identity(m) = j
            PROVE  owner'[j] = owner[j]
        BY <1>2, <1>4, <3>2, OwnerKnown DEF owner
      <3>3. ASSUME j # i, \A m \in links : Identity(m) # j
            PROVE  owner'[j] = owner[j]
        <4>1. \A m \in links' : Identity(m) # j
          BY <3>3
        <4> QED
          BY <3>3, <4>1, OwnerUnknown DEF owner
      <3> QED
        BY <3>1, <3>2, <3>3
    <2>2. /\ owner = [j \in Providers \X Subjects |-> owner[j]]
          /\ owner' = [j \in Providers \X Subjects |-> owner'[j]]
      BY OwnerShape DEF owner
    <2> QED
      BY <1>1, <2>1, <2>2
  <1> QED
    BY <1>1, <1>5, <1>6, <1>7 DEF Directory!Join, Directory!Identities

\* Without the links of a user his identities lead to nobody.
LEMMA UnlinkingLetsGo ==
    ASSUME Inv, NEW u \in Usernames, links' = {l \in links : l.user # u}
    PROVE  owner' = [i \in Directory!Identities |-> IF owner[i] = u THEN None ELSE owner[i]]
  <1>1. links \in SUBSET Link /\ OneOwner(links)
    BY LinksHaveOneOwner
  <1>2. links' \in SUBSET Link /\ OneOwner(links')
    BY <1>1 DEF OneOwner
  <1>3. ASSUME NEW j \in Providers \X Subjects
        PROVE  owner'[j] = IF owner[j] = u THEN None ELSE owner[j]
    <2>1. ASSUME NEW m \in links, Identity(m) = j
          PROVE  owner'[j] = IF owner[j] = u THEN None ELSE owner[j]
      <3>1. owner[j] = m.user
        BY <1>1, <2>1, OwnerKnown DEF owner
      <3>2. CASE m.user # u
        BY <1>2, <2>1, <3>1, <3>2, OwnerKnown DEF owner
      <3>3. CASE m.user = u
        <4>1. \A n \in links' : Identity(n) # j
          BY <1>1, <2>1, <3>3 DEF OneOwner
        <4> QED
          BY <3>1, <3>3, <4>1, OwnerUnknown DEF owner
      <3> QED
        BY <3>2, <3>3
    <2>2. ASSUME \A m \in links : Identity(m) # j
          PROVE  owner'[j] = IF owner[j] = u THEN None ELSE owner[j]
      <3>1. \A m \in links' : Identity(m) # j
        BY <2>2
      <3> QED
        BY <2>2, <3>1, OwnerUnknown DEF owner
    <2> QED
      BY <2>1, <2>2
  <1> QED
    BY <1>3 DEF owner, ownerIn, Directory!Identities

LEMMA InsertIsCreate ==
    ASSUME NEW r \in Requests, NEW u \in Usernames, NEW email \in Emails, NEW roles,
           UserInsertable(u, email),
           WriteUser(u, [email |-> email, live |-> TRUE, roles |-> roles])
    PROVE  Directory!Create(u, email, roles)
  BY DEF UserInsertable, WriteUser, Directory!Create

\* New users are registrations, or sign-ups when they come with a link.
LEMMA NewUserStep ==
    ASSUME Inv, NEW r \in Requests,
           Register(r) \/ CreateUser(r) \/ GrpcCreateUser(r) \/ OAuthSignUp(r)
    PROVE  Directory!Next
  <1>1. ASSUME NEW u \in Usernames, NEW email \in Emails, NEW roles \in RoleSets,
               UserInsertable(u, email), links' = links,
               WriteUser(u, [email |-> email, live |-> TRUE, roles |-> roles])
        PROVE  Directory!Next
    <2>1. Directory!Register(u, email, roles)
      BY <1>1, InsertIsCreate DEF owner, Directory!Register
    <2> QED
      BY <2>1 DEF Directory!Next
  <1>2. CASE Register(r) \/ CreateUser(r)
    <2>1. PICK u \in Usernames, email \in Emails, roles \in RoleSets : InsertUser(r, u, email, roles)
      BY <1>2, NamesAssumption DEF Register, CreateUser
    <2> QED
      BY <1>1, <1>2, <2>1 DEF InsertUser, Register, CreateUser
  <1>3. CASE GrpcCreateUser(r)
    BY <1>1, <1>3, NamesAssumption DEF GrpcCreateUser
  <1>4. CASE OAuthSignUp(r)
    <2>1. reqs[r] \in ToSignUp
      BY <1>4, Carries DEF OAuthSignUp, Inv, TablesTyped
    <2>2. PICK u \in Usernames :
            LET l == [user |-> u, provider |-> reqs[r].provider,
                      subject |-> reqs[r].subject, email |-> reqs[r].email]
            IN  /\ LinkInsertable(l)
                /\ InsertUser(r, u, l.email, {DefaultRole})
                /\ links' = links \cup {l}
      BY <1>4 DEF OAuthSignUp
    <2> DEFINE l == [user |-> u, provider |-> reqs[r].provider,
                     subject |-> reqs[r].subject, email |-> reqs[r].email]
    <2>3. l \in Link /\ l.user = u /\ l.email \in Emails
      BY <2>1 DEF Link, ToSignUp
    <2>4. LinkInsertable(l) /\ InsertUser(r, u, l.email, {DefaultRole}) /\ links' = links \cup {l}
      BY <2>2
    <2> HIDE DEF l
    <2>5. Identity(l) \in Directory!Identities /\ Directory!Join(Identity(l), u)
      BY <2>3, <2>4, LinkJoins
    <2>6. Directory!Create(u, l.email, {DefaultRole})
      BY <2>3, <2>4, InsertIsCreate DEF InsertUser
    <2> QED
      BY <2>3, <2>5, <2>6 DEF Directory!SignUp, Directory!Next
  <1> QED
    BY <1>2, <1>3, <1>4

\* A row with one field replaced, written out.
LEMMA RowFields ==
    ASSUME NEW row \in User, NEW roles
    PROVE  /\ [row EXCEPT !.live = TRUE] = [email |-> row.email, live |-> TRUE, roles |-> row.roles]
           /\ [row EXCEPT !.roles = roles] = [email |-> row.email, live |-> row.live, roles |-> roles]
           /\ row.live \in BOOLEAN
  <1>1. PICK email \in Emails, live \in BOOLEAN, x \in RoleSets :
          row = [email |-> email, live |-> live, roles |-> x]
    BY Zenon DEF User
  <1>2. row.email = email /\ row.live = live /\ row.roles = x
    BY <1>1
  <1>3. ASSUME NEW v
        PROVE  [row EXCEPT !.live = v] = [email |-> row.email, live |-> v, roles |-> row.roles]
    BY <1>1, <1>2
  <1>4. [row EXCEPT !.roles = roles] = [email |-> row.email, live |-> row.live, roles |-> roles]
    BY <1>1, <1>2
  <1>5. row.live \in BOOLEAN
    BY Zenon, <1>1, <1>2
  <1> QED
    BY Zenon, <1>3, <1>4, <1>5

\* The link of a row, restored if it was deleted, is a sign-in.
LEMMA OAuthLinkStep ==
    ASSUME Inv, NEW r \in Requests, Consistent(reqs[r], users, cache, links), OAuthLink(r)
    PROVE  Directory!Next
  <1> DEFINE l == reqs[r].link
             u == l.user
             row == [users[u] EXCEPT !.live = TRUE]
  <1>1. reqs[r].step = "link" /\ reqs[r] \in Request /\ Memory(reqs[r], users, past)
    BY DEF OAuthLink, Inv, TablesTyped, Remembered
  <1>2. l \in Link /\ u \in Usernames /\ Stored(u) /\ users[u] \in User
    BY <1>1, NamesUsers DEF Memory, Inv, TablesTyped
  <1>3. reqs[r].restore = ~users[u].live /\ reqs[r].roles = users[u].roles
    BY <1>1 DEF Consistent, ReadsHold
  <1>4. reqs[r].restore => row = Saved(u, reqs[r].roles)
    BY <1>2, <1>3, RowFields DEF Saved
  <1>5. ~reqs[r].restore => row = users[u]
    BY <1>2, <1>3 DEF User
  <1> HIDE DEF row
  <1>6. users' = [users EXCEPT ![u] = row]
    BY <1>2, <1>4, <1>5 DEF OAuthLink, WriteUser, Inv, TablesTyped
  <1>7. Identity(l) \in Directory!Identities /\ Directory!Join(Identity(l), u)
    BY <1>2, LinkJoins DEF OAuthLink
  <1>8. Directory!SignIn(Identity(l), u)
    BY <1>2, <1>6, <1>7 DEF Directory!SignIn, row
  <1> QED
    BY <1>2, <1>7, <1>8 DEF Directory!Next

\* The commits that write roles change an account that is open.
LEMMA ChangeStep ==
    ASSUME Inv, NEW r \in Requests, Consistent(reqs[r], users, cache, links),
           GrpcAssignRoles(r) \/ UpdateCommit(r)
    PROVE  Directory!Next
  <1> DEFINE u == reqs[r].user
             row == [users[u] EXCEPT !.roles = reqs[r].roles]
  <1>1. /\ reqs[r].step \in {"assignRoles", "update"} /\ reqs[r] \in Request
        /\ Memory(reqs[r], users, past)
    BY DEF GrpcAssignRoles, UpdateCommit, Inv, TablesTyped, Remembered
  <1>2. u \in Usernames /\ Stored(u) /\ users[u] \in User /\ reqs[r].roles \in RoleSets
    BY <1>1, NamesUsers, Carries DEF Memory, Inv, TablesTyped, ToAssign, ToUpdate
  <1>3. users[u].live
    BY <1>1 DEF Consistent, ReadsHold
  <1>4. row = Saved(u, reqs[r].roles)
    <2>1. users[u].live = TRUE
      BY <1>2, <1>3, RowFields
    <2> QED
      BY <1>2, <2>1, RowFields DEF Saved
  <1>5. users' = [users EXCEPT ![u] = row] /\ links' = links
    BY <1>4 DEF GrpcAssignRoles, UpdateCommit, WriteUser
  <1>6. Directory!Change(u, reqs[r].roles)
    BY <1>2, <1>3, <1>5 DEF Directory!Change, Directory!Open, owner
  <1> QED
    BY <1>2, <1>6 DEF Directory!Next

\* A deletion closes an account that is open.
LEMMA DeleteStep ==
    ASSUME Inv, NEW r \in Requests, Consistent(reqs[r], users, cache, links), DeleteCommit(r)
    PROVE  Directory!Next
  <1> DEFINE u == reqs[r].user
  <1>1. reqs[r].step = "softDelete" /\ reqs[r] \in Request /\ Memory(reqs[r], users, past)
    BY DEF DeleteCommit, Inv, TablesTyped, Remembered
  <1>2. u \in Usernames /\ Stored(u) /\ users[u].live
    BY <1>1, NamesUsers DEF Memory, Consistent, ReadsHold
  <1>6. links' = {l \in links : l.user # u}
    BY <1>1 DEF DeleteCommit, Consistent
  <1>3. users' = [users EXCEPT ![u] = [users[u] EXCEPT !.live = FALSE]]
    BY DEF DeleteCommit
  <1>4. owner' = [i \in Directory!Identities |-> IF owner[i] = u THEN None ELSE owner[i]]
    BY <1>2, <1>6, UnlinkingLetsGo
  <1>5. Directory!Close(u)
    BY <1>2, <1>3, <1>4 DEF Directory!Close, Directory!Open
  <1> QED
    BY <1>2, <1>5 DEF Directory!Next

LEMMA DirectoryStep ==
    ASSUME Inv, CalmInv, Next, calm'
    PROVE  Directory!Next \/ UNCHANGED <<users, owner>>
  <1>1. Handle /\ calm /\ OneAtATime'
    BY DEF Next
  <1>2. OneAtATime /\ \E q : Running(q) /\ Consistent(q, users, cache, links)
    BY <1>1 DEF CalmInv
  <1>3. ASSUME NEW r \in Requests,
               OAuthLink(r) \/ GrpcAssignRoles(r) \/ UpdateCommit(r) \/ DeleteCommit(r)
        PROVE  Consistent(reqs[r], users, cache, links)
    <2>1. reqs[r] # Idle /\ \E next : Become(r, next)
      BY <1>3 DEF OAuthLink, GrpcAssignRoles, UpdateCommit, DeleteCommit, Return, Idle
    <2> QED
      BY <1>1, <1>2, <2>1, Alone
  <1>4. UNCHANGED <<users, links>> => UNCHANGED <<users, owner>>
    BY DEF owner
  <1> QED
    BY <1>1, <1>3, <1>4, NewUserStep, OAuthLinkStep, ChangeStep, DeleteStep
       DEF Handle, OAuthLogin, GoogleAuthMobile, OAuthRead, OAuthRollback, UpdateRead,
           OAuthReadRoles, DeleteRead, DeleteInvalidate, DeleteLinks, GetUser, GetRoles,
           SetCache, Evict

\* One request at a time, the handlers do what the atomic operations of
\* AccountDirectory do, and nothing else (user.go:152-212, auth.go:134-378).
THEOREM DirectoryImplemented == Spec => DirectoryWhenCalm
  <1>1. Init => Directory!Init
    <2> SUFFICES ASSUME Init PROVE Directory!Init
      OBVIOUS
    <2>1. \A i \in Providers \X Subjects : owner[i] = None
      BY OwnerUnknown DEF Init, owner
    <2>2. owner = [i \in Directory!Identities |-> None]
      BY <2>1 DEF owner, ownerIn, Directory!Identities
    <2> QED
      BY <2>2 DEF Init, Directory!Init
  <1>2. Inv /\ CalmInv /\ [Next]_vars => [calm' => Directory!Next]_<<users, owner>>
    <2>1. UNCHANGED vars => UNCHANGED <<users, owner>>
      BY DEF vars, owner
    <2> QED
      BY <2>1, DirectoryStep
  <1> QED
    BY <1>1, <1>2, CalmInvariance, PTL DEF Spec, DirectoryWhenCalm

=============================================================================
