----------------------- MODULE UserAuthServiceProofs -----------------------
(***************************************************************************)
(* Theorems of the composition, for any users, roles, sessions, tokens and *)
(* requests.  A step of the whole service is shown to be one that both     *)
(* SessionService and UserApi allow (NextAllowed); their own invariants,   *)
(* taken from their proof modules, are then invariants of the service, and *)
(* each property is left with the few steps that sign something.           *)
(*                                                                         *)
(* SP and AP are the modules that S and A are instances of, together with  *)
(* their theorems; the first lemmas say that they agree on every step.     *)
(***************************************************************************)
EXTENDS UserAuthService, TLAPS

SP == INSTANCE SessionServiceProofs WITH users <- rows, MayFail <- TRUE
AP == INSTANCE UserApiProofs WITH reqs <- combined

\* A request is served by one handler at a time.
OneHandler == calls = [r \in Requests |-> calls[r]] /\ \A r \in Requests : calls[r] = Idle \/ reqs[r] = Idle

Inv == SP!Inv /\ AP!Inv /\ OneHandler

LEMMA SameSessionSteps ==
    ASSUME NEW r \in Requests
    PROVE  /\ S!LoginRead(r) <=> SP!LoginRead(r)
           /\ S!IssueSession(r) <=> SP!IssueSession(r)
           /\ S!RenewVerify(r) <=> SP!RenewVerify(r)
           /\ S!RenewLookup(r) <=> SP!RenewLookup(r)
           /\ S!RenewCheckUser(r) <=> SP!RenewCheckUser(r)
           /\ S!RenewRotate(r) <=> SP!RenewRotate(r)
           /\ S!BlockAllSessions(r) <=> SP!BlockAllSessions(r)
           /\ S!LogoutFind(r) <=> SP!LogoutFind(r)
           /\ S!LogoutBlock(r) <=> SP!LogoutBlock(r)
           /\ S!Fail(r) <=> SP!Fail(r)
<1> USE DEF S!Continue, SP!Continue, S!Return, SP!Return, S!Idle, SP!Idle,
            S!Exists, SP!Exists, S!Issued, SP!Issued
<1>1. S!TokenRoom <=> SP!TokenRoom
<2>1. {t \in Tokens : ~S!Issued(t)} = {t \in Tokens : ~SP!Issued(t)}
  OBVIOUS
<2> QED
  BY <2>1 DEF S!TokenRoom, SP!TokenRoom, S!Cardinality, SP!Cardinality
<1>2. S!RowRoom <=> SP!RowRoom
  BY DEF S!RowRoom, SP!RowRoom, S!Cardinality, SP!Cardinality
<1>3. S!LoginRead(r) <=> SP!LoginRead(r)
  BY <1>1, <1>2 DEF S!LoginRead, SP!LoginRead
<1>4. S!IssueSession(r) <=> SP!IssueSession(r)
  BY DEF S!IssueSession, SP!IssueSession, S!Sign, SP!Sign, S!Insert, SP!Insert
<1>5. S!RenewVerify(r) <=> SP!RenewVerify(r)
  BY <1>1 DEF S!RenewVerify, SP!RenewVerify, S!Verified, SP!Verified
<1>6. S!RenewLookup(r) <=> SP!RenewLookup(r)
  BY DEF S!RenewLookup, SP!RenewLookup, S!Usable, SP!Usable
<1>7. S!RenewCheckUser(r) <=> SP!RenewCheckUser(r)
  BY DEF S!RenewCheckUser, SP!RenewCheckUser, S!roleCodesEqual, SP!roleCodesEqual
<1>8. S!RenewRotate(r) <=> SP!RenewRotate(r)
  BY DEF S!RenewRotate, SP!RenewRotate, S!Sign, SP!Sign, S!Rotated, SP!Rotated
<1>9. S!BlockAllSessions(r) <=> SP!BlockAllSessions(r)
  BY DEF S!BlockAllSessions, SP!BlockAllSessions, S!OfUser, SP!OfUser
<1>10. S!LogoutFind(r) <=> SP!LogoutFind(r)
  BY DEF S!LogoutFind, SP!LogoutFind, S!Verified, SP!Verified, S!Usable, SP!Usable
<1>11. S!LogoutBlock(r) <=> SP!LogoutBlock(r)
  BY DEF S!LogoutBlock, SP!LogoutBlock
<1>12. S!Fail(r) <=> SP!Fail(r)
  BY DEF S!Fail, SP!Fail
<1> QED
  BY <1>3, <1>4, <1>5, <1>6, <1>7, <1>8, <1>9, <1>10, <1>11, <1>12

-----------------------------------------------------------------------------
(* The users table as the sessions see it.                                 *)

LEMMA RowsOfUsers ==
    ASSUME Inv, NEW u \in Users
    PROVE  /\ users \in [Users -> A!Row \cup {None}]
           /\ users[u] = None => rows[u] = [live |-> FALSE, roles |-> {}]
           /\ users[u] # None => rows[u] = users[u]
  BY DEF Inv, AP!Inv, AP!TypeOK, AP!Row, A!Row, rows

LEMMA RowsWritten ==
    ASSUME Inv, NEW u \in Users, NEW row \in A!Row, users' = [users EXCEPT ![u] = row]
    PROVE  rows' = [rows EXCEPT ![u] = row]
<1>1. users \in [Users -> A!Row \cup {None}] /\ row # None
  BY RowsOfUsers, SentinelAssumption
<1> QED
  BY <1>1 DEF rows

LEMMA RowsSame == users' = users => rows' = rows
  BY DEF rows

\* A row that is written is one that SessionService foresees.
LEMMA WriteForeseen ==
    ASSUME Inv, NEW u \in Users, NEW roles \in SUBSET Roles, UNCHANGED <<sessionVars, clock>>,
           users' = [users EXCEPT ![u] = [live |-> TRUE, roles |-> roles]]
    PROVE  SP!Next
<1>1. rows' = [rows EXCEPT ![u] = [live |-> TRUE, roles |-> roles]]
  BY RowsWritten DEF A!Row
<1>2. SP!UserSaved(u, roles)
  BY <1>1 DEF SP!UserSaved, sessionVars
<1> QED
  BY <1>2 DEF SP!Next

-----------------------------------------------------------------------------
(* The requests as the endpoints see them.                                 *)

LEMMA Steps ==
    ASSUME Inv, NEW r \in Requests
    PROVE  /\ Idle.step = "idle"
           /\ reqs[r].step # "idle" => calls[r] = Idle
           /\ calls[r].step # "idle" => reqs[r] = Idle
           /\ reqs[r].step \in {"idle", "issue", "lookup", "checkUser", "rotate", "blockAll", "block"}
           /\ reqs[r].step = "idle" => reqs[r] = Idle
  BY DEF Inv, OneHandler, SP!Inv, SP!TypeOK, SP!Request, SP!Idle, S!Idle, Idle, SP!ToIssue,
         SP!ToLookup, SP!ToCheck, SP!ToRotate, SP!ToPunish, SP!ToLogout

\* What the endpoints see of a request that is at call, or at req of the sessions,
\* where payloads are those of the refresh tokens.
Seen(call, req, payloads) ==
    IF req.step = "issue" THEN req
    ELSE IF req.step = "rotate"
      THEN [step |-> "issue", user |-> payloads[req.token].user, roles |-> payloads[req.token].roles]
    ELSE IF call.step = "login" THEN Idle
    ELSE call

LEMMA SeenNow == combined = [r \in Requests |-> Seen(calls[r], reqs[r], signed)]
  BY DEF combined, Seen

LEMMA SeenEndpoint ==
    ASSUME Inv, NEW r \in Requests, reqs[r] = Idle
    PROVE  combined[r] = IF calls[r].step = "login" THEN Idle ELSE calls[r]
  BY Steps DEF combined

\* A step of an endpoint is seen as it is.
LEMMA EndpointSeen ==
    ASSUME Inv, NEW r \in Requests, reqs[r] = Idle, UNCHANGED <<reqs, signed>>,
           NEW call, calls' = [calls EXCEPT ![r] = call]
    PROVE  combined' = [combined EXCEPT ![r] = IF call.step = "login" THEN Idle ELSE call]
<1>1. Idle.step = "idle"
  BY Steps
<1>2. calls' = [x \in Requests |-> IF x = r THEN call ELSE calls[x]]
  BY DEF Inv, OneHandler
<1>3. \A x \in Requests : combined'[x] = IF x = r THEN IF call.step = "login" THEN Idle ELSE call
                                        ELSE combined[x]
  BY <1>1, <1>2 DEF combined
<1>4. combined = [x \in Requests |-> combined[x]] /\ combined' = [x \in Requests |-> combined'[x]]
  BY DEF combined
<1> QED
  BY <1>3, <1>4

\* A step of the sessions changes what is seen of its own request only, as long
\* as no payload changes that a renewal is about to sign.
LEMMA SessionSeen ==
    ASSUME Inv, NEW r \in Requests, NEW call, NEW req,
           calls' = [calls EXCEPT ![r] = call], reqs' = [reqs EXCEPT ![r] = req],
           \A t \in Tokens : signed[t] # Unsigned => signed'[t] = signed[t]
    PROVE  combined' = [combined EXCEPT ![r] = Seen(call, req, signed')]
<1>1. \A x \in Requests : reqs[x].step = "rotate" => signed'[reqs[x].token] = signed[reqs[x].token]
  <2> SUFFICES ASSUME NEW x \in Requests, reqs[x].step = "rotate"
               PROVE  signed'[reqs[x].token] = signed[reqs[x].token]
    OBVIOUS
  <2>1. reqs[x] \in SP!Request /\ SP!Remembered(reqs[x])
    BY DEF Inv, SP!Inv, SP!TypeOK, SP!TokenFamilies, SP!RequestsMatchTokens
  <2>2. reqs[x].token \in Tokens
    BY <2>1 DEF SP!Request, SP!Idle, SP!ToIssue, SP!ToLookup, SP!ToCheck, SP!ToRotate,
                SP!ToPunish, SP!ToLogout
  <2>3. signed[reqs[x].token] # Unsigned
    BY <2>1 DEF SP!Remembered, SP!Issued
  <2> QED
    BY <2>2, <2>3
<1>2. /\ calls' = [x \in Requests |-> IF x = r THEN call ELSE calls[x]]
      /\ reqs' = [x \in Requests |-> IF x = r THEN req ELSE reqs[x]]
  BY DEF Inv, OneHandler, SP!Inv, SP!TypeOK
<1>3. \A x \in Requests : combined'[x] = IF x = r THEN Seen(call, req, signed') ELSE combined[x]
  BY <1>1, <1>2 DEF combined, Seen
<1>4. combined = [x \in Requests |-> combined[x]] /\ combined' = [x \in Requests |-> combined'[x]]
  BY DEF combined
<1> QED
  BY <1>3, <1>4

-----------------------------------------------------------------------------
(* Each step is one that both modules allow.                               *)

Allowed == [SP!Next]_(SP!vars) /\ [AP!Next]_(AP!vars) /\ OneHandler'

\* The request goes on with the sessions, and signs nothing before or after.
LEMMA UnseenStep ==
    ASSUME Inv, NEW r \in Requests, calls[r] = Idle, Unsigning, clock' = clock,
           NEW req, reqs' = [reqs EXCEPT ![r] = req], signed' = signed,
           reqs[r].step \notin {"issue", "rotate"}, req.step \notin {"issue", "rotate"}
    PROVE  UNCHANGED AP!vars /\ OneHandler'
<1>1. calls' = [calls EXCEPT ![r] = Idle] /\ Idle.step = "idle"
  BY Steps DEF Unsigning, Inv, OneHandler
<1>2. combined' = [combined EXCEPT ![r] = Seen(Idle, req, signed')]
  BY <1>1, SessionSeen
<1>3. Seen(Idle, req, signed') = Idle
  BY <1>1 DEF Seen
<1>4. combined[r] = Idle /\ combined = [x \in Requests |-> combined[x]]
  BY <1>1 DEF combined
<1>5. combined' = combined
  BY <1>2, <1>3, <1>4
<1>6. OneHandler'
  BY DEF Inv, OneHandler, Unsigning, SP!Inv, SP!TypeOK
<1> QED
  BY <1>5, <1>6 DEF AP!vars, Unsigning

\* The request leaves the endpoints, if it was there, and is now at req.
LEMMA HandedOver ==
    ASSUME Inv, NEW r \in Requests, calls' = [calls EXCEPT ![r] = Idle],
           NEW req, reqs' = [reqs EXCEPT ![r] = req],
           \A t \in Tokens : signed[t] # Unsigned => signed'[t] = signed[t]
    PROVE  OneHandler' /\ combined' = [combined EXCEPT ![r] = Seen(Idle, req, signed')]
<1>1. combined' = [combined EXCEPT ![r] = Seen(Idle, req, signed')]
  BY SessionSeen
<1>2. OneHandler'
  BY DEF Inv, OneHandler, SP!Inv, SP!TypeOK
<1> QED
  BY <1>1, <1>2

\* A request that is not with the endpoints need not leave them.
LEMMA NothingToLeave ==
    ASSUME Inv, NEW r \in Requests, calls[r] = Idle, calls' = calls
    PROVE  calls' = [calls EXCEPT ![r] = Idle]
  BY DEF Inv, OneHandler

-----------------------------------------------------------------------------
(* Logins.                                                                 *)

\* A login reads the roles of a row that is there.
LEMMA LoginReads ==
    ASSUME Inv, NEW r \in Requests, combined[r] = Idle, calls' = [calls EXCEPT ![r] = Idle],
           UNCHANGED <<users, tokens, seeded>>, SP!LoginRead(r)
    PROVE  Allowed
<1> PICK u \in Users :
      rows[u].live /\ SP!Continue(r, [step |-> "issue", user |-> u, roles |-> rows[u].roles])
  BY DEF SP!LoginRead
<1> DEFINE req == [step |-> "issue", user |-> u, roles |-> rows[u].roles]
<1>1. reqs' = [reqs EXCEPT ![r] = req] /\ signed' = signed /\ clock' = clock
  BY DEF SP!Continue
<1>2. users[u] # None /\ rows[u] = users[u]
  BY RowsOfUsers
<1>3. req = [step |-> "issue", user |-> u, roles |-> users[u].roles] /\ req.step = "issue"
  BY <1>2
<1> HIDE DEF req
<1>4. OneHandler' /\ combined' = [combined EXCEPT ![r] = Seen(Idle, req, signed')]
  BY <1>1, HandedOver
<1>5. Seen(Idle, req, signed') = req
  BY <1>3 DEF Seen
<1>6. AP!LoginUser(r)
  BY <1>1, <1>2, <1>3, <1>4, <1>5
     DEF AP!LoginUser, AP!Idle, Idle, S!Idle, AP!Live, AP!Stored, AP!Continue, AP!Become
<1>7. AP!Next /\ SP!Next
  BY <1>6 DEF AP!Next, SP!Next
<1> QED
  BY <1>4, <1>7 DEF Allowed

LEMMA LoginAllowed == ASSUME Inv, NEW r \in Requests, Login(r) PROVE Allowed
<1>1. SP!LoginRead(r) /\ UNCHANGED <<users, tokens, calls, seeded>> /\ calls[r] = Idle /\ reqs[r] = Idle
  BY SameSessionSteps DEF Login, Free, Unsigning
<1>2. combined[r] = Idle
  BY <1>1, SeenEndpoint
<1> QED
  BY <1>1, <1>2, NothingToLeave, LoginReads

LEMMA LoginRegisteredAllowed == ASSUME Inv, NEW r \in Requests, LoginRegistered(r) PROVE Allowed
<1>1. SP!LoginRead(r) /\ HandOver(r) /\ calls[r].step = "login"
  BY SameSessionSteps DEF LoginRegistered
<1>2. combined[r] = Idle
  BY <1>1, SeenEndpoint, Steps
<1> QED
  BY <1>1, <1>2, LoginReads DEF HandOver

LEMMA OpenSessionAllowed == ASSUME Inv, NEW r \in Requests, OpenSession(r) PROVE Allowed
<1>1. SP!LoginRead(r) /\ HandOver(r) /\ calls[r].step = "issue" /\ reqs'[r] = calls[r]
  BY SameSessionSteps DEF OpenSession
<1>2. combined[r] = calls[r]
  BY <1>1, SeenEndpoint, Steps
<1>3. PICK req : reqs' = [reqs EXCEPT ![r] = req] /\ signed' = signed /\ clock' = clock
  BY <1>1 DEF SP!LoginRead, SP!Continue
<1>4. req = calls[r]
  BY <1>1, <1>3 DEF Inv, SP!Inv, SP!TypeOK
<1>5. OneHandler' /\ combined' = [combined EXCEPT ![r] = Seen(Idle, req, signed')]
  BY <1>1, <1>3, HandedOver DEF HandOver
<1>6. Seen(Idle, req, signed') = req
  BY <1>1, <1>4 DEF Seen
<1>7. combined' = combined
  BY <1>2, <1>4, <1>5, <1>6, SeenNow
<1>8. SP!Next /\ UNCHANGED AP!vars
  BY <1>1, <1>3, <1>7 DEF SP!Next, AP!vars, HandOver
<1> QED
  BY <1>5, <1>8 DEF Allowed

-----------------------------------------------------------------------------
(* Renewals and logouts.                                                   *)

\* A step of a renewal or a logout that neither leads to tokens nor comes from there.
QuietStep(r) ==
    \/ SP!RenewVerify(r)
    \/ SP!RenewLookup(r)
    \/ SP!BlockAllSessions(r)
    \/ SP!LogoutFind(r)
    \/ SP!LogoutBlock(r)

LEMMA QuietStepAllowed ==
    ASSUME Inv, NEW r \in Requests, QuietStep(r), calls[r] = Idle, Unsigning
    PROVE  Allowed
<1>1. /\ clock' = clock /\ signed' = signed
      /\ reqs[r].step \notin {"issue", "rotate"}
      /\ \E req : reqs' = [reqs EXCEPT ![r] = req] /\ req.step \notin {"issue", "rotate"}
  <2>0. SP!Idle.step = "idle" /\ (reqs[r] = SP!Idle => reqs[r].step = "idle")
    BY DEF SP!Idle
  <2>1. CASE SP!RenewVerify(r)
    <3> PICK t \in Tokens : SP!Continue(r, [step |-> "lookup", token |-> t])
      BY <2>1 DEF SP!RenewVerify
    <3> DEFINE req == [step |-> "lookup", token |-> t]
    <3>1. reqs' = [reqs EXCEPT ![r] = req] /\ req.step = "lookup"
      BY DEF SP!Continue
    <3> HIDE DEF req
    <3> QED
      BY <2>0, <2>1, <3>1 DEF SP!Continue, SP!RenewVerify
  <2>2. CASE SP!RenewLookup(r)
    <3> DEFINE t     == reqs[r].token
               row   == sessions[signed[t].sid]
               check == [step |-> "checkUser", token |-> t, row |-> row]
               block == [step |-> "blockAll", user |-> row.user]
    <3>1. SP!Continue(r, SP!Idle) \/ SP!Continue(r, block) \/ SP!Continue(r, check)
      BY <2>2 DEF SP!RenewLookup
    <3>2. check.step = "checkUser" /\ block.step = "blockAll"
      OBVIOUS
    <3> HIDE DEF check, block
    <3> QED
      BY <2>0, <2>2, <3>1, <3>2 DEF SP!Continue, SP!RenewLookup
  <2>3. CASE SP!BlockAllSessions(r) \/ SP!LogoutBlock(r)
    BY <2>0, <2>3 DEF SP!BlockAllSessions, SP!LogoutBlock, SP!Return
  <2>4. CASE SP!LogoutFind(r)
    <3> PICK t \in Tokens : SP!Continue(r, [step |-> "block", sid |-> signed[t].sid])
      BY <2>4 DEF SP!LogoutFind
    <3> DEFINE req == [step |-> "block", sid |-> signed[t].sid]
    <3>1. reqs' = [reqs EXCEPT ![r] = req] /\ req.step = "block"
      BY DEF SP!Continue
    <3> HIDE DEF req
    <3> QED
      BY <2>0, <2>4, <3>1 DEF SP!Continue, SP!LogoutFind
  <2> QED
    BY <2>1, <2>2, <2>3, <2>4 DEF QuietStep
<1>2. UNCHANGED AP!vars /\ OneHandler'
  BY <1>1, UnseenStep
<1>3. SP!Next
  BY DEF QuietStep, SP!Next, SP!Proceed
<1> QED
  BY <1>2, <1>3 DEF Allowed

LEMMA RenewalAllowed ==
    ASSUME Inv, NEW r \in Requests,
           RefreshToken(r) \/ RenewLookup(r) \/ BlockAllSessions(r) \/ Logout(r) \/ LogoutBlock(r)
    PROVE  Allowed
<1>1. QuietStep(r) /\ Unsigning
  BY SameSessionSteps DEF QuietStep, RefreshToken, RenewLookup, BlockAllSessions, Logout, LogoutBlock
<1>2. calls[r] = Idle
  <2>1. CASE RefreshToken(r) \/ Logout(r)
    BY <2>1 DEF RefreshToken, Logout, Free
  <2>2. CASE RenewLookup(r) \/ BlockAllSessions(r) \/ LogoutBlock(r)
    BY <2>2, SameSessionSteps, Steps
       DEF RenewLookup, BlockAllSessions, LogoutBlock, SP!RenewLookup, SP!BlockAllSessions, SP!LogoutBlock
  <2> QED
    BY <2>1, <2>2
<1> QED
  BY <1>1, <1>2, QuietStepAllowed

\* A renewal that passes the check is seen as a login of its user: the row it
\* was read for still says what the token does.
LEMMA RenewCheckUserAllowed ==
    ASSUME Inv, NEW r \in Requests, RenewCheckUser(r)
    PROVE  Allowed
<1> DEFINE t     == reqs[r].token
           go    == [step |-> "rotate", token |-> t, row |-> reqs[r].row]
           block == [step |-> "blockAll", user |-> reqs[r].row.user]
<1>1. /\ SP!RenewCheckUser(r) /\ UNCHANGED <<users, tokens, calls, seeded>> /\ Unsigning
      /\ reqs[r].step = "checkUser" /\ calls[r] = Idle
  BY SameSessionSteps, Steps DEF RenewCheckUser, Unsigning, SP!RenewCheckUser
<1>2. SP!Next
  BY <1>1 DEF SP!Next, SP!Proceed
<1>3. go.step = "rotate" /\ go.token = t /\ block.step = "blockAll" /\ SP!Idle.step = "idle"
  BY DEF SP!Idle
<1>4. SP!Continue(r, SP!Idle) \/ SP!Continue(r, block) \/ SP!Continue(r, go)
  BY <1>1 DEF SP!RenewCheckUser
<1>5. CASE SP!Continue(r, SP!Idle) \/ SP!Continue(r, block)
  <2> HIDE DEF block
  <2>1. UNCHANGED AP!vars /\ OneHandler'
    BY <1>1, <1>3, <1>5, UnseenStep DEF SP!Continue
  <2> QED
    BY <1>2, <2>1 DEF Allowed
<1>6. CASE SP!Continue(r, go) /\ ~SP!Continue(r, SP!Idle) /\ ~SP!Continue(r, block)
  <2>1. /\ rows[reqs[r].row.user].live
        /\ rows[reqs[r].row.user].roles = signed[t].roles
    BY <1>1, <1>6 DEF SP!RenewCheckUser, SP!roleCodesEqual
  <2>2. reqs[r] \in SP!Request /\ SP!Remembered(reqs[r])
    BY DEF Inv, SP!Inv, SP!TypeOK, SP!TokenFamilies, SP!RequestsMatchTokens
  <2>3. t \in Tokens /\ signed[t] # Unsigned /\ reqs[r].row.user = signed[t].user
    BY <1>1, <2>2, SP!StepRecords, SentinelAssumption, DurationAssumption
       DEF SP!Remembered, SP!Issued, S!Row, SP!Row, S!Payload, SP!Payload, S!Expiries, SP!Expiries
  <2>4. signed[t] \in SP!Payload
    BY <2>3 DEF Inv, SP!Inv, SP!TypeOK
  <2> DEFINE u    == signed[t].user
             seen == [step |-> "issue", user |-> u, roles |-> signed[t].roles]
  <2>5. u \in Users
    BY <2>4 DEF SP!Payload
  <2>6. users[u] # None /\ rows[u] = users[u]
    BY <2>1, <2>3, <2>5, RowsOfUsers
  <2>7. reqs' = [reqs EXCEPT ![r] = go] /\ signed' = signed /\ clock' = clock
    BY <1>6 DEF SP!Continue
  <2>8. seen = [step |-> "issue", user |-> u, roles |-> users[u].roles]
    BY <2>1, <2>3, <2>6
  <2>9. Seen(Idle, go, signed') = seen
    BY <1>3, <2>7 DEF Seen
  <2> HIDE DEF go, seen
  <2>10. OneHandler' /\ combined' = [combined EXCEPT ![r] = seen]
    BY <1>1, <2>7, <2>9, HandedOver, NothingToLeave
  <2>11. combined[r] = Idle
    BY <1>1, Steps DEF combined
  <2>12. AP!LoginUser(r)
    BY <1>1, <2>1, <2>3, <2>5, <2>6, <2>7, <2>8, <2>10, <2>11
       DEF AP!LoginUser, AP!Idle, Idle, S!Idle, AP!Live, AP!Stored, AP!Continue, AP!Become
  <2> QED
    BY <1>2, <2>10, <2>12 DEF Allowed, AP!Next
<1> QED
  BY <1>4, <1>5, <1>6

-----------------------------------------------------------------------------
(* Tokens.                                                                 *)

\* Both kinds of tokens are signed as IssueTokens signs them.
LEMMA SigningAllowed ==
    ASSUME Inv, NEW r \in Requests, NEW user, NEW roles, SignTokens(user, roles), clock' = clock,
           calls[r] = Idle, SP!Return(r), SP!Next,
           combined[r] = [step |-> "issue", user |-> user, roles |-> roles],
           \A t \in Tokens : signed[t] # Unsigned => signed'[t] = signed[t]
    PROVE  Allowed
<1>1. reqs' = [reqs EXCEPT ![r] = Idle] /\ Idle.step = "idle" /\ Idle = AP!Idle
  BY Steps DEF SP!Return, SP!Idle, Idle, S!Idle, AP!Idle
<1>2. calls' = [calls EXCEPT ![r] = Idle]
  BY NothingToLeave DEF SignTokens
<1>3. OneHandler' /\ combined' = [combined EXCEPT ![r] = Seen(Idle, Idle, signed')]
  BY <1>1, <1>2, HandedOver
<1>4. combined' = [combined EXCEPT ![r] = Idle]
  BY <1>1, <1>3 DEF Seen
<1>5. combined[r].step = "issue" /\ combined[r].user = user /\ combined[r].roles = roles
  OBVIOUS
<1>6. /\ AP!Cardinality(tokens) < MaxTokens
      /\ tokens' = tokens \cup {[user |-> user, roles |-> roles, exp |-> clock + d] : d \in Lifetimes}
      /\ UNCHANGED <<users, seeded>>
  BY DEF SignTokens, Cardinality, AP!Cardinality
<1>7. AP!IssueTokens(r)
  BY <1>1, <1>4, <1>5, <1>6 DEF AP!IssueTokens, AP!Become
<1> QED
  BY <1>3, <1>7 DEF Allowed, AP!Next

LEMMA IssueSessionAllowed ==
    ASSUME Inv, NEW r \in Requests, IssueSession(r)
    PROVE  Allowed
<1>1. /\ SP!IssueSession(r) /\ reqs[r].step = "issue" /\ calls[r] = Idle
      /\ SignTokens(reqs[r].user, reqs[r].roles)
  BY SameSessionSteps, Steps DEF IssueSession
<1>2. reqs[r] \in SP!Request
  BY DEF Inv, SP!Inv, SP!TypeOK
<1>3. /\ reqs[r].user \in Users /\ reqs[r].roles \in SUBSET Roles
      /\ reqs[r] = [step |-> "issue", user |-> reqs[r].user, roles |-> reqs[r].roles]
  BY <1>1, <1>2 DEF SP!Request, SP!Idle, SP!ToIssue, SP!ToLookup, SP!ToCheck, SP!ToRotate,
                    SP!ToPunish, SP!ToLogout
<1>4. combined[r] = reqs[r]
  BY <1>1 DEF combined
<1>5. SP!Return(r) /\ SP!Next /\ clock' = clock
  BY <1>1 DEF SP!IssueSession, SP!Next, SP!Proceed
<1>6. \A t \in Tokens : signed[t] # Unsigned => signed'[t] = signed[t]
  <2> PICK s \in SessionIds, t \in Tokens : SP!Sign(t, s, reqs[r].user, reqs[r].roles)
    BY <1>1 DEF SP!IssueSession
  <2> QED
    BY DEF Inv, SP!Inv, SP!TypeOK, SP!Sign, SP!Issued
<1>7. combined[r] = [step |-> "issue", user |-> reqs[r].user, roles |-> reqs[r].roles]
  BY <1>3, <1>4
<1> QED
  BY <1>1, <1>5, <1>6, <1>7, SigningAllowed

LEMMA RenewRotateAllowed ==
    ASSUME Inv, NEW r \in Requests, RenewRotate(r)
    PROVE  Allowed
<1> DEFINE old == signed[reqs[r].token]
<1>1. /\ SP!RenewRotate(r) /\ reqs[r].step = "rotate" /\ calls[r] = Idle
      /\ SignTokens(old.user, old.roles)
  BY SameSessionSteps, Steps DEF RenewRotate
<1>2. Idle.step = "idle" /\ combined[r] = [step |-> "issue", user |-> old.user, roles |-> old.roles]
  BY <1>1, Steps DEF combined
<1>3. SP!Return(r) /\ SP!Next /\ clock' = clock
  BY <1>1 DEF SP!RenewRotate, SP!Next, SP!Proceed
<1>4. \A t \in Tokens : signed[t] # Unsigned => signed'[t] = signed[t]
  <2> PICK t \in Tokens : SP!Sign(t, old.sid, old.user, old.roles)
    BY <1>1 DEF SP!RenewRotate
  <2> QED
    BY DEF Inv, SP!Inv, SP!TypeOK, SP!Sign, SP!Issued
<1> HIDE DEF old
<1> QED
  BY <1>1, <1>2, <1>3, <1>4, SigningAllowed

-----------------------------------------------------------------------------
(* Failures and time.                                                      *)

LEMMA AboutIdle == Idle.step = "idle" /\ AP!Idle = Idle /\ SP!Idle = Idle /\ H!Idle = Idle
  BY DEF Idle, S!Idle, AP!Idle, SP!Idle, H!Idle

LEMMA FailAllowed ==
    ASSUME Inv, NEW r \in Requests, Fail(r)
    PROVE  Allowed
<1>1. CASE SP!Fail(r) /\ Unsigning
  <2>1. /\ reqs[r] # Idle /\ reqs' = [reqs EXCEPT ![r] = Idle] /\ SP!Next
        /\ signed' = signed /\ clock' = clock /\ UNCHANGED <<users, tokens, calls, seeded>>
    BY <1>1, AboutIdle DEF SP!Fail, SP!Continue, Unsigning, SP!Next
  <2>2. calls[r] = Idle
    BY <2>1, Steps
  <2>3. OneHandler' /\ combined' = [combined EXCEPT ![r] = Seen(Idle, Idle, signed')]
    BY <2>1, <2>2, HandedOver, NothingToLeave
  <2>4. combined' = [combined EXCEPT ![r] = Idle]
    BY <2>3, AboutIdle DEF Seen
  <2>5. CASE combined[r] = Idle
    <3>1. combined' = combined
      BY <2>4, <2>5, SeenNow
    <3> QED
      BY <2>1, <2>3, <3>1 DEF Allowed, AP!vars
  <2>6. CASE combined[r] # Idle
    <3>1. AP!Fail(r)
      BY <2>1, <2>4, <2>6, AboutIdle DEF AP!Fail, AP!Continue, AP!Become
    <3> QED
      BY <2>1, <2>3, <3>1 DEF Allowed, AP!Next
  <2> QED
    BY <2>5, <2>6
<1>2. CASE H!Fail(r) /\ UNCHANGED sessionVars
  <2>1. /\ calls[r] # Idle /\ calls' = [calls EXCEPT ![r] = Idle]
        /\ UNCHANGED <<users, tokens, clock, seeded, sessions, signed, reqs, renewals>>
    BY <1>2, AboutIdle DEF H!Fail, H!Continue, H!Become, sessionVars
  <2>2. reqs[r] = Idle
    BY <2>1 DEF Inv, OneHandler
  <2>3. combined' = [combined EXCEPT ![r] = Idle]
    BY <2>1, <2>2, AboutIdle, EndpointSeen
  <2>4. OneHandler'
    BY <2>1 DEF Inv, OneHandler
  <2>5. UNCHANGED SP!vars
    BY <2>1, RowsSame DEF SP!vars
  <2>6. CASE combined[r] = Idle
    <3>1. combined' = combined
      BY <2>3, <2>6, SeenNow
    <3> QED
      BY <2>1, <2>4, <2>5, <3>1 DEF Allowed, AP!vars
  <2>7. CASE combined[r] # Idle
    <3>1. AP!Fail(r)
      BY <2>1, <2>3, <2>7, AboutIdle DEF AP!Fail, AP!Continue, AP!Become
    <3> QED
      BY <2>4, <2>5, <3>1 DEF Allowed, AP!Next
  <2> QED
    BY <2>6, <2>7
<1> QED
  BY <1>1, <1>2, SameSessionSteps DEF Fail

LEMMA TickAllowed ==
    ASSUME Inv, Tick
    PROVE  Allowed
<1>1. S!Tick /\ UNCHANGED <<users, tokens, calls, seeded, sessions, signed, reqs, renewals>>
  BY DEF Tick, Unsigning, S!Tick
<1>2. combined' = combined
  BY <1>1 DEF combined
<1>3. OneHandler'
  BY <1>1 DEF Inv, OneHandler
<1>4. AP!Tick
  BY <1>1, <1>2 DEF S!Tick, AP!Tick
<1>5. SP!Tick
  BY <1>1 DEF S!Tick, SP!Tick
<1> QED
  BY <1>3, <1>4, <1>5 DEF Allowed, AP!Next, SP!Next

-----------------------------------------------------------------------------
(* The endpoints.                                                          *)

LEMMA EndpointReads ==
    ASSUME Inv, NEW r \in Requests, reqs[r] = Idle, UNCHANGED sessionVars,
           NEW next, next.step # "login", H!Continue(r, next)
    PROVE  AP!Continue(r, next) /\ UNCHANGED SP!vars /\ OneHandler'
<1>1. /\ calls' = [calls EXCEPT ![r] = next]
      /\ UNCHANGED <<users, tokens, clock, seeded, sessions, signed, reqs, renewals>>
  BY DEF H!Continue, H!Become, sessionVars
<1>2. combined' = [combined EXCEPT ![r] = next]
  BY <1>1, EndpointSeen
<1> QED
  BY <1>1, <1>2, RowsSame DEF AP!Continue, AP!Become, SP!vars, Inv, OneHandler

LEMMA EndpointWrites ==
    ASSUME Inv, NEW r \in Requests, reqs[r] = Idle, UNCHANGED sessionVars,
           NEW u \in Users, NEW row, NEW next, H!Write(r, u, row, next)
    PROVE  /\ AP!Write(r, u, row, IF next.step = "login" THEN Idle ELSE next)
           /\ OneHandler'
           /\ users' = [users EXCEPT ![u] = row] /\ UNCHANGED clock
<1>1. /\ calls' = [calls EXCEPT ![r] = next]
      /\ users' = [users EXCEPT ![u] = row]
      /\ UNCHANGED <<tokens, clock, sessions, signed, reqs, renewals>>
  BY DEF H!Write, H!Become, sessionVars
<1>2. combined' = [combined EXCEPT ![r] = IF next.step = "login" THEN Idle ELSE next]
  BY <1>1, EndpointSeen
<1> QED
  BY <1>1, <1>2 DEF AP!Write, AP!Become, Inv, OneHandler

\* The checks look at the tables alone, and not at the requests.
LEMMA SameChecks ==
    /\ H!RoleSets = AP!RoleSets /\ H!NewUser = AP!NewUser
    /\ \A u : (H!Stored(u) <=> AP!Stored(u)) /\ (H!Live(u) <=> AP!Live(u))
    /\ \A p : H!Authorized(p) <=> AP!Authorized(p)
    /\ \A p, u : H!MayDelete(p, u) <=> AP!MayDelete(p, u)
    /\ \A p, u, roles : H!MayUpdate(p, u, roles) <=> AP!MayUpdate(p, u, roles)
  BY DEF H!RoleSets, AP!RoleSets, H!NewUser, AP!NewUser, H!Stored, AP!Stored, H!Live, AP!Live,
         H!Authorized, AP!Authorized, H!VerifyToken, AP!VerifyToken, H!MayDelete, AP!MayDelete,
         H!MayUpdate, AP!MayUpdate, H!roleCodesEqual, AP!roleCodesEqual

\* What the endpoints see of a request that is with them.
LEMMA EndpointNow ==
    ASSUME Inv, NEW r \in Requests, calls[r].step \notin {"idle", "login"}
    PROVE  reqs[r] = Idle /\ combined[r] = calls[r] /\ combined[r] \in AP!Request
<1>1. reqs[r] = Idle
  BY Steps
<1>2. combined[r] = calls[r]
  BY <1>1, SeenEndpoint
<1> QED
  BY <1>1, <1>2 DEF Inv, AP!Inv, AP!TypeOK

LEMMA FreeNow ==
    ASSUME Inv, NEW r \in Requests, Free(r)
    PROVE  reqs[r] = Idle /\ calls[r] = Idle /\ combined[r] = Idle
<1>1. reqs[r] = Idle /\ calls[r] = Idle
  BY DEF Free
<1> QED
  BY <1>1, SeenEndpoint, AboutIdle

-----------------------------------------------------------------------------
(* Rows that come about without a token.                                   *)

LEMMA NewRow == AP!NewUser = [live |-> TRUE, roles |-> {UserRole}] /\ {UserRole} \in SUBSET Roles
  BY RolesAssumption DEF AP!NewUser

LEMMA RegisterAllowed ==
    ASSUME Inv, NEW r \in Requests, Register(r) \/ RegisterAndLogin(r)
    PROVE  Allowed
<1>1. reqs[r] = Idle /\ calls[r] = Idle /\ combined[r] = Idle /\ UNCHANGED sessionVars
  BY FreeNow DEF Register, RegisterAndLogin
<1> DEFINE Makes(u, next) ==
             /\ ~AP!Stored(u) /\ H!Write(r, u, AP!NewUser, next) /\ UNCHANGED seeded
             /\ (next = Idle \/ next.step = "login")
<1>a. \E u \in Users : \E next : Makes(u, next)
  <2>1. CASE Register(r)
    BY <2>1, SameChecks, AboutIdle DEF Register, H!Register
  <2>2. CASE RegisterAndLogin(r)
    <3> PICK u \in Users :
          ~H!Stored(u) /\ H!Write(r, u, H!NewUser, [step |-> "login", user |-> u]) /\ UNCHANGED seeded
      BY <2>2 DEF RegisterAndLogin
    <3> DEFINE next == [step |-> "login", user |-> u]
    <3>1. next.step = "login"
      OBVIOUS
    <3> HIDE DEF next
    <3> QED
      BY <3>1, SameChecks DEF next
  <2> QED
    BY <2>1, <2>2
<1> PICK u \in Users : \E next : Makes(u, next)
  BY <1>a
<1>2. PICK next : Makes(u, next)
  OBVIOUS
<1>3. /\ AP!Write(r, u, AP!NewUser, Idle) /\ OneHandler'
      /\ users' = [users EXCEPT ![u] = AP!NewUser] /\ UNCHANGED clock
  BY <1>1, <1>2, EndpointWrites, AboutIdle
<1>4. AP!Register(r)
  BY <1>1, <1>2, <1>3, AboutIdle DEF AP!Register
<1>5. SP!Next
  BY <1>1, <1>3, NewRow, WriteForeseen
<1> QED
  BY <1>3, <1>4, <1>5 DEF Allowed, AP!Next

LEMMA CallbackAllowed ==
    ASSUME Inv, NEW r \in Requests, Callback(r)
    PROVE  Allowed
<1>1. reqs[r] = Idle /\ calls[r] = Idle /\ combined[r] = Idle /\ UNCHANGED sessionVars
  BY FreeNow DEF Callback
<1>2. CASE H!OAuthRead(r)
  <2> PICK u \in Users : /\ AP!Stored(u) /\ ~AP!Live(u)
                         /\ H!Continue(r, [step |-> "restore", user |-> u, roles |-> users[u].roles])
    BY <1>2, SameChecks DEF H!OAuthRead
  <2> DEFINE next == [step |-> "restore", user |-> u, roles |-> users[u].roles]
  <2>1. next.step = "restore"
    OBVIOUS
  <2> HIDE DEF next
  <2>2. AP!Continue(r, next) /\ UNCHANGED SP!vars /\ OneHandler'
    BY <1>1, <2>1, EndpointReads DEF next
  <2>3. AP!OAuthRead(r)
    BY <1>1, <2>2, AboutIdle DEF AP!OAuthRead, next
  <2> QED
    BY <2>2, <2>3 DEF Allowed, AP!Next
<1>3. CASE H!OAuthSignUp(r)
  <2> PICK u \in Users :
        /\ ~AP!Stored(u) /\ UNCHANGED seeded
        /\ H!Write(r, u, AP!NewUser, [step |-> "issue", user |-> u, roles |-> {UserRole}])
    BY <1>3, SameChecks DEF H!OAuthSignUp
  <2> DEFINE next == [step |-> "issue", user |-> u, roles |-> {UserRole}]
  <2>1. next.step = "issue"
    OBVIOUS
  <2> HIDE DEF next
  <2>2. /\ AP!Write(r, u, AP!NewUser, next) /\ OneHandler'
        /\ users' = [users EXCEPT ![u] = AP!NewUser] /\ UNCHANGED clock
    BY <1>1, <2>1, EndpointWrites DEF next
  <2>3. AP!OAuthSignUp(r)
    BY <1>1, <2>2, AboutIdle DEF AP!OAuthSignUp, next
  <2>4. SP!Next
    BY <1>1, <2>2, NewRow, WriteForeseen
  <2> QED
    BY <2>2, <2>3, <2>4 DEF Allowed, AP!Next
<1> QED
  BY <1>2, <1>3 DEF Callback

LEMMA RestoreAllowed ==
    ASSUME Inv, NEW r \in Requests, Restore(r)
    PROVE  Allowed
<1> DEFINE u    == calls[r].user
           row  == [live |-> TRUE, roles |-> calls[r].roles]
           next == [calls[r] EXCEPT !.step = "issue"]
<1>1. /\ calls[r].step = "restore" /\ H!Write(r, u, row, next)
      /\ UNCHANGED <<seeded, sessionVars>>
  BY DEF Restore, H!OAuthRestore
<1>2. reqs[r] = Idle /\ combined[r] = calls[r] /\ combined[r] \in AP!Request
  BY <1>1, EndpointNow
<1>3. calls[r] \in AP!ToIssue
  BY <1>1, <1>2, AboutIdle
     DEF AP!Request, AP!ToAssign, AP!ToIssue, AP!ToCreate, AP!ToUpdate, AP!ToDelete
<1>4. u \in Users /\ calls[r].roles \in SUBSET Roles /\ next.step = "issue"
  BY <1>3 DEF AP!ToIssue
<1> HIDE DEF next
<1>5. AP!Write(r, u, row, next) /\ OneHandler' /\ users' = [users EXCEPT ![u] = row] /\ UNCHANGED clock
  BY <1>1, <1>2, <1>4, EndpointWrites
<1>6. AP!OAuthRestore(r)
  BY <1>1, <1>2, <1>5 DEF AP!OAuthRestore, next
<1>7. SP!Next
  BY <1>1, <1>4, <1>5, WriteForeseen
<1> QED
  BY <1>5, <1>6, <1>7 DEF Allowed, AP!Next

-----------------------------------------------------------------------------
(* Users: what a token lets a request go on to do, and what it then does.  *)

\* A check that lets a request go on is seen as it is.
LEMMA CheckAllowed ==
    ASSUME Inv, NEW r \in Requests, UNCHANGED sessionVars,
           Free(r) /\ (H!CreateUser(r) \/ H!UpdateUser(r) \/ H!DeleteUser(r))
    PROVE  Allowed
<1>1. reqs[r] = Idle /\ calls[r] = Idle /\ combined[r] = Idle
  BY FreeNow
<1>2. CASE H!CreateUser(r)
  <2> PICK p \in tokens, roles \in AP!RoleSets :
        /\ AP!Authorized(p) /\ Admin \in p.roles
        /\ H!Continue(r, [step |-> "create", as |-> p, roles |-> roles])
    BY <1>2, SameChecks DEF H!CreateUser
  <2> DEFINE next == [step |-> "create", as |-> p, roles |-> roles]
  <2>1. next.step = "create"
    OBVIOUS
  <2> HIDE DEF next
  <2>2. AP!Continue(r, next) /\ UNCHANGED SP!vars /\ OneHandler'
    BY <1>1, <2>1, EndpointReads DEF next
  <2>3. AP!CreateUser(r)
    BY <1>1, <2>2, AboutIdle DEF AP!CreateUser, next
  <2> QED
    BY <2>2, <2>3 DEF Allowed, AP!Next
<1>3. CASE H!UpdateUser(r)
  <2> PICK p \in tokens, u \in Users, roles \in AP!RoleSets :
        /\ AP!Authorized(p) /\ AP!MayUpdate(p, u, roles)
        /\ H!Continue(r, [step |-> "update", as |-> p, user |-> u, roles |-> roles])
    BY <1>3, SameChecks DEF H!UpdateUser
  <2> DEFINE next == [step |-> "update", as |-> p, user |-> u, roles |-> roles]
  <2>1. next.step = "update"
    OBVIOUS
  <2> HIDE DEF next
  <2>2. AP!Continue(r, next) /\ UNCHANGED SP!vars /\ OneHandler'
    BY <1>1, <2>1, EndpointReads DEF next
  <2>3. AP!UpdateUser(r)
    BY <1>1, <2>2, AboutIdle DEF AP!UpdateUser, next
  <2> QED
    BY <2>2, <2>3 DEF Allowed, AP!Next
<1>4. CASE H!DeleteUser(r)
  <2> PICK p \in tokens, u \in Users :
        /\ AP!Authorized(p) /\ AP!MayDelete(p, u)
        /\ H!Continue(r, [step |-> "delete", as |-> p, user |-> u])
    BY <1>4, SameChecks DEF H!DeleteUser
  <2> DEFINE next == [step |-> "delete", as |-> p, user |-> u]
  <2>1. next.step = "delete"
    OBVIOUS
  <2> HIDE DEF next
  <2>2. AP!Continue(r, next) /\ UNCHANGED SP!vars /\ OneHandler'
    BY <1>1, <2>1, EndpointReads DEF next
  <2>3. AP!DeleteUser(r)
    BY <1>1, <2>2, AboutIdle DEF AP!DeleteUser, next
  <2> QED
    BY <2>2, <2>3 DEF Allowed, AP!Next
<1> QED
  BY <1>2, <1>3, <1>4

LEMMA GrpcCreateAllowed ==
    ASSUME Inv, NEW r \in Requests, Free(r), H!GrpcCreateUser(r), UNCHANGED sessionVars
    PROVE  Allowed
<1>1. reqs[r] = Idle /\ calls[r] = Idle /\ combined[r] = Idle
  BY FreeNow
<1> DEFINE row == [live |-> TRUE, roles |-> {}]
<1> PICK u \in Users, roles \in AP!RoleSets :
      /\ ~AP!Stored(u) /\ H!Write(r, u, row, [step |-> "assign", user |-> u, roles |-> roles])
      /\ seeded' = (seeded \/ Admin \in roles)
  BY SameChecks DEF H!GrpcCreateUser
<1> DEFINE next == [step |-> "assign", user |-> u, roles |-> roles]
<1>2. next.step = "assign"
  OBVIOUS
<1> HIDE DEF next
<1>3. AP!Write(r, u, row, next) /\ OneHandler' /\ users' = [users EXCEPT ![u] = row] /\ UNCHANGED clock
  BY <1>1, <1>2, EndpointWrites DEF next
<1>4. AP!GrpcCreateUser(r)
  BY <1>1, <1>3, AboutIdle DEF AP!GrpcCreateUser, next
<1>5. SP!Next
  <2> DEFINE none == {}
  <2>1. none \in SUBSET Roles /\ users' = [users EXCEPT ![u] = [live |-> TRUE, roles |-> none]]
    BY <1>3
  <2>2. UNCHANGED <<sessionVars, clock>>
    BY <1>3
  <2> HIDE DEF none
  <2> QED
    BY <2>1, <2>2, WriteForeseen
<1> QED
  BY <1>3, <1>4, <1>5 DEF Allowed, AP!Next

\* The second statement of the insert finds the row there, live or not.
LEMMA GrpcAssignAllowed ==
    ASSUME Inv, NEW r \in Requests, H!GrpcAssignRoles(r), UNCHANGED sessionVars
    PROVE  Allowed
<1> DEFINE u     == calls[r].user
           roles == calls[r].roles
           row   == [users[u] EXCEPT !.roles = roles]
<1>1. calls[r].step = "assign" /\ H!Write(r, u, row, Idle) /\ UNCHANGED seeded
  BY AboutIdle DEF H!GrpcAssignRoles
<1>2. reqs[r] = Idle /\ combined[r] = calls[r] /\ combined[r] \in AP!Request
  BY <1>1, EndpointNow
<1>3. calls[r] \in AP!ToAssign /\ AP!Stored(u)
  BY <1>1, <1>2, AboutIdle
     DEF Inv, AP!Inv, AP!Assigning, AP!Request, AP!ToAssign, AP!ToIssue, AP!ToCreate, AP!ToUpdate, AP!ToDelete
<1>4. u \in Users /\ roles \in SUBSET Roles
  BY <1>3 DEF AP!ToAssign, AP!RoleSets
<1>5. AP!Write(r, u, row, Idle) /\ OneHandler' /\ users' = [users EXCEPT ![u] = row] /\ UNCHANGED clock
  BY <1>1, <1>2, <1>4, EndpointWrites, AboutIdle
<1>6. AP!GrpcAssignRoles(r)
  BY <1>1, <1>2, <1>5, AboutIdle DEF AP!GrpcAssignRoles
<1>7. SP!RolesAssigned(u, roles)
  <2>1. users[u] \in A!Row /\ rows[u] = users[u]
    BY <1>3, <1>4, RowsOfUsers DEF AP!Stored
  <2>2. row \in A!Row
    BY <1>4, <2>1 DEF A!Row
  <2>3. rows' = [rows EXCEPT ![u] = row]
    BY <1>4, <1>5, <2>2, RowsWritten
  <2>4. rows' = [rows EXCEPT ![u] = [rows[u] EXCEPT !.roles = roles]]
    BY <2>1, <2>3
  <2> HIDE DEF u, roles
  <2>5. rows' = [rows EXCEPT ![u].roles = roles]
    BY <2>4
  <2> QED
    BY <1>5, <2>5 DEF SP!RolesAssigned, sessionVars
<1> QED
  BY <1>4, <1>5, <1>6, <1>7 DEF Allowed, AP!Next, SP!Next

LEMMA CreateCommitAllowed ==
    ASSUME Inv, NEW r \in Requests, H!CreateCommit(r), UNCHANGED sessionVars
    PROVE  Allowed
<1> DEFINE row == [live |-> TRUE, roles |-> calls[r].roles]
<1>1. calls[r].step = "create" /\ UNCHANGED seeded
  BY DEF H!CreateCommit
<1>2. reqs[r] = Idle /\ combined[r] = calls[r] /\ combined[r] \in AP!Request
  BY <1>1, EndpointNow
<1>3. calls[r].roles \in SUBSET Roles
  BY <1>1, <1>2, AboutIdle
     DEF AP!Request, AP!ToAssign, AP!ToIssue, AP!ToCreate, AP!ToUpdate, AP!ToDelete, AP!RoleSets
<1> PICK u \in Users : ~AP!Stored(u) /\ H!Write(r, u, row, Idle)
  BY SameChecks, AboutIdle DEF H!CreateCommit
<1>4. AP!Write(r, u, row, Idle) /\ OneHandler' /\ users' = [users EXCEPT ![u] = row] /\ UNCHANGED clock
  BY <1>2, EndpointWrites, AboutIdle
<1>5. AP!CreateCommit(r)
  BY <1>1, <1>2, <1>4, AboutIdle DEF AP!CreateCommit
<1>6. SP!Next
  BY <1>3, <1>4, WriteForeseen
<1> QED
  BY <1>4, <1>5, <1>6 DEF Allowed, AP!Next

LEMMA SaveUserAllowed ==
    ASSUME Inv, NEW r \in Requests, SaveUser(r)
    PROVE  Allowed
<1>1. UNCHANGED sessionVars
  BY DEF SaveUser
<1>2. reqs[r] = Idle /\ combined[r] = calls[r] /\ combined[r] \in AP!Request
  BY EndpointNow DEF SaveUser, H!UpdateRead, H!UpdateCommit
<1>3. CASE H!UpdateRead(r)
  <2> DEFINE next == IF AP!Live(calls[r].user) THEN [calls[r] EXCEPT !.step = "save"] ELSE Idle
  <2>1. calls[r].step = "update" /\ H!Continue(r, next)
    BY <1>3, SameChecks, AboutIdle DEF H!UpdateRead
  <2>2. calls[r] \in AP!ToUpdate
    BY <1>2, <2>1, AboutIdle
       DEF AP!Request, AP!ToAssign, AP!ToIssue, AP!ToCreate, AP!ToUpdate, AP!ToDelete
  <2>3. next.step # "login"
    BY <2>2, AboutIdle DEF AP!ToUpdate
  <2> HIDE DEF next
  <2>4. AP!Continue(r, next) /\ UNCHANGED SP!vars /\ OneHandler'
    BY <1>1, <1>2, <2>1, <2>3, EndpointReads
  <2>5. AP!UpdateRead(r)
    BY <1>2, <2>1, <2>4, AboutIdle DEF AP!UpdateRead, next
  <2> QED
    BY <2>4, <2>5 DEF Allowed, AP!Next
<1>4. CASE H!UpdateCommit(r)
  <2> DEFINE u   == calls[r].user
             row == [live |-> TRUE, roles |-> calls[r].roles]
  <2>1. calls[r].step = "save" /\ H!Write(r, u, row, Idle) /\ UNCHANGED seeded
    BY <1>4, AboutIdle DEF H!UpdateCommit
  <2>2. u \in Users /\ calls[r].roles \in SUBSET Roles
    BY <1>2, <2>1, AboutIdle
       DEF AP!Request, AP!ToAssign, AP!ToIssue, AP!ToCreate, AP!ToUpdate, AP!ToDelete, AP!RoleSets
  <2>3. AP!Write(r, u, row, Idle) /\ OneHandler' /\ users' = [users EXCEPT ![u] = row] /\ UNCHANGED clock
    BY <1>1, <1>2, <2>1, <2>2, EndpointWrites, AboutIdle
  <2>4. AP!UpdateCommit(r)
    BY <1>2, <2>1, <2>3, AboutIdle DEF AP!UpdateCommit
  <2>5. SP!Next
    BY <1>1, <2>2, <2>3, WriteForeseen
  <2> QED
    BY <2>3, <2>4, <2>5 DEF Allowed, AP!Next
<1> QED
  BY <1>3, <1>4 DEF SaveUser

LEMMA DeleteCommitAllowed ==
    ASSUME Inv, NEW r \in Requests, DeleteCommit(r)
    PROVE  Allowed
<1> DEFINE u   == calls[r].user
           row == [users[u] EXCEPT !.live = FALSE]
<1>1. calls[r].step = "delete" /\ UNCHANGED sessionVars
  BY DEF DeleteCommit, H!DeleteCommit
<1>2. reqs[r] = Idle /\ combined[r] = calls[r] /\ combined[r] \in AP!Request
  BY <1>1, EndpointNow
<1>3. u \in Users
  BY <1>1, <1>2, AboutIdle
     DEF AP!Request, AP!ToAssign, AP!ToIssue, AP!ToCreate, AP!ToUpdate, AP!ToDelete
<1>4. CASE AP!Live(u) /\ H!Write(r, u, row, Idle) /\ UNCHANGED seeded
  <2>1. AP!Write(r, u, row, Idle) /\ OneHandler' /\ users' = [users EXCEPT ![u] = row] /\ UNCHANGED clock
    BY <1>1, <1>2, <1>3, <1>4, EndpointWrites, AboutIdle
  <2>2. AP!DeleteCommit(r)
    BY <1>1, <1>2, <1>4, <2>1, AboutIdle DEF AP!DeleteCommit
  <2>3. users[u] \in A!Row /\ rows[u] = users[u] /\ rows[u].live
    BY <1>3, <1>4, RowsOfUsers DEF AP!Live, AP!Stored
  <2>4. row \in A!Row
    BY <2>3 DEF A!Row
  <2>5. rows' = [rows EXCEPT ![u] = row]
    BY <1>3, <2>1, <2>4, RowsWritten
  <2>6. rows' = [rows EXCEPT ![u] = [rows[u] EXCEPT !.live = FALSE]]
    BY <2>3, <2>5
  <2> HIDE DEF u
  <2>7. rows' = [rows EXCEPT ![u].live = FALSE]
    BY <2>6
  <2>8. SP!UserDeleted(u)
    BY <1>1, <2>1, <2>3, <2>7 DEF SP!UserDeleted, sessionVars
  <2> QED
    BY <1>3, <2>1, <2>2, <2>8 DEF Allowed, AP!Next, SP!Next
<1>5. CASE ~AP!Live(u) /\ H!Continue(r, Idle)
  <2>1. AP!Continue(r, Idle) /\ UNCHANGED SP!vars /\ OneHandler'
    BY <1>1, <1>2, <1>5, EndpointReads, AboutIdle
  <2>2. AP!DeleteCommit(r)
    BY <1>1, <1>2, <1>5, <2>1, AboutIdle DEF AP!DeleteCommit
  <2> QED
    BY <2>1, <2>2 DEF Allowed, AP!Next
<1> QED
  BY <1>4, <1>5, SameChecks, AboutIdle DEF DeleteCommit, H!DeleteCommit

-----------------------------------------------------------------------------
(* The invariant, and the two refinements.                                 *)

LEMMA RequestAllowed ==
    ASSUME Inv, NEW r \in Requests,
           \/ Register(r) \/ RegisterAndLogin(r)
           \/ Callback(r) \/ Restore(r)
           \/ CreateUser(r) \/ InsertUser(r)
           \/ UpdateUser(r) \/ SaveUser(r)
           \/ DeleteUser(r) \/ DeleteCommit(r)
    PROVE  Allowed
<1>1. CASE CreateUser(r) \/ UpdateUser(r) \/ DeleteUser(r)
  BY <1>1, CheckAllowed, GrpcCreateAllowed DEF CreateUser, UpdateUser, DeleteUser
<1>2. CASE InsertUser(r)
  BY <1>2, CreateCommitAllowed, GrpcAssignAllowed DEF InsertUser
<1>3. CASE \/ Register(r) \/ RegisterAndLogin(r) \/ Callback(r) \/ Restore(r)
           \/ SaveUser(r) \/ DeleteCommit(r)
  BY <1>3, RegisterAllowed, CallbackAllowed, RestoreAllowed, SaveUserAllowed, DeleteCommitAllowed
<1> QED
  BY <1>1, <1>2, <1>3

\* Every step of the service is a step of both modules, or nothing to one of them.
LEMMA NextAllowed == ASSUME Inv, [Next]_vars PROVE Allowed
<1>1. CASE UNCHANGED vars
  <2>1. UNCHANGED SP!vars /\ combined' = combined
    BY <1>1, RowsSame DEF vars, sessionVars, SP!vars, combined
  <2> QED
    BY <1>1, <2>1 DEF Allowed, vars, sessionVars, AP!vars, Inv, OneHandler
<1>2. ASSUME NEW r \in Requests,
             \/ Login(r) \/ LoginRegistered(r) \/ OpenSession(r) \/ IssueSession(r)
             \/ RefreshToken(r) \/ RenewLookup(r) \/ RenewCheckUser(r) \/ RenewRotate(r)
             \/ BlockAllSessions(r) \/ Logout(r) \/ LogoutBlock(r) \/ Fail(r)
      PROVE  Allowed
  BY <1>2, LoginAllowed, LoginRegisteredAllowed, OpenSessionAllowed, IssueSessionAllowed,
     RenewalAllowed, RenewCheckUserAllowed, RenewRotateAllowed, FailAllowed
<1>3. CASE Tick
  BY <1>3, TickAllowed
<1> QED
  BY <1>1, <1>2, <1>3, RequestAllowed DEF Next

LEMMA SessionConstants == SP!SentinelAssumption /\ SP!DurationAssumption
  BY SentinelAssumption, DurationAssumption
     DEF SP!SentinelAssumption, SP!DurationAssumption, S!Row, SP!Row, S!Payload, SP!Payload,
         S!Expiries, SP!Expiries

LEMMA ApiConstants == AP!RolesAssumption /\ AP!NoneAssumption /\ AP!TimeAssumption
  BY SentinelAssumption, DurationAssumption, RolesAssumption
     DEF AP!RolesAssumption, AP!NoneAssumption, AP!TimeAssumption, A!Row, AP!Row, Lifetimes

LEMMA InitAllowed == Init => SP!Init /\ AP!Init /\ OneHandler
<1> SUFFICES ASSUME Init PROVE SP!Init /\ AP!Init /\ OneHandler
  OBVIOUS
<1>1. rows = [u \in Users |-> [live |-> FALSE, roles |-> {}]]
  BY DEF Init, rows
<1>2. combined = [r \in Requests |-> Idle]
  BY AboutIdle DEF Init, combined
<1> QED
  BY <1>1, <1>2, AboutIdle DEF Init, SP!Init, AP!Init, OneHandler

LEMMA InvInit == Init => Inv
  BY InitAllowed, SP!InitInv, AP!InvInit, SessionConstants, ApiConstants DEF Inv

LEMMA InvNext == Inv /\ [Next]_vars => Inv'
<1> SUFFICES ASSUME Inv, [Next]_vars PROVE Inv'
  OBVIOUS
<1>1. [SP!Next]_(SP!vars) /\ [AP!Next]_(AP!vars) /\ OneHandler'
  BY NextAllowed DEF Allowed
<1>2. SP!Inv'
  BY <1>1, SP!NextInv, SessionConstants DEF Inv
<1>3. AP!Inv'
  BY <1>1, AP!InvNext, ApiConstants DEF Inv
<1> QED
  BY <1>1, <1>2, <1>3 DEF Inv

LEMMA InvHolds == Spec => []Inv
  BY InvInit, InvNext, PTL DEF Spec

LEMMA SameSessionNext == (SP!Init <=> S!Init) /\ (SP!Next <=> S!Next) /\ (UNCHANGED SP!vars <=> UNCHANGED S!vars)
<1>1. \A u \in Users, roles \in SUBSET Roles :
        /\ SP!UserSaved(u, roles) <=> S!UserSaved(u, roles)
        /\ SP!RolesAssigned(u, roles) <=> S!RolesAssigned(u, roles)
  BY DEF SP!UserSaved, S!UserSaved, SP!RolesAssigned, S!RolesAssigned
<1>2. \A u \in Users : SP!UserDeleted(u) <=> S!UserDeleted(u)
  BY DEF SP!UserDeleted, S!UserDeleted
<1>t. SP!Tick <=> S!Tick
  BY DEF SP!Tick, S!Tick
<1>r. \A r \in Requests :
        SP!LoginRead(r) \/ SP!RenewVerify(r) \/ SP!LogoutFind(r) \/ SP!Proceed(r) \/ SP!Fail(r)
        <=> S!LoginRead(r) \/ S!RenewVerify(r) \/ S!LogoutFind(r) \/ S!Proceed(r) \/ S!Fail(r)
  BY SameSessionSteps DEF SP!Proceed, S!Proceed
<1>3. SP!Next <=> S!Next
  BY <1>1, <1>2, <1>t, <1>r DEF SP!Next, S!Next
<1>4. UNCHANGED SP!vars <=> UNCHANGED S!vars
  BY DEF SP!vars, S!vars
<1>5. SP!Init <=> S!Init
  BY AboutIdle DEF SP!Init, S!Init, Idle
<1> QED
  BY <1>3, <1>4, <1>5

\* Whatever the endpoints do to users, the sessions are served as SessionService
\* serves them: all that is proved of SessionService holds of the whole service.
THEOREM SessionsImplemented == Spec => ImplementsSessions
<1>1. Init => S!Init
  BY InitAllowed, SameSessionNext
<1>2. Inv /\ [Next]_vars => [S!Next]_(S!vars)
  <2> SUFFICES ASSUME Inv, [Next]_vars PROVE [S!Next]_(S!vars)
    OBVIOUS
  <2> QED
    BY NextAllowed, SameSessionNext DEF Allowed
<1> QED
  BY InvHolds, <1>1, <1>2, PTL DEF Spec, ImplementsSessions, S!Spec

LEMMA SameApiSteps ==
    ASSUME NEW r \in Requests
    PROVE  /\ A!Register(r) <=> AP!Register(r)
           /\ A!GrpcCreateUser(r) <=> AP!GrpcCreateUser(r)
           /\ A!GrpcAssignRoles(r) <=> AP!GrpcAssignRoles(r)
           /\ A!OAuthSignUp(r) <=> AP!OAuthSignUp(r)
           /\ A!OAuthRead(r) <=> AP!OAuthRead(r)
           /\ A!OAuthRestore(r) <=> AP!OAuthRestore(r)
           /\ A!LoginUser(r) <=> AP!LoginUser(r)
           /\ A!IssueTokens(r) <=> AP!IssueTokens(r)
           /\ A!CreateUser(r) <=> AP!CreateUser(r)
           /\ A!CreateCommit(r) <=> AP!CreateCommit(r)
           /\ A!UpdateUser(r) <=> AP!UpdateUser(r)
           /\ A!UpdateRead(r) <=> AP!UpdateRead(r)
           /\ A!UpdateCommit(r) <=> AP!UpdateCommit(r)
           /\ A!DeleteUser(r) <=> AP!DeleteUser(r)
           /\ A!DeleteCommit(r) <=> AP!DeleteCommit(r)
           /\ A!Fail(r) <=> AP!Fail(r)
<1> USE DEF A!Continue, AP!Continue, A!Become, AP!Become, A!Write, AP!Write, A!Idle, AP!Idle,
            A!Stored, AP!Stored, A!Live, AP!Live, A!NewUser, AP!NewUser, A!RoleSets, AP!RoleSets,
            A!Authorized, AP!Authorized, A!VerifyToken, AP!VerifyToken
<1>1. A!Register(r) <=> AP!Register(r)
  BY DEF A!Register, AP!Register
<1>2. (A!GrpcCreateUser(r) <=> AP!GrpcCreateUser(r)) /\ (A!GrpcAssignRoles(r) <=> AP!GrpcAssignRoles(r))
  BY DEF A!GrpcCreateUser, AP!GrpcCreateUser, A!GrpcAssignRoles, AP!GrpcAssignRoles
<1>3. (A!OAuthSignUp(r) <=> AP!OAuthSignUp(r)) /\ (A!OAuthRead(r) <=> AP!OAuthRead(r))
  BY DEF A!OAuthSignUp, AP!OAuthSignUp, A!OAuthRead, AP!OAuthRead
<1>4. (A!OAuthRestore(r) <=> AP!OAuthRestore(r)) /\ (A!LoginUser(r) <=> AP!LoginUser(r))
  BY DEF A!OAuthRestore, AP!OAuthRestore, A!LoginUser, AP!LoginUser
<1>5. A!IssueTokens(r) <=> AP!IssueTokens(r)
  BY DEF A!IssueTokens, AP!IssueTokens, A!Cardinality, AP!Cardinality
<1>6. (A!CreateUser(r) <=> AP!CreateUser(r)) /\ (A!CreateCommit(r) <=> AP!CreateCommit(r))
  BY DEF A!CreateUser, AP!CreateUser, A!CreateCommit, AP!CreateCommit
<1>7. A!UpdateUser(r) <=> AP!UpdateUser(r)
  BY DEF A!UpdateUser, AP!UpdateUser, A!MayUpdate, AP!MayUpdate, A!roleCodesEqual, AP!roleCodesEqual
<1>8. (A!UpdateRead(r) <=> AP!UpdateRead(r)) /\ (A!UpdateCommit(r) <=> AP!UpdateCommit(r))
  BY DEF A!UpdateRead, AP!UpdateRead, A!UpdateCommit, AP!UpdateCommit
<1>9. (A!DeleteUser(r) <=> AP!DeleteUser(r)) /\ (A!DeleteCommit(r) <=> AP!DeleteCommit(r))
  BY DEF A!DeleteUser, AP!DeleteUser, A!DeleteCommit, AP!DeleteCommit, A!MayDelete, AP!MayDelete
<1>10. A!Fail(r) <=> AP!Fail(r)
  BY DEF A!Fail, AP!Fail
<1> QED
  BY <1>1, <1>2, <1>3, <1>4, <1>5, <1>6, <1>7, <1>8, <1>9, <1>10

LEMMA SameApiNext == (AP!Init <=> A!Init) /\ (AP!Next <=> A!Next) /\ (UNCHANGED AP!vars <=> UNCHANGED A!vars)
<1>1. AP!Init <=> A!Init
  BY DEF AP!Init, A!Init, AP!Idle, A!Idle
<1>2. AP!Tick <=> A!Tick
  BY DEF AP!Tick, A!Tick
<1>3. AP!Next <=> A!Next
  BY <1>2, SameApiSteps DEF AP!Next, A!Next
<1>4. UNCHANGED AP!vars <=> UNCHANGED A!vars
  BY DEF AP!vars, A!vars
<1> QED
  BY <1>1, <1>3, <1>4

\* Logins and renewals of the real sessions put only those roles into tokens that
\* UserApi lets them: all that is proved of UserApi holds of the whole service.
THEOREM UserApiImplemented == Spec => ImplementsUserApi
<1>1. Init => A!Init
  BY InitAllowed, SameApiNext
<1>2. Inv /\ [Next]_vars => [A!Next]_(A!vars)
  <2> SUFFICES ASSUME Inv, [Next]_vars PROVE [A!Next]_(A!vars)
    OBVIOUS
  <2> QED
    BY NextAllowed, SameApiNext DEF Allowed
<1> QED
  BY InvHolds, <1>1, <1>2, PTL DEF Spec, ImplementsUserApi, A!Spec

-----------------------------------------------------------------------------
(* What the parts promise, for the whole service.                          *)

LEMMA PartsRun == Spec => SP!Spec /\ AP!Spec
<1>1. Init => SP!Init /\ AP!Init
  BY InitAllowed
<1>2. Inv /\ [Next]_vars => [SP!Next]_(SP!vars) /\ [AP!Next]_(AP!vars)
  BY NextAllowed DEF Allowed
<1> QED
  BY InvHolds, <1>1, <1>2, PTL DEF Spec, SP!Spec, AP!Spec

\* With all endpoints at work on the users, sessions and refresh tokens stay one
\* family, and a session follows its lifecycle (auth.go:184-286).
THEOREM ServiceKeepsFamilies == Spec => []SP!TokenFamilies /\ SP!ImplementsLifecycle
  BY PartsRun, SP!FamiliesHold, SP!LifecycleImplemented, SessionConstants, PTL

\* With all endpoints at work on the users, a revoked session and a replaced
\* token are worth nothing any more, a session of a user whose roles were
\* changed is not renewed, and no request touches the session of another user
\* (auth.go:198-245, 270-285).
THEOREM ServiceRefuses ==
    Spec => /\ SP!RevocationSticks /\ SP!SupersededBuysNothing
            /\ SP!DriftStopsRenewal /\ SP!UserIsolation
  BY PartsRun, SP!RevocationHolds, SP!SupersededHolds, SP!DriftIsRefused, SP!UsersAreIsolated,
     SessionConstants, PTL

\* With renewals signing tokens as well, a token that carries the admin role
\* goes back to an admin, and roles that every unexpired token agrees on change
\* only at the request of one (router.go:62, handler/user.go:86-105).
THEOREM ServiceAuthorizes == Spec => []AP!AdminNeedsAdmin /\ AP!RolesSettle
  BY PartsRun, AP!AdminsComeFromAdmins, AP!SettledRolesNeedAdmin, ApiConstants, PTL

\* With renewals signing tokens as well, once the requests that got past the
\* checks before the deletion are over, no endpoint and no renewal acts for a
\* deleted user, except by a new OAuth login (middleware/auth.go:57, auth.go:213).
THEOREM ServiceLocksOut == Spec => AP!DeletionLocksOut
  BY PartsRun, AP!DeletedIsLockedOut, ApiConstants, PTL

\* Every reachable state is well typed, and no request is with two handlers.
THEOREM TypesHold == Spec => []TypeOK
<1>1. Inv => TypeOK
  <2> SUFFICES ASSUME Inv PROVE TypeOK
    OBVIOUS
  <2>1. S!TypeOK
    BY AboutIdle
       DEF Inv, SP!Inv, SP!TypeOK, S!TypeOK, SP!Row, S!Row, SP!Payload, S!Payload, SP!Expiries,
           S!Expiries, SP!Times, S!Times, SP!Request, S!Request, Idle, SP!ToIssue, S!ToIssue,
           SP!ToLookup, S!ToLookup, SP!ToCheck, S!ToCheck, SP!ToRotate, S!ToRotate, SP!ToPunish,
           S!ToPunish, SP!ToLogout, S!ToLogout
  <2>2. A!TypeOK
    BY DEF Inv, AP!Inv, AP!TypeOK, A!TypeOK, AP!Row, A!Row, AP!Payload, A!Payload,
           AP!Request, A!Request, AP!Idle, A!Idle, AP!ToAssign, A!ToAssign, AP!ToIssue, A!ToIssue,
           AP!ToCreate, A!ToCreate, AP!ToUpdate, A!ToUpdate, AP!ToDelete, A!ToDelete,
           AP!RoleSets, A!RoleSets
  <2> QED
    BY <2>1, <2>2 DEF TypeOK, Inv, OneHandler
<1> QED
  BY InvHolds, <1>1, PTL

-----------------------------------------------------------------------------
(* Lost roles.                                                             *)

\* Tokens are signed for a request that is seen to be about to.
LEMMA TokensAreIssued ==
    ASSUME Inv, [AP!Next]_(AP!vars), NEW p \in tokens' \ tokens
    PROVE  \E r \in Requests : /\ combined[r].step = "issue"
                               /\ combined[r].user = p.user /\ combined[r].roles = p.roles
<1>1. tokens' # tokens
  OBVIOUS
<1>2. \A r \in Requests :
        /\ AP!Register(r) \/ AP!GrpcCreateUser(r) \/ AP!GrpcAssignRoles(r) => tokens' = tokens
        /\ AP!OAuthSignUp(r) \/ AP!OAuthRead(r) \/ AP!OAuthRestore(r) => tokens' = tokens
        /\ AP!LoginUser(r) \/ AP!CreateUser(r) \/ AP!CreateCommit(r) => tokens' = tokens
        /\ AP!UpdateUser(r) \/ AP!UpdateRead(r) \/ AP!UpdateCommit(r) => tokens' = tokens
        /\ AP!DeleteUser(r) \/ AP!DeleteCommit(r) \/ AP!Fail(r) => tokens' = tokens
  <2> TAKE r \in Requests
  <2>1. AP!Register(r) \/ AP!GrpcCreateUser(r) \/ AP!GrpcAssignRoles(r) => tokens' = tokens
    BY DEF AP!Register, AP!GrpcCreateUser, AP!GrpcAssignRoles, AP!Write
  <2>2. AP!OAuthSignUp(r) \/ AP!OAuthRead(r) \/ AP!OAuthRestore(r) => tokens' = tokens
    BY DEF AP!OAuthSignUp, AP!OAuthRead, AP!OAuthRestore, AP!Write, AP!Continue
  <2>3. AP!LoginUser(r) \/ AP!CreateUser(r) \/ AP!CreateCommit(r) => tokens' = tokens
    BY DEF AP!LoginUser, AP!CreateUser, AP!CreateCommit, AP!Write, AP!Continue
  <2>4. AP!UpdateUser(r) \/ AP!UpdateRead(r) \/ AP!UpdateCommit(r) => tokens' = tokens
    BY DEF AP!UpdateUser, AP!UpdateRead, AP!UpdateCommit, AP!Write, AP!Continue
  <2>5. AP!DeleteUser(r) \/ AP!DeleteCommit(r) \/ AP!Fail(r) => tokens' = tokens
    BY DEF AP!DeleteUser, AP!DeleteCommit, AP!Fail, AP!Write, AP!Continue
  <2> QED
    BY <2>1, <2>2, <2>3, <2>4, <2>5
<1>3. ~AP!Tick /\ ~UNCHANGED AP!vars
  BY <1>1 DEF AP!Tick, AP!vars
<1> PICK r \in Requests : AP!IssueTokens(r)
  BY <1>1, <1>2, <1>3 DEF AP!Next
<1> QED
  BY DEF AP!IssueTokens

\* A request comes to be about to sign roles only when the row says just these.
LEMMA IssuesReadRows ==
    ASSUME Inv, [AP!Next]_(AP!vars), NEW r \in Requests,
           combined'[r].step = "issue", combined'[r] # combined[r]
    PROVE  users'[combined'[r].user] = [live |-> TRUE, roles |-> combined'[r].roles]
<1> DEFINE Goal == users'[combined'[r].user] = [live |-> TRUE, roles |-> combined'[r].roles]
<1> SUFFICES Goal
  OBVIOUS
<1>types. /\ users \in [Users -> AP!Row \cup {None}]
          /\ combined \in [Requests -> AP!Request]
  BY DEF Inv, AP!Inv, AP!TypeOK
<1>idle. Idle.step = "idle" /\ AP!Idle.step = "idle"
  BY AboutIdle
<1>1. ASSUME NEW x \in Requests, NEW next, combined' = [combined EXCEPT ![x] = next], next.step # "issue"
      PROVE  Goal
  BY <1>1, <1>types
<1>2. ASSUME NEW x \in Requests,
             AP!Register(x) \/ AP!GrpcAssignRoles(x) \/ AP!IssueTokens(x) \/ AP!CreateCommit(x)
               \/ AP!UpdateCommit(x) \/ AP!Fail(x)
      PROVE  Goal
  <2>1. combined' = [combined EXCEPT ![x] = AP!Idle]
    BY <1>2 DEF AP!Register, AP!GrpcAssignRoles, AP!IssueTokens, AP!CreateCommit, AP!UpdateCommit,
                AP!Fail, AP!Write, AP!Continue, AP!Become
  <2> QED
    BY <2>1, <1>1, <1>idle
<1>3. ASSUME NEW x \in Requests, AP!GrpcCreateUser(x) PROVE Goal
  <2> PICK u \in Users, roles \in AP!RoleSets :
        combined' = [combined EXCEPT ![x] = [step |-> "assign", user |-> u, roles |-> roles]]
    BY <1>3 DEF AP!GrpcCreateUser, AP!Write, AP!Become
  <2> DEFINE next == [step |-> "assign", user |-> u, roles |-> roles]
  <2>1. next.step = "assign"
    OBVIOUS
  <2> HIDE DEF next
  <2> QED
    BY <2>1, <1>1 DEF next
<1>4. ASSUME NEW x \in Requests, AP!OAuthRead(x) PROVE Goal
  <2> PICK u \in Users :
        combined' = [combined EXCEPT ![x] = [step |-> "restore", user |-> u, roles |-> users[u].roles]]
    BY <1>4 DEF AP!OAuthRead, AP!Continue, AP!Become
  <2> DEFINE next == [step |-> "restore", user |-> u, roles |-> users[u].roles]
  <2>1. next.step = "restore"
    OBVIOUS
  <2> HIDE DEF next
  <2> QED
    BY <2>1, <1>1 DEF next
<1>5. ASSUME NEW x \in Requests, AP!CreateUser(x) \/ AP!UpdateUser(x) \/ AP!DeleteUser(x) PROVE Goal
  <2>1. \E next : combined' = [combined EXCEPT ![x] = next] /\ next.step \in {"create", "update", "delete"}
    <3>1. CASE AP!CreateUser(x)
      <4> PICK p \in tokens, roles \in AP!RoleSets :
            combined' = [combined EXCEPT ![x] = [step |-> "create", as |-> p, roles |-> roles]]
        BY <3>1 DEF AP!CreateUser, AP!Continue, AP!Become
      <4>1. [step |-> "create", as |-> p, roles |-> roles].step = "create"
        OBVIOUS
      <4> QED
        BY <4>1
    <3>2. CASE AP!UpdateUser(x)
      <4> PICK p \in tokens, u \in Users, roles \in AP!RoleSets :
            combined' = [combined EXCEPT ![x] = [step |-> "update", as |-> p, user |-> u, roles |-> roles]]
        BY <3>2 DEF AP!UpdateUser, AP!Continue, AP!Become
      <4>1. [step |-> "update", as |-> p, user |-> u, roles |-> roles].step = "update"
        OBVIOUS
      <4> QED
        BY <4>1
    <3>3. CASE AP!DeleteUser(x)
      <4> PICK p \in tokens, u \in Users :
            combined' = [combined EXCEPT ![x] = [step |-> "delete", as |-> p, user |-> u]]
        BY <3>3 DEF AP!DeleteUser, AP!Continue, AP!Become
      <4>1. [step |-> "delete", as |-> p, user |-> u].step = "delete"
        OBVIOUS
      <4> QED
        BY <4>1
    <3> QED
      BY <1>5, <3>1, <3>2, <3>3
  <2> QED
    BY <2>1, <1>1
<1>6. ASSUME NEW x \in Requests, AP!UpdateRead(x) \/ AP!DeleteCommit(x) PROVE Goal
  <2>1. CASE AP!DeleteCommit(x)
    <3>1. combined' = [combined EXCEPT ![x] = AP!Idle]
      BY <2>1 DEF AP!DeleteCommit, AP!Write, AP!Continue, AP!Become
    <3> QED
      BY <3>1, <1>1, <1>idle
  <2>2. CASE AP!UpdateRead(x)
    <3> DEFINE next == IF AP!Live(combined[x].user) THEN [combined[x] EXCEPT !.step = "save"] ELSE AP!Idle
    <3>1. combined[x].step = "update" /\ combined' = [combined EXCEPT ![x] = next]
      BY <2>2 DEF AP!UpdateRead, AP!Continue, AP!Become
    <3>2. combined[x] \in AP!ToUpdate
      BY <3>1, <1>types, <1>idle
         DEF AP!Request, AP!ToAssign, AP!ToIssue, AP!ToCreate, AP!ToUpdate, AP!ToDelete
    <3>3. next.step # "issue"
      BY <3>2, <1>idle DEF AP!ToUpdate
    <3> HIDE DEF next
    <3> QED
      BY <3>1, <3>3, <1>1
  <2> QED
    BY <1>6, <2>1, <2>2
<1>7. ASSUME NEW x \in Requests, AP!LoginUser(x) PROVE Goal
  <2> PICK u \in Users :
        /\ AP!Live(u) /\ users' = users
        /\ combined' = [combined EXCEPT ![x] = [step |-> "issue", user |-> u, roles |-> users[u].roles]]
    BY <1>7 DEF AP!LoginUser, AP!Continue, AP!Become
  <2>1. users[u] \in AP!Row /\ users[u].live
    BY <1>types DEF AP!Live, AP!Stored
  <2>2. users[u] = [live |-> TRUE, roles |-> users[u].roles]
    BY <2>1 DEF AP!Row
  <2>3. combined'[r] = [step |-> "issue", user |-> u, roles |-> users[u].roles]
    BY <1>types
  <2>4. combined'[r].user = u /\ combined'[r].roles = users[u].roles
    BY <2>3
  <2> QED
    BY <2>2, <2>4
<1>8. ASSUME NEW x \in Requests, AP!OAuthSignUp(x) PROVE Goal
  <2> PICK u \in Users :
        /\ users' = [users EXCEPT ![u] = AP!NewUser]
        /\ combined' = [combined EXCEPT ![x] = [step |-> "issue", user |-> u, roles |-> {UserRole}]]
    BY <1>8 DEF AP!OAuthSignUp, AP!Write, AP!Become
  <2>1. combined'[r] = [step |-> "issue", user |-> u, roles |-> {UserRole}]
    BY <1>types
  <2>2. combined'[r].user = u /\ combined'[r].roles = {UserRole}
    BY <2>1
  <2>3. users'[u] = [live |-> TRUE, roles |-> {UserRole}]
    BY <1>types DEF AP!NewUser
  <2> QED
    BY <2>2, <2>3
<1>9. ASSUME NEW x \in Requests, AP!OAuthRestore(x) PROVE Goal
  <2> DEFINE u == combined[x].user
  <2>1. /\ combined[x].step = "restore"
        /\ users' = [users EXCEPT ![u] = [live |-> TRUE, roles |-> combined[x].roles]]
        /\ combined' = [combined EXCEPT ![x] = [combined[x] EXCEPT !.step = "issue"]]
    BY <1>9 DEF AP!OAuthRestore, AP!Write, AP!Become
  <2>2. combined[x] \in AP!ToIssue
    BY <2>1, <1>types, <1>idle
       DEF AP!Request, AP!ToAssign, AP!ToIssue, AP!ToCreate, AP!ToUpdate, AP!ToDelete
  <2>3. combined'[r] = [combined[x] EXCEPT !.step = "issue"]
    BY <2>1, <1>types
  <2>4. combined'[r].user = u /\ combined'[r].roles = combined[x].roles /\ u \in Users
    BY <2>2, <2>3 DEF AP!ToIssue
  <2>5. users'[u] = [live |-> TRUE, roles |-> combined[x].roles]
    BY <2>1, <2>4, <1>types
  <2> QED
    BY <2>4, <2>5
<1>10. ~AP!Tick /\ ~UNCHANGED AP!vars
  BY DEF AP!Tick, AP!vars
<1> QED
  BY <1>2, <1>3, <1>4, <1>5, <1>6, <1>7, <1>8, <1>9, <1>10 DEF AP!Next

LEMMA LostRolesStep ==
    ASSUME Inv, [Next]_vars, NEW u \in Users, NEW roles \in SUBSET Roles, Outdated(u, roles)
    PROVE  /\ \A p \in tokens' \ tokens : ~(p.user = u /\ p.roles = roles)
           /\ Outdated(u, roles)' \/ users'[u] = [live |-> TRUE, roles |-> roles]
<1>0. [AP!Next]_(AP!vars)
  BY NextAllowed DEF Allowed
<1>1. \A p \in tokens' \ tokens : ~(p.user = u /\ p.roles = roles)
  BY <1>0, TokensAreIssued DEF Outdated
<1>2. ASSUME users'[u] # [live |-> TRUE, roles |-> roles] PROVE Outdated(u, roles)'
  <2>1. rows'[u] # [live |-> TRUE, roles |-> roles]
    <3>1. rows'[u] = IF users'[u] = None THEN [live |-> FALSE, roles |-> {}] ELSE users'[u]
      BY DEF rows
    <3>2. [live |-> FALSE, roles |-> {}].live = FALSE /\ [live |-> TRUE, roles |-> roles].live = TRUE
      OBVIOUS
    <3> QED
      BY <1>2, <3>1, <3>2
  <2>2. \A r \in Requests :
          ~(combined'[r].step = "issue" /\ combined'[r].user = u /\ combined'[r].roles = roles)
    BY <1>0, <1>2, IssuesReadRows DEF Outdated
  <2> QED
    BY <2>1, <2>2 DEF Outdated
<1> QED
  BY <1>1, <1>2

\* Roles a user has lost are signed again only once his row has been given them back.
THEOREM LostRolesAreLost == Spec => LostRolesStayLost
<1>1. Inv /\ [Next]_vars =>
        [\A u \in Users, roles \in SUBSET Roles :
           Outdated(u, roles) =>
             /\ \A p \in tokens' \ tokens : ~(p.user = u /\ p.roles = roles)
             /\ Outdated(u, roles)' \/ users'[u] = [live |-> TRUE, roles |-> roles]]_vars
  BY LostRolesStep
<1> QED
  BY InvHolds, <1>1, PTL DEF Spec, LostRolesStayLost

-----------------------------------------------------------------------------
(* Revoked sessions.                                                       *)

\* Only these two sign tokens.
LEMMA Signers ==
    ASSUME Inv, [Next]_vars, tokens' # tokens
    PROVE  \E r \in Requests : IssueSession(r) \/ RenewRotate(r)
<1>1. ASSUME NEW r \in Requests PROVE
        /\ Register(r) \/ RegisterAndLogin(r) \/ Callback(r) \/ Restore(r) => tokens' = tokens
        /\ CreateUser(r) \/ InsertUser(r) \/ UpdateUser(r) \/ SaveUser(r) => tokens' = tokens
        /\ DeleteUser(r) \/ DeleteCommit(r) \/ Fail(r) => tokens' = tokens
        /\ Login(r) \/ LoginRegistered(r) \/ OpenSession(r) => tokens' = tokens
        /\ RefreshToken(r) \/ RenewLookup(r) \/ RenewCheckUser(r) => tokens' = tokens
        /\ BlockAllSessions(r) \/ Logout(r) \/ LogoutBlock(r) => tokens' = tokens
  <2> USE DEF H!Write, H!Continue, Unsigning, HandOver
  <2>1. Register(r) \/ RegisterAndLogin(r) \/ Callback(r) \/ Restore(r) => tokens' = tokens
    BY DEF Register, RegisterAndLogin, Callback, Restore, H!Register, H!OAuthRead, H!OAuthSignUp,
           H!OAuthRestore
  <2>2. CreateUser(r) \/ InsertUser(r) => tokens' = tokens
    BY DEF CreateUser, InsertUser, H!CreateUser, H!GrpcCreateUser, H!CreateCommit, H!GrpcAssignRoles
  <2>3. UpdateUser(r) \/ SaveUser(r) => tokens' = tokens
    BY DEF UpdateUser, SaveUser, H!UpdateUser, H!UpdateRead, H!UpdateCommit
  <2>4. DeleteUser(r) \/ DeleteCommit(r) \/ Fail(r) => tokens' = tokens
    BY DEF DeleteUser, DeleteCommit, Fail, H!DeleteUser, H!DeleteCommit, H!Fail
  <2>5. Login(r) \/ LoginRegistered(r) \/ OpenSession(r) => tokens' = tokens
    BY DEF Login, LoginRegistered, OpenSession
  <2>6. RefreshToken(r) \/ RenewLookup(r) \/ RenewCheckUser(r) => tokens' = tokens
    BY DEF RefreshToken, RenewLookup, RenewCheckUser
  <2>7. BlockAllSessions(r) \/ Logout(r) \/ LogoutBlock(r) => tokens' = tokens
    BY DEF BlockAllSessions, Logout, LogoutBlock
  <2> QED
    BY <2>1, <2>2, <2>3, <2>4, <2>5, <2>6, <2>7
<1>2. ~Tick /\ ~UNCHANGED vars
  BY DEF Tick, Unsigning, vars
<1> QED
  BY <1>1, <1>2 DEF Next

LEMMA SameSeal == \A s \in SessionIds : (S!Sealed(s) <=> SP!Sealed(s)) /\ (S!Sealed(s)' <=> SP!Sealed(s)')
<1> TAKE s \in SessionIds
<1> USE DEF S!Sealed, SP!Sealed, S!Exists, SP!Exists, S!Renewing, SP!Renewing
<1>1. S!Sealed(s) <=> SP!Sealed(s)
  OBVIOUS
<1>2. S!Sealed(s)' <=> SP!Sealed(s)'
  OBVIOUS
<1> QED
  BY <1>1, <1>2

\* What a request of the sessions remembers, in terms of the tables.
LEMMA RotateRemembers ==
    ASSUME Inv, NEW r \in Requests, reqs[r].step = "rotate"
    PROVE  LET t == reqs[r].token IN
             /\ t \in Tokens /\ signed[t] # Unsigned
             /\ reqs[r].row.user = signed[t].user
             /\ signed[t].sid \in SessionIds /\ sessions[signed[t].sid] # NoSession
             /\ sessions[signed[t].sid].user = signed[t].user
<1> DEFINE t == reqs[r].token
<1>1. reqs[r] \in SP!Request /\ SP!Remembered(reqs[r])
  BY DEF Inv, SP!Inv, SP!TypeOK, SP!TokenFamilies, SP!RequestsMatchTokens
<1>2. t \in Tokens /\ signed[t] # Unsigned /\ reqs[r].row.user = signed[t].user
  BY <1>1, SP!StepRecords, SessionConstants DEF SP!Remembered, SP!Issued
<1>3. signed[t] \in SP!Payload
  BY <1>2 DEF Inv, SP!Inv, SP!TypeOK
<1>4. signed[t].sid \in SessionIds
  BY <1>3 DEF SP!Payload
<1>5. sessions[signed[t].sid] # NoSession /\ sessions[signed[t].sid].user = signed[t].user
  BY <1>2 DEF Inv, SP!Inv, SP!TokenFamilies, SP!SignedTokensHaveSessions, SP!Issued, SP!Exists
<1> QED
  BY <1>2, <1>4, <1>5

\* A user who is logged out gets no token in this step.
LEMMA NothingSigned ==
    ASSUME Inv, [Next]_vars, NEW u \in Users, LoggedOut(u)
    PROVE  TokensOf(u)' = TokensOf(u)
<1>1. CASE tokens' = tokens
  BY <1>1 DEF TokensOf
<1>2. ASSUME NEW r \in Requests, IssueSession(r) PROVE TokensOf(u)' = TokensOf(u)
  <2>1. reqs[r].user # u
    BY <1>2 DEF IssueSession, LoggedOut, LoggingIn
  <2> QED
    BY <1>2, <2>1 DEF IssueSession, SignTokens, TokensOf
<1>3. ASSUME NEW r \in Requests, RenewRotate(r) PROVE TokensOf(u)' = TokensOf(u)
  <2> DEFINE old == signed[reqs[r].token]
  <2>1. reqs[r].step = "rotate" /\ SignTokens(old.user, old.roles)
    BY <1>3 DEF RenewRotate
  <2>2. old.user # u
    <3> SUFFICES ASSUME old.user = u PROVE FALSE
      OBVIOUS
    <3>1. old.sid \in SessionIds /\ sessions[old.sid] # NoSession /\ sessions[old.sid].user = u
      BY <2>1, RotateRemembers
    <3>2. S!Sealed(old.sid)
      BY <3>1 DEF LoggedOut, S!Exists
    <3> QED
      BY <2>1, <3>2 DEF S!Sealed, S!Renewing
  <2> HIDE DEF old
  <2> QED
    BY <2>1, <2>2 DEF SignTokens, TokensOf
<1> QED
  BY <1>1, <1>2, <1>3, Signers

\* A session of u was his before, or a login of his has just opened it.
LEMMA SessionsOf ==
    ASSUME Inv, [SP!Next]_(SP!vars), NEW u \in Users, NEW s \in SessionIds,
           sessions'[s] # NoSession, sessions'[s].user = u
    PROVE  \/ sessions[s] # NoSession /\ sessions[s].user = u
           \/ \E r \in Requests : reqs[r].step = "issue" /\ reqs[r].user = u
<1> DEFINE Goal == \/ sessions[s] # NoSession /\ sessions[s].user = u
                   \/ \E r \in Requests : reqs[r].step = "issue" /\ reqs[r].user = u
<1> SUFFICES Goal
  OBVIOUS
<1>types. sessions \in [SessionIds -> SP!Row \cup {NoSession}]
  BY DEF Inv, SP!Inv, SP!TypeOK
<1>1. CASE sessions' = sessions
  BY <1>1
<1>2. ASSUME NEW r \in Requests, SP!IssueSession(r) PROVE Goal
  <2> PICK x \in SessionIds, t \in Tokens :
        SP!Insert(x, [user |-> reqs[r].user, token |-> t, blocked |-> FALSE,
                      exp |-> clock + RefreshTokenDuration])
    BY <1>2 DEF SP!IssueSession
  <2> DEFINE row == [user |-> reqs[r].user, token |-> t, blocked |-> FALSE,
                     exp |-> clock + RefreshTokenDuration]
  <2>1. row.user = reqs[r].user /\ sessions' = [sessions EXCEPT ![x] = row]
    BY DEF SP!Insert
  <2> HIDE DEF row
  <2>2. reqs[r].step = "issue"
    BY <1>2 DEF SP!IssueSession
  <2> QED
    BY <1>types, <2>1, <2>2
<1>3. ASSUME NEW r \in Requests, SP!RenewRotate(r) PROVE Goal
  <2> DEFINE old == signed[reqs[r].token]
  <2>1. reqs[r].step = "rotate"
    BY <1>3 DEF SP!RenewRotate
  <2>2. /\ reqs[r].row.user = old.user /\ old.sid \in SessionIds
        /\ sessions[old.sid] # NoSession /\ sessions[old.sid].user = old.user
    BY <2>1, RotateRemembers
  <2> PICK t \in Tokens : sessions' = [sessions EXCEPT ![old.sid] = SP!Rotated(reqs[r].row, t)]
    BY <1>3 DEF SP!RenewRotate
  <2>3. SP!Rotated(reqs[r].row, t).user = old.user
    BY <2>2 DEF SP!Rotated
  <2> QED
    BY <1>types, <2>2, <2>3
<1>4. ASSUME NEW r \in Requests, SP!BlockAllSessions(r) PROVE Goal
  <2>1. sessions'[s] = IF SP!OfUser(s, reqs[r].user) THEN [sessions[s] EXCEPT !.blocked = TRUE]
                                                    ELSE sessions[s]
    BY <1>4 DEF SP!BlockAllSessions
  <2>2. CASE SP!OfUser(s, reqs[r].user)
    <3>1. sessions[s] \in SP!Row /\ sessions[s] # NoSession
      BY <1>types, <2>2 DEF SP!OfUser, SP!Exists
    <3> QED
      BY <2>1, <2>2, <3>1 DEF SP!Row
  <2> QED
    BY <2>1, <2>2
<1>5. ASSUME NEW r \in Requests, SP!LogoutBlock(r) PROVE Goal
  <2> DEFINE x == reqs[r].sid
  <2>1. reqs[r].step = "block" /\ reqs[r] \in SP!Request /\ SP!Remembered(reqs[r])
    BY <1>5 DEF SP!LogoutBlock, Inv, SP!Inv, SP!TypeOK, SP!TokenFamilies, SP!RequestsMatchTokens
  <2>2. x \in SessionIds /\ sessions[x] # NoSession
    BY <2>1, SP!StepRecords, SessionConstants DEF SP!Remembered, SP!Exists
  <2>3. sessions[x] \in SP!Row
    BY <1>types, <2>2
  <2>4. sessions' = [sessions EXCEPT ![x] = [sessions[x] EXCEPT !.blocked = TRUE]]
    BY <1>5 DEF SP!LogoutBlock
  <2> DEFINE row == [sessions[x] EXCEPT !.blocked = TRUE]
  <2>5. row.user = sessions[x].user
    BY <2>3 DEF SP!Row
  <2> HIDE DEF row, x
  <2> QED
    BY <1>types, <2>2, <2>4, <2>5 DEF row
<1>6. \A r \in Requests :
        /\ SP!LoginRead(r) \/ SP!RenewVerify(r) \/ SP!LogoutFind(r) \/ SP!Fail(r) => sessions' = sessions
        /\ SP!RenewLookup(r) \/ SP!RenewCheckUser(r) => sessions' = sessions
  BY DEF SP!LoginRead, SP!RenewVerify, SP!LogoutFind, SP!Fail, SP!RenewLookup, SP!RenewCheckUser,
         SP!Continue
<1>7. CASE (\E v \in Users, roles \in SUBSET Roles : SP!UserSaved(v, roles) \/ SP!RolesAssigned(v, roles))
             \/ (\E v \in Users : SP!UserDeleted(v)) \/ SP!Tick \/ UNCHANGED SP!vars
  BY <1>1, <1>7 DEF SP!UserSaved, SP!RolesAssigned, SP!UserDeleted, SP!Tick, SP!vars
<1> QED
  BY <1>1, <1>2, <1>3, <1>4, <1>5, <1>6, <1>7 DEF SP!Next, SP!Proceed

LEMMA StaysLoggedOut ==
    ASSUME Inv, [Next]_vars, NEW u \in Users, LoggedOut(u)
    PROVE  LoggedOut(u)' \/ LoggingIn(u)'
<1> SUFFICES ASSUME ~LoggingIn(u)' PROVE LoggedOut(u)'
  OBVIOUS
<1>1. [SP!Next]_(SP!vars) /\ SP!Inv
  BY NextAllowed DEF Allowed, Inv
<1>2. ASSUME NEW s \in SessionIds, sessions'[s] # NoSession, sessions'[s].user = u
      PROVE  S!Sealed(s)'
  <2>1. sessions[s] # NoSession /\ sessions[s].user = u
    BY <1>1, <1>2, SessionsOf DEF LoggedOut, LoggingIn
  <2>2. SP!Sealed(s)
    BY <2>1, SameSeal DEF LoggedOut, S!Exists
  <2>3. SP!Sealed(s)'
    BY <1>1, <2>2, SP!SealStep, SessionConstants
  <2> QED
    BY <2>3, SameSeal
<1> QED
  BY <1>2 DEF LoggedOut, S!Exists

\* A user whose sessions are all revoked gets no token before he logs in again.
THEOREM RevokedStaysOut == Spec => RevokedUntilLogin
<1>1. Inv /\ [Next]_vars =>
        [\A u \in Users :
           LoggedOut(u) => /\ TokensOf(u)' = TokensOf(u)
                           /\ LoggedOut(u)' \/ LoggingIn(u)']_vars
  BY NothingSigned, StaysLoggedOut
<1> QED
  BY InvHolds, <1>1, PTL DEF Spec, RevokedUntilLogin

=============================================================================
