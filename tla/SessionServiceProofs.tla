------------------------ MODULE SessionServiceProofs ------------------------
(***************************************************************************)
(* Theorems of SessionService, for any number of users, sessions, tokens   *)
(* and concurrent requests.  TypeOK /\ TokenFamilies is inductive; the     *)
(* action properties and the refinement follow from it step by step.       *)
(***************************************************************************)
EXTENDS SessionService, TLAPS

Inv == TypeOK /\ TokenFamilies

USE DEF Exists, Issued

(* A session row built from a payload has its type. *)
LEMMA RowTyped ==
    ASSUME TypeOK, NEW u \in Users, NEW t \in Tokens, NEW b \in BOOLEAN
    PROVE  [user |-> u, token |-> t, blocked |-> b, exp |-> clock + RefreshTokenDuration] \in Row
  BY DurationAssumption DEF TypeOK, Row, Expiries, Times

(* Signing changes the payload of no token signed before. *)
LEMMA SignKeepsSigned ==
    ASSUME TypeOK, NEW t \in Tokens, NEW s \in SessionIds, NEW u \in Users,
           NEW roles \in SUBSET Roles, Sign(t, s, u, roles)
    PROVE  /\ signed' \in [Tokens -> Payload \cup {Unsigned}]
           /\ signed[t] = Unsigned
           /\ signed'[t] = [sid |-> s, user |-> u, roles |-> roles,
                            exp |-> clock + RefreshTokenDuration]
           /\ signed'[t] # Unsigned
           /\ \A x \in Tokens : signed[x] # Unsigned => signed'[x] = signed[x]
           /\ \A x \in Tokens : x # t => signed'[x] = signed[x]
  <1> DEFINE p == [sid |-> s, user |-> u, roles |-> roles, exp |-> clock + RefreshTokenDuration]
  <1>1. p \in Payload
    BY DurationAssumption DEF TypeOK, Payload, Expiries, Times
  <1>2. p # Unsigned
    BY <1>1, SentinelAssumption
  <1>3. signed \in [Tokens -> Payload \cup {Unsigned}] /\ signed' = [signed EXCEPT ![t] = p]
        /\ signed[t] = Unsigned
    BY DEF TypeOK, Sign
  <1> HIDE DEF p
  <1>4. /\ signed' \in [Tokens -> Payload \cup {Unsigned}]
        /\ signed'[t] = p
        /\ \A x \in Tokens : x # t => signed'[x] = signed[x]
    BY <1>1, <1>3
  <1> QED
    BY <1>2, <1>3, <1>4 DEF p

(* Every state record a request can carry is a Request. *)
LEMMA StepRecords ==
    ASSUME NEW x \in Request
    PROVE  /\ x.step = "issue" => x.user \in Users /\ x.roles \in SUBSET Roles
           /\ x.step = "lookup" => x.token \in Tokens
           /\ x.step \in {"checkUser", "rotate"} => x.token \in Tokens /\ x.row \in Row
           /\ x.step = "blockAll" => x.user \in Users
           /\ x.step = "block" => x.sid \in SessionIds
           /\ x.step \in {"idle", "issue", "lookup", "checkUser", "rotate", "blockAll", "block"}
  BY DEF Request, Idle, ToIssue, ToLookup, ToCheck, ToRotate, ToPunish, ToLogout

(* A request keeps what it remembers as long as no payload changes and no row *)
(* disappears.                                                                *)
LEMMA OthersRemember ==
    ASSUME Inv, NEW q \in Requests, reqs'[q] = reqs[q],
           \A x \in Tokens : signed[x] # Unsigned => signed'[x] = signed[x] /\ signed'[x] # Unsigned,
           \A s \in SessionIds : sessions[s] # NoSession => sessions'[s] # NoSession
    PROVE  Remembered(reqs[q])'
  <1>1. reqs[q] \in Request /\ Remembered(reqs[q])
    BY DEF Inv, TypeOK, TokenFamilies, RequestsMatchTokens
  <1> QED
    BY <1>1, StepRecords DEF Remembered

(* Moving on to the next step, with nothing written, keeps the invariant if *)
(* what is remembered agrees with the tables.                               *)
LEMMA ContinueKeepsInv ==
    ASSUME Inv, NEW r \in Requests, NEW next \in Request, Continue(r, next),
           Remembered(next)
    PROVE  Inv'
  <1>1. /\ reqs \in [Requests -> Request] /\ reqs' = [reqs EXCEPT ![r] = next]
        /\ UNCHANGED <<users, sessions, signed, renewals, clock>>
    BY DEF Continue, Inv, TypeOK
  <1>2. reqs' \in [Requests -> Request] /\ reqs'[r] = next
        /\ \A q \in Requests : q # r => reqs'[q] = reqs[q]
    BY <1>1
  <1>3. TypeOK'
    BY <1>1, <1>2 DEF Inv, TypeOK
  <1>4. RequestsMatchTokens'
    <2> SUFFICES ASSUME NEW q \in Requests PROVE Remembered(reqs[q])'
      BY DEF RequestsMatchTokens
    <2>1. CASE q = r
      BY <2>1, <1>1, <1>2 DEF Remembered
    <2>2. CASE q # r
      BY <2>2, <1>1, <1>2 DEF Inv, TokenFamilies, RequestsMatchTokens, Remembered
    <2> QED
      BY <2>1, <2>2
  <1>5. StoredTokensMatch' /\ SignedTokensHaveSessions' /\ FamiliesShareRoles'
    BY <1>1 DEF Inv, TokenFamilies, StoredTokensMatch, SignedTokensHaveSessions, FamiliesShareRoles
  <1> QED
    BY <1>3, <1>4, <1>5 DEF Inv, TokenFamilies

(* A request that returns remembers nothing. *)
LEMMA IdleRemembers == Idle \in Request /\ Remembered(Idle)
  BY DEF Idle, Request, Remembered

LEMMA LoginReadKeepsInv ==
    ASSUME Inv, NEW r \in Requests, LoginRead(r)
    PROVE  Inv'
  <1> PICK u \in Users : Continue(r, [step |-> "issue", user |-> u, roles |-> users[u].roles])
    BY DEF LoginRead
  <1> DEFINE next == [step |-> "issue", user |-> u, roles |-> users[u].roles]
  <1>1. next \in Request /\ Remembered(next)
    BY DEF Inv, TypeOK, Request, ToIssue, Remembered
  <1> QED
    BY <1>1, ContinueKeepsInv

LEMMA RenewVerifyKeepsInv ==
    ASSUME Inv, NEW r \in Requests, RenewVerify(r)
    PROVE  Inv'
  <1> PICK t \in Tokens : Verified(t) /\ Continue(r, [step |-> "lookup", token |-> t])
    BY DEF RenewVerify
  <1> DEFINE next == [step |-> "lookup", token |-> t]
  <1>1. next \in Request /\ Remembered(next)
    BY DEF Verified, Request, ToLookup, Remembered
  <1> QED
    BY <1>1, ContinueKeepsInv

LEMMA LogoutFindKeepsInv ==
    ASSUME Inv, NEW r \in Requests, LogoutFind(r)
    PROVE  Inv'
  <1> PICK t \in Tokens : /\ Verified(t) /\ Usable(signed[t].sid, signed[t].user)
                         /\ Continue(r, [step |-> "block", sid |-> signed[t].sid])
    BY DEF LogoutFind
  <1> DEFINE next == [step |-> "block", sid |-> signed[t].sid]
  <1>1. signed[t] \in Payload
    BY DEF Verified, Inv, TypeOK
  <1>2. next \in Request /\ Remembered(next)
    BY <1>1 DEF Payload, Usable, Request, ToLogout, Remembered
  <1> QED
    BY <1>2, ContinueKeepsInv

LEMMA RenewLookupKeepsInv ==
    ASSUME Inv, NEW r \in Requests, RenewLookup(r)
    PROVE  Inv'
  <1> DEFINE t     == reqs[r].token
             row   == sessions[signed[t].sid]
             check == [step |-> "checkUser", token |-> t, row |-> row]
             block == [step |-> "blockAll", user |-> row.user]
  <1>1. t \in Tokens /\ signed[t] \in Payload
    BY StepRecords DEF RenewLookup, Inv, TypeOK, TokenFamilies, RequestsMatchTokens, Remembered
  <1>2. row \in Row /\ row.user = signed[t].user
    BY <1>1, SentinelAssumption DEF Inv, TypeOK, TokenFamilies, SignedTokensHaveSessions, Payload
  <1>3. CASE Continue(r, Idle)
    BY <1>3, IdleRemembers, ContinueKeepsInv
  <1>4. CASE Continue(r, block)
    <2>1. block \in Request /\ Remembered(block)
      BY <1>2 DEF Row, Request, ToPunish, Remembered
    <2> QED
      BY <1>4, <2>1, ContinueKeepsInv
  <1>5. CASE ~row.blocked /\ row.token = t /\ Continue(r, check)
    <2>1. row = [user |-> signed[t].user, token |-> t, blocked |-> FALSE, exp |-> signed[t].exp]
      <3>1. row.user = signed[t].user /\ row.token = t /\ row.exp = signed[t].exp
        BY <1>1, <1>2, <1>5, SentinelAssumption
           DEF Inv, TokenFamilies, StoredTokensMatch, Payload
      <3>2. row.blocked = FALSE
        BY <1>2, <1>5 DEF Row
      <3> HIDE DEF row
      <3> QED
        BY <1>2, <3>1, <3>2 DEF Row
    <2>2. check \in Request
      BY <1>1, <1>2 DEF Request, ToCheck
    <2>3. Remembered(check)
      BY <1>1, <2>1, SentinelAssumption DEF Remembered
    <2> QED
      BY <1>5, <2>2, <2>3, ContinueKeepsInv
  <1> QED
    BY <1>3, <1>4, <1>5 DEF RenewLookup, Usable

LEMMA RenewCheckUserKeepsInv ==
    ASSUME Inv, NEW r \in Requests, RenewCheckUser(r)
    PROVE  Inv'
  <1> DEFINE go    == [step |-> "rotate", token |-> reqs[r].token, row |-> reqs[r].row]
             block == [step |-> "blockAll", user |-> reqs[r].row.user]
  <1>1. /\ reqs[r].step = "checkUser" /\ reqs[r].token \in Tokens /\ reqs[r].row \in Row
        /\ Remembered(reqs[r])
    BY StepRecords DEF RenewCheckUser, Inv, TypeOK, TokenFamilies, RequestsMatchTokens
  <1>2. CASE Continue(r, Idle)
    BY <1>2, IdleRemembers, ContinueKeepsInv
  <1>3. CASE Continue(r, block)
    <2>1. block \in Request /\ Remembered(block)
      BY <1>1 DEF Row, Request, ToPunish, Remembered
    <2> QED
      BY <1>3, <2>1, ContinueKeepsInv
  <1>4. CASE Continue(r, go)
    <2>1. go \in Request /\ Remembered(go)
      BY <1>1 DEF Request, ToRotate, Remembered
    <2> QED
      BY <1>4, <2>1, ContinueKeepsInv
  <1> QED
    BY <1>2, <1>3, <1>4 DEF RenewCheckUser

LEMMA IssueSessionKeepsInv ==
    ASSUME Inv, NEW r \in Requests, IssueSession(r)
    PROVE  Inv'
  <1> DEFINE u == reqs[r].user
  <1>1. u \in Users /\ reqs[r].roles \in SUBSET Roles
    BY StepRecords DEF IssueSession, Inv, TypeOK
  <1> PICK s \in SessionIds, t \in Tokens :
        /\ Sign(t, s, u, reqs[r].roles)
        /\ Insert(s, [user |-> u, token |-> t, blocked |-> FALSE,
                      exp |-> clock + RefreshTokenDuration])
    BY DEF IssueSession
  <1> DEFINE row == [user |-> u, token |-> t, blocked |-> FALSE,
                     exp |-> clock + RefreshTokenDuration]
  <1>2. row \in Row /\ row # NoSession
    BY <1>1, RowTyped, SentinelAssumption DEF Inv
  <1>3. /\ signed' \in [Tokens -> Payload \cup {Unsigned}]
        /\ signed[t] = Unsigned
        /\ signed'[t] = [sid |-> s, user |-> u, roles |-> reqs[r].roles,
                         exp |-> clock + RefreshTokenDuration]
        /\ signed'[t] # Unsigned
        /\ \A x \in Tokens : signed[x] # Unsigned => signed'[x] = signed[x]
        /\ \A x \in Tokens : x # t => signed'[x] = signed[x]
    BY <1>1, SignKeepsSigned DEF Inv
  <1>4. /\ sessions' \in [SessionIds -> Row \cup {NoSession}]
        /\ sessions[s] = NoSession /\ sessions'[s] = row
        /\ \A x \in SessionIds : x # s => sessions'[x] = sessions[x]
    BY <1>2 DEF Insert, Inv, TypeOK
  <1>5. /\ reqs' \in [Requests -> Request] /\ reqs'[r] = Idle
        /\ \A q \in Requests : q # r => reqs'[q] = reqs[q]
    BY IdleRemembers DEF IssueSession, Return, Inv, TypeOK
  <1>6. TypeOK'
    BY <1>3, <1>4, <1>5 DEF IssueSession, Inv, TypeOK
  <1>7. StoredTokensMatch'
    BY <1>2, <1>3, <1>4 DEF Inv, TypeOK, TokenFamilies, StoredTokensMatch, Row
  <1>8. SignedTokensHaveSessions'
    BY <1>2, <1>3, <1>4 DEF Inv, TypeOK, TokenFamilies, SignedTokensHaveSessions, Payload
  <1>9. FamiliesShareRoles'
    BY <1>3, <1>4 DEF Inv, TypeOK, TokenFamilies, SignedTokensHaveSessions, FamiliesShareRoles
  <1>10. RequestsMatchTokens'
    <2> SUFFICES ASSUME NEW q \in Requests PROVE Remembered(reqs[q])'
      BY DEF RequestsMatchTokens
    <2>1. CASE q = r
      BY <2>1, <1>5 DEF Remembered, Idle
    <2>2. CASE q # r
      BY <2>2, <1>2, <1>3, <1>4, <1>5, OthersRemember
    <2> QED
      BY <2>1, <2>2
  <1> QED
    BY <1>6, <1>7, <1>8, <1>9, <1>10 DEF Inv, TokenFamilies


LEMMA RenewRotateKeepsInv ==
    ASSUME Inv, NEW r \in Requests, RenewRotate(r)
    PROVE  Inv'
  <1> DEFINE old == signed[reqs[r].token]
             s   == old.sid
  <1>1. /\ reqs[r].token \in Tokens /\ reqs[r].row \in Row
        /\ old # Unsigned /\ old \in Payload
        /\ reqs[r].row = [user |-> old.user, token |-> reqs[r].token,
                          blocked |-> FALSE, exp |-> old.exp]
    BY StepRecords DEF RenewRotate, Inv, TypeOK, TokenFamilies, RequestsMatchTokens, Remembered
  <1>2. s \in SessionIds /\ old.user \in Users /\ old.roles \in SUBSET Roles
    BY <1>1 DEF Payload
  <1> PICK t \in Tokens :
        /\ Sign(t, s, old.user, old.roles)
        /\ sessions' = [sessions EXCEPT ![s] = Rotated(reqs[r].row, t)]
        /\ renewals' = renewals \cup {<<reqs[r].token, t>>}
    BY DEF RenewRotate
  <1> DEFINE row == [user |-> old.user, token |-> t, blocked |-> FALSE,
                     exp |-> clock + RefreshTokenDuration]
  <1>3. row \in Row /\ row # NoSession
    BY <1>2, RowTyped, SentinelAssumption DEF Inv
  <1>4. /\ signed' \in [Tokens -> Payload \cup {Unsigned}]
        /\ signed[t] = Unsigned
        /\ signed'[t] = [sid |-> s, user |-> old.user, roles |-> old.roles,
                         exp |-> clock + RefreshTokenDuration]
        /\ signed'[t] # Unsigned
        /\ \A x \in Tokens : signed[x] # Unsigned => signed'[x] = signed[x]
        /\ \A x \in Tokens : x # t => signed'[x] = signed[x]
    BY <1>2, SignKeepsSigned DEF Inv
  <1>5. /\ sessions' \in [SessionIds -> Row \cup {NoSession}]
        /\ sessions'[s] = row
        /\ \A x \in SessionIds : x # s => sessions'[x] = sessions[x]
    <2>1. Rotated(reqs[r].row, t) = row
      BY <1>1 DEF Rotated
    <2> QED
      BY <1>2, <1>3, <2>1 DEF Inv, TypeOK
  <1>6. /\ reqs' \in [Requests -> Request] /\ reqs'[r] = Idle
        /\ \A q \in Requests : q # r => reqs'[q] = reqs[q]
    BY IdleRemembers DEF RenewRotate, Return, Inv, TypeOK
  <1>7. TypeOK'
    BY <1>1, <1>4, <1>5, <1>6 DEF RenewRotate, Inv, TypeOK
  <1>8. sessions[s] # NoSession /\ sessions[s].user = old.user
    BY <1>1, <1>2 DEF Inv, TokenFamilies, SignedTokensHaveSessions
  <1>9. StoredTokensMatch'
    BY <1>2, <1>3, <1>4, <1>5 DEF Inv, TypeOK, TokenFamilies, StoredTokensMatch, Row
  <1>10. SignedTokensHaveSessions'
    BY <1>2, <1>3, <1>4, <1>5, <1>8 DEF Inv, TypeOK, TokenFamilies, SignedTokensHaveSessions, Payload
  <1>11. FamiliesShareRoles'
    BY <1>1, <1>2, <1>4 DEF Inv, TypeOK, TokenFamilies, FamiliesShareRoles
  <1>12. RequestsMatchTokens'
    <2> SUFFICES ASSUME NEW q \in Requests PROVE Remembered(reqs[q])'
      BY DEF RequestsMatchTokens
    <2>1. CASE q = r
      BY <2>1, <1>6 DEF Remembered, Idle
    <2>2. CASE q # r
      BY <2>2, <1>3, <1>4, <1>5, <1>6, OthersRemember
    <2> QED
      BY <2>1, <2>2
  <1> QED
    BY <1>7, <1>9, <1>10, <1>11, <1>12 DEF Inv, TokenFamilies

(* Setting is_blocked in some existing rows, by a request that then returns. *)
LEMMA BlockingKeepsInv ==
    ASSUME Inv, NEW r \in Requests, Return(r), NEW S \in SUBSET SessionIds,
           \A s \in S : sessions[s] # NoSession,
           sessions' \in [SessionIds -> Row \cup {NoSession}],
           \A s \in SessionIds : sessions'[s] = IF s \in S THEN [sessions[s] EXCEPT !.blocked = TRUE]
                                                           ELSE sessions[s],
           UNCHANGED <<users, signed, renewals, clock>>
    PROVE  Inv'
  <1>1. /\ reqs' \in [Requests -> Request] /\ reqs'[r] = Idle
        /\ \A q \in Requests : q # r => reqs'[q] = reqs[q]
    BY IdleRemembers DEF Return, Inv, TypeOK
  <1>2. TypeOK'
    BY <1>1 DEF Inv, TypeOK
  <1>3. \A s \in SessionIds :
          /\ sessions'[s] # NoSession <=> sessions[s] # NoSession
          /\ sessions[s] # NoSession => /\ sessions'[s].user = sessions[s].user
                                        /\ sessions'[s].token = sessions[s].token
                                        /\ sessions'[s].exp = sessions[s].exp
    <2> SUFFICES ASSUME NEW s \in SessionIds, sessions[s] # NoSession
                 PROVE  /\ sessions'[s] # NoSession
                        /\ sessions'[s].user = sessions[s].user
                        /\ sessions'[s].token = sessions[s].token
                        /\ sessions'[s].exp = sessions[s].exp
      OBVIOUS
    <2>1. sessions[s] \in Row
      BY DEF Inv, TypeOK
    <2>2. [sessions[s] EXCEPT !.blocked = TRUE] \in Row
      BY <2>1 DEF Row
    <2> QED
      BY <2>1, <2>2, SentinelAssumption DEF Row
  <1>4. StoredTokensMatch' /\ FamiliesShareRoles'
    BY <1>3 DEF Inv, TokenFamilies, StoredTokensMatch, FamiliesShareRoles
  <1>5. SignedTokensHaveSessions'
    BY <1>3 DEF Inv, TypeOK, TokenFamilies, SignedTokensHaveSessions, Payload
  <1>6. RequestsMatchTokens'
    <2> SUFFICES ASSUME NEW q \in Requests PROVE Remembered(reqs[q])'
      BY DEF RequestsMatchTokens
    <2>1. CASE q = r
      BY <2>1, <1>1 DEF Remembered, Idle
    <2>2. CASE q # r
      BY <2>2, <1>1, <1>3, OthersRemember
    <2> QED
      BY <2>1, <2>2
  <1> QED
    BY <1>2, <1>4, <1>5, <1>6 DEF Inv, TokenFamilies


LEMMA BlockAllSessionsKeepsInv ==
    ASSUME Inv, NEW r \in Requests, BlockAllSessions(r)
    PROVE  Inv'
  <1> DEFINE S == {s \in SessionIds : OfUser(s, reqs[r].user)}
  <1>1. \A s \in SessionIds : sessions'[s] = IF s \in S THEN [sessions[s] EXCEPT !.blocked = TRUE]
                                                       ELSE sessions[s]
    BY DEF BlockAllSessions
  <1>2. \A s \in S : sessions[s] # NoSession
    BY DEF OfUser
  <1>3. sessions' \in [SessionIds -> Row \cup {NoSession}]
    BY <1>2 DEF BlockAllSessions, Inv, TypeOK, Row
  <1>4. S \in SUBSET SessionIds /\ Return(r) /\ UNCHANGED <<users, signed, renewals, clock>>
    BY DEF BlockAllSessions
  <1> HIDE DEF S
  <1> QED
    BY <1>1, <1>2, <1>3, <1>4, BlockingKeepsInv

LEMMA LogoutBlockKeepsInv ==
    ASSUME Inv, NEW r \in Requests, LogoutBlock(r)
    PROVE  Inv'
  <1> DEFINE x == reqs[r].sid
  <1>1. x \in SessionIds /\ sessions[x] # NoSession
    BY StepRecords DEF LogoutBlock, Inv, TypeOK, TokenFamilies, RequestsMatchTokens, Remembered
  <1>2. sessions' = [sessions EXCEPT ![x] = [sessions[x] EXCEPT !.blocked = TRUE]]
    BY DEF LogoutBlock
  <1>3. \A s \in SessionIds : sessions'[s] = IF s \in {x} THEN [sessions[s] EXCEPT !.blocked = TRUE]
                                                         ELSE sessions[s]
    BY <1>1, <1>2 DEF Inv, TypeOK
  <1>4. sessions' \in [SessionIds -> Row \cup {NoSession}]
    BY <1>1, <1>2 DEF Inv, TypeOK, Row
  <1>5. Return(r) /\ UNCHANGED <<users, signed, renewals, clock>>
    BY DEF LogoutBlock
  <1> QED
    BY <1>1, <1>3, <1>4, <1>5, BlockingKeepsInv

(* Init establishes the invariant. *)
LEMMA InitInv == Init => Inv
  BY DurationAssumption
     DEF Init, Inv, TypeOK, TokenFamilies, StoredTokensMatch, SignedTokensHaveSessions,
         FamiliesShareRoles, RequestsMatchTokens, Remembered, Request, Idle, Times

(* Steps that touch neither sessions, nor tokens, nor requests. *)
LEMMA SurroundingsKeepInv ==
    ASSUME Inv, UNCHANGED <<sessions, signed, reqs, renewals>>,
           users' \in [Users -> [live : BOOLEAN, roles : SUBSET Roles]], clock' \in Times
    PROVE  Inv'
  BY DEF Inv, TypeOK, TokenFamilies, StoredTokensMatch, SignedTokensHaveSessions,
         FamiliesShareRoles, RequestsMatchTokens, Remembered

(* Every step keeps the invariant. *)
LEMMA NextInv == Inv /\ [Next]_vars => Inv'
  <1> SUFFICES ASSUME Inv, [Next]_vars PROVE Inv'
    OBVIOUS
  <1>1. CASE UNCHANGED vars
    BY <1>1, SurroundingsKeepInv DEF vars, Inv, TypeOK
  <1>2. ASSUME NEW r \in Requests, LoginRead(r) \/ RenewVerify(r) \/ LogoutFind(r)
        PROVE  Inv'
    BY <1>2, LoginReadKeepsInv, RenewVerifyKeepsInv, LogoutFindKeepsInv
  <1>3. ASSUME NEW r \in Requests, Proceed(r)
        PROVE  Inv'
    BY <1>3, IssueSessionKeepsInv, RenewLookupKeepsInv, RenewCheckUserKeepsInv,
       RenewRotateKeepsInv, BlockAllSessionsKeepsInv, LogoutBlockKeepsInv DEF Proceed
  <1>4. ASSUME NEW r \in Requests, Fail(r)
        PROVE  Inv'
    BY <1>4, IdleRemembers, ContinueKeepsInv DEF Fail
  <1>5. ASSUME NEW u \in Users, NEW roles \in SUBSET Roles, UserSaved(u, roles)
        PROVE  Inv'
    BY <1>5, SurroundingsKeepInv DEF UserSaved, Inv, TypeOK
  <1>6. ASSUME NEW u \in Users, UserDeleted(u)
        PROVE  Inv'
    BY <1>6, SurroundingsKeepInv DEF UserDeleted, Inv, TypeOK
  <1>7. ASSUME NEW u \in Users, NEW roles \in SUBSET Roles, RolesAssigned(u, roles)
        PROVE  Inv'
    BY <1>7, SurroundingsKeepInv DEF RolesAssigned, Inv, TypeOK
  <1>8. CASE Tick
    BY <1>8, SurroundingsKeepInv, DurationAssumption DEF Tick, Inv, TypeOK, Times
  <1> QED
    BY <1>1, <1>2, <1>3, <1>4, <1>5, <1>6, <1>7, <1>8 DEF Next

LEMMA InvHolds == Spec => []Inv
  BY InitInv, NextInv, PTL DEF Spec

(* The types hold in every reachable state. *)
THEOREM TypesHold == Spec => []TypeOK
  <1>1. Inv => TypeOK
    BY DEF Inv
  <1> QED
    BY InvHolds, <1>1, PTL

(* Sessions and refresh tokens stay one family: whatever logins, renewals and *)
(* logouts run at once, wherever a statement fails, and whatever happens to   *)
(* the users meanwhile (auth.go:184-286).                                     *)
THEOREM FamiliesHold == Spec => []TokenFamilies
  <1>1. Inv => TokenFamilies
    BY DEF Inv
  <1> QED
    BY InvHolds, <1>1, PTL

-----------------------------------------------------------------------------
(* Revocation.                                                              *)

(* A step of request r that leaves s blocked, and does not make r a renewal *)
(* of s, leaves s sealed.                                                   *)
LEMMA StillSealed ==
    ASSUME Inv, NEW s \in SessionIds, Sealed(s),
           NEW r \in Requests, NEW next, reqs' = [reqs EXCEPT ![r] = next],
           next.step \in {"checkUser", "rotate"} => signed'[next.token].sid # s,
           \A x \in Tokens : signed[x] # Unsigned => signed'[x] = signed[x],
           sessions'[s] # NoSession, sessions'[s].blocked
    PROVE  Sealed(s)'
  <1> SUFFICES ASSUME NEW q \in Requests, reqs'[q].step \in {"checkUser", "rotate"},
                      signed'[reqs'[q].token].sid = s
               PROVE  FALSE
    BY DEF Sealed, Renewing
  <1>1. reqs'[r] = next /\ (q # r => reqs'[q] = reqs[q])
    BY DEF Inv, TypeOK
  <1>2. CASE q = r
    BY <1>1, <1>2
  <1>3. CASE q # r
    <2>1. reqs[q] \in Request /\ Remembered(reqs[q]) /\ reqs'[q] = reqs[q]
      BY <1>1, <1>3 DEF Inv, TypeOK, TokenFamilies, RequestsMatchTokens
    <2>2. reqs[q].token \in Tokens /\ signed[reqs[q].token] # Unsigned
      BY <2>1, StepRecords DEF Remembered
    <2> QED
      BY <2>1, <2>2 DEF Sealed, Renewing
  <1> QED
    BY <1>2, <1>3

(* A request that only moves on, not as a renewal of s, leaves s sealed. *)
LEMMA ContinueKeepsSeal ==
    ASSUME Inv, NEW s \in SessionIds, Sealed(s), NEW r \in Requests, NEW next, Continue(r, next),
           next.step \in {"checkUser", "rotate"} => signed[next.token].sid # s
    PROVE  Sealed(s)'
  BY StillSealed DEF Continue, Sealed

LEMMA SealStep ==
    ASSUME Inv, [Next]_vars, NEW s \in SessionIds, Sealed(s)
    PROVE  Sealed(s)'
  <1>1. CASE UNCHANGED vars
    BY <1>1 DEF vars, Sealed, Renewing
  <1>2. ASSUME NEW r \in Requests, LoginRead(r)
        PROVE  Sealed(s)'
    BY <1>2, ContinueKeepsSeal DEF LoginRead
  <1>3. ASSUME NEW r \in Requests, RenewVerify(r)
        PROVE  Sealed(s)'
    BY <1>3, ContinueKeepsSeal DEF RenewVerify
  <1>4. ASSUME NEW r \in Requests, LogoutFind(r)
        PROVE  Sealed(s)'
    BY <1>4, ContinueKeepsSeal DEF LogoutFind
  <1>5. ASSUME NEW r \in Requests, IssueSession(r)
        PROVE  Sealed(s)'
    <2>1. reqs[r].user \in Users /\ reqs[r].roles \in SUBSET Roles
      BY <1>5, StepRecords DEF IssueSession, Inv, TypeOK
    <2>2. PICK x \in SessionIds, t \in Tokens :
            /\ Sign(t, x, reqs[r].user, reqs[r].roles)
            /\ Insert(x, [user |-> reqs[r].user, token |-> t, blocked |-> FALSE,
                          exp |-> clock + RefreshTokenDuration])
      BY <1>5 DEF IssueSession
    <2>3. \A y \in Tokens : signed[y] # Unsigned => signed'[y] = signed[y]
      BY <2>1, <2>2, SignKeepsSigned DEF Inv
    <2>4. sessions'[s] = sessions[s]
      BY <2>2 DEF Insert, Sealed, Inv, TypeOK
    <2>5. reqs' = [reqs EXCEPT ![r] = Idle] /\ Idle.step \notin {"checkUser", "rotate"}
      BY <1>5 DEF IssueSession, Return, Idle
    <2> QED
      BY <2>3, <2>4, <2>5, StillSealed DEF Sealed
  <1>6. ASSUME NEW r \in Requests, RenewLookup(r)
        PROVE  Sealed(s)'
    <2> DEFINE t     == reqs[r].token
               row   == sessions[signed[t].sid]
               check == [step |-> "checkUser", token |-> t, row |-> row]
               block == [step |-> "blockAll", user |-> row.user]
    <2>1. CASE Continue(r, Idle)
      BY <2>1, ContinueKeepsSeal DEF Idle
    <2>2. CASE Continue(r, block)
      BY <2>2, ContinueKeepsSeal
    <2>3. CASE ~row.blocked /\ Continue(r, check)
      BY <2>3, ContinueKeepsSeal DEF Sealed
    <2> QED
      BY <1>6, <2>1, <2>2, <2>3 DEF RenewLookup, Usable
  <1>7. ASSUME NEW r \in Requests, RenewCheckUser(r)
        PROVE  Sealed(s)'
    <2> DEFINE go    == [step |-> "rotate", token |-> reqs[r].token, row |-> reqs[r].row]
               block == [step |-> "blockAll", user |-> reqs[r].row.user]
    <2>1. CASE Continue(r, Idle)
      BY <2>1, ContinueKeepsSeal DEF Idle
    <2>2. CASE Continue(r, block)
      BY <2>2, ContinueKeepsSeal
    <2>3. CASE Continue(r, go)
      <3>1. signed[reqs[r].token].sid # s
        BY <1>7 DEF RenewCheckUser, Sealed, Renewing
      <3> QED
        BY <2>3, <3>1, ContinueKeepsSeal
    <2> QED
      BY <1>7, <2>1, <2>2, <2>3 DEF RenewCheckUser
  <1>8. ASSUME NEW r \in Requests, RenewRotate(r)
        PROVE  Sealed(s)'
    <2> DEFINE old == signed[reqs[r].token]
    <2>1. old \in Payload /\ old.sid # s
      BY <1>8, StepRecords
         DEF RenewRotate, Inv, TypeOK, TokenFamilies, RequestsMatchTokens, Remembered, Sealed, Renewing
    <2>2. PICK t \in Tokens : Sign(t, old.sid, old.user, old.roles)
      BY <1>8 DEF RenewRotate
    <2>3. \A y \in Tokens : signed[y] # Unsigned => signed'[y] = signed[y]
      BY <2>1, <2>2, SignKeepsSigned DEF Inv, Payload
    <2>4. sessions'[s] = sessions[s]
      BY <1>8, <2>1 DEF RenewRotate, Inv, TypeOK
    <2>5. reqs' = [reqs EXCEPT ![r] = Idle] /\ Idle.step \notin {"checkUser", "rotate"}
      BY <1>8 DEF RenewRotate, Return, Idle
    <2> QED
      BY <2>3, <2>4, <2>5, StillSealed DEF Sealed
  <1>9. ASSUME NEW r \in Requests, BlockAllSessions(r) \/ LogoutBlock(r)
        PROVE  Sealed(s)'
    <2>1. sessions[s] \in Row
      BY DEF Sealed, Inv, TypeOK
    <2>2. sessions'[s] = sessions[s] \/ sessions'[s] = [sessions[s] EXCEPT !.blocked = TRUE]
      BY <1>9 DEF BlockAllSessions, LogoutBlock, Inv, TypeOK
    <2>3. [sessions[s] EXCEPT !.blocked = TRUE] \in Row
      BY <2>1 DEF Row
    <2>4. sessions'[s] # NoSession /\ sessions'[s].blocked
      BY <2>1, <2>2, <2>3, SentinelAssumption DEF Sealed, Row
    <2>5. /\ reqs' = [reqs EXCEPT ![r] = Idle] /\ Idle.step \notin {"checkUser", "rotate"}
          /\ signed' = signed
      BY <1>9 DEF BlockAllSessions, LogoutBlock, Return, Idle
    <2> QED
      BY <2>4, <2>5, StillSealed
  <1>10. ASSUME NEW r \in Requests, Fail(r)
         PROVE  Sealed(s)'
    BY <1>10, ContinueKeepsSeal DEF Fail, Idle
  <1>11. CASE UNCHANGED <<sessions, signed, reqs>>
    BY <1>11 DEF Sealed, Renewing
  <1> QED
    BY <1>1, <1>2, <1>3, <1>4, <1>5, <1>6, <1>7, <1>8, <1>9, <1>10, <1>11
       DEF Next, Proceed, UserSaved, UserDeleted, RolesAssigned, Tick

(* Once a session is blocked and no renewal that read its row before is in *)
(* flight, it stays so for ever: logout and reuse detection are final up   *)
(* to the renewals already past the check of auth.go:198.                  *)
THEOREM RevocationHolds == Spec => RevocationSticks
  <1>1. Inv /\ [Next]_vars => [\A s \in SessionIds : Sealed(s) => Sealed(s)']_vars
    BY SealStep
  <1> QED
    BY InvHolds, <1>1, PTL DEF Spec, RevocationSticks

-----------------------------------------------------------------------------
(* Superseded tokens.                                                       *)

(* No step gives a session a token that was signed before: a token that is not *)
(* the session's never becomes it.                                            *)
LEMMA ReplacedKept ==
    ASSUME Inv, [Next]_vars, NEW t \in Tokens, signed[t] # Unsigned,
           sessions[signed[t].sid].token # t
    PROVE  signed'[t] = signed[t] /\ sessions'[signed[t].sid].token # t
  <1> DEFINE s == signed[t].sid
  <1>0. signed[t] \in Payload /\ s \in SessionIds /\ sessions[s] \in Row
    BY DEF Inv, TypeOK, TokenFamilies, SignedTokensHaveSessions, Payload
  <1>1. CASE UNCHANGED <<sessions, signed>>
    BY <1>1
  <1>2. ASSUME NEW r \in Requests,
               \/ LoginRead(r) \/ RenewVerify(r) \/ LogoutFind(r) \/ Fail(r)
               \/ RenewLookup(r) \/ RenewCheckUser(r)
        PROVE  UNCHANGED <<sessions, signed>>
    BY <1>2 DEF LoginRead, RenewVerify, LogoutFind, Fail, RenewLookup, RenewCheckUser, Continue
  <1>3. ASSUME NEW r \in Requests, IssueSession(r)
        PROVE  signed'[t] = signed[t] /\ sessions'[s] = sessions[s]
    <2>1. reqs[r].user \in Users /\ reqs[r].roles \in SUBSET Roles
      BY <1>3, StepRecords DEF IssueSession, Inv, TypeOK
    <2>2. PICK x \in SessionIds, n \in Tokens :
            /\ Sign(n, x, reqs[r].user, reqs[r].roles)
            /\ Insert(x, [user |-> reqs[r].user, token |-> n, blocked |-> FALSE,
                          exp |-> clock + RefreshTokenDuration])
      BY <1>3 DEF IssueSession
    <2>3. signed'[t] = signed[t]
      BY <2>1, <2>2, SignKeepsSigned DEF Inv
    <2>4. sessions'[s] = sessions[s]
      BY <2>2, <1>0, SentinelAssumption DEF Insert, Inv, TypeOK
    <2> QED
      BY <2>3, <2>4
  <1>4. ASSUME NEW r \in Requests, RenewRotate(r)
        PROVE  signed'[t] = signed[t] /\ sessions'[s].token # t
    <2> DEFINE old == signed[reqs[r].token]
    <2>1. old \in Payload
      BY <1>4, StepRecords
         DEF RenewRotate, Inv, TypeOK, TokenFamilies, RequestsMatchTokens, Remembered
    <2>2. PICK n \in Tokens :
            /\ Sign(n, old.sid, old.user, old.roles)
            /\ sessions' = [sessions EXCEPT ![old.sid] = Rotated(reqs[r].row, n)]
      BY <1>4 DEF RenewRotate
    <2>3. n # t /\ signed'[t] = signed[t]
      BY <2>1, <2>2, SignKeepsSigned DEF Inv, Payload
    <2>4. CASE s = old.sid
      <3>1. sessions'[s].token = n
        BY <1>0, <2>2, <2>4 DEF Rotated, Inv, TypeOK
      <3> QED
        BY <2>3, <3>1
    <2>5. CASE s # old.sid
      BY <1>0, <2>2, <2>3, <2>5 DEF Inv, TypeOK
    <2> QED
      BY <2>4, <2>5
  <1>5. ASSUME NEW r \in Requests, BlockAllSessions(r) \/ LogoutBlock(r)
        PROVE  signed' = signed /\ sessions'[s].token # t
    <2>1. sessions'[s] = sessions[s] \/ sessions'[s] = [sessions[s] EXCEPT !.blocked = TRUE]
      BY <1>0, <1>5 DEF BlockAllSessions, LogoutBlock, Inv, TypeOK
    <2>2. sessions'[s].token # t
      BY <1>0, <2>1 DEF Row
    <2> QED
      BY <1>5, <2>2 DEF BlockAllSessions, LogoutBlock
  <1> QED
    BY <1>1, <1>2, <1>3, <1>4, <1>5
       DEF Next, Proceed, UserSaved, UserDeleted, RolesAssigned, Tick, vars

(* A step of request r keeps t superseded when it does not make r its renewal. *)
LEMMA StillSuperseded ==
    ASSUME Inv, [Next]_vars, NEW t \in Tokens, Superseded(t),
           NEW r \in Requests, NEW next, reqs' = [reqs EXCEPT ![r] = next],
           next.step \in {"checkUser", "rotate"} => next.token # t
    PROVE  Superseded(t)'
  <1>1. \A q \in Requests : reqs'[q].step \in {"checkUser", "rotate"} => reqs'[q].token # t
    BY DEF Superseded, Inv, TypeOK
  <1>2. signed'[t] = signed[t] /\ sessions'[signed[t].sid].token # t
    BY ReplacedKept DEF Superseded
  <1> QED
    BY <1>1, <1>2 DEF Superseded

LEMMA SupersededStep ==
    ASSUME Inv, [Next]_vars, NEW t \in Tokens, Superseded(t)
    PROVE  Superseded(t)' /\ \A p \in renewals' \ renewals : p[1] # t
  <1> DEFINE Kept == Superseded(t)' /\ renewals' = renewals
  <1>1. CASE UNCHANGED <<sessions, signed, reqs, renewals>>
    BY <1>1 DEF Superseded
  <1>2. ASSUME NEW r \in Requests, NEW next, Continue(r, next),
               next.step \in {"checkUser", "rotate"} => next.token # t
        PROVE  Kept
    BY <1>2, StillSuperseded DEF Continue
  <1>3. ASSUME NEW r \in Requests, LoginRead(r) \/ RenewVerify(r) \/ LogoutFind(r) \/ Fail(r)
        PROVE  Kept
    BY <1>2, <1>3 DEF LoginRead, RenewVerify, LogoutFind, Fail, Idle
  <1>4. ASSUME NEW r \in Requests, RenewLookup(r)
        PROVE  Kept
    <2> DEFINE row   == sessions[signed[reqs[r].token].sid]
               check == [step |-> "checkUser", token |-> reqs[r].token, row |-> row]
               block == [step |-> "blockAll", user |-> row.user]
    <2>1. CASE Continue(r, Idle)
      BY <1>2, <2>1 DEF Idle
    <2>2. CASE Continue(r, block)
      BY <1>2, <2>2
    <2>3. CASE row.token = reqs[r].token /\ Continue(r, check)
      <3>1. reqs[r].token # t
        BY <2>3 DEF Superseded
      <3> QED
        BY <1>2, <2>3, <3>1
    <2> QED
      BY <1>4, <2>1, <2>2, <2>3 DEF RenewLookup
  <1>5. ASSUME NEW r \in Requests, RenewCheckUser(r)
        PROVE  Kept
    <2> DEFINE go    == [step |-> "rotate", token |-> reqs[r].token, row |-> reqs[r].row]
               block == [step |-> "blockAll", user |-> reqs[r].row.user]
    <2>1. CASE Continue(r, Idle)
      BY <1>2, <2>1 DEF Idle
    <2>2. CASE Continue(r, block)
      BY <1>2, <2>2
    <2>3. CASE Continue(r, go)
      <3>1. reqs[r].token # t
        BY <1>5 DEF RenewCheckUser, Superseded
      <3> QED
        BY <1>2, <2>3, <3>1
    <2> QED
      BY <1>5, <2>1, <2>2, <2>3 DEF RenewCheckUser
  <1>6. ASSUME NEW r \in Requests, Return(r)
        PROVE  Superseded(t)'
    BY <1>6, StillSuperseded DEF Return, Idle
  <1>7. ASSUME NEW r \in Requests, IssueSession(r) \/ BlockAllSessions(r) \/ LogoutBlock(r)
        PROVE  Kept
    BY <1>6, <1>7 DEF IssueSession, BlockAllSessions, LogoutBlock
  <1>8. ASSUME NEW r \in Requests, RenewRotate(r)
        PROVE  Superseded(t)' /\ \A p \in renewals' \ renewals : p[1] # t
    <2>1. reqs[r].token # t
      BY <1>8 DEF RenewRotate, Superseded
    <2>2. \E n : renewals' = renewals \cup {<<reqs[r].token, n>>}
      BY <1>8 DEF RenewRotate
    <2> QED
      BY <1>6, <1>8, <2>1, <2>2 DEF RenewRotate
  <1> QED
    BY <1>1, <1>3, <1>4, <1>5, <1>7, <1>8
       DEF Next, Proceed, UserSaved, UserDeleted, RolesAssigned, Tick, vars

(* A token that was replaced, with no renewal in flight that read the row     *)
(* before, never becomes the session's token again and buys no renewal        *)
(* (auth.go:204, 236-245), however many renewals run at once.                 *)
THEOREM SupersededHolds == Spec => SupersededBuysNothing
  <1>1. Inv /\ [Next]_vars =>
          [\A t \in Tokens : Superseded(t) =>
             Superseded(t)' /\ \A p \in renewals' \ renewals : p[1] # t]_vars
    BY SupersededStep
  <1> QED
    BY InvHolds, <1>1, PTL DEF Spec, SupersededBuysNothing

(* Once a renewal has succeeded the token it presented is not the session's any *)
(* more.                                                                        *)
RenewedIsReplaced ==
    \A p \in renewals : signed[p[1]] # Unsigned /\ sessions[signed[p[1]].sid].token # p[1]

LEMMA ReplacedStep == Inv /\ RenewedIsReplaced /\ [Next]_vars => RenewedIsReplaced'
  <1> SUFFICES ASSUME Inv, RenewedIsReplaced, [Next]_vars, NEW p \in renewals'
               PROVE  signed'[p[1]] # Unsigned /\ sessions'[signed'[p[1]].sid].token # p[1]
    BY DEF RenewedIsReplaced
  <1>1. CASE p \in renewals
    <2> DEFINE t == p[1]
               s == signed[t].sid
    <2>1. t \in Tokens /\ signed[t] # Unsigned /\ sessions[s].token # t
      BY <1>1 DEF RenewedIsReplaced, Inv, TypeOK
    <2>2. signed[t] \in Payload /\ s \in SessionIds /\ sessions[s] \in Row
      BY <2>1 DEF Inv, TypeOK, TokenFamilies, SignedTokensHaveSessions, Payload
    <2> HIDE DEF t
    <2>3. signed'[t] = signed[t] /\ sessions'[s].token # t
      BY <2>1, <2>2, ReplacedKept
    <2> QED
      BY <2>1, <2>3 DEF t
  <1>2. CASE p \notin renewals
    <2>1. PICK r \in Requests : RenewRotate(r)
      <3>1. \A r \in Requests :
              /\ LoginRead(r) \/ RenewVerify(r) \/ LogoutFind(r) \/ Fail(r) => UNCHANGED renewals
              /\ IssueSession(r) \/ RenewLookup(r) \/ RenewCheckUser(r) => UNCHANGED renewals
              /\ BlockAllSessions(r) \/ LogoutBlock(r) => UNCHANGED renewals
        BY DEF LoginRead, RenewVerify, LogoutFind, Fail, IssueSession, RenewLookup,
               RenewCheckUser, BlockAllSessions, LogoutBlock, Continue
      <3> QED
        BY <1>2, <3>1, Zenon DEF Next, Proceed, vars, UserSaved, UserDeleted, RolesAssigned, Tick
    <2> DEFINE t   == reqs[r].token
               old == signed[t]
    <2>2. t \in Tokens /\ old # Unsigned /\ old \in Payload /\ old.sid \in SessionIds
      BY <2>1, StepRecords
         DEF RenewRotate, Inv, TypeOK, TokenFamilies, RequestsMatchTokens, Remembered, Payload
    <2>3. PICK n \in Tokens :
            /\ Sign(n, old.sid, old.user, old.roles)
            /\ sessions' = [sessions EXCEPT ![old.sid] = Rotated(reqs[r].row, n)]
            /\ renewals' = renewals \cup {<<t, n>>}
      BY <2>1 DEF RenewRotate
    <2>4. p[1] = t
      BY <1>2, <2>3
    <2>5. n # t /\ signed'[t] = old
      BY <2>2, <2>3, SignKeepsSigned DEF Inv, Payload
    <2>6. sessions'[old.sid].token = n
      BY <2>2, <2>3 DEF Rotated, Inv, TypeOK
    <2> QED
      BY <2>2, <2>4, <2>5, <2>6
  <1> QED
    BY <1>1, <1>2

(* However many requests run at once, a refresh token that has bought one       *)
(* renewal buys another only by a renewal that had read the row before the      *)
(* first one wrote it: what SingleUse says, up to the race of auth.go:190-245.  *)
THEOREM OneRenewalEach ==
    Spec => [][\A t \in Tokens :
                 /\ \E p \in renewals : p[1] = t
                 /\ \A r \in Requests :
                      reqs[r].step \in {"checkUser", "rotate"} => reqs[r].token # t
                 => \A p \in renewals' \ renewals : p[1] # t]_vars
  <1>1. Init => RenewedIsReplaced
    BY DEF Init, RenewedIsReplaced
  <1>2. Inv /\ RenewedIsReplaced /\ [Next]_vars =>
          [\A t \in Tokens :
             /\ \E p \in renewals : p[1] = t
             /\ \A r \in Requests :
                  reqs[r].step \in {"checkUser", "rotate"} => reqs[r].token # t
             => \A p \in renewals' \ renewals : p[1] # t]_vars
    BY SupersededStep DEF RenewedIsReplaced, Superseded
  <1> QED
    BY <1>1, <1>2, InvHolds, ReplacedStep, PTL DEF Spec

-----------------------------------------------------------------------------
(* Isolation of users.                                                      *)

(* Four steps write the sessions table, each for the request that takes it. *)
LEMMA WriterOfSessions ==
    ASSUME Inv, [Next]_vars, NEW r \in Requests, reqs'[r] # reqs[r], sessions' # sessions
    PROVE  IssueSession(r) \/ RenewRotate(r) \/ BlockAllSessions(r) \/ LogoutBlock(r)
  <1>a. \A q \in Requests :
          /\ LoginRead(q) \/ RenewVerify(q) \/ LogoutFind(q) \/ Fail(q) => UNCHANGED sessions
          /\ RenewLookup(q) \/ RenewCheckUser(q) => UNCHANGED sessions
    <2> TAKE q \in Requests
    <2>1. LoginRead(q) \/ RenewVerify(q) \/ LogoutFind(q) \/ Fail(q) => UNCHANGED sessions
      BY Zenon DEF LoginRead, RenewVerify, LogoutFind, Fail, Continue
    <2>2. RenewLookup(q) => UNCHANGED sessions
      BY Zenon DEF RenewLookup, Continue
    <2>3. RenewCheckUser(q) => UNCHANGED sessions
      BY Zenon DEF RenewCheckUser, Continue
    <2> QED
      BY <2>1, <2>2, <2>3
  <1>1. PICK q \in Requests :
          IssueSession(q) \/ RenewRotate(q) \/ BlockAllSessions(q) \/ LogoutBlock(q)
    BY <1>a, Zenon DEF Next, Proceed, vars, UserSaved, UserDeleted, RolesAssigned, Tick
  <1>2. reqs' = [reqs EXCEPT ![q] = Idle]
    BY <1>1 DEF IssueSession, RenewRotate, BlockAllSessions, LogoutBlock, Return
  <1>3. q = r
    BY <1>2 DEF Inv, TypeOK
  <1> QED
    BY <1>1, <1>3

(* The row a step of request r changes belongs to r's user, before and after. *)
LEMMA IsolationStep ==
    ASSUME Inv, [Next]_vars, NEW r \in Requests, NEW s \in SessionIds,
           reqs'[r] # reqs[r], sessions'[s] # sessions[s]
    PROVE  sessions'[s].user = ActsFor(r) /\ (Exists(s) => sessions[s].user = ActsFor(r))
  <1>1. reqs[r] \in Request /\ Remembered(reqs[r]) /\ sessions[s] \in Row \cup {NoSession}
    BY DEF Inv, TypeOK, TokenFamilies, RequestsMatchTokens
  <1>2. CASE IssueSession(r)
    <2>1. PICK x \in SessionIds, t \in Tokens :
            Insert(x, [user |-> reqs[r].user, token |-> t, blocked |-> FALSE,
                       exp |-> clock + RefreshTokenDuration])
      BY <1>2 DEF IssueSession
    <2>2. x = s /\ sessions[s] = NoSession /\ sessions'[s].user = reqs[r].user
      BY <2>1 DEF Insert, Inv, TypeOK
    <2> QED
      BY <1>2, <2>2 DEF ActsFor, IssueSession
  <1>3. CASE RenewRotate(r)
    <2> DEFINE old == signed[reqs[r].token]
    <2>1. reqs[r].step = "rotate" /\ reqs[r].token \in Tokens /\ old # Unsigned /\ old \in Payload
      BY <1>1, <1>3, StepRecords DEF RenewRotate, Remembered, Inv, TypeOK
    <2>2. PICK t \in Tokens : sessions' = [sessions EXCEPT ![old.sid] = Rotated(reqs[r].row, t)]
      BY <1>3 DEF RenewRotate
    <2>3. old.sid = s /\ sessions'[s].user = reqs[r].row.user
      BY <2>1, <2>2 DEF Payload, Rotated, Inv, TypeOK
    <2>4. reqs[r].row.user = old.user
      BY <1>1, <2>1 DEF Remembered
    <2>5. sessions[s].user = old.user
      BY <2>1, <2>3 DEF Inv, TokenFamilies, SignedTokensHaveSessions
    <2>6. ActsFor(r) = old.user
      BY <2>1 DEF ActsFor
    <2> QED
      BY <2>3, <2>4, <2>5, <2>6
  <1>4. CASE BlockAllSessions(r)
    <2>1. OfUser(s, reqs[r].user) /\ sessions'[s] = [sessions[s] EXCEPT !.blocked = TRUE]
      BY <1>4 DEF BlockAllSessions
    <2>2. sessions[s] \in Row /\ sessions[s].user = reqs[r].user
      BY <1>1, <2>1 DEF OfUser
    <2>3. sessions'[s].user = reqs[r].user
      BY <2>1, <2>2 DEF Row
    <2> QED
      BY <1>4, <2>2, <2>3 DEF BlockAllSessions, ActsFor
  <1>5. CASE LogoutBlock(r)
    <2>1. reqs[r].step = "block" /\ reqs[r].sid \in SessionIds
      BY <1>1, <1>5, StepRecords DEF LogoutBlock
    <2>2. reqs[r].sid = s /\ sessions'[s] = [sessions[s] EXCEPT !.blocked = TRUE]
      BY <1>5, <2>1 DEF LogoutBlock, Inv, TypeOK
    <2>3. sessions[s] \in Row
      BY <1>1, <2>1, <2>2 DEF Remembered
    <2>4. sessions'[s].user = sessions[s].user
      BY <2>2, <2>3 DEF Row
    <2> QED
      BY <2>1, <2>2, <2>4 DEF ActsFor
  <1> QED
    BY <1>2, <1>3, <1>4, <1>5, WriterOfSessions

(* A request never changes or takes over a session of another user: the     *)
(* username checks of auth.go:201 and 270 cannot fail.                       *)
THEOREM UsersAreIsolated == Spec => UserIsolation
  <1>1. Inv /\ [Next]_vars =>
          [\A r \in Requests, s \in SessionIds :
             reqs'[r] # reqs[r] /\ sessions'[s] # sessions[s]
               => /\ sessions'[s].user = ActsFor(r)
                  /\ Exists(s) => sessions[s].user = ActsFor(r)]_vars
    BY IsolationStep
  <1> QED
    BY InvHolds, <1>1, PTL DEF Spec, UserIsolation

-----------------------------------------------------------------------------
(* Changes of the user.                                                     *)

\* Request q is about to rotate session s.
Rotates(q, s) == reqs[q].step = "rotate" /\ signed[reqs[q].token].sid = s

(* A step of request r that does not set out to rotate s, and leaves the     *)
(* payloads of signed tokens alone, leaves s without a rotation to come.     *)
LEMMA NoRotation ==
    ASSUME Inv, NEW s \in SessionIds, \A q \in Requests : ~Rotates(q, s),
           NEW r \in Requests, NEW next, reqs' = [reqs EXCEPT ![r] = next],
           next.step = "rotate" => signed'[next.token].sid # s,
           \A x \in Tokens : signed[x] # Unsigned => signed'[x] = signed[x]
    PROVE  \A q \in Requests : ~Rotates(q, s)'
  <1> SUFFICES ASSUME NEW q \in Requests, reqs'[q].step = "rotate",
                      signed'[reqs'[q].token].sid = s
               PROVE  FALSE
    BY DEF Rotates
  <1>1. reqs'[r] = next /\ (q # r => reqs'[q] = reqs[q])
    BY DEF Inv, TypeOK
  <1>2. CASE q = r
    BY <1>1, <1>2
  <1>3. CASE q # r
    <2>1. reqs[q] \in Request /\ Remembered(reqs[q]) /\ reqs'[q] = reqs[q]
      BY <1>1, <1>3 DEF Inv, TypeOK, TokenFamilies, RequestsMatchTokens
    <2>2. reqs[q].token \in Tokens /\ signed[reqs[q].token] # Unsigned
      BY <2>1, StepRecords DEF Remembered
    <2> QED
      BY <2>1, <2>2 DEF Rotates
  <1> QED
    BY <1>2, <1>3

(* Moving on, to any step but the rotation of s, is such a step. *)
LEMMA ContinueWithoutRotation ==
    ASSUME Inv, NEW s \in SessionIds, \A q \in Requests : ~Rotates(q, s),
           NEW r \in Requests, NEW next, Continue(r, next),
           next.step = "rotate" => signed[next.token].sid # s
    PROVE  sessions' = sessions /\ \A q \in Requests : ~Rotates(q, s)'
  <1>1. signed' = signed /\ sessions' = sessions /\ reqs' = [reqs EXCEPT ![r] = next]
    BY DEF Continue
  <1> QED
    BY <1>1, NoRotation

(* The check of the user does not pass a token of a session that has drifted. *)
LEMMA CheckRefuses ==
    ASSUME Inv, NEW s \in SessionIds, Drifted(s), NEW r \in Requests,
           reqs[r].step = "checkUser", signed[reqs[r].token].sid = s
    PROVE  LET u == users[reqs[r].row.user]
           IN  ~(u.live /\ roleCodesEqual(u.roles, signed[reqs[r].token].roles))
  <1> DEFINE t == reqs[r].token
             c == sessions[s].token
  <1>1. reqs[r] \in Request /\ Remembered(reqs[r])
    BY DEF Inv, TypeOK, TokenFamilies, RequestsMatchTokens
  <1>2. t \in Tokens /\ signed[t] # Unsigned /\ reqs[r].row.user = signed[t].user
    BY <1>1, StepRecords DEF Remembered
  <1>3. sessions[s] \in Row /\ signed[t].user = sessions[s].user
    BY <1>2 DEF Drifted, Inv, TypeOK, TokenFamilies, SignedTokensHaveSessions
  <1>4. c \in Tokens /\ signed[c] # Unsigned /\ signed[c].sid = s
    BY <1>3 DEF Row, Drifted, Inv, TokenFamilies, StoredTokensMatch
  <1>5. signed[t].roles = signed[c].roles
    BY <1>2, <1>4 DEF Inv, TokenFamilies, FamiliesShareRoles
  <1> QED
    BY <1>2, <1>3, <1>5 DEF Drifted, roleCodesEqual

LEMMA DriftStep ==
    ASSUME Inv, [Next]_vars, NEW s \in SessionIds, Drifted(s), users' = users,
           \A q \in Requests : ~Rotates(q, s)
    PROVE  sessions'[s].token = sessions[s].token /\ \A q \in Requests : ~Rotates(q, s)'
  <1> DEFINE Kept == sessions'[s].token = sessions[s].token /\ \A q \in Requests : ~Rotates(q, s)'
  <1> SUFFICES Kept
    OBVIOUS
  <1>1. CASE UNCHANGED <<sessions, signed, reqs>>
    BY <1>1 DEF Rotates
  <1>2. ASSUME NEW r \in Requests, LoginRead(r) \/ RenewVerify(r) \/ LogoutFind(r) \/ Fail(r)
        PROVE  Kept
    <2>1. CASE LoginRead(r)
      BY <2>1, ContinueWithoutRotation DEF LoginRead
    <2>2. CASE RenewVerify(r)
      BY <2>2, ContinueWithoutRotation DEF RenewVerify
    <2>3. CASE LogoutFind(r)
      BY <2>3, ContinueWithoutRotation DEF LogoutFind
    <2>4. CASE Fail(r)
      BY <2>4, ContinueWithoutRotation DEF Fail, Idle
    <2> QED
      BY <1>2, <2>1, <2>2, <2>3, <2>4
  <1>3. ASSUME NEW r \in Requests, IssueSession(r)
        PROVE  Kept
    <2>1. reqs[r].user \in Users /\ reqs[r].roles \in SUBSET Roles
      BY <1>3, StepRecords DEF IssueSession, Inv, TypeOK
    <2>2. PICK x \in SessionIds, t \in Tokens :
            /\ Sign(t, x, reqs[r].user, reqs[r].roles)
            /\ Insert(x, [user |-> reqs[r].user, token |-> t, blocked |-> FALSE,
                          exp |-> clock + RefreshTokenDuration])
      BY <1>3 DEF IssueSession
    <2>3. \A y \in Tokens : signed[y] # Unsigned => signed'[y] = signed[y]
      BY <2>1, <2>2, SignKeepsSigned DEF Inv
    <2>4. sessions'[s] = sessions[s]
      BY <2>2 DEF Insert, Drifted, Inv, TypeOK
    <2>5. reqs' = [reqs EXCEPT ![r] = Idle] /\ Idle.step # "rotate"
      BY <1>3 DEF IssueSession, Return, Idle
    <2> QED
      BY <2>3, <2>4, <2>5, NoRotation
  <1>4. ASSUME NEW r \in Requests, RenewLookup(r)
        PROVE  Kept
    <2> DEFINE t     == reqs[r].token
               row   == sessions[signed[t].sid]
               check == [step |-> "checkUser", token |-> t, row |-> row]
               block == [step |-> "blockAll", user |-> row.user]
    <2>1. CASE Continue(r, Idle)
      BY <2>1, ContinueWithoutRotation DEF Idle
    <2>2. CASE Continue(r, block)
      BY <2>2, ContinueWithoutRotation
    <2>3. CASE Continue(r, check)
      BY <2>3, ContinueWithoutRotation
    <2> QED
      BY <1>4, <2>1, <2>2, <2>3 DEF RenewLookup
  <1>5. ASSUME NEW r \in Requests, RenewCheckUser(r)
        PROVE  Kept
    <2> DEFINE go    == [step |-> "rotate", token |-> reqs[r].token, row |-> reqs[r].row]
               block == [step |-> "blockAll", user |-> reqs[r].row.user]
               u     == users[reqs[r].row.user]
    <2>1. CASE Continue(r, Idle)
      BY <2>1, ContinueWithoutRotation DEF Idle
    <2>2. CASE Continue(r, block)
      BY <2>2, ContinueWithoutRotation
    <2>3. CASE /\ u.live /\ roleCodesEqual(u.roles, signed[reqs[r].token].roles)
               /\ Continue(r, go)
      <3>1. signed[reqs[r].token].sid # s
        BY <1>5, <2>3, CheckRefuses DEF RenewCheckUser
      <3> QED
        BY <2>3, <3>1, ContinueWithoutRotation
    <2> QED
      BY <1>5, <2>1, <2>2, <2>3 DEF RenewCheckUser
  <1>6. ASSUME NEW r \in Requests, RenewRotate(r)
        PROVE  Kept
    <2> DEFINE old == signed[reqs[r].token]
    <2>1. old \in Payload /\ old.sid # s
      BY <1>6, StepRecords
         DEF RenewRotate, Inv, TypeOK, TokenFamilies, RequestsMatchTokens, Remembered, Rotates
    <2>2. PICK t \in Tokens : Sign(t, old.sid, old.user, old.roles)
      BY <1>6 DEF RenewRotate
    <2>3. \A y \in Tokens : signed[y] # Unsigned => signed'[y] = signed[y]
      BY <2>1, <2>2, SignKeepsSigned DEF Inv, Payload
    <2>4. sessions'[s] = sessions[s]
      BY <1>6, <2>1 DEF RenewRotate, Inv, TypeOK
    <2>5. reqs' = [reqs EXCEPT ![r] = Idle] /\ Idle.step # "rotate"
      BY <1>6 DEF RenewRotate, Return, Idle
    <2> QED
      BY <2>3, <2>4, <2>5, NoRotation
  <1>7. ASSUME NEW r \in Requests, BlockAllSessions(r) \/ LogoutBlock(r)
        PROVE  Kept
    <2>1. sessions[s] \in Row
      BY DEF Drifted, Inv, TypeOK
    <2>2. sessions'[s] = sessions[s] \/ sessions'[s] = [sessions[s] EXCEPT !.blocked = TRUE]
      BY <1>7 DEF BlockAllSessions, LogoutBlock, Inv, TypeOK
    <2>3. sessions'[s].token = sessions[s].token
      BY <2>1, <2>2 DEF Row
    <2>4. /\ reqs' = [reqs EXCEPT ![r] = Idle] /\ Idle.step # "rotate"
          /\ signed' = signed
      BY <1>7 DEF BlockAllSessions, LogoutBlock, Return, Idle
    <2> QED
      BY <2>3, <2>4, NoRotation
  <1> HIDE DEF Kept
  <1> QED
    BY <1>1, <1>2, <1>3, <1>4, <1>5, <1>6, <1>7
       DEF Next, Proceed, UserSaved, UserDeleted, RolesAssigned, Tick, vars

(* While a user is gone or has other roles than a session's tokens say, the   *)
(* session is not renewed, but for a renewal already past the check of        *)
(* auth.go:222.                                                              *)
THEOREM DriftIsRefused == Spec => DriftStopsRenewal
  <1>1. Inv /\ [Next]_vars =>
          [\A s \in SessionIds :
             /\ Drifted(s) /\ users' = users
             /\ \A r \in Requests : reqs[r].step = "rotate" => signed[reqs[r].token].sid # s
             => /\ sessions'[s].token = sessions[s].token
                /\ \A r \in Requests : reqs'[r].step = "rotate" => signed'[reqs'[r].token].sid # s
          ]_vars
    BY DriftStep DEF Rotates
  <1> QED
    BY InvHolds, <1>1, PTL DEF Spec, DriftStopsRenewal

-----------------------------------------------------------------------------
(* Punishing a reuse.  ReuseIsPunished without its fairness: once a renewal  *)
(* has decided to block the sessions of a user, each of them waits for that  *)
(* step until it is blocked, and the step itself blocks it.                  *)

(* The session s is among those that the request r is about to block. *)
BlockingDue(r, s) ==
    reqs[r].step = "blockAll" /\ Exists(s) /\ sessions[s].user = reqs[r].user

(* A row is never removed, and never handed to another user. *)
LEMMA RowStays ==
    ASSUME Inv, [Next]_vars, NEW s \in SessionIds, Exists(s)
    PROVE  Exists(s)' /\ sessions'[s].user = sessions[s].user
  <1> DEFINE Stays == Exists(s)' /\ sessions'[s].user = sessions[s].user
  <1>0. sessions[s] \in Row
    BY DEF Inv, TypeOK, Exists
  <1>1. CASE UNCHANGED sessions
    BY <1>1 DEF Exists
  <1>2. ASSUME NEW r \in Requests,
               \/ LoginRead(r) \/ RenewVerify(r) \/ LogoutFind(r) \/ Fail(r)
               \/ RenewLookup(r) \/ RenewCheckUser(r)
        PROVE  UNCHANGED sessions
    BY <1>2 DEF LoginRead, RenewVerify, LogoutFind, Fail, RenewLookup, RenewCheckUser, Continue
  <1>3. ASSUME NEW r \in Requests, IssueSession(r)
        PROVE  Stays
    <2>1. PICK x \in SessionIds, n \in Tokens :
            Insert(x, [user |-> reqs[r].user, token |-> n, blocked |-> FALSE,
                       exp |-> clock + RefreshTokenDuration])
      BY <1>3 DEF IssueSession
    <2>2. sessions'[s] = sessions[s]
      BY <2>1 DEF Insert, Exists, Inv, TypeOK
    <2> QED
      BY <2>2 DEF Exists
  <1>4. ASSUME NEW r \in Requests, RenewRotate(r)
        PROVE  Stays
    <2> DEFINE old == signed[reqs[r].token]
    <2>1. /\ reqs[r].token \in Tokens /\ reqs[r].row \in Row /\ Remembered(reqs[r])
          /\ old \in Payload
      BY <1>4, StepRecords
         DEF RenewRotate, Inv, TypeOK, TokenFamilies, RequestsMatchTokens, Remembered
    <2>2. PICK n \in Tokens : sessions' = [sessions EXCEPT ![old.sid] = Rotated(reqs[r].row, n)]
      BY <1>4 DEF RenewRotate
    <2>3. CASE s = old.sid
      <3>1. sessions[s].user = old.user /\ reqs[r].row.user = old.user
        BY <1>4, <2>1, <2>3
           DEF RenewRotate, Remembered, Inv, TokenFamilies, SignedTokensHaveSessions
      <3>2. sessions'[s] = Rotated(reqs[r].row, n)
        BY <2>2, <2>3 DEF Inv, TypeOK
      <3>3. Rotated(reqs[r].row, n) \in Row /\ Rotated(reqs[r].row, n).user = old.user
        BY <2>1, <3>1, DurationAssumption DEF Rotated, Row, Expiries, Times, Inv, TypeOK
      <3> QED
        BY <3>1, <3>2, <3>3, SentinelAssumption DEF Exists, Row
    <2>4. CASE s # old.sid
      BY <2>2, <2>4 DEF Exists, Inv, TypeOK
    <2> QED
      BY <2>3, <2>4
  <1>5. ASSUME NEW r \in Requests, BlockAllSessions(r) \/ LogoutBlock(r)
        PROVE  Stays
    <2>1. sessions'[s] = sessions[s] \/ sessions'[s] = [sessions[s] EXCEPT !.blocked = TRUE]
      BY <1>5 DEF BlockAllSessions, LogoutBlock, Inv, TypeOK
    <2>2. [sessions[s] EXCEPT !.blocked = TRUE] \in Row
      BY <1>0 DEF Row
    <2> QED
      BY <1>0, <2>1, <2>2, SentinelAssumption DEF Exists, Row
  <1> QED
    BY <1>1, <1>2, <1>3, <1>4, <1>5
       DEF Next, Proceed, UserSaved, UserDeleted, RolesAssigned, Tick, vars

(* A request that is to block sessions does nothing else, unless it fails. *)
LEMMA BlockingWaits ==
    ASSUME Inv, [Next]_vars, NEW r \in Requests, reqs[r].step = "blockAll"
    PROVE  reqs'[r] = reqs[r] \/ BlockAllSessions(r) \/ Fail(r)
  <1>1. ASSUME NEW q \in Requests,
               \/ LoginRead(q) \/ RenewVerify(q) \/ LogoutFind(q) \/ Fail(q) \/ Proceed(q)
        PROVE  \E next : reqs' = [reqs EXCEPT ![q] = next]
    BY <1>1 DEF LoginRead, RenewVerify, LogoutFind, Fail, Proceed, IssueSession, RenewLookup,
                RenewCheckUser, RenewRotate, BlockAllSessions, LogoutBlock, Continue, Return
  <1>2. ASSUME \/ LoginRead(r) \/ RenewVerify(r) \/ LogoutFind(r) \/ Proceed(r)
        PROVE  BlockAllSessions(r)
    BY <1>2 DEF LoginRead, RenewVerify, LogoutFind, Proceed, IssueSession, RenewLookup,
                RenewCheckUser, RenewRotate, LogoutBlock, Idle
  <1>3. ASSUME NEW q \in Requests, q # r,
               \/ LoginRead(q) \/ RenewVerify(q) \/ LogoutFind(q) \/ Fail(q) \/ Proceed(q)
        PROVE  reqs'[r] = reqs[r]
    BY <1>1, <1>3 DEF Inv, TypeOK
  <1> QED
    BY <1>2, <1>3 DEF Next, UserSaved, UserDeleted, RolesAssigned, Tick, vars

LEMMA BlockingDone ==
    ASSUME Inv, NEW r \in Requests, NEW s \in SessionIds, BlockingDue(r, s), BlockAllSessions(r)
    PROVE  Exists(s)' /\ sessions'[s].blocked
  <1>1. sessions[s] \in Row
    BY DEF Inv, TypeOK, BlockingDue, Exists
  <1>2. sessions'[s] = [sessions[s] EXCEPT !.blocked = TRUE]
    BY DEF BlockAllSessions, OfUser, BlockingDue
  <1>3. [sessions[s] EXCEPT !.blocked = TRUE] \in Row
    BY <1>1 DEF Row
  <1>4. [sessions[s] EXCEPT !.blocked = TRUE].blocked
    BY <1>1 DEF Row
  <1> QED
    BY <1>2, <1>3, <1>4, SentinelAssumption DEF Exists, Row

(* What was announced stays announced, for every session the user has by then, *)
(* until the sessions are blocked or the statement fails; no other request, no *)
(* change of the user and no rotation takes it back (auth.go:204-208, 222-226). *)
THEOREM PunishmentWaits ==
    Spec => [][\A r \in Requests, s \in SessionIds :
                 BlockingDue(r, s) => \/ BlockingDue(r, s)' \/ Fail(r)
                                      \/ BlockAllSessions(r) /\ (Exists(s) /\ sessions[s].blocked)']_vars
  <1>1. Inv /\ [Next]_vars =>
          [\A r \in Requests, s \in SessionIds :
             BlockingDue(r, s) => \/ BlockingDue(r, s)' \/ Fail(r)
                                  \/ BlockAllSessions(r) /\ (Exists(s) /\ sessions[s].blocked)']_vars
    <2> SUFFICES ASSUME Inv, [Next]_vars, NEW r \in Requests, NEW s \in SessionIds,
                        BlockingDue(r, s)
                 PROVE  \/ BlockingDue(r, s)' \/ Fail(r)
                        \/ BlockAllSessions(r) /\ (Exists(s) /\ sessions[s].blocked)'
      OBVIOUS
    <2>1. reqs'[r] = reqs[r] \/ BlockAllSessions(r) \/ Fail(r)
      BY BlockingWaits DEF BlockingDue
    <2>2. CASE reqs'[r] = reqs[r]
      BY <2>2, RowStays DEF BlockingDue
    <2>3. CASE BlockAllSessions(r)
      BY <2>3, BlockingDone
    <2> QED
      BY <2>1, <2>2, <2>3
  <1> QED
    BY InvHolds, <1>1, PTL DEF Spec

-----------------------------------------------------------------------------
(* Refinement: SessionService implements SessionLifecycle.                  *)

LEMMA LifecycleInit == Init => Lifecycle!Init
  BY DEF Init, Lifecycle!Init, sessionStatus, currentToken, issuedTokens

(* A step that inserts no row and replaces no token is a Revoke, possibly of *)
(* no session at all.                                                        *)
LEMMA RevokeStep ==
    ASSUME UNCHANGED signed, sealed \subseteq sealed',
           \A s \in SessionIds : /\ sessions[s] = NoSession <=> sessions'[s] = NoSession
                                 /\ sessions[s] # NoSession => sessions'[s].token = sessions[s].token
    PROVE  Lifecycle!Next
  <1> DEFINE S == sealed' \ sealed
  <1>1. \A s \in S : s \in SessionIds /\ sessionStatus[s] = "open"
    BY DEF sealed, sessionStatus, Sealed
  <1>2. \A s \in SessionIds : sessionStatus'[s] = IF s \in S THEN "revoked" ELSE sessionStatus[s]
    BY DEF sessionStatus, sealed, Sealed
  <1>3. sessionStatus' = [s \in SessionIds |-> IF s \in S THEN "revoked" ELSE sessionStatus[s]]
    BY <1>2 DEF sessionStatus
  <1>4. currentToken' = currentToken /\ issuedTokens' = issuedTokens
    BY DEF currentToken, issuedTokens
  <1>5. Lifecycle!Revoke(S)
    BY <1>1, <1>3, <1>4 DEF Lifecycle!Revoke
  <1>6. S \in SUBSET SessionIds
    BY <1>1
  <1> QED
    BY <1>5, <1>6 DEF Lifecycle!Next

(* A step of r that writes only row s and gives it a fresh token changes the *)
(* standing of no other session.                                             *)
LEMMA OthersKeepStanding ==
    ASSUME Inv, NEW r \in Requests, Return(r), NEW s \in SessionIds, NEW x \in SessionIds, x # s,
           sessions'[x] = sessions[x],
           \A t \in Tokens : signed[t] # Unsigned => signed'[t] = signed[t],
           reqs[r].step \in {"checkUser", "rotate"} => signed[reqs[r].token].sid = s
    PROVE  Sealed(x)' <=> Sealed(x)
  <1>1. /\ reqs'[r] = Idle
        /\ \A q \in Requests : q # r => reqs'[q] = reqs[q]
    BY DEF Return, Inv, TypeOK
  <1>2. \A q \in Requests : reqs[q].step \in {"checkUser", "rotate"} =>
          reqs[q].token \in Tokens /\ signed[reqs[q].token] # Unsigned
    BY StepRecords DEF Inv, TypeOK, TokenFamilies, RequestsMatchTokens, Remembered
  <1>3. Renewing(x)' <=> Renewing(x)
    BY <1>1, <1>2 DEF Renewing, Idle
  <1> QED
    BY <1>3 DEF Sealed

LEMMA OpenStep ==
    ASSUME Inv, NEW r \in Requests, IssueSession(r)
    PROVE  Lifecycle!Next
  <1>1. reqs[r].user \in Users /\ reqs[r].roles \in SUBSET Roles
    BY StepRecords DEF IssueSession, Inv, TypeOK
  <1> PICK s \in SessionIds, t \in Tokens :
        /\ Sign(t, s, reqs[r].user, reqs[r].roles)
        /\ Insert(s, [user |-> reqs[r].user, token |-> t, blocked |-> FALSE,
                      exp |-> clock + RefreshTokenDuration])
    BY DEF IssueSession
  <1> DEFINE row == [user |-> reqs[r].user, token |-> t, blocked |-> FALSE,
                     exp |-> clock + RefreshTokenDuration]
  <1>2. row \in Row /\ row # NoSession /\ row.token = t /\ row.blocked = FALSE
    BY <1>1, RowTyped, SentinelAssumption DEF Inv
  <1>3. /\ signed[t] = Unsigned /\ signed'[t] # Unsigned
        /\ \A x \in Tokens : signed[x] # Unsigned => signed'[x] = signed[x]
        /\ \A x \in Tokens : x # t => signed'[x] = signed[x]
    BY <1>1, SignKeepsSigned DEF Inv
  <1>4. /\ sessions[s] = NoSession /\ sessions'[s] = row
        /\ \A x \in SessionIds : x # s => sessions'[x] = sessions[x]
    BY DEF Insert, Inv, TypeOK
  <1>5. ~Sealed(s)' /\ ~Sealed(s)
    BY <1>2, <1>4 DEF Sealed
  <1>6. \A x \in SessionIds : x # s => (Sealed(x)' <=> Sealed(x))
    BY <1>3, <1>4, OthersKeepStanding DEF IssueSession
  <1> HIDE DEF row
  <1>7. sessionStatus[s] = "none" /\ sessionStatus' = [sessionStatus EXCEPT ![s] = "open"]
    BY <1>2, <1>4, <1>5, <1>6 DEF sessionStatus, sealed
  <1>8. currentToken' = [currentToken EXCEPT ![s] = t]
    BY <1>2, <1>4 DEF currentToken
  <1>9. t \notin issuedTokens /\ issuedTokens' = issuedTokens \cup {t}
    BY <1>3 DEF issuedTokens
  <1>10. Lifecycle!Open(s, t)
    BY <1>7, <1>8, <1>9 DEF Lifecycle!Open, Lifecycle!Grant
  <1> QED
    BY <1>10 DEF Lifecycle!Next

(* Changing one entry of a function. *)
LEMMA UpdateOne ==
    ASSUME NEW D, NEW f, NEW g, f = [x \in D |-> f[x]], g = [x \in D |-> g[x]],
           NEW s \in D, NEW t, \A x \in D : g[x] = IF x = s THEN t ELSE f[x]
    PROVE  g = [f EXCEPT ![s] = t]
  OBVIOUS

LEMMA RotateStep ==
    ASSUME Inv, NEW r \in Requests, RenewRotate(r)
    PROVE  Lifecycle!Next
  <1> DEFINE old == signed[reqs[r].token]
  <1>1. /\ reqs[r].token \in Tokens /\ old \in Payload /\ old # Unsigned
        /\ reqs[r].row = [user |-> old.user, token |-> reqs[r].token,
                          blocked |-> FALSE, exp |-> old.exp]
    BY StepRecords DEF RenewRotate, Inv, TypeOK, TokenFamilies, RequestsMatchTokens, Remembered
  <1> PICK s \in SessionIds : s = old.sid
    BY <1>1 DEF Payload
  <1>2. old.user \in Users /\ old.roles \in SUBSET Roles
    BY <1>1 DEF Payload
  <1> PICK t \in Tokens :
        /\ Sign(t, s, old.user, old.roles)
        /\ sessions' = [sessions EXCEPT ![s] = Rotated(reqs[r].row, t)]
    BY DEF RenewRotate
  <1> DEFINE row == [user |-> old.user, token |-> t, blocked |-> FALSE,
                     exp |-> clock + RefreshTokenDuration]
  <1>3. row \in Row /\ row # NoSession /\ row.token = t /\ row.blocked = FALSE
    BY <1>2, RowTyped, SentinelAssumption DEF Inv
  <1>4. /\ signed[t] = Unsigned /\ signed'[t] # Unsigned
        /\ \A x \in Tokens : signed[x] # Unsigned => signed'[x] = signed[x]
        /\ \A x \in Tokens : x # t => signed'[x] = signed[x]
    BY <1>2, SignKeepsSigned DEF Inv
  <1>5. sessions'[s] = row /\ \A x \in SessionIds : x # s => sessions'[x] = sessions[x]
    <2>1. Rotated(reqs[r].row, t) = row
      BY <1>1 DEF Rotated
    <2> QED
      BY <1>2, <2>1 DEF Inv, TypeOK
  <1>6. sessions[s] # NoSession
    BY <1>1, <1>2 DEF Inv, TokenFamilies, SignedTokensHaveSessions
  <1>7. ~Sealed(s)
    BY <1>1 DEF RenewRotate, Sealed, Renewing
  <1>8. ~Sealed(s)'
    BY <1>3, <1>5 DEF Sealed
  <1>9. \A x \in SessionIds : x # s => (Sealed(x)' <=> Sealed(x))
    BY <1>2, <1>4, <1>5, OthersKeepStanding DEF RenewRotate
  <1> HIDE DEF row
  <1>10. sessionStatus[s] = "open" /\ sessionStatus' = sessionStatus
    BY <1>3, <1>5, <1>6, <1>7, <1>8, <1>9 DEF sessionStatus, sealed
  <1>11. currentToken' = [currentToken EXCEPT ![s] = t]
    <2>1. sessions'[s] # NoSession /\ sessions'[s].token = t
      BY <1>3, <1>5
    <2>2. \A x \in SessionIds : x # s => sessions'[x] = sessions[x]
      BY <1>5
    <2>3. \A x \in SessionIds : currentToken'[x] = IF x = s THEN t ELSE currentToken[x]
      BY <2>1, <2>2 DEF currentToken
    <2>4. /\ currentToken = [x \in SessionIds |-> currentToken[x]]
          /\ currentToken' = [x \in SessionIds |-> currentToken'[x]]
      BY DEF currentToken
    <2> QED
      BY <2>3, <2>4, UpdateOne
  <1>12. t \notin issuedTokens /\ issuedTokens' = issuedTokens \cup {t}
    BY <1>4 DEF issuedTokens
  <1>13. Lifecycle!Rotate(s, t)
    BY <1>10, <1>11, <1>12 DEF Lifecycle!Rotate, Lifecycle!Grant
  <1> QED
    BY <1>13 DEF Lifecycle!Next

(* Every other step inserts no row and replaces no token. *)
LEMMA RowsKept ==
    ASSUME Inv, [Next]_vars,
           \A r \in Requests : ~IssueSession(r) /\ ~RenewRotate(r)
    PROVE  /\ UNCHANGED signed
           /\ \A s \in SessionIds :
                /\ sessions[s] = NoSession <=> sessions'[s] = NoSession
                /\ sessions[s] # NoSession => sessions'[s].token = sessions[s].token
  <1>1. CASE UNCHANGED <<sessions, signed>>
    BY <1>1
  <1>2. ASSUME NEW r \in Requests, BlockAllSessions(r) \/ LogoutBlock(r)
        PROVE  /\ UNCHANGED signed
               /\ \A s \in SessionIds :
                    /\ sessions[s] = NoSession <=> sessions'[s] = NoSession
                    /\ sessions[s] # NoSession => sessions'[s].token = sessions[s].token
    <2>1. \A s \in SessionIds : sessions[s] # NoSession =>
            [sessions[s] EXCEPT !.blocked = TRUE] \in Row
            /\ [sessions[s] EXCEPT !.blocked = TRUE].token = sessions[s].token
      BY DEF Inv, TypeOK, Row
    <2>2. CASE BlockAllSessions(r)
      BY <2>1, <2>2, SentinelAssumption DEF BlockAllSessions, OfUser
    <2>3. CASE LogoutBlock(r)
      <3>1. reqs[r].sid \in SessionIds /\ sessions[reqs[r].sid] # NoSession
        BY <2>3, StepRecords DEF LogoutBlock, Inv, TypeOK, TokenFamilies, RequestsMatchTokens, Remembered
      <3> QED
        BY <2>1, <2>3, <3>1, SentinelAssumption DEF LogoutBlock, Inv, TypeOK
    <2> QED
      BY <1>2, <2>2, <2>3
  <1> QED
    BY <1>1, <1>2 DEF Next, Proceed, vars, Continue, LoginRead, RenewVerify, LogoutFind,
       RenewLookup, RenewCheckUser, Fail, UserSaved, UserDeleted, RolesAssigned, Tick

LEMMA LifecycleStep == Inv /\ [Next]_vars => Lifecycle!Next
  <1> SUFFICES ASSUME Inv, [Next]_vars PROVE Lifecycle!Next
    OBVIOUS
  <1>1. CASE \E r \in Requests : IssueSession(r)
    BY <1>1, OpenStep
  <1>2. CASE \E r \in Requests : RenewRotate(r)
    BY <1>2, RotateStep
  <1>3. CASE \A r \in Requests : ~IssueSession(r) /\ ~RenewRotate(r)
    <2>1. sealed \subseteq sealed'
      BY SealStep DEF sealed
    <2> QED
      BY <1>3, <2>1, RowsKept, RevokeStep
  <1> QED
    BY <1>1, <1>2, <1>3

(* Whatever the interleaving, the service is an implementation of the session *)
(* lifecycle: a session opens once, every rotation is to a token never seen   *)
(* before, and a revoked session is never rotated again.                      *)
THEOREM LifecycleImplemented == Spec => ImplementsLifecycle
  BY InvHolds, LifecycleInit, LifecycleStep, PTL DEF Spec, ImplementsLifecycle, Lifecycle!Spec

=============================================================================
