--------------------------- MODULE UserApiProofs ---------------------------
(***************************************************************************)
(* Proofs about UserApi, for any users, roles, requests and lifetimes.     *)
(* Inv joins the types, AdminNeedsAdmin and Assigning: a gRPC call assigns  *)
(* roles to the row it inserted.  The two action properties follow from    *)
(* one step taken in a state of Inv: what matters is what the request of   *)
(* that step carries, so both are restated request by request (Concerns,   *)
(* Fits).                                                                  *)
(***************************************************************************)
EXTENDS UserApi, TLAPS

\* A request has no admin role, to write or to act with.
CleanRequest(q) ==
    /\ q.step \in {"assign", "issue", "restore", "create", "update", "save"} => Admin \notin q.roles
    /\ q.step \in {"create", "update", "save", "delete"} => Admin \notin q.as.roles

\* The row that a gRPC call assigns roles to is there: no row ever goes away.
Assigning == \A r \in Requests : reqs[r].step = "assign" => Stored(reqs[r].user)

Inv == TypeOK /\ Assigning /\ AdminNeedsAdmin

-----------------------------------------------------------------------------
(* What a request carries at each of its steps.                            *)

\* The step a request is at tells which fields it has, and their types.
LEMMA Carries ==
    ASSUME NEW q \in Request
    PROVE  /\ q.step \in {"idle", "assign", "issue", "restore", "create", "update", "save", "delete"}
           /\ q.step = "idle" => q = Idle
           /\ q.step = "assign" => q \in ToAssign
           /\ q.step \in {"issue", "restore"} => q \in ToIssue
           /\ q.step = "create" => q \in ToCreate
           /\ q.step \in {"update", "save"} => q \in ToUpdate
           /\ q.step = "delete" => q \in ToDelete
  BY DEF Request, Idle, ToAssign, ToIssue, ToCreate, ToUpdate, ToDelete

\* A request that leaves the tables alone keeps the types.
LEMMA ContinueTypes ==
    ASSUME TypeOK, NEW r \in Requests, NEW next \in Request, Continue(r, next)
    PROVE  TypeOK'
  BY DEF TypeOK, Continue, Become

\* So does one that writes a row.
LEMMA WriteTypes ==
    ASSUME TypeOK, NEW r \in Requests, NEW next \in Request,
           NEW u \in Users, NEW row \in Row, Write(r, u, row, next), seeded' \in BOOLEAN
    PROVE  TypeOK'
  BY DEF TypeOK, Write, Become

\* A stored row is a row.
LEMMA StoredRow == ASSUME TypeOK, NEW u \in Users, Stored(u) PROVE users[u] \in Row
  BY DEF TypeOK, Stored

-----------------------------------------------------------------------------
(* Types.                                                                  *)

LEMMA TypesInit == Init => TypeOK
<1> SUFFICES ASSUME Init PROVE TypeOK
  OBVIOUS
<1>1. Idle \in Request
  BY DEF Request
<1>2. users \in [Users -> Row \cup {None}] /\ tokens \subseteq Payload
  BY DEF Init
<1>3. reqs \in [Requests -> Request]
  BY <1>1 DEF Init
<1>4. clock \in 0 .. MaxClock
  BY TimeAssumption DEF Init
<1>5. seeded \in BOOLEAN
  BY DEF Init
<1> QED
  BY <1>2, <1>3, <1>4, <1>5 DEF TypeOK

\* Every step of a request but IssueTokens goes on to a request of its type,
\* and if it writes a row, to a row of its type.
Shape ==
    \E r \in Requests, next \in Request :
      \/ Continue(r, next)
      \/ \E u \in Users, row \in Row : Write(r, u, row, next) /\ seeded' \in BOOLEAN

LEMMA ContinueShape ==
    ASSUME NEW r \in Requests, NEW next \in Request, Continue(r, next)
    PROVE  Shape
  BY DEF Shape

LEMMA WriteShape ==
    ASSUME NEW r \in Requests, NEW next \in Request, NEW u \in Users, NEW row \in Row,
           Write(r, u, row, next), seeded' \in BOOLEAN
    PROVE  Shape
  BY DEF Shape

LEMMA ShapeOfSteps ==
    ASSUME TypeOK, Assigning, Next
    PROVE  Shape \/ Tick \/ \E r \in Requests : IssueTokens(r)
<1>idle. Idle \in Request
  BY DEF Request
<1>new. NewUser \in Row
  BY RolesAssumption DEF Row, NewUser
<1>seeded. seeded \in BOOLEAN
  BY DEF TypeOK
<1>token. \A p \in tokens : p \in Payload
  BY DEF TypeOK
<1>1. ASSUME NEW r \in Requests, Register(r) PROVE Shape
  BY <1>1, <1>idle, <1>new, <1>seeded, WriteShape DEF Register
<1>2. ASSUME NEW r \in Requests, GrpcCreateUser(r) PROVE Shape
  <2> PICK u \in Users, roles \in RoleSets :
        /\ Write(r, u, [live |-> TRUE, roles |-> {}],
                 [step |-> "assign", user |-> u, roles |-> roles])
        /\ seeded' = (seeded \/ Admin \in roles)
    BY <1>2 DEF GrpcCreateUser
  <2>1. [live |-> TRUE, roles |-> {}] \in Row
    BY DEF Row
  <2>2. [step |-> "assign", user |-> u, roles |-> roles] \in Request
    BY DEF Request, ToAssign
  <2>3. seeded' \in BOOLEAN
    BY <1>seeded
  <2> QED
    BY <2>1, <2>2, <2>3, WriteShape
<1>3. ASSUME NEW r \in Requests, GrpcAssignRoles(r) PROVE Shape
  <2> DEFINE u == reqs[r].user
             row == [users[u] EXCEPT !.roles = reqs[r].roles]
  <2>1. reqs[r] \in ToAssign
    BY <1>3, Carries DEF GrpcAssignRoles, TypeOK
  <2>2. u \in Users /\ reqs[r].roles \in SUBSET Roles
    BY <2>1 DEF ToAssign, RoleSets
  <2>3. users[u] \in Row
    BY <1>3, <2>2, StoredRow DEF Assigning, GrpcAssignRoles
  <2>4. row \in Row
    BY <2>2, <2>3 DEF Row
  <2>5. Write(r, u, row, Idle) /\ seeded' = seeded
    BY <1>3 DEF GrpcAssignRoles
  <2> HIDE DEF row, u
  <2> QED
    BY <1>idle, <1>seeded, <2>2, <2>4, <2>5, WriteShape
<1>4. ASSUME NEW r \in Requests, OAuthSignUp(r) PROVE Shape
  <2> PICK u \in Users :
        Write(r, u, NewUser, [step |-> "issue", user |-> u, roles |-> {UserRole}])
    BY <1>4 DEF OAuthSignUp
  <2>1. [step |-> "issue", user |-> u, roles |-> {UserRole}] \in Request
    BY RolesAssumption DEF Request, ToIssue
  <2>2. seeded' \in BOOLEAN
    BY <1>4, <1>seeded DEF OAuthSignUp
  <2> QED
    BY <1>new, <2>1, <2>2, WriteShape
<1>5. ASSUME NEW r \in Requests, OAuthRead(r) PROVE Shape
  <2> PICK u \in Users :
        /\ Stored(u)
        /\ Continue(r, [step |-> "restore", user |-> u, roles |-> users[u].roles])
    BY <1>5 DEF OAuthRead
  <2>1. [step |-> "restore", user |-> u, roles |-> users[u].roles] \in Request
    BY StoredRow DEF Row, Request, ToIssue
  <2> QED
    BY <2>1, ContinueShape
<1>6. ASSUME NEW r \in Requests, OAuthRestore(r) PROVE Shape
  <2>1. reqs[r] \in ToIssue
    BY <1>6, Carries DEF OAuthRestore, TypeOK
  <2>2. [live |-> TRUE, roles |-> reqs[r].roles] \in Row /\ reqs[r].user \in Users
    BY <2>1 DEF ToIssue, Row
  <2>3. [reqs[r] EXCEPT !.step = "issue"] \in Request
    BY <2>1 DEF ToIssue, Request
  <2> QED
    BY <1>6, <1>seeded, <2>2, <2>3, WriteShape DEF OAuthRestore
<1>7. ASSUME NEW r \in Requests, LoginUser(r) PROVE Shape
  <2> PICK u \in Users :
        Live(u) /\ Continue(r, [step |-> "issue", user |-> u, roles |-> users[u].roles])
    BY <1>7 DEF LoginUser
  <2>1. [step |-> "issue", user |-> u, roles |-> users[u].roles] \in Request
    BY StoredRow DEF Row, Request, ToIssue, Live
  <2> QED
    BY <2>1, ContinueShape
<1>8. ASSUME NEW r \in Requests, CreateUser(r) PROVE Shape
  <2> PICK p \in tokens, roles \in RoleSets :
        Continue(r, [step |-> "create", as |-> p, roles |-> roles])
    BY <1>8 DEF CreateUser
  <2>1. [step |-> "create", as |-> p, roles |-> roles] \in Request
    BY <1>token DEF Request, ToCreate
  <2> QED
    BY <2>1, ContinueShape
<1>9. ASSUME NEW r \in Requests, CreateCommit(r) PROVE Shape
  <2>1. reqs[r] \in ToCreate
    BY <1>9, Carries DEF CreateCommit, TypeOK
  <2>2. [live |-> TRUE, roles |-> reqs[r].roles] \in Row
    BY <2>1 DEF ToCreate, RoleSets, Row
  <2> QED
    BY <1>9, <1>idle, <1>seeded, <2>2, WriteShape DEF CreateCommit
<1>10. ASSUME NEW r \in Requests, UpdateUser(r) PROVE Shape
  <2> PICK p \in tokens, u \in Users, roles \in RoleSets :
        Continue(r, [step |-> "update", as |-> p, user |-> u, roles |-> roles])
    BY <1>10 DEF UpdateUser
  <2>1. [step |-> "update", as |-> p, user |-> u, roles |-> roles] \in Request
    BY <1>token DEF Request, ToUpdate
  <2> QED
    BY <2>1, ContinueShape
<1>11. ASSUME NEW r \in Requests, UpdateRead(r) PROVE Shape
  <2>1. reqs[r] \in ToUpdate
    BY <1>11, Carries DEF UpdateRead, TypeOK
  <2>2. [reqs[r] EXCEPT !.step = "save"] \in Request
    BY <2>1 DEF ToUpdate, Request
  <2> QED
    BY <1>11, <1>idle, <2>2, ContinueShape DEF UpdateRead
<1>12. ASSUME NEW r \in Requests, UpdateCommit(r) PROVE Shape
  <2>1. reqs[r] \in ToUpdate
    BY <1>12, Carries DEF UpdateCommit, TypeOK
  <2>2. [live |-> TRUE, roles |-> reqs[r].roles] \in Row /\ reqs[r].user \in Users
    BY <2>1 DEF ToUpdate, RoleSets, Row
  <2> QED
    BY <1>12, <1>idle, <1>seeded, <2>2, WriteShape DEF UpdateCommit
<1>13. ASSUME NEW r \in Requests, DeleteUser(r) PROVE Shape
  <2> PICK p \in tokens, u \in Users : Continue(r, [step |-> "delete", as |-> p, user |-> u])
    BY <1>13 DEF DeleteUser
  <2>1. [step |-> "delete", as |-> p, user |-> u] \in Request
    BY <1>token DEF Request, ToDelete
  <2> QED
    BY <2>1, ContinueShape
<1>14. ASSUME NEW r \in Requests, DeleteCommit(r) PROVE Shape
  <2> DEFINE u == reqs[r].user
             row == [users[u] EXCEPT !.live = FALSE]
  <2>1. reqs[r] \in ToDelete
    BY <1>14, Carries DEF DeleteCommit, TypeOK
  <2>2. u \in Users
    BY <2>1 DEF ToDelete
  <2>3. CASE Live(u) /\ Write(r, u, row, Idle) /\ UNCHANGED seeded
    <3>1. row \in Row
      BY <2>2, <2>3, StoredRow DEF Live, Row
    <3> HIDE DEF row, u
    <3> QED
      BY <1>idle, <1>seeded, <2>2, <2>3, <3>1, WriteShape
  <2>4. CASE Continue(r, Idle)
    BY <1>idle, <2>4, ContinueShape
  <2> QED
    BY <1>14, <2>3, <2>4 DEF DeleteCommit
<1>15. ASSUME NEW r \in Requests, Fail(r) PROVE Shape
  BY <1>15, <1>idle, ContinueShape DEF Fail
<1> QED
  BY <1>1, <1>2, <1>3, <1>4, <1>5, <1>6, <1>7, <1>8, <1>9, <1>10, <1>11, <1>12, <1>13,
     <1>14, <1>15 DEF Next

\* Every step keeps the types.
LEMMA TypesNext == TypeOK /\ Assigning /\ [Next]_vars => TypeOK'
<1> SUFFICES ASSUME TypeOK, Assigning, [Next]_vars PROVE TypeOK'
  OBVIOUS
<1>1. CASE Shape
  BY <1>1, ContinueTypes, WriteTypes DEF Shape
<1>2. ASSUME NEW r \in Requests, IssueTokens(r) PROVE TypeOK'
  <2>1. reqs[r] \in ToIssue
    BY <1>2, Carries DEF IssueTokens, TypeOK
  <2>2. ASSUME NEW d \in Lifetimes
        PROVE  [user |-> reqs[r].user, roles |-> reqs[r].roles, exp |-> clock + d] \in Payload
    BY <2>1, TimeAssumption DEF TypeOK, ToIssue, Payload
  <2>3. tokens' \subseteq Payload
    BY <1>2, <2>2 DEF IssueTokens, TypeOK
  <2>4. Idle \in Request
    BY DEF Request
  <2> QED
    BY <1>2, <2>3, <2>4 DEF IssueTokens, Become, TypeOK
<1>3. CASE Tick
  BY <1>3, TimeAssumption DEF Tick, TypeOK
<1>4. CASE UNCHANGED vars
  BY <1>4 DEF vars, TypeOK
<1> QED
  BY <1>1, <1>2, <1>3, <1>4, ShapeOfSteps

-----------------------------------------------------------------------------
(* No row goes away, so a gRPC call finds the one it inserted.             *)

\* No step takes a row out of the table.
LEMMA RowsStay ==
    ASSUME TypeOK, Assigning, [Next]_vars, NEW u \in Users, Stored(u)
    PROVE  Stored(u)'
<1>1. CASE Shape
  BY <1>1, NoneAssumption DEF Shape, Continue, Write, TypeOK, Stored
<1>2. CASE Tick \/ UNCHANGED vars \/ \E r \in Requests : IssueTokens(r)
  BY <1>2 DEF Tick, vars, IssueTokens, Stored
<1> QED
  BY <1>1, <1>2, ShapeOfSteps

-----------------------------------------------------------------------------
(* Where the ADMIN role can come from.                                     *)

LEMMA AboutIdle == Idle \in Request /\ Idle.step = "idle" /\ CleanRequest(Idle)
  BY DEF Request, Idle, CleanRequest

\* AdminNeedsAdmin, by what a request carries.
LEMMA AdminByRequest ==
    AdminNeedsAdmin <=>
      (~seeded => /\ \A u \in Users : Stored(u) => Admin \notin users[u].roles
                  /\ \A p \in tokens : Admin \notin p.roles
                  /\ \A r \in Requests : CleanRequest(reqs[r]))
  BY DEF AdminNeedsAdmin, CleanRequest

\* A request that leaves the tables alone keeps the invariant.
LEMMA ContinueInv ==
    ASSUME Inv, [Next]_vars, NEW r \in Requests, NEW next \in Request, Continue(r, next),
           next.step # "assign", ~seeded => CleanRequest(next)
    PROVE  Inv'
<1>1. TypeOK'
  BY TypesNext DEF Inv
<1>2. \A q \in Requests : reqs'[q] = reqs[q] \/ reqs'[q] = next
  BY DEF Inv, TypeOK, Continue, Become
<1>3. users' = users /\ tokens' = tokens /\ seeded' = seeded
  BY DEF Continue
<1>4. Assigning'
  BY <1>2, <1>3 DEF Inv, Assigning, Stored
<1>6. AdminNeedsAdmin'
  BY <1>2, <1>3, AdminByRequest DEF Inv, AdminNeedsAdmin, CleanRequest, Stored
<1> QED
  BY <1>1, <1>4, <1>6 DEF Inv

\* So does one that writes a row.
LEMMA WriteInv ==
    ASSUME Inv, [Next]_vars, NEW r \in Requests, NEW next \in Request,
           NEW u \in Users, NEW row \in Row, Write(r, u, row, next),
           next.step = "assign" => next.user = u, seeded => seeded',
           ~seeded' => CleanRequest(next) /\ Admin \notin row.roles
    PROVE  Inv'
<1>1. TypeOK'
  BY TypesNext DEF Inv
<1>2. \A q \in Requests : reqs'[q] = reqs[q] \/ reqs'[q] = next
  BY DEF Inv, TypeOK, Write, Become
<1>3. users'[u] = row /\ \A v \in Users : v # u => users'[v] = users[v]
  BY DEF Inv, TypeOK, Write
<1>4. row # None
  BY NoneAssumption
<1>5. \A v \in Users : Stored(v) => Stored(v)'
  BY <1>3, <1>4 DEF Stored
<1>6. Assigning'
  <2> SUFFICES ASSUME NEW q \in Requests, reqs'[q].step = "assign"
               PROVE  Stored(reqs[q].user)'
    BY DEF Assigning
  <2>1. CASE reqs'[q] = next
    BY <2>1, <1>3, <1>4 DEF Stored
  <2>2. CASE reqs'[q] = reqs[q]
    <3>1. reqs[q] \in ToAssign
      BY <2>2, Carries DEF Inv, TypeOK
    <3>2. reqs[q].user \in Users /\ Stored(reqs[q].user)
      BY <2>2, <3>1 DEF Inv, Assigning, ToAssign
    <3> QED
      BY <2>2, <3>2, <1>5 DEF Stored
  <2> QED
    BY <1>2, <2>1, <2>2
<1>8. AdminNeedsAdmin'
  <2> SUFFICES ASSUME ~seeded'
               PROVE  /\ \A v \in Users : Stored(v)' => Admin \notin users'[v].roles
                      /\ \A p \in tokens' : Admin \notin p.roles
                      /\ \A q \in Requests : CleanRequest(reqs'[q])
    BY DEF AdminNeedsAdmin, CleanRequest
  <2>1. ~seeded
    OBVIOUS
  <2>2. /\ \A v \in Users : Stored(v) => Admin \notin users[v].roles
        /\ \A p \in tokens : Admin \notin p.roles
        /\ \A q \in Requests : CleanRequest(reqs[q])
    BY <2>1, AdminByRequest DEF Inv
  <2>3. \A v \in Users : Stored(v)' => Admin \notin users'[v].roles
    BY <2>2, <1>3 DEF Stored
  <2>4. \A p \in tokens' : Admin \notin p.roles
    BY <2>2 DEF Write
  <2>5. \A q \in Requests : CleanRequest(reqs'[q])
    BY <2>2, <1>2
  <2> QED
    BY <2>3, <2>4, <2>5
<1> QED
  BY <1>1, <1>6, <1>8 DEF Inv

\* The row of a user and the token a request presents are clean as long as no
\* gRPC call made an admin.
LEMMA CleanNow ==
    ASSUME Inv, ~seeded
    PROVE  /\ \A u \in Users : Stored(u) => Admin \notin users[u].roles
           /\ \A p \in tokens : Admin \notin p.roles
           /\ \A r \in Requests : CleanRequest(reqs[r])
  BY AdminByRequest DEF Inv

LEMMA InvInit == Init => Inv
<1> SUFFICES ASSUME Init PROVE Inv
  OBVIOUS
<1>1. TypeOK
  BY TypesInit
<1>2. \A r \in Requests : reqs[r] = Idle
  BY DEF Init
<1>3. Assigning
  BY <1>2, AboutIdle DEF Assigning
<1>4. AdminNeedsAdmin
  BY <1>2, AboutIdle, AdminByRequest DEF Init, Stored
<1> QED
  BY <1>1, <1>3, <1>4 DEF Inv

\* Every step keeps the invariant.
LEMMA InvNext == Inv /\ [Next]_vars => Inv'
<1> SUFFICES ASSUME Inv, [Next]_vars PROVE Inv'
  OBVIOUS
<1>types. TypeOK
  BY DEF Inv
<1>new. NewUser \in Row /\ Admin \notin NewUser.roles
  BY RolesAssumption DEF Row, NewUser
<1>1. ASSUME NEW r \in Requests, Register(r) PROVE Inv'
  BY <1>1, <1>new, AboutIdle, WriteInv DEF Register
<1>2. ASSUME NEW r \in Requests, GrpcCreateUser(r) PROVE Inv'
  <2> PICK u \in Users, roles \in RoleSets :
        /\ Write(r, u, [live |-> TRUE, roles |-> {}],
                 [step |-> "assign", user |-> u, roles |-> roles])
        /\ seeded' = (seeded \/ Admin \in roles)
    BY <1>2 DEF GrpcCreateUser
  <2> DEFINE row  == [live |-> TRUE, roles |-> {}]
             next == [step |-> "assign", user |-> u, roles |-> roles]
  <2>1. row \in Row /\ Admin \notin row.roles
    BY DEF Row
  <2>2. next \in Request /\ next.user = u
    BY DEF Request, ToAssign
  <2>3. Admin \notin roles => CleanRequest(next)
    BY DEF CleanRequest
  <2>4. Write(r, u, row, next)
    OBVIOUS
  <2>5. seeded => seeded'
    OBVIOUS
  <2>6. ~seeded' => CleanRequest(next)
    BY <2>3
  <2> HIDE DEF row, next
  <2> QED
    BY <2>1, <2>2, <2>4, <2>5, <2>6, WriteInv
<1>3. ASSUME NEW r \in Requests, GrpcAssignRoles(r) PROVE Inv'
  <2> DEFINE u == reqs[r].user
             row == [users[u] EXCEPT !.roles = reqs[r].roles]
  <2>1. reqs[r] \in ToAssign
    BY <1>3, <1>types, Carries DEF GrpcAssignRoles, TypeOK
  <2>2. u \in Users /\ reqs[r].roles \in SUBSET Roles
    BY <2>1 DEF ToAssign, RoleSets
  <2>3. users[u] \in Row
    BY <1>3, <1>types, <2>2, StoredRow DEF Inv, Assigning, GrpcAssignRoles
  <2>4. row \in Row /\ row.roles = reqs[r].roles
    BY <2>2, <2>3 DEF Row
  <2>5. ~seeded => Admin \notin reqs[r].roles
    BY <1>3, CleanNow DEF GrpcAssignRoles, CleanRequest
  <2>6. Write(r, u, row, Idle) /\ seeded' = seeded
    BY <1>3 DEF GrpcAssignRoles
  <2> HIDE DEF row, u
  <2> QED
    BY <2>2, <2>4, <2>5, <2>6, AboutIdle, WriteInv
<1>4. ASSUME NEW r \in Requests, OAuthSignUp(r) PROVE Inv'
  <2> PICK u \in Users :
        Write(r, u, NewUser, [step |-> "issue", user |-> u, roles |-> {UserRole}])
    BY <1>4 DEF OAuthSignUp
  <2> DEFINE next == [step |-> "issue", user |-> u, roles |-> {UserRole}]
  <2>1. next \in Request
    BY RolesAssumption DEF Request, ToIssue
  <2>2. next.step # "assign" /\ CleanRequest(next)
    BY RolesAssumption DEF CleanRequest
  <2>3. seeded' = seeded
    BY <1>4 DEF OAuthSignUp
  <2> HIDE DEF next
  <2> QED
    BY <1>new, <2>1, <2>2, <2>3, WriteInv DEF next
<1>5. ASSUME NEW r \in Requests, OAuthRead(r) PROVE Inv'
  <2> PICK u \in Users :
        /\ Stored(u)
        /\ Continue(r, [step |-> "restore", user |-> u, roles |-> users[u].roles])
    BY <1>5 DEF OAuthRead
  <2> DEFINE next == [step |-> "restore", user |-> u, roles |-> users[u].roles]
  <2>1. next \in Request
    BY <1>types, StoredRow DEF Row, Request, ToIssue
  <2>2. next.step # "assign"
    OBVIOUS
  <2>3. ~seeded => CleanRequest(next)
    BY CleanNow DEF CleanRequest
  <2> QED
    BY <2>1, <2>2, <2>3, ContinueInv
<1>6. ASSUME NEW r \in Requests, OAuthRestore(r) PROVE Inv'
  <2> DEFINE row  == [live |-> TRUE, roles |-> reqs[r].roles]
             next == [reqs[r] EXCEPT !.step = "issue"]
  <2>1. reqs[r] \in ToIssue
    BY <1>6, <1>types, Carries DEF OAuthRestore, TypeOK
  <2>2. row \in Row /\ row.roles = reqs[r].roles /\ reqs[r].user \in Users
    BY <2>1 DEF ToIssue, Row
  <2>3. next \in Request /\ next.step = "issue" /\ next.roles = reqs[r].roles
    BY <2>1 DEF ToIssue, Request
  <2>4. ~seeded => Admin \notin reqs[r].roles
    BY <1>6, CleanNow DEF OAuthRestore, CleanRequest
  <2>5. Write(r, reqs[r].user, row, next) /\ seeded' = seeded
    BY <1>6 DEF OAuthRestore
  <2> HIDE DEF row, next
  <2>6. next.step # "assign"
    BY <2>3
  <2>7. ~seeded => CleanRequest(next)
    BY <2>3, <2>4 DEF CleanRequest
  <2> QED
    BY <2>2, <2>3, <2>4, <2>5, <2>6, <2>7, WriteInv
<1>7. ASSUME NEW r \in Requests, LoginUser(r) PROVE Inv'
  <2> PICK u \in Users :
        Live(u) /\ Continue(r, [step |-> "issue", user |-> u, roles |-> users[u].roles])
    BY <1>7 DEF LoginUser
  <2> DEFINE next == [step |-> "issue", user |-> u, roles |-> users[u].roles]
  <2>1. next \in Request
    BY <1>types, StoredRow DEF Live, Row, Request, ToIssue
  <2>2. next.step # "assign"
    OBVIOUS
  <2>3. ~seeded => CleanRequest(next)
    BY CleanNow DEF Live, CleanRequest
  <2> QED
    BY <2>1, <2>2, <2>3, ContinueInv
<1>8. ASSUME NEW r \in Requests, IssueTokens(r) PROVE Inv'
  <2>1. \A q \in Requests : reqs'[q] = reqs[q] \/ reqs'[q] = Idle
    BY <1>8, <1>types DEF TypeOK, IssueTokens, Become
  <2>2. users' = users /\ seeded' = seeded
    BY <1>8 DEF IssueTokens
  <2>3. Assigning'
    BY <2>1, <2>2, AboutIdle DEF Inv, Assigning, Stored
  <2>4. ASSUME ~seeded, NEW p \in tokens' PROVE Admin \notin p.roles
    <3>1. Admin \notin reqs[r].roles /\ \A q \in tokens : Admin \notin q.roles
      BY <1>8, <2>4, CleanNow DEF IssueTokens, CleanRequest
    <3> QED
      BY <1>8, <3>1 DEF IssueTokens
  <2>5. ~seeded' => \A q \in Requests : CleanRequest(reqs'[q])
    BY <2>1, <2>2, AboutIdle, CleanNow
  <2>6. ~seeded' => \A u \in Users : Stored(u)' => Admin \notin users'[u].roles
    BY <2>2, CleanNow DEF Stored
  <2>7. AdminNeedsAdmin'
    BY <2>2, <2>4, <2>5, <2>6 DEF AdminNeedsAdmin, CleanRequest
  <2> QED
    BY <2>3, <2>7, TypesNext DEF Inv
<1>9. ASSUME NEW r \in Requests, CreateUser(r) PROVE Inv'
  <2> PICK p \in tokens, roles \in RoleSets :
        Admin \in p.roles /\ Continue(r, [step |-> "create", as |-> p, roles |-> roles])
    BY <1>9 DEF CreateUser
  <2> DEFINE next == [step |-> "create", as |-> p, roles |-> roles]
  <2>1. next \in Request
    BY <1>types DEF TypeOK, Request, ToCreate
  <2>2. next.step # "assign"
    OBVIOUS
  <2>3. seeded
    BY <1>types, CleanNow DEF TypeOK
  <2> QED
    BY <2>1, <2>2, <2>3, ContinueInv
<1>10. ASSUME NEW r \in Requests, CreateCommit(r) PROVE Inv'
  <2> DEFINE row == [live |-> TRUE, roles |-> reqs[r].roles]
  <2>1. reqs[r] \in ToCreate
    BY <1>10, <1>types, Carries DEF CreateCommit, TypeOK
  <2>2. row \in Row /\ row.roles = reqs[r].roles
    BY <2>1 DEF ToCreate, RoleSets, Row
  <2>3. ~seeded => Admin \notin reqs[r].roles
    BY <1>10, CleanNow DEF CreateCommit, CleanRequest
  <2>4. seeded' = seeded /\ \E u \in Users : Write(r, u, row, Idle)
    BY <1>10 DEF CreateCommit
  <2> HIDE DEF row
  <2> QED
    BY <2>2, <2>3, <2>4, AboutIdle, WriteInv
<1>11. ASSUME NEW r \in Requests, UpdateUser(r) PROVE Inv'
  <2> PICK p \in tokens, u \in Users, roles \in RoleSets :
        /\ MayUpdate(p, u, roles)
        /\ Continue(r, [step |-> "update", as |-> p, user |-> u, roles |-> roles])
    BY <1>11 DEF UpdateUser
  <2> DEFINE next == [step |-> "update", as |-> p, user |-> u, roles |-> roles]
  <2>1. next \in Request
    BY <1>types DEF TypeOK, Request, ToUpdate
  <2>2. next.step # "assign"
    OBVIOUS
  <2>3. ~seeded => CleanRequest(next)
    BY CleanNow DEF CleanRequest, MayUpdate, roleCodesEqual
  <2> QED
    BY <2>1, <2>2, <2>3, ContinueInv
<1>12. ASSUME NEW r \in Requests, UpdateRead(r) PROVE Inv'
  <2> DEFINE next == [reqs[r] EXCEPT !.step = "save"]
  <2>1. reqs[r] \in ToUpdate /\ reqs[r].step = "update"
    BY <1>12, <1>types, Carries DEF UpdateRead, TypeOK
  <2>2. /\ next \in Request /\ next.step = "save"
        /\ next.as = reqs[r].as /\ next.user = reqs[r].user /\ next.roles = reqs[r].roles
    BY <2>1 DEF ToUpdate, Request
  <2>3. Continue(r, next) \/ Continue(r, Idle)
    BY <1>12 DEF UpdateRead
  <2> HIDE DEF next
  <2>4. next.step # "assign"
    BY <2>2
  <2>5. ~seeded => CleanRequest(next)
    BY <2>1, <2>2, CleanNow DEF CleanRequest
  <2> QED
    BY <2>2, <2>3, <2>4, <2>5, AboutIdle, ContinueInv
<1>13. ASSUME NEW r \in Requests, UpdateCommit(r) PROVE Inv'
  <2> DEFINE row == [live |-> TRUE, roles |-> reqs[r].roles]
  <2>1. reqs[r] \in ToUpdate
    BY <1>13, <1>types, Carries DEF UpdateCommit, TypeOK
  <2>2. row \in Row /\ row.roles = reqs[r].roles /\ reqs[r].user \in Users
    BY <2>1 DEF ToUpdate, RoleSets, Row
  <2>3. ~seeded => Admin \notin reqs[r].roles
    BY <1>13, CleanNow DEF UpdateCommit, CleanRequest
  <2>4. seeded' = seeded /\ Write(r, reqs[r].user, row, Idle)
    BY <1>13 DEF UpdateCommit
  <2> HIDE DEF row
  <2> QED
    BY <2>2, <2>3, <2>4, AboutIdle, WriteInv
<1>14. ASSUME NEW r \in Requests, DeleteUser(r) PROVE Inv'
  <2> PICK p \in tokens, u \in Users :
        MayDelete(p, u) /\ Continue(r, [step |-> "delete", as |-> p, user |-> u])
    BY <1>14 DEF DeleteUser
  <2> DEFINE next == [step |-> "delete", as |-> p, user |-> u]
  <2>1. next \in Request
    BY <1>types DEF TypeOK, Request, ToDelete
  <2>2. next.step # "assign"
    OBVIOUS
  <2>3. ~seeded => CleanRequest(next)
    BY CleanNow DEF CleanRequest
  <2> QED
    BY <2>1, <2>2, <2>3, ContinueInv
<1>15. ASSUME NEW r \in Requests, DeleteCommit(r) PROVE Inv'
  <2> DEFINE u == reqs[r].user
             row == [users[u] EXCEPT !.live = FALSE]
  <2>1. reqs[r] \in ToDelete
    BY <1>15, <1>types, Carries DEF DeleteCommit, TypeOK
  <2>2. u \in Users
    BY <2>1 DEF ToDelete
  <2>3. CASE Live(u) /\ Write(r, u, row, Idle) /\ UNCHANGED seeded
    <3>1. users[u] \in Row
      BY <2>2, <2>3, <1>types, StoredRow DEF Live
    <3>2. row \in Row /\ row.roles = users[u].roles
      BY <3>1 DEF Row
    <3>3. ~seeded => Admin \notin users[u].roles
      BY <2>2, <2>3, CleanNow DEF Live
    <3> HIDE DEF row, u
    <3> QED
      BY <2>2, <2>3, <3>2, <3>3, AboutIdle, WriteInv
  <2>4. CASE Continue(r, Idle)
    BY <2>4, AboutIdle, ContinueInv
  <2> QED
    BY <1>15, <2>3, <2>4 DEF DeleteCommit
<1>16. ASSUME NEW r \in Requests, Fail(r) PROVE Inv'
  BY <1>16, AboutIdle, ContinueInv DEF Fail
<1>17. CASE Tick \/ UNCHANGED vars
  <2>1. UNCHANGED <<users, tokens, reqs, seeded>>
    BY <1>17 DEF Tick, vars
  <2> QED
    BY <2>1, TypesNext DEF Inv, Assigning, AdminNeedsAdmin, Stored
<1> QED
  BY <1>1, <1>2, <1>3, <1>4, <1>5, <1>6, <1>7, <1>8, <1>9, <1>10, <1>11, <1>12, <1>13,
     <1>14, <1>15, <1>16, <1>17 DEF Next

-----------------------------------------------------------------------------
(* What a step can do to a deleted user.                                   *)

\* A request acts for u, or is about to write his row.
Concerns(q, u) ==
    \/ q.step \in {"issue", "restore"} /\ q.user = u
    \/ q.step \in {"create", "update", "save", "delete"} /\ q.as.user = u
    \/ q.step = "save" /\ q.user = u

LEMMA LockedByRequest ==
    ASSUME NEW u \in Users
    PROVE  LockedOut(u) <=> /\ Stored(u) /\ ~Live(u)
                            /\ \A r \in Requests : ~Concerns(reqs[r], u)
  BY DEF LockedOut, ActsFor, Concerns

\* A request that goes on to something else leaves a deleted user alone.
LEMMA ContinueLocked ==
    ASSUME TypeOK, NEW u \in Users, LockedOut(u),
           NEW r \in Requests, NEW next, Continue(r, next), ~Concerns(next, u)
    PROVE  LockedOut(u)'
<1>1. \A q \in Requests : ~Concerns(reqs'[q], u)
  BY LockedByRequest DEF TypeOK, Continue, Become
<1>2. users' = users
  BY DEF Continue
<1> QED
  BY <1>1, <1>2 DEF LockedOut, ActsFor, Concerns, Stored, Live

\* So does one that writes another row, or assigns roles to a deleted one.
LEMMA WriteLocked ==
    ASSUME TypeOK, NEW u \in Users, LockedOut(u), NEW r \in Requests, NEW next,
           NEW v \in Users, NEW row \in Row, Write(r, v, row, next),
           u # v \/ ~row.live, ~Concerns(next, u)
    PROVE  LockedOut(u)'
<1>1. \A q \in Requests : ~Concerns(reqs'[q], u)
  BY LockedByRequest DEF TypeOK, Write, Become
<1>2. Stored(u) /\ ~Live(u)
  BY LockedByRequest
<1>3. users'[v] = row /\ \A w \in Users : w # v => users'[w] = users[w]
  BY DEF TypeOK, Write
<1>4. row # None
  BY NoneAssumption
<1>5. Stored(u)' /\ ~Live(u)'
  BY <1>2, <1>3, <1>4 DEF Stored, Live
<1> QED
  BY <1>1, <1>5 DEF LockedOut, ActsFor, Concerns

\* A deleted user stays locked out, unless a new OAuth login finds the row.
LEMMA LockedStays ==
    ASSUME Inv, [Next]_vars, NEW u \in Users, LockedOut(u)
    PROVE  \/ LockedOut(u)'
           \/ \E r \in Requests : reqs'[r].step = "restore" /\ reqs'[r].user = u
<1> DEFINE Goal == \/ LockedOut(u)'
                   \/ \E r \in Requests : reqs'[r].step = "restore" /\ reqs'[r].user = u
<1>types. TypeOK
  BY DEF Inv
<1>now. Stored(u) /\ ~Live(u) /\ \A r \in Requests : ~Concerns(reqs[r], u)
  BY LockedByRequest
<1>idle. ~Concerns(Idle, u)
  BY AboutIdle DEF Concerns
<1>1. ASSUME NEW r \in Requests, NEW v \in Users, NEW row \in Row, NEW next,
             ~Stored(v), Write(r, v, row, next), ~Concerns(next, u)
      PROVE  Goal
  BY <1>1, <1>now, <1>types, WriteLocked
<1>2. ASSUME NEW r \in Requests, Register(r) \/ CreateCommit(r) PROVE Goal
  <2>1. CreateCommit(r) => [live |-> TRUE, roles |-> reqs[r].roles] \in Row
    BY <1>types, Carries DEF CreateCommit, TypeOK, ToCreate, RoleSets, Row
  <2>2. NewUser \in Row
    BY RolesAssumption DEF NewUser, Row
  <2> QED
    BY <1>1, <1>2, <1>idle, <2>1, <2>2 DEF Register, CreateCommit
<1>3. ASSUME NEW r \in Requests, GrpcCreateUser(r) PROVE Goal
  <2> PICK v \in Users, roles \in RoleSets :
        /\ ~Stored(v)
        /\ Write(r, v, [live |-> TRUE, roles |-> {}],
                 [step |-> "assign", user |-> v, roles |-> roles])
    BY <1>3 DEF GrpcCreateUser
  <2>1. [live |-> TRUE, roles |-> {}] \in Row
    BY DEF Row
  <2>2. ~Concerns([step |-> "assign", user |-> v, roles |-> roles], u)
    BY DEF Concerns
  <2> QED
    BY <1>1, <2>1, <2>2
<1>4. ASSUME NEW r \in Requests, OAuthSignUp(r) PROVE Goal
  <2> PICK v \in Users :
        /\ ~Stored(v)
        /\ Write(r, v, NewUser, [step |-> "issue", user |-> v, roles |-> {UserRole}])
    BY <1>4 DEF OAuthSignUp
  <2>1. NewUser \in Row
    BY RolesAssumption DEF NewUser, Row
  <2>2. ~Concerns([step |-> "issue", user |-> v, roles |-> {UserRole}], u)
    BY <1>now DEF Concerns
  <2> QED
    BY <1>1, <2>1, <2>2
<1>5. ASSUME NEW r \in Requests, GrpcAssignRoles(r) PROVE Goal
  <2> DEFINE v == reqs[r].user
             row == [users[v] EXCEPT !.roles = reqs[r].roles]
  <2>1. reqs[r] \in ToAssign
    BY <1>5, <1>types, Carries DEF GrpcAssignRoles, TypeOK
  <2>2. v \in Users /\ reqs[r].roles \in SUBSET Roles
    BY <2>1 DEF ToAssign, RoleSets
  <2>3. users[v] \in Row
    BY <1>5, <1>types, <2>2, StoredRow DEF Inv, Assigning, GrpcAssignRoles
  <2>4. row \in Row /\ row.live = users[v].live
    BY <2>2, <2>3 DEF Row
  <2>5. u # v \/ ~users[v].live
    BY <1>now DEF Live
  <2>6. Write(r, v, row, Idle)
    BY <1>5 DEF GrpcAssignRoles
  <2> HIDE DEF v, row
  <2> QED
    BY <1>types, <1>idle, <2>2, <2>4, <2>5, <2>6, WriteLocked
<1>6. ASSUME NEW r \in Requests, OAuthRead(r) PROVE Goal
  <2> PICK v \in Users : Continue(r, [step |-> "restore", user |-> v, roles |-> users[v].roles])
    BY <1>6 DEF OAuthRead
  <2> DEFINE next == [step |-> "restore", user |-> v, roles |-> users[v].roles]
  <2>1. CASE v = u
    BY <1>types, <2>1 DEF TypeOK, Continue, Become
  <2>2. CASE v # u
    <3>1. ~Concerns(next, u)
      BY <2>2 DEF Concerns
    <3> QED
      BY <1>types, <3>1, ContinueLocked
  <2> QED
    BY <2>1, <2>2
<1>7. ASSUME NEW r \in Requests, OAuthRestore(r) PROVE Goal
  <2> DEFINE row  == [live |-> TRUE, roles |-> reqs[r].roles]
             next == [reqs[r] EXCEPT !.step = "issue"]
  <2>1. reqs[r] \in ToIssue /\ reqs[r].step = "restore"
    BY <1>7, <1>types, Carries DEF OAuthRestore, TypeOK
  <2>2. row \in Row /\ reqs[r].user \in Users
    BY <2>1 DEF ToIssue, Row
  <2>3. next.step = "issue" /\ next.user = reqs[r].user
    BY <2>1 DEF ToIssue
  <2>4. reqs[r].user # u
    BY <1>now, <2>1 DEF Concerns
  <2>5. Write(r, reqs[r].user, row, next)
    BY <1>7 DEF OAuthRestore
  <2> HIDE DEF row, next
  <2>6. ~Concerns(next, u)
    BY <2>3, <2>4 DEF Concerns
  <2> QED
    BY <1>types, <2>2, <2>4, <2>5, <2>6, WriteLocked
<1>8. ASSUME NEW r \in Requests, LoginUser(r) PROVE Goal
  <2> PICK v \in Users :
        Live(v) /\ Continue(r, [step |-> "issue", user |-> v, roles |-> users[v].roles])
    BY <1>8 DEF LoginUser
  <2>1. ~Concerns([step |-> "issue", user |-> v, roles |-> users[v].roles], u)
    BY <1>now DEF Concerns
  <2> QED
    BY <1>types, <2>1, ContinueLocked
<1>9. ASSUME NEW r \in Requests, IssueTokens(r) PROVE Goal
  <2>1. \A q \in Requests : reqs'[q] = reqs[q] \/ reqs'[q] = Idle
    BY <1>9, <1>types DEF TypeOK, IssueTokens, Become
  <2>2. users' = users
    BY <1>9 DEF IssueTokens
  <2>3. \A q \in Requests : ~Concerns(reqs'[q], u)
    BY <1>now, <1>idle, <2>1
  <2> QED
    BY <1>now, <2>2, <2>3 DEF LockedOut, ActsFor, Concerns, Stored, Live
<1>10. ASSUME NEW r \in Requests, CreateUser(r) PROVE Goal
  <2> PICK p \in tokens, roles \in RoleSets :
        Authorized(p) /\ Continue(r, [step |-> "create", as |-> p, roles |-> roles])
    BY <1>10 DEF CreateUser
  <2>1. ~Concerns([step |-> "create", as |-> p, roles |-> roles], u)
    BY <1>now DEF Concerns, Authorized
  <2> QED
    BY <1>types, <2>1, ContinueLocked
<1>11. ASSUME NEW r \in Requests, UpdateUser(r) PROVE Goal
  <2> PICK p \in tokens, v \in Users, roles \in RoleSets :
        /\ Authorized(p)
        /\ Continue(r, [step |-> "update", as |-> p, user |-> v, roles |-> roles])
    BY <1>11 DEF UpdateUser
  <2>1. ~Concerns([step |-> "update", as |-> p, user |-> v, roles |-> roles], u)
    BY <1>now DEF Concerns, Authorized
  <2> QED
    BY <1>types, <2>1, ContinueLocked
<1>12. ASSUME NEW r \in Requests, UpdateRead(r) PROVE Goal
  <2> DEFINE next == [reqs[r] EXCEPT !.step = "save"]
  <2>1. reqs[r] \in ToUpdate /\ reqs[r].step = "update"
    BY <1>12, <1>types, Carries DEF UpdateRead, TypeOK
  <2>2. next.step = "save" /\ next.as = reqs[r].as /\ next.user = reqs[r].user
    BY <2>1 DEF ToUpdate
  <2>3. (Live(reqs[r].user) /\ Continue(r, next)) \/ Continue(r, Idle)
    BY <1>12 DEF UpdateRead
  <2> HIDE DEF next
  <2>4. Live(reqs[r].user) => ~Concerns(next, u)
    BY <1>now, <2>1, <2>2 DEF Concerns
  <2> QED
    BY <1>types, <1>idle, <2>3, <2>4, ContinueLocked
<1>13. ASSUME NEW r \in Requests, UpdateCommit(r) PROVE Goal
  <2> DEFINE row == [live |-> TRUE, roles |-> reqs[r].roles]
  <2>1. reqs[r] \in ToUpdate /\ reqs[r].step = "save"
    BY <1>13, <1>types, Carries DEF UpdateCommit, TypeOK
  <2>2. row \in Row /\ reqs[r].user \in Users
    BY <2>1 DEF ToUpdate, RoleSets, Row
  <2>3. reqs[r].user # u
    BY <1>now, <2>1 DEF Concerns
  <2>4. Write(r, reqs[r].user, row, Idle)
    BY <1>13 DEF UpdateCommit
  <2> HIDE DEF row
  <2> QED
    BY <1>types, <1>idle, <2>2, <2>3, <2>4, WriteLocked
<1>14. ASSUME NEW r \in Requests, DeleteUser(r) PROVE Goal
  <2> PICK p \in tokens, v \in Users :
        Authorized(p) /\ Continue(r, [step |-> "delete", as |-> p, user |-> v])
    BY <1>14 DEF DeleteUser
  <2>1. ~Concerns([step |-> "delete", as |-> p, user |-> v], u)
    BY <1>now DEF Concerns, Authorized
  <2> QED
    BY <1>types, <2>1, ContinueLocked
<1>15. ASSUME NEW r \in Requests, DeleteCommit(r) PROVE Goal
  <2> DEFINE v == reqs[r].user
             row == [users[v] EXCEPT !.live = FALSE]
  <2>1. v \in Users
    BY <1>15, <1>types, Carries DEF DeleteCommit, TypeOK, ToDelete
  <2>2. CASE Live(v) /\ Write(r, v, row, Idle)
    <3>1. users[v] \in Row
      BY <2>1, <2>2, <1>types, StoredRow DEF Live
    <3>2. row \in Row /\ ~row.live
      BY <3>1 DEF Row
    <3> HIDE DEF v, row
    <3> QED
      BY <1>types, <1>idle, <2>1, <2>2, <3>2, WriteLocked
  <2>3. CASE Continue(r, Idle)
    BY <1>types, <1>idle, <2>3, ContinueLocked
  <2> QED
    BY <1>15, <2>2, <2>3 DEF DeleteCommit
<1>16. ASSUME NEW r \in Requests, Fail(r) PROVE Goal
  BY <1>16, <1>types, <1>idle, ContinueLocked DEF Fail
<1>17. CASE Tick \/ UNCHANGED vars
  BY <1>17, <1>now DEF Tick, vars, LockedOut, ActsFor, Concerns, Stored, Live
<1> QED
  BY <1>2, <1>3, <1>4, <1>5, <1>6, <1>7, <1>8, <1>9, <1>10, <1>11, <1>12, <1>13, <1>14,
     <1>15, <1>16, <1>17 DEF Next

-----------------------------------------------------------------------------
(* What a step can do to a user whose roles are settled.                   *)

\* The request does not write or sign other roles for u than these.
Fits(q, u, roles) ==
    q.step \in {"assign", "issue", "restore", "update", "save"} /\ q.user = u
      => q.step # "assign" /\ q.roles = roles

LEMMA SettledByRequest ==
    ASSUME NEW u \in Users
    PROVE  Settled(u) <=>
             /\ Stored(u)
             /\ \A p \in tokens : p.user = u /\ ~(clock > p.exp) => p.roles = users[u].roles
             /\ \A r \in Requests : Fits(reqs[r], u, users[u].roles)
  BY DEF Settled, Fits

\* A request that goes on to something that fits leaves the roles settled.
LEMMA ContinueSettled ==
    ASSUME TypeOK, NEW u \in Users, Settled(u),
           NEW r \in Requests, NEW next, Continue(r, next), Fits(next, u, users[u].roles)
    PROVE  Settled(u)'
<1>1. \A q \in Requests : Fits(reqs'[q], u, users[u].roles)
  BY SettledByRequest DEF TypeOK, Continue, Become
<1>2. users' = users /\ tokens' = tokens /\ clock' = clock
  BY DEF Continue
<1> QED
  BY <1>1, <1>2 DEF Settled, Fits, Stored

\* So does one that writes another row, or the same roles.
LEMMA WriteSettled ==
    ASSUME TypeOK, NEW u \in Users, Settled(u), NEW r \in Requests, NEW next,
           NEW v \in Users, NEW row \in Row, Write(r, v, row, next),
           u # v \/ row.roles = users[u].roles, Fits(next, u, users[u].roles)
    PROVE  Settled(u)'
<1>1. \A q \in Requests : Fits(reqs'[q], u, users[u].roles)
  BY SettledByRequest DEF TypeOK, Write, Become
<1>2. tokens' = tokens /\ clock' = clock
  BY DEF Write
<1>3. users'[v] = row /\ \A w \in Users : w # v => users'[w] = users[w]
  BY DEF TypeOK, Write
<1>4. users'[u].roles = users[u].roles
  BY <1>3
<1>5. Stored(u)'
  BY <1>3, NoneAssumption DEF Settled, Stored
<1> QED
  BY <1>1, <1>2, <1>4, <1>5 DEF Settled, Fits

\* Settled roles stay settled, unless an admin's token asks for others.
LEMMA SettledStays ==
    ASSUME Inv, [Next]_vars, NEW u \in Users, Settled(u)
    PROVE  \/ Settled(u)'
           \/ \E r \in Requests : /\ reqs'[r].step = "update" /\ reqs'[r].user = u
                                  /\ Admin \in reqs'[r].as.roles
<1> DEFINE Goal == \/ Settled(u)'
                   \/ \E r \in Requests : /\ reqs'[r].step = "update" /\ reqs'[r].user = u
                                          /\ Admin \in reqs'[r].as.roles
<1>types. TypeOK
  BY DEF Inv
<1>now. /\ Stored(u)
        /\ \A p \in tokens : p.user = u /\ ~(clock > p.exp) => p.roles = users[u].roles
        /\ \A r \in Requests : Fits(reqs[r], u, users[u].roles)
  BY SettledByRequest
<1>idle. Fits(Idle, u, users[u].roles)
  BY AboutIdle DEF Fits
<1>1. ASSUME NEW r \in Requests, NEW v \in Users, NEW row \in Row, NEW next,
             ~Stored(v), Write(r, v, row, next), Fits(next, u, users[u].roles)
      PROVE  Goal
  BY <1>1, <1>now, <1>types, WriteSettled
<1>2. ASSUME NEW r \in Requests, Register(r) \/ CreateCommit(r) PROVE Goal
  <2>1. CreateCommit(r) => [live |-> TRUE, roles |-> reqs[r].roles] \in Row
    BY <1>types, Carries DEF CreateCommit, TypeOK, ToCreate, RoleSets, Row
  <2>2. NewUser \in Row
    BY RolesAssumption DEF NewUser, Row
  <2> QED
    BY <1>1, <1>2, <1>idle, <2>1, <2>2 DEF Register, CreateCommit
<1>3. ASSUME NEW r \in Requests, GrpcCreateUser(r) PROVE Goal
  <2> PICK v \in Users, roles \in RoleSets :
        /\ ~Stored(v)
        /\ Write(r, v, [live |-> TRUE, roles |-> {}],
                 [step |-> "assign", user |-> v, roles |-> roles])
    BY <1>3 DEF GrpcCreateUser
  <2>1. [live |-> TRUE, roles |-> {}] \in Row
    BY DEF Row
  <2>2. Fits([step |-> "assign", user |-> v, roles |-> roles], u, users[u].roles)
    BY <1>now DEF Fits
  <2> QED
    BY <1>1, <2>1, <2>2
<1>4. ASSUME NEW r \in Requests, OAuthSignUp(r) PROVE Goal
  <2> PICK v \in Users :
        /\ ~Stored(v)
        /\ Write(r, v, NewUser, [step |-> "issue", user |-> v, roles |-> {UserRole}])
    BY <1>4 DEF OAuthSignUp
  <2>1. NewUser \in Row
    BY RolesAssumption DEF NewUser, Row
  <2>2. Fits([step |-> "issue", user |-> v, roles |-> {UserRole}], u, users[u].roles)
    BY <1>now DEF Fits
  <2> QED
    BY <1>1, <2>1, <2>2
<1>5. ASSUME NEW r \in Requests, GrpcAssignRoles(r) PROVE Goal
  <2> DEFINE v == reqs[r].user
             row == [users[v] EXCEPT !.roles = reqs[r].roles]
  <2>1. reqs[r] \in ToAssign /\ reqs[r].step = "assign"
    BY <1>5, <1>types, Carries DEF GrpcAssignRoles, TypeOK
  <2>2. v \in Users /\ reqs[r].roles \in SUBSET Roles
    BY <2>1 DEF ToAssign, RoleSets
  <2>3. users[v] \in Row
    BY <1>5, <1>types, <2>2, StoredRow DEF Inv, Assigning, GrpcAssignRoles
  <2>4. row \in Row
    BY <2>2, <2>3 DEF Row
  <2>5. u # v
    BY <1>now, <2>1 DEF Fits
  <2>6. Write(r, v, row, Idle)
    BY <1>5 DEF GrpcAssignRoles
  <2> HIDE DEF v, row
  <2> QED
    BY <1>types, <1>idle, <2>2, <2>4, <2>5, <2>6, WriteSettled
<1>6. ASSUME NEW r \in Requests, OAuthRead(r) \/ LoginUser(r) PROVE Goal
  <2>1. PICK v \in Users :
          \/ Continue(r, [step |-> "restore", user |-> v, roles |-> users[v].roles])
          \/ Continue(r, [step |-> "issue", user |-> v, roles |-> users[v].roles])
    BY <1>6 DEF OAuthRead, LoginUser
  <2>2. /\ Fits([step |-> "restore", user |-> v, roles |-> users[v].roles], u, users[u].roles)
        /\ Fits([step |-> "issue", user |-> v, roles |-> users[v].roles], u, users[u].roles)
    BY DEF Fits
  <2> QED
    BY <1>types, <2>1, <2>2, ContinueSettled
<1>7. ASSUME NEW r \in Requests, OAuthRestore(r) PROVE Goal
  <2> DEFINE row  == [live |-> TRUE, roles |-> reqs[r].roles]
             next == [reqs[r] EXCEPT !.step = "issue"]
  <2>1. reqs[r] \in ToIssue /\ reqs[r].step = "restore"
    BY <1>7, <1>types, Carries DEF OAuthRestore, TypeOK
  <2>2. row \in Row /\ row.roles = reqs[r].roles /\ reqs[r].user \in Users
    BY <2>1 DEF ToIssue, Row
  <2>3. next.step = "issue" /\ next.user = reqs[r].user /\ next.roles = reqs[r].roles
    BY <2>1 DEF ToIssue
  <2>4. reqs[r].user = u => reqs[r].roles = users[u].roles
    BY <1>now, <2>1 DEF Fits
  <2>5. Write(r, reqs[r].user, row, next)
    BY <1>7 DEF OAuthRestore
  <2> HIDE DEF row, next
  <2>6. Fits(next, u, users[u].roles)
    BY <2>3, <2>4 DEF Fits
  <2> QED
    BY <1>types, <2>2, <2>4, <2>5, <2>6, WriteSettled
<1>8. ASSUME NEW r \in Requests, IssueTokens(r) PROVE Goal
  <2>1. \A q \in Requests : reqs'[q] = reqs[q] \/ reqs'[q] = Idle
    BY <1>8, <1>types DEF TypeOK, IssueTokens, Become
  <2>2. users' = users /\ clock' = clock
    BY <1>8 DEF IssueTokens
  <2>3. \A q \in Requests : Fits(reqs'[q], u, users[u].roles)
    BY <1>now, <1>idle, <2>1
  <2>4. reqs[r].user = u => reqs[r].roles = users[u].roles
    BY <1>8, <1>now DEF Fits, IssueTokens
  <2>5. \A p \in tokens' : p \in tokens \/ (p.user = reqs[r].user /\ p.roles = reqs[r].roles)
    BY <1>8 DEF IssueTokens
  <2>6. \A p \in tokens' : p.user = u /\ ~(clock > p.exp) => p.roles = users[u].roles
    BY <1>now, <2>4, <2>5
  <2> QED
    BY <1>now, <2>2, <2>3, <2>6 DEF Settled, Fits, Stored
<1>9. ASSUME NEW r \in Requests, CreateUser(r) \/ DeleteUser(r) PROVE Goal
  <2>1. PICK p \in tokens, v \in Users, roles \in RoleSets :
          \/ Continue(r, [step |-> "create", as |-> p, roles |-> roles])
          \/ Continue(r, [step |-> "delete", as |-> p, user |-> v])
    BY <1>9, RolesAssumption DEF CreateUser, DeleteUser, RoleSets
  <2>2. /\ Fits([step |-> "create", as |-> p, roles |-> roles], u, users[u].roles)
        /\ Fits([step |-> "delete", as |-> p, user |-> v], u, users[u].roles)
    BY DEF Fits
  <2> QED
    BY <1>types, <2>1, <2>2, ContinueSettled
<1>10. ASSUME NEW r \in Requests, UpdateUser(r) PROVE Goal
  <2> PICK p \in tokens, v \in Users, roles \in RoleSets :
        /\ Authorized(p) /\ MayUpdate(p, v, roles)
        /\ Continue(r, [step |-> "update", as |-> p, user |-> v, roles |-> roles])
    BY <1>10 DEF UpdateUser
  <2> DEFINE next == [step |-> "update", as |-> p, user |-> v, roles |-> roles]
  <2>1. CASE v = u /\ Admin \in p.roles
    <3>1. reqs'[r] = next
      BY <1>types DEF TypeOK, Continue, Become
    <3> QED
      BY <2>1, <3>1
  <2>2. CASE v = u /\ Admin \notin p.roles
    <3>1. p.user = u /\ roles = p.roles /\ ~(clock > p.exp)
      BY <2>2 DEF Authorized, VerifyToken, MayUpdate, roleCodesEqual
    <3>2. Fits(next, u, users[u].roles)
      BY <1>now, <3>1 DEF Fits
    <3> QED
      BY <1>types, <3>2, ContinueSettled
  <2>3. CASE v # u
    <3>1. Fits(next, u, users[u].roles)
      BY <2>3 DEF Fits
    <3> QED
      BY <1>types, <3>1, ContinueSettled
  <2> QED
    BY <2>1, <2>2, <2>3
<1>11. ASSUME NEW r \in Requests, UpdateRead(r) PROVE Goal
  <2> DEFINE next == [reqs[r] EXCEPT !.step = "save"]
  <2>1. reqs[r] \in ToUpdate /\ reqs[r].step = "update"
    BY <1>11, <1>types, Carries DEF UpdateRead, TypeOK
  <2>2. next.step = "save" /\ next.user = reqs[r].user /\ next.roles = reqs[r].roles
    BY <2>1 DEF ToUpdate
  <2>3. Continue(r, next) \/ Continue(r, Idle)
    BY <1>11 DEF UpdateRead
  <2> HIDE DEF next
  <2>4. Fits(next, u, users[u].roles)
    BY <1>now, <2>1, <2>2 DEF Fits
  <2> QED
    BY <1>types, <1>idle, <2>3, <2>4, ContinueSettled
<1>12. ASSUME NEW r \in Requests, UpdateCommit(r) PROVE Goal
  <2> DEFINE row == [live |-> TRUE, roles |-> reqs[r].roles]
  <2>1. reqs[r] \in ToUpdate /\ reqs[r].step = "save"
    BY <1>12, <1>types, Carries DEF UpdateCommit, TypeOK
  <2>2. row \in Row /\ row.roles = reqs[r].roles /\ reqs[r].user \in Users
    BY <2>1 DEF ToUpdate, RoleSets, Row
  <2>3. reqs[r].user = u => reqs[r].roles = users[u].roles
    BY <1>now, <2>1 DEF Fits
  <2>4. Write(r, reqs[r].user, row, Idle)
    BY <1>12 DEF UpdateCommit
  <2> HIDE DEF row
  <2> QED
    BY <1>types, <1>idle, <2>2, <2>3, <2>4, WriteSettled
<1>13. ASSUME NEW r \in Requests, DeleteCommit(r) PROVE Goal
  <2> DEFINE v == reqs[r].user
             row == [users[v] EXCEPT !.live = FALSE]
  <2>1. v \in Users
    BY <1>13, <1>types, Carries DEF DeleteCommit, TypeOK, ToDelete
  <2>2. CASE Live(v) /\ Write(r, v, row, Idle)
    <3>1. users[v] \in Row
      BY <2>1, <2>2, <1>types, StoredRow DEF Live
    <3>2. row \in Row /\ row.roles = users[v].roles
      BY <3>1 DEF Row
    <3> HIDE DEF v, row
    <3> QED
      BY <1>types, <1>idle, <2>1, <2>2, <3>2, WriteSettled
  <2>3. CASE Continue(r, Idle)
    BY <1>types, <1>idle, <2>3, ContinueSettled
  <2> QED
    BY <1>13, <2>2, <2>3 DEF DeleteCommit
<1>14. ASSUME NEW r \in Requests, Fail(r) PROVE Goal
  BY <1>14, <1>types, <1>idle, ContinueSettled DEF Fail
<1>15. CASE Tick
  <2>1. \A p \in tokens : ~(clock + 1 > p.exp) => ~(clock > p.exp)
    BY <1>types, TimeAssumption DEF TypeOK, Payload
  <2> QED
    BY <1>15, <1>now, <2>1 DEF Tick, Settled, Fits, Stored
<1>16. CASE UNCHANGED vars
  BY <1>16 DEF vars, Settled, Stored
<1> QED
  BY <1>2, <1>3, <1>4, <1>5, <1>6, <1>7, <1>8, <1>9, <1>10, <1>11, <1>12, <1>13, <1>14,
     <1>15, <1>16 DEF Next

-----------------------------------------------------------------------------
(* Theorems.                                                               *)

\* The invariant holds in every reachable state.
THEOREM Invariance == Spec => []Inv
  BY InvInit, InvNext, PTL DEF Spec

\* Every variable keeps its type: the tables and tokens hold role lists only,
\* and a request has the fields that its next step reads.
THEOREM TypesHold == Spec => []TypeOK
<1>1. Inv => TypeOK
  BY DEF Inv
<1> QED
  BY <1>1, Invariance, PTL

\* Over HTTP an admin only comes from an admin (router.go:62, user.go:86-105).
THEOREM AdminsComeFromAdmins == Spec => []AdminNeedsAdmin
<1>1. Inv => AdminNeedsAdmin
  BY DEF Inv
<1> QED
  BY <1>1, Invariance, PTL

\* Deleting a user stops all his tokens at once (middleware/auth.go:57).
THEOREM DeletedIsLockedOut == Spec => DeletionLocksOut
<1>1. Inv /\ [Next]_vars =>
        [\A u \in Users :
           LockedOut(u) => \/ LockedOut(u)'
                           \/ \E r \in Requests : reqs'[r].step = "restore" /\ reqs'[r].user = u]_vars
  BY LockedStays
<1> QED
  BY <1>1, Invariance, PTL DEF Spec, DeletionLocksOut

\* Once no unexpired token of a user and no write on its way has other roles
\* than his row, only a request under an admin's token changes them
\* (user.go:98-105).
THEOREM SettledRolesNeedAdmin == Spec => RolesSettle
<1>1. Inv /\ [Next]_vars =>
        [\A u \in Users :
           Settled(u) => \/ Settled(u)'
                         \/ \E r \in Requests :
                              /\ reqs'[r].step = "update" /\ reqs'[r].user = u
                              /\ Admin \in reqs'[r].as.roles]_vars
  BY SettledStays
<1> QED
  BY <1>1, Invariance, PTL DEF Spec, RolesSettle

=============================================================================
