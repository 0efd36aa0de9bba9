--------------------------- MODULE AbstractProofs ---------------------------
(***************************************************************************)
(* What the two abstract specifications promise, for any sessions, tokens, *)
(* accounts and identities: whoever implements one of them keeps its       *)
(* promises.  SessionService implements the one (SessionServiceProofs),    *)
(* AccountService the other as long as its requests come one at a time     *)
(* and none fails (AccountSequentialProofs).                               *)
(***************************************************************************)
EXTENDS TLAPS

CONSTANTS Ids, Tokens, NoToken
CONSTANTS Usernames, Emails, RoleSets, NewRoles, Providers, Subjects, NoAccount, Nobody

VARIABLES status, current, spent
VARIABLES accounts, owner

L == INSTANCE SessionLifecycle
D == INSTANCE AccountDirectory

-----------------------------------------------------------------------------
(* SessionLifecycle.                                                       *)

LifecycleTyped ==
    /\ DOMAIN status = Ids /\ status = [s \in Ids |-> status[s]]
    /\ DOMAIN current = Ids /\ current = [s \in Ids |-> current[s]]
    /\ \A s \in Ids : status[s] # "none" => current[s] \in spent

LifecycleInv == LifecycleTyped /\ L!OneHolder

LEMMA GrantEffect ==
    ASSUME LifecycleInv, NEW s \in Ids, NEW t, L!Grant(s, t)
    PROVE  /\ t \notin spent /\ spent' = spent \cup {t}
           /\ DOMAIN current' = Ids /\ current' = [x \in Ids |-> current'[x]]
           /\ current'[s] = t
           /\ \A x \in Ids : x # s => current'[x] = current[x]
  BY DEF LifecycleInv, LifecycleTyped, L!Grant

LEMMA OpenEffect ==
    ASSUME LifecycleInv, NEW s \in Ids, NEW t, L!Open(s, t)
    PROVE  /\ DOMAIN status' = Ids /\ status' = [x \in Ids |-> status'[x]]
           /\ status[s] = "none" /\ status'[s] = "open"
           /\ \A x \in Ids : x # s => status'[x] = status[x]
  BY DEF LifecycleInv, LifecycleTyped, L!Open

LEMMA LifecycleNext == LifecycleInv /\ [L!Next]_(L!lifecycleVars) => LifecycleInv'
  <1> SUFFICES ASSUME LifecycleInv, [L!Next]_(L!lifecycleVars) PROVE LifecycleInv'
    OBVIOUS
  <1>1. ASSUME NEW s \in Ids, NEW t \in Tokens, L!Open(s, t)
        PROVE  LifecycleInv'
    <2>1. L!Grant(s, t)
      BY <1>1 DEF L!Open
    <2> QED
      BY <1>1, <2>1, GrantEffect, OpenEffect
         DEF LifecycleInv, LifecycleTyped, L!OneHolder, L!Holds
  <1>2. ASSUME NEW s \in Ids, NEW t \in Tokens, L!Rotate(s, t)
        PROVE  LifecycleInv'
    <2>1. L!Grant(s, t) /\ status' = status
      BY <1>2 DEF L!Rotate
    <2> QED
      BY <2>1, GrantEffect DEF LifecycleInv, LifecycleTyped, L!OneHolder, L!Holds
  <1>3. ASSUME NEW S \in SUBSET Ids, L!Revoke(S)
        PROVE  LifecycleInv'
    BY <1>3 DEF L!Revoke, LifecycleInv, LifecycleTyped, L!OneHolder, L!Holds
  <1>4. CASE UNCHANGED L!lifecycleVars
    BY <1>4 DEF L!lifecycleVars, LifecycleInv, LifecycleTyped, L!OneHolder, L!Holds
  <1> QED
    BY <1>1, <1>2, <1>3, <1>4 DEF L!Next

LEMMA LifecycleInvHolds == L!Spec => []LifecycleInv
  <1>1. L!Init => LifecycleInv
    BY DEF L!Init, LifecycleInv, LifecycleTyped, L!OneHolder
  <1> QED
    BY <1>1, LifecycleNext, PTL DEF L!Spec

\* A token is the current one of at most one session, so a renewal is of one only
\* (auth.go:190, 204).
THEOREM TokensHaveOneHolder == L!Spec => []L!OneHolder
  <1>1. LifecycleInv => L!OneHolder
    BY DEF LifecycleInv
  <1> QED
    BY <1>1, LifecycleInvHolds, PTL

\* A token that was replaced is worth nothing for ever, in its session and in
\* any other: reuse detection compares with the one current token (auth.go:204).
THEOREM ReplacedIsOver == L!Spec => L!ReplacedForGood
  <1>1. LifecycleInv /\ [L!Next]_(L!lifecycleVars) =>
          [\A t \in spent : (\A s \in Ids : ~L!Holds(s, t))
             => t \in spent' /\ \A s \in Ids : ~L!Holds(s, t)']_(L!lifecycleVars)
    <2> SUFFICES ASSUME LifecycleInv, L!Next, NEW t \in spent, \A s \in Ids : ~L!Holds(s, t)
                 PROVE  t \in spent' /\ \A s \in Ids : ~L!Holds(s, t)'
      OBVIOUS
    <2>1. ASSUME NEW s \in Ids, NEW n \in Tokens, L!Open(s, n)
          PROVE  t \in spent' /\ \A x \in Ids : ~L!Holds(x, t)'
      <3>1. L!Grant(s, n)
        BY <2>1 DEF L!Open
      <3> QED
        BY <2>1, <3>1, GrantEffect, OpenEffect DEF L!Holds
    <2>2. ASSUME NEW s \in Ids, NEW n \in Tokens, L!Rotate(s, n)
          PROVE  t \in spent' /\ \A x \in Ids : ~L!Holds(x, t)'
      <3>1. L!Grant(s, n) /\ status' = status
        BY <2>2 DEF L!Rotate
      <3> QED
        BY <3>1, GrantEffect DEF L!Holds
    <2>3. ASSUME NEW S \in SUBSET Ids, L!Revoke(S)
          PROVE  t \in spent' /\ \A x \in Ids : ~L!Holds(x, t)'
      BY <2>3 DEF L!Revoke, L!Holds
    <2> QED
      BY <2>1, <2>2, <2>3 DEF L!Next
  <1> QED
    BY <1>1, LifecycleInvHolds, PTL DEF L!Spec, L!ReplacedForGood

\* A revoked session is never opened or rotated again (auth.go:198).
THEOREM RevokedIsOver == L!Spec => L!RevokedForGood
  <1>1. LifecycleInv /\ [L!Next]_(L!lifecycleVars) =>
          [\A s \in Ids : status[s] = "revoked" =>
             status'[s] = "revoked" /\ current'[s] = current[s]]_(L!lifecycleVars)
    <2> SUFFICES ASSUME LifecycleInv, L!Next, NEW s \in Ids, status[s] = "revoked"
                 PROVE  status'[s] = "revoked" /\ current'[s] = current[s]
      OBVIOUS
    <2>1. ASSUME NEW x \in Ids, NEW t \in Tokens, L!Open(x, t) \/ L!Rotate(x, t)
          PROVE  status'[s] = "revoked" /\ current'[s] = current[s]
      <3>1. x # s /\ L!Grant(x, t)
        BY <2>1 DEF L!Open, L!Rotate
      <3>2. status'[s] = status[s]
        BY <2>1, <3>1, OpenEffect DEF L!Rotate
      <3> QED
        BY <3>1, <3>2, GrantEffect
    <2>2. ASSUME NEW S \in SUBSET Ids, L!Revoke(S)
          PROVE  status'[s] = "revoked" /\ current'[s] = current[s]
      BY <2>2 DEF L!Revoke
    <2> QED
      BY <2>1, <2>2 DEF L!Next
  <1> QED
    BY <1>1, LifecycleInvHolds, PTL DEF L!Spec, L!RevokedForGood

-----------------------------------------------------------------------------
(* AccountDirectory.                                                       *)

Accounts == [email : Emails, live : BOOLEAN, roles : RoleSets]

\* No account and nobody are told apart from the accounts and the users, and
\* whom a provider brings is given roles.
DirectoryAssumption ==
    /\ NoAccount \notin Accounts
    /\ Nobody \notin Usernames
    /\ NewRoles \in RoleSets

DirectoryTyped ==
    /\ accounts \in [Usernames -> Accounts \cup {NoAccount}]
    /\ owner \in [D!Identities -> Usernames \cup {Nobody}]

DirectoryInv == DirectoryTyped /\ D!EmailsDiffer /\ D!OwnersAreIn

\* The account of u becomes the record a, and nothing else changes.
Becomes(u, a) == accounts' = [accounts EXCEPT ![u] = a]

LEMMA BecomesEffect ==
    ASSUME DirectoryAssumption, DirectoryTyped, NEW u \in Usernames, NEW a \in Accounts,
           Becomes(u, a)
    PROVE  /\ accounts' \in [Usernames -> Accounts \cup {NoAccount}]
           /\ accounts'[u] = a /\ a # NoAccount
           /\ \A v \in Usernames : v # u => accounts'[v] = accounts[v]
  <1> HIDE DEF Accounts
  <1> QED
    BY DEF DirectoryAssumption, DirectoryTyped, Becomes

\* A new account: the name had none, and no account has its email.
LEMMA CreateEffect ==
    ASSUME DirectoryAssumption, DirectoryTyped, NEW u \in Usernames, NEW email \in Emails,
           NEW roles \in RoleSets, D!Create(u, email, roles)
    PROVE  \E a \in Accounts :
             /\ Becomes(u, a) /\ a.email = email /\ a.live = TRUE
             /\ accounts[u] = NoAccount
             /\ \A v \in Usernames : accounts[v] # NoAccount => accounts[v].email # email
  <1> DEFINE a == [email |-> email, live |-> TRUE, roles |-> roles]
  <1>1. a \in Accounts /\ a.email = email /\ a.live = TRUE
    BY DEF Accounts
  <1>2. Becomes(u, a)
    BY DEF D!Create, Becomes
  <1> HIDE DEF a
  <1> QED
    BY <1>1, <1>2 DEF D!Create

\* An account that is there keeps its email, whatever becomes of the rest.
LEMMA RestoreEffect ==
    ASSUME DirectoryAssumption, DirectoryTyped, NEW u \in Usernames, accounts[u] # NoAccount,
           NEW live \in BOOLEAN
    PROVE  /\ [accounts[u] EXCEPT !.live = live] \in Accounts
           /\ [accounts[u] EXCEPT !.live = live].email = accounts[u].email
           /\ [accounts[u] EXCEPT !.live = live].live = live
  <1>1. accounts[u] \in Accounts
    BY DEF DirectoryTyped
  <1> QED
    BY <1>1 DEF Accounts

LEMMA ChangeEffect ==
    ASSUME DirectoryAssumption, DirectoryTyped, NEW u \in Usernames, NEW roles \in RoleSets,
           D!Change(u, roles)
    PROVE  \E a \in Accounts :
             /\ Becomes(u, a) /\ a.email = accounts[u].email /\ a.live = accounts[u].live
             /\ accounts[u] # NoAccount
  <1> DEFINE a == [accounts[u] EXCEPT !.roles = roles]
  <1>1. accounts[u] \in Accounts
    BY DEF DirectoryTyped, D!Change, D!Open
  <1>2. a \in Accounts /\ a.email = accounts[u].email /\ a.live = accounts[u].live
    BY <1>1 DEF Accounts
  <1>3. Becomes(u, a)
    BY DEF D!Change, Becomes
  <1> HIDE DEF a
  <1> QED
    BY <1>2, <1>3 DEF D!Change, D!Open

LEMMA SignInEffect ==
    ASSUME DirectoryAssumption, DirectoryTyped, NEW u \in Usernames, NEW i, D!SignIn(i, u)
    PROVE  \E a \in Accounts :
             /\ Becomes(u, a) /\ a.email = accounts[u].email /\ a.live = TRUE
             /\ accounts[u] # NoAccount
  <1> PICK live \in BOOLEAN : live = TRUE
    OBVIOUS
  <1> DEFINE a == [accounts[u] EXCEPT !.live = live]
  <1>1. accounts[u] # NoAccount
    BY DEF D!SignIn
  <1>2. a \in Accounts /\ a.email = accounts[u].email /\ a.live = live
    BY <1>1, RestoreEffect
  <1>3. a = [accounts[u] EXCEPT !.live = TRUE]
    BY Zenon
  <1> HIDE DEF a
  <1>4. Becomes(u, a)
    BY <1>3, Zenon DEF D!SignIn, Becomes
  <1> QED
    BY <1>1, <1>2, <1>4

LEMMA CloseEffect ==
    ASSUME DirectoryAssumption, DirectoryTyped, NEW u \in Usernames, D!Close(u)
    PROVE  \E a \in Accounts :
             /\ Becomes(u, a) /\ a.email = accounts[u].email /\ a.live = FALSE
             /\ accounts[u] # NoAccount
  <1> PICK live \in BOOLEAN : live = FALSE
    OBVIOUS
  <1> DEFINE a == [accounts[u] EXCEPT !.live = live]
  <1>1. accounts[u] # NoAccount
    BY DEF D!Close, D!Open
  <1>2. a \in Accounts /\ a.email = accounts[u].email /\ a.live = live
    BY <1>1, RestoreEffect
  <1>3. a = [accounts[u] EXCEPT !.live = FALSE]
    BY Zenon
  <1> HIDE DEF a
  <1>4. Becomes(u, a)
    BY <1>3, Zenon DEF D!Close, Becomes
  <1> QED
    BY <1>1, <1>2, <1>4

LEMMA JoinEffect ==
    ASSUME DirectoryTyped, NEW u \in Usernames, NEW i \in D!Identities, D!Join(i, u)
    PROVE  /\ owner' \in [D!Identities -> Usernames \cup {Nobody}]
           /\ owner[i] = Nobody /\ owner'[i] = u
           /\ \A j \in D!Identities : j # i => owner'[j] = owner[j]
           /\ \A j \in D!Identities : j[1] = i[1] => owner[j] # u
  <1>1. ASSUME NEW j \in D!Identities, j[1] = i[1] PROVE owner[j] # u
    BY <1>1 DEF D!Join, D!Identities
  <1> QED
    BY <1>1 DEF DirectoryTyped, D!Join

\* Accounts whose name is new, or that keep their email, leave the emails apart.
LEMMA EmailsStep ==
    ASSUME DirectoryAssumption, DirectoryInv, NEW u \in Usernames, NEW a \in Accounts,
           Becomes(u, a),
           \/ accounts[u] # NoAccount /\ a.email = accounts[u].email
           \/ \A v \in Usernames : accounts[v] # NoAccount => accounts[v].email # a.email
    PROVE  D!EmailsDiffer'
  <1> SUFFICES ASSUME NEW v \in Usernames, NEW w \in Usernames,
                      accounts'[v] # NoAccount, accounts'[w] # NoAccount,
                      accounts'[v].email = accounts'[w].email
               PROVE  v = w
    BY DEF D!EmailsDiffer
  <1>1. \A x \in Usernames : x # u => accounts'[x] = accounts[x]
    BY BecomesEffect DEF DirectoryInv
  <1>2. accounts'[u] = a
    BY BecomesEffect DEF DirectoryInv
  <1> HIDE DEF Accounts
  <1> QED
    BY <1>1, <1>2 DEF DirectoryInv, D!EmailsDiffer

\* An account that is open afterwards, and one identity more for it or none.
LEMMA OwnersStep ==
    ASSUME DirectoryAssumption, DirectoryInv, NEW u \in Usernames, NEW a \in Accounts,
           Becomes(u, a),
           a.live = TRUE \/ (accounts[u] # NoAccount /\ a.live = accounts[u].live),
           owner' = owner \/ (a.live = TRUE /\ \E i \in D!Identities : D!Join(i, u))
    PROVE  D!OwnersAreIn'
  <1> SUFFICES ASSUME NEW i \in D!Identities, owner'[i] # Nobody
               PROVE  /\ owner'[i] \in Usernames
                      /\ accounts'[owner'[i]] # NoAccount /\ accounts'[owner'[i]].live
                      /\ \A j \in D!Identities : i[1] = j[1] /\ owner'[j] = owner'[i] => i = j
    BY DEF D!OwnersAreIn, D!Open
  <1> USE DEF DirectoryInv
  <1>1. \A x \in Usernames : x # u => accounts'[x] = accounts[x]
    BY BecomesEffect
  <1>2. accounts'[u] = a /\ a # NoAccount
    BY BecomesEffect
  <1> HIDE DEF Accounts
  <1>3. ASSUME NEW x \in Usernames, D!Open(x)
        PROVE  accounts'[x] # NoAccount /\ accounts'[x].live
    BY <1>1, <1>2, <1>3 DEF D!Open
  <1>4. CASE owner' = owner
    BY <1>3, <1>4 DEF D!OwnersAreIn
  <1>5. ASSUME a.live = TRUE, NEW k \in D!Identities, D!Join(k, u)
        PROVE  /\ owner'[i] \in Usernames
               /\ accounts'[owner'[i]] # NoAccount /\ accounts'[owner'[i]].live
               /\ \A j \in D!Identities : i[1] = j[1] /\ owner'[j] = owner'[i] => i = j
    <2>1. /\ owner'[k] = u
          /\ \A j \in D!Identities : j # k => owner'[j] = owner[j]
          /\ \A j \in D!Identities : j[1] = k[1] => owner[j] # u
      BY <1>5, JoinEffect
    <2>2. accounts'[u] # NoAccount /\ accounts'[u].live
      BY <1>2, <1>5
    <2>3. /\ owner'[i] \in Usernames
          /\ accounts'[owner'[i]] # NoAccount /\ accounts'[owner'[i]].live
      BY <1>3, <2>1, <2>2 DEF D!OwnersAreIn
    <2>4. ASSUME NEW j \in D!Identities, i[1] = j[1], owner'[j] = owner'[i] PROVE i = j
      BY <2>1, <2>4 DEF D!OwnersAreIn
    <2> QED
      BY <2>3, <2>4
  <1> QED
    BY <1>4, <1>5

\* What a step makes of the account of u: a new one under an email nobody has
\* had, an old one opened again, an open one with other roles, or a closed one.
Made(u, a) ==
    /\ accounts[u] = NoAccount /\ a.live = TRUE
    /\ \A v \in Usernames : accounts[v] # NoAccount => accounts[v].email # a.email
    /\ owner' = owner \/ \E i \in D!Identities : D!Join(i, u)

Returned(u, a) ==
    /\ accounts[u] # NoAccount /\ a.email = accounts[u].email /\ a.live = TRUE
    /\ \E i \in D!Identities : D!Join(i, u)

Changed(u, a) ==
    /\ D!Open(u) /\ a.email = accounts[u].email /\ a.live = accounts[u].live
    /\ owner' = owner

Closed(u, a) ==
    /\ accounts[u] # NoAccount /\ a.email = accounts[u].email /\ a.live = FALSE
    /\ D!Close(u)

LEMMA DirectoryStep ==
    ASSUME DirectoryAssumption, DirectoryTyped, D!Next
    PROVE  \E u \in Usernames, a \in Accounts :
             Becomes(u, a) /\ (Made(u, a) \/ Returned(u, a) \/ Changed(u, a) \/ Closed(u, a))
  <1> HIDE DEF Accounts
  <1>1. PICK u \in Usernames :
          \/ \E email \in Emails, roles \in RoleSets : D!Register(u, email, roles)
          \/ \E i \in D!Identities, email \in Emails : D!SignUp(i, u, email)
          \/ \E i \in D!Identities : D!SignIn(i, u)
          \/ \E roles \in RoleSets : D!Change(u, roles)
          \/ D!Close(u)
    BY DEF D!Next
  <1> SUFFICES \E a \in Accounts :
                 Becomes(u, a) /\ (Made(u, a) \/ Returned(u, a) \/ Changed(u, a) \/ Closed(u, a))
    OBVIOUS
  <1>2. ASSUME NEW email \in Emails, NEW roles \in RoleSets, D!Register(u, email, roles)
        PROVE  \E a \in Accounts : Becomes(u, a) /\ Made(u, a)
    <2>1. D!Create(u, email, roles) /\ owner' = owner
      BY <1>2 DEF D!Register
    <2>2. PICK a \in Accounts :
            /\ Becomes(u, a) /\ a.email = email /\ a.live = TRUE
            /\ accounts[u] = NoAccount
            /\ \A v \in Usernames : accounts[v] # NoAccount => accounts[v].email # email
      BY <2>1, CreateEffect
    <2> QED
      BY <2>1, <2>2 DEF Made
  <1>3. ASSUME NEW i \in D!Identities, NEW email \in Emails, D!SignUp(i, u, email)
        PROVE  \E a \in Accounts : Becomes(u, a) /\ Made(u, a)
    <2>1. D!Create(u, email, NewRoles) /\ D!Join(i, u) /\ NewRoles \in RoleSets
      BY <1>3 DEF D!SignUp, DirectoryAssumption
    <2>2. PICK a \in Accounts :
            /\ Becomes(u, a) /\ a.email = email /\ a.live = TRUE
            /\ accounts[u] = NoAccount
            /\ \A v \in Usernames : accounts[v] # NoAccount => accounts[v].email # email
      BY <2>1, CreateEffect
    <2> QED
      BY <2>1, <2>2 DEF Made
  <1>4. ASSUME NEW i \in D!Identities, D!SignIn(i, u)
        PROVE  \E a \in Accounts : Becomes(u, a) /\ Returned(u, a)
    <2>1. D!Join(i, u)
      BY <1>4 DEF D!SignIn
    <2> QED
      BY <1>4, <2>1, SignInEffect DEF Returned
  <1>5. ASSUME NEW roles \in RoleSets, D!Change(u, roles)
        PROVE  \E a \in Accounts : Becomes(u, a) /\ Changed(u, a)
    <2>1. D!Open(u) /\ owner' = owner
      BY <1>5 DEF D!Change
    <2> QED
      BY <1>5, <2>1, ChangeEffect DEF Changed
  <1>6. ASSUME D!Close(u) PROVE \E a \in Accounts : Becomes(u, a) /\ Closed(u, a)
    BY <1>6, CloseEffect DEF Closed
  <1> QED
    BY <1>1, <1>2, <1>3, <1>4, <1>5, <1>6

LEMMA DirectoryNext ==
    ASSUME DirectoryAssumption
    PROVE  DirectoryInv /\ [D!Next]_(D!directoryVars) => DirectoryInv'
  <1> SUFFICES ASSUME DirectoryInv, [D!Next]_(D!directoryVars)
               PROVE  DirectoryInv'
    OBVIOUS
  <1> HIDE DEF Accounts
  <1>1. CASE UNCHANGED D!directoryVars
    BY <1>1 DEF D!directoryVars, DirectoryInv, DirectoryTyped, D!EmailsDiffer, D!OwnersAreIn, D!Open
  <1>2. CASE D!Next
    <2>1. DirectoryTyped
      BY DEF DirectoryInv
    <2>2. PICK u \in Usernames, a \in Accounts :
            Becomes(u, a) /\ (Made(u, a) \/ Returned(u, a) \/ Changed(u, a) \/ Closed(u, a))
      BY <1>2, <2>1, DirectoryStep
    <2>3. accounts' \in [Usernames -> Accounts \cup {NoAccount}]
      BY <2>1, <2>2, BecomesEffect
    <2>4. owner' \in [D!Identities -> Usernames \cup {Nobody}]
      <3>1. CASE owner' = owner
        BY <2>1, <3>1 DEF DirectoryTyped
      <3>2. CASE \E i \in D!Identities : D!Join(i, u)
        BY <2>1, <3>2, JoinEffect
      <3>3. CASE D!Close(u)
        BY <2>1, <3>3 DEF D!Close, DirectoryTyped
      <3> QED
        BY <2>2, <3>1, <3>2, <3>3 DEF Made, Returned, Changed, Closed
    <2>5. D!EmailsDiffer'
      <3>1. \/ accounts[u] # NoAccount /\ a.email = accounts[u].email
            \/ \A v \in Usernames : accounts[v] # NoAccount => accounts[v].email # a.email
        BY <2>2 DEF Made, Returned, Changed, Closed, D!Open
      <3> QED
        BY <2>2, <3>1, EmailsStep
    <2>6. D!OwnersAreIn'
      <3>1. CASE Closed(u, a)
        BY <2>1, <2>2, <3>1, BecomesEffect DEF Closed, D!Close, DirectoryInv, D!OwnersAreIn, D!Open
      <3>2. CASE ~Closed(u, a)
        <4>1. a.live = TRUE \/ (accounts[u] # NoAccount /\ a.live = accounts[u].live)
          BY <2>2, <3>2 DEF Made, Returned, Changed, D!Open
        <4>2. owner' = owner \/ (a.live = TRUE /\ \E i \in D!Identities : D!Join(i, u))
          BY <2>2, <3>2 DEF Made, Returned, Changed
        <4> QED
          BY <2>2, <4>1, <4>2, OwnersStep
      <3> QED
        BY <3>1, <3>2
    <2> QED
      BY <2>3, <2>4, <2>5, <2>6 DEF DirectoryInv, DirectoryTyped
  <1> QED
    BY <1>1, <1>2

LEMMA DirectoryInvHolds == ASSUME DirectoryAssumption PROVE D!Spec => []DirectoryInv
  <1>1. D!Init => DirectoryInv
    BY DEF D!Init, DirectoryAssumption, DirectoryInv, DirectoryTyped, D!EmailsDiffer, D!OwnersAreIn
  <1> QED
    BY <1>1, DirectoryNext, PTL DEF D!Spec

\* No two accounts ever have an email in common (domain/user.go:13).
THEOREM EmailsStayApart == ASSUME DirectoryAssumption PROVE D!Spec => []D!EmailsDiffer
  <1>1. DirectoryInv => D!EmailsDiffer
    BY DEF DirectoryInv
  <1> QED
    BY <1>1, DirectoryInvHolds, PTL

\* An identity never opens a closed account, and no account is opened by two
\* identities of one provider (domain/user.go:49, domain/oauth_account.go:12-13).
THEOREM IdentitiesOpenAccounts == ASSUME DirectoryAssumption PROVE D!Spec => []D!OwnersAreIn
  <1>1. DirectoryInv => D!OwnersAreIn
    BY DEF DirectoryInv
  <1> QED
    BY <1>1, DirectoryInvHolds, PTL

\* A username stays with the account it was given to, and the account with its
\* email: neither can be had again by somebody else (domain/user.go:10-18).
THEOREM AccountsAreForGood == ASSUME DirectoryAssumption PROVE D!Spec => D!AccountsStay
  <1>1. DirectoryInv /\ [D!Next]_(D!directoryVars) =>
          [\A u \in Usernames : accounts[u] # NoAccount =>
             accounts'[u] # NoAccount /\ accounts'[u].email = accounts[u].email]_(D!directoryVars)
    <2> SUFFICES ASSUME DirectoryInv, D!Next,
                        NEW v \in Usernames, accounts[v] # NoAccount
                 PROVE  accounts'[v] # NoAccount /\ accounts'[v].email = accounts[v].email
      OBVIOUS
    <2> HIDE DEF Accounts
    <2>1. DirectoryTyped
      BY DEF DirectoryInv
    <2>2. PICK u \in Usernames, a \in Accounts :
            Becomes(u, a) /\ (Made(u, a) \/ Returned(u, a) \/ Changed(u, a) \/ Closed(u, a))
      BY <2>1, DirectoryStep
    <2>3. accounts[u] # NoAccount => a.email = accounts[u].email
      BY <2>2 DEF Made, Returned, Changed, Closed
    <2> QED
      BY <2>1, <2>2, <2>3, BecomesEffect
  <1> QED
    BY <1>1, DirectoryInvHolds, PTL DEF D!Spec, D!AccountsStay

\* What was closed, only a sign-in opens, with an identity that from then on
\* belongs to the account (auth.go:312-328).
THEOREM ClosedUntilSignIn == ASSUME DirectoryAssumption PROVE D!Spec => D!ReopenedBySignIn
  <1>1. DirectoryInv /\ [D!Next]_(D!directoryVars) =>
          [\A u \in Usernames : accounts[u] # NoAccount /\ ~D!Open(u) /\ D!Open(u)' =>
             \E i \in D!Identities : owner[i] = Nobody /\ owner'[i] = u]_(D!directoryVars)
    <2> SUFFICES ASSUME DirectoryInv, D!Next,
                        NEW v \in Usernames, accounts[v] # NoAccount, ~D!Open(v), D!Open(v)'
                 PROVE  \E i \in D!Identities : owner[i] = Nobody /\ owner'[i] = v
      OBVIOUS
    <2> HIDE DEF Accounts
    <2>1. DirectoryTyped
      BY DEF DirectoryInv
    <2>2. PICK u \in Usernames, a \in Accounts :
            Becomes(u, a) /\ (Made(u, a) \/ Returned(u, a) \/ Changed(u, a) \/ Closed(u, a))
      BY <2>1, DirectoryStep
    <2>3. u = v /\ accounts'[v] = a
      BY <2>1, <2>2, BecomesEffect DEF D!Open
    <2>4. a.live
      BY <2>3 DEF D!Open
    <2>5. Returned(v, a)
      BY <2>2, <2>3, <2>4 DEF Made, Changed, Closed, D!Open
    <2> QED
      BY <2>1, <2>5, JoinEffect DEF Returned
  <1> QED
    BY <1>1, DirectoryInvHolds, PTL DEF D!Spec, D!ReopenedBySignIn

=============================================================================
