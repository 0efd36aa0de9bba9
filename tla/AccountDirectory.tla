-------------------------- MODULE AccountDirectory --------------------------
(***************************************************************************)
(* What accounts are to their owners, with no transactions, caches or      *)
(* requests in flight: an account is opened under a name and an email that *)
(* nobody has had, an identity at a provider opens one account, and an     *)
(* account is closed with all its identities let go.  Who signs in with an *)
(* identity that opens nothing yet gets the account of his email, opened   *)
(* again as it was if it is closed, or a new one.                          *)
(***************************************************************************)
CONSTANTS Usernames, Emails, RoleSets, NewRoles, Providers, Subjects, NoAccount, Nobody

VARIABLES
    accounts,  \* the account of each username, closed ones included
    owner      \* the user whose account each identity opens

directoryVars == <<accounts, owner>>

Identities == Providers \X Subjects

Init ==
    /\ accounts = [u \in Usernames |-> NoAccount]
    /\ owner = [i \in Identities |-> Nobody]

Open(u) == accounts[u] # NoAccount /\ accounts[u].live

\* A name and an email that no account has or ever had.
Create(u, email, roles) ==
    /\ accounts[u] = NoAccount
    /\ \A v \in Usernames : accounts[v] # NoAccount => accounts[v].email # email
    /\ accounts' = [accounts EXCEPT ![u] = [email |-> email, live |-> TRUE, roles |-> roles]]

\* From now on the identity i opens the account of u, its only one at that provider.
Join(i, u) ==
    /\ owner[i] = Nobody
    /\ \A subject \in Subjects : owner[<<i[1], subject>>] # u
    /\ owner' = [owner EXCEPT ![i] = u]

Register(u, email, roles) == Create(u, email, roles) /\ UNCHANGED owner

SignUp(i, u, email) == Create(u, email, NewRoles) /\ Join(i, u)

\* An account that was closed is open again, as it was.
SignIn(i, u) ==
    /\ accounts[u] # NoAccount
    /\ accounts' = [accounts EXCEPT ![u] = [accounts[u] EXCEPT !.live = TRUE]]
    /\ Join(i, u)

Change(u, roles) ==
    /\ Open(u)
    /\ accounts' = [accounts EXCEPT ![u] = [accounts[u] EXCEPT !.roles = roles]]
    /\ UNCHANGED owner

Close(u) ==
    /\ Open(u)
    /\ accounts' = [accounts EXCEPT ![u] = [accounts[u] EXCEPT !.live = FALSE]]
    /\ owner' = [i \in Identities |-> IF owner[i] = u THEN Nobody ELSE owner[i]]

Next ==
    \E u \in Usernames :
      \/ \E email \in Emails, roles \in RoleSets : Register(u, email, roles)
      \/ \E i \in Identities, email \in Emails : SignUp(i, u, email)
      \/ \E i \in Identities : SignIn(i, u)
      \/ \E roles \in RoleSets : Change(u, roles)
      \/ Close(u)

Spec == Init /\ [][Next]_directoryVars

-----------------------------------------------------------------------------
(* What this comes to.                                                     *)

\* No two accounts have an email in common, closed ones included: the index on
\* the column does not look at deleted_at (domain/user.go:13).
EmailsDiffer ==
    \A u, v \in Usernames :
      accounts[u] # NoAccount /\ accounts[v] # NoAccount /\ accounts[u].email = accounts[v].email
        => u = v

\* An identity opens an account that is open, or nothing, and an account is opened
\* by one identity of each provider (domain/user.go:49, domain/oauth_account.go:12-13,
\* auth.go:297-303).
OwnersAreIn ==
    \A i \in Identities : owner[i] # Nobody =>
      /\ owner[i] \in Usernames /\ Open(owner[i])
      /\ \A j \in Identities : i[1] = j[1] /\ owner[j] = owner[i] => i = j

\* An account is never lost to its name, and never moves to another email: deletion
\* is soft, and no endpoint changes either (domain/user.go:18, user.go:160-175).
AccountsStay ==
    [][\A u \in Usernames : accounts[u] # NoAccount =>
         accounts'[u] # NoAccount /\ accounts'[u].email = accounts[u].email]_directoryVars

\* A closed account is opened again only by an identity that signs in to it
\* (auth.go:312-320).
ReopenedBySignIn ==
    [][\A u \in Usernames :
         accounts[u] # NoAccount /\ ~Open(u) /\ Open(u)' =>
           \E i \in Identities : owner[i] = Nobody /\ owner'[i] = u]_directoryVars

=============================================================================
