-------------------------- MODULE SessionLifecycle --------------------------
(***************************************************************************)
(* What a session is to its holder, with no tables, statements or          *)
(* requests: it is opened with a token, each rotation replaces the token   *)
(* by one never seen before, and a revoked session is never opened or      *)
(* rotated again.                                                          *)
(***************************************************************************)
CONSTANTS Ids, Tokens, NoToken

VARIABLES
    status,   \* "none", "open" or "revoked" for each session
    current,  \* the token that renews each session
    spent     \* every token that ever was current

lifecycleVars == <<status, current, spent>>

Init ==
    /\ status = [s \in Ids |-> "none"]
    /\ current = [s \in Ids |-> NoToken]
    /\ spent = {}

\* The session gets a token nobody has held.
Grant(s, t) ==
    /\ t \notin spent
    /\ current' = [current EXCEPT ![s] = t]
    /\ spent' = spent \cup {t}

Open(s, t) ==
    /\ status[s] = "none"
    /\ status' = [status EXCEPT ![s] = "open"]
    /\ Grant(s, t)

Rotate(s, t) ==
    /\ status[s] = "open"
    /\ Grant(s, t)
    /\ UNCHANGED status

Revoke(S) ==
    /\ \A s \in S : status[s] = "open"
    /\ status' = [s \in Ids |-> IF s \in S THEN "revoked" ELSE status[s]]
    /\ UNCHANGED <<current, spent>>

Next ==
    \/ \E s \in Ids, t \in Tokens : Open(s, t) \/ Rotate(s, t)
    \/ \E S \in SUBSET Ids : Revoke(S)

Spec == Init /\ [][Next]_lifecycleVars

-----------------------------------------------------------------------------
(* What this comes to.                                                     *)

\* t is the current token of the session s.
Holds(s, t) == status[s] # "none" /\ current[s] = t

\* A token is the current one of at most one session (auth.go:190, 204).
OneHolder == \A r, s \in Ids, t \in spent : Holds(r, t) /\ Holds(s, t) => r = s

\* A token that was replaced is never the current one again, of its own session
\* or another (auth.go:204, 243).
ReplacedForGood ==
    [][\A t \in spent : (\A s \in Ids : ~Holds(s, t))
         => t \in spent' /\ \A s \in Ids : ~Holds(s, t)']_lifecycleVars

\* A revoked session stays so, with the token it had (auth.go:198, 277-285).
RevokedForGood ==
    [][\A s \in Ids : status[s] = "revoked" =>
         status'[s] = "revoked" /\ current'[s] = current[s]]_lifecycleVars

=============================================================================
