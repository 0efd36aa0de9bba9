-------------------------- MODULE MCSessionService --------------------------
(* Small instances of SessionService for TLC. *)
EXTENDS SessionService, TLC

\* Nothing distinguishes two requests, tokens or session ids.
Interchangeable ==
    Permutations(Requests) \cup Permutations(Tokens) \cup Permutations(SessionIds)

\* The same when there are several users.
InterchangeableUsers == Interchangeable \cup Permutations(Users)

=============================================================================
