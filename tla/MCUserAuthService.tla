------------------------- MODULE MCUserAuthService -------------------------
(* Small instances of UserAuthService for TLC. *)
EXTENDS UserAuthService, TLC

Interchangeable ==
    Permutations(Requests) \cup Permutations(Tokens) \cup Permutations(SessionIds)

=============================================================================
