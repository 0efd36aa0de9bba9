-------------------------- MODULE MCAccountService --------------------------
(* Small instances of AccountService for TLC. *)
EXTENDS AccountService, TLC

Interchangeable ==
    Permutations(Requests) \cup Permutations(Usernames) \cup Permutations(Emails)
      \cup Permutations(Subjects)

=============================================================================
