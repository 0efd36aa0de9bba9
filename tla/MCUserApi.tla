----------------------------- MODULE MCUserApi -----------------------------
(* Small instances of UserApi for TLC. *)
EXTENDS UserApi, TLC

Interchangeable == Permutations(Users) \cup Permutations(Requests)

=============================================================================
