-------------------------- MODULE MCSessionTokens --------------------------
(* Small instances of SessionTokens for TLC. *)
EXTENDS SessionTokens, TLC

Symmetry == Permutations(Procs) \cup Permutations(Tokens) \cup Permutations(Users)
=============================================================================
