-------------------------- MODULE MCGoogleSignIn --------------------------
(* Small instances of GoogleSignIn for TLC. *)
EXTENDS GoogleSignIn, TLC

Symmetry == Permutations(Procs) \cup Permutations(Emails) \cup Permutations(Subs)
=============================================================================
