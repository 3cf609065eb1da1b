--------------------------- MODULE MCEventIngest ---------------------------
(* Small instances of EventIngest for TLC. *)
EXTENDS EventIngest, TLC

Symmetry == Permutations(Procs) \cup Permutations(Users) \cup Permutations(Keys)
=============================================================================
