------------------------------ MODULE MCBroker ------------------------------
(* A small instance of Broker for TLC. *)
EXTENDS Broker, TLC

Symmetry == Permutations(Pubs) \cup Permutations(Streams) \cup Permutations(Users)
=============================================================================
