------------------------------ MODULE MCPoller ------------------------------
(* Small instances of Poller. *)
EXTENDS Poller, TLC

Symmetry == Permutations(Users) \cup Permutations(Actors)
=============================================================================
