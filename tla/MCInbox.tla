------------------------------ MODULE MCInbox -------------------------------
(* Small instances of Inbox. *)
EXTENDS Inbox, TLC

Symmetry == Permutations(Requests)
=============================================================================
