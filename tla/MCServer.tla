------------------------------ MODULE MCServer ------------------------------
(* A small instance of Server: estrys migrates its tables itself, runs the
   embedded worker and is configured with one user; of the two remote actors
   one has an Ed25519 key, and the cache has room for the key of one. *)
EXTENDS Server
=============================================================================
