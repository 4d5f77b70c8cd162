------------------------------ MODULE MCSimStore ------------------------------
(* SimStore for TLC; the constants are given in the SimStore_*.cfg files. *)
EXTENDS SimStore
=============================================================================
