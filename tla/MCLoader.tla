------------------------------- MODULE MCLoader -------------------------------
(* Loader on a machine with small page tables. *)
EXTENDS Loader
=============================================================================
