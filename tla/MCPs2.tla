---------------------------------- MODULE MCPs2 --------------------------------
(* Ps2 with small buffers. *)
EXTENDS Ps2
================================================================================
