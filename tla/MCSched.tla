------------------------------- MODULE MCSched -------------------------------
(* Small sets of tasks for Sched. *)
EXTENDS Sched

CONSTANTS u1, u2, k1, k2
=============================================================================
