---------------------------- MODULE PageAllocator ----------------------------
(***************************************************************************)
(* What a page allocator promises its callers: a set of free pages fixed   *)
(* when it comes up, pages and runs of adjacent pages taken only from that *)
(* set, and given back to it only by their owners.                         *)
(***************************************************************************)
EXTENDS Integers

CONSTANTS
  Pages,      (* all pages, adjacent ones numbered consecutively           *)
  Reserved    (* pages that must never be handed out                       *)

VARIABLES
  up,         (* the allocator is in service                               *)
  free,       (* pages it may hand out                                     *)
  owned       (* pages its callers hold                                    *)

vars == <<up, free, owned>>

Init == up = FALSE /\ free = {} /\ owned = {}

ComeUp(S) ==
  /\ ~up /\ up' = TRUE
  /\ free' = S
  /\ UNCHANGED owned

TakeRun(first, last) ==
  /\ up /\ first .. last \subseteq free
  /\ free' = free \ first .. last
  /\ owned' = owned \cup first .. last
  /\ UNCHANGED up

Give(p) ==
  /\ up /\ p \in owned
  /\ free' = free \cup {p}
  /\ owned' = owned \ {p}
  /\ UNCHANGED up

Next ==
  \/ \E S \in SUBSET (Pages \ Reserved) : ComeUp(S)
  \/ \E first, last \in Pages : first <= last /\ TakeRun(first, last)
  \/ \E p \in Pages : Give(p)

Spec == Init /\ [][Next]_vars
=============================================================================
