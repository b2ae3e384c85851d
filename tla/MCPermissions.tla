----------------------------- MODULE MCPermissions -----------------------------
(* Permissions with two tasks, a directory and a file in it. *)
EXTENDS Permissions

MCFiles == {<<"d", "f">>}
MCDirs == {<<"d">>}
Private == [u |-> rw, g |-> {}, o |-> {}]
Shared == [u |-> rw, g |-> rw, o |-> rw]
MCModes == {Private, Shared}
================================================================================
