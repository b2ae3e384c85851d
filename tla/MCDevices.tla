------------------------------- MODULE MCDevices -------------------------------
(* A disk of two sectors and whatever the slave may be.  A clock with short units   *)
(* that is followed day by day over the century, and read around the ends of a     *)
(* leap February, another February and a year.  A USB hub with a hub of its own,   *)
(* behind which there is a keyboard, with a stick that calls itself a hub, as QEMU *)
(* presents it, and with a mouse.  A keyboard with three keys and a ring for two   *)
(* characters.                                                                     *)
EXTENDS Devices

NearEnds == {<<0, 2, 29>>, <<25, 2, 28>>, <<25, 12, 31>>}
LastSecond == {<<1, 1, 1>>}

CONSTANTS host, hub, inner, stick, keyboard, mouse

Attached == {hub, inner, stick, keyboard, mouse}
Where == (hub :> <<host, 2>>) @@ (inner :> <<hub, 1>>) @@ (keyboard :> <<inner, 1>>)
         @@ (stick :> <<hub, 3>>) @@ (mouse :> <<hub, 4>>)
What == (hub :> [class |-> "hub", iface |-> "other", ports |-> 4])
        @@ (inner :> [class |-> "hub", iface |-> "other", ports |-> 1])
        @@ (stick :> [class |-> "hub", iface |-> "storage", ports |-> 0])
        @@ (keyboard :> [class |-> "none", iface |-> "keyboard", ports |-> 0])
        @@ (mouse :> [class |-> "hid", iface |-> "mouse", ports |-> 0])
================================================================================
