------------------------------- MODULE MountTable ------------------------------
(***************************************************************************)
(* What the mount table promises: at every point the device that was       *)
(* mounted there last and has not been unmounted since.  A mount that      *)
(* fails changes nothing at other points; at its own point, if that is in  *)
(* use, it may leave a file system that no longer reads its device.        *)
(***************************************************************************)
EXTENDS Integers, FiniteSets

CONSTANTS Points, Devices, NoDevice, Capacity

VARIABLES known, at, broken

Init == known = {} /\ at = [p \in Points |-> NoDevice] /\ broken = {}

Register(d) == known' = known \cup {d} /\ UNCHANGED <<at, broken>>

Mount(p, d) ==
  /\ d \in known
  /\ at' = [at EXCEPT ![p] = d]
  /\ Cardinality({q \in Points : at'[q] # NoDevice}) <= Capacity
  /\ broken' = broken \ {p}
  /\ UNCHANGED known

\* Only the device that is mounted there can fail without harm.
Fail(p, d) ==
  /\ d \in known /\ at[p] # NoDevice
  /\ \/ broken' = broken \cup {p}
     \/ d = at[p] /\ broken' = broken \ {p}
  /\ UNCHANGED <<known, at>>

Unmount(p) ==
  /\ at[p] # NoDevice
  /\ at' = [at EXCEPT ![p] = NoDevice]
  /\ broken' = broken \ {p}
  /\ UNCHANGED known

Next ==
  \/ \E d \in Devices : Register(d)
  \/ \E p \in Points, d \in Devices : Mount(p, d) \/ Fail(p, d)
  \/ \E p \in Points : Unmount(p)

Spec == Init /\ [][Next]_<<known, at, broken>>
================================================================================
