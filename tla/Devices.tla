-------------------------------- MODULE Devices --------------------------------
(* The disks with ata.c, the clock with rtc.c, the USB bus while its devices are   *)
(* found, and the USB keyboard.  These drivers share no state and a call of one    *)
(* never overlaps a call of another: they run with interrupts off, or before the   *)
(* first task.  Whatever happens with all of them is therefore something that      *)
(* happens with each, and a behaviour follows one.                                 *)
EXTENDS Ata, Rtc, UsbBus, UsbKeys

VARIABLE device   \* the one that is followed

vars == <<ataVars, rtcVars, busVars, keyVars, device>>

Disks == (DriverStep \/ DriveStep) /\ UNCHANGED <<rtcVars, busVars, keyVars>>

Clock == (ClockCall \/ ClockGoesOn) /\ UNCHANGED <<ataVars, busVars, keyVars>>

Bus == BusStep /\ UNCHANGED <<ataVars, rtcVars, keyVars>>

Keyboard == KeysStep /\ UNCHANGED <<ataVars, rtcVars, busVars>>

Init ==
  /\ AtaInit /\ RtcInit /\ BusInit /\ KeysInit
  /\ device \in {"disks", "clock", "bus", "keyboard"}

Next ==
  /\ \/ device = "disks" /\ Disks
     \/ device = "clock" /\ Clock
     \/ device = "bus" /\ Bus
     \/ device = "keyboard" /\ Keyboard
  /\ UNCHANGED device

Spec == Init /\ [][Next]_vars
================================================================================
