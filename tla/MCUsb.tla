---------------------------------- MODULE MCUsb --------------------------------
(* Usb with a keyboard and one storage device. *)
EXTENDS Usb
================================================================================
