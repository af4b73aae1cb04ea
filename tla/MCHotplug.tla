------------------------------ MODULE MCHotplug -------------------------------
(***************************************************************************)
(* Instances of Hotplug for TLC.                                           *)
(***************************************************************************)
EXTENDS Hotplug, TLC

CONSTANTS usb, mouse

TwoDevices == {usb, mouse}
=============================================================================
