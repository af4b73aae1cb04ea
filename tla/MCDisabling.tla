---------------------------- MODULE MCDisabling -----------------------------
(* A SATA controller with a partitioned disk, a USB controller with a hub    *)
(* that holds a keyboard, a mouse and a disk, and a second keyboard; a       *)
(* mapped device over one partition and a mirror over the mapped device      *)
(* and the USB disk.                                                         *)
EXTENDS Disabling

Sata == <<"pci", "sata">>
Usb == <<"pci", "usb">>
Hub == <<"pci", "usb", "hub">>
Combo == <<"pci", "usb", "hub", "combo">>
Stick == <<"pci", "usb", "hub", "stick">>
Kbd == <<"pci", "usb", "kbd">>

MCDevices == {Sata, Usb, Hub, Combo, Stick, Kbd}
MCBlocks == {"sda1", "sdb", "dm", "md"}
MCSlaves == [b \in MCBlocks |->
    CASE b = "dm" -> {"sda1"} [] b = "md" -> {"dm", "sdb"} [] OTHER -> {}]
MCBlockDir == [b \in MCBlocks |->
    CASE b = "sda1" -> Sata \o <<"sda", "sda1">> [] b = "sdb" -> Stick \o <<"sdb">>
      [] OTHER -> <<"virtual", b>>]
MCKeyboards == {Combo \o <<"i1">>, Kbd \o <<"i2">>}
MCPointers == {Combo \o <<"i3">>}
MCModuleSet == {"ahci", "usbhid"}
MCDrives == [m \in MCModuleSet |-> IF m = "ahci" THEN {Sata} ELSE {Combo, Kbd}]
=============================================================================
