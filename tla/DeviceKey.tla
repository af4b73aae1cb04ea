------------------------------ MODULE DeviceKey ------------------------------
(***************************************************************************)
(* core/src/device_key.cpp: the persistent identity of a device.           *)
(*                                                                         *)
(* A sysfs path is identified with its last segment, the kernel's          *)
(* positional name, which is unique on a bus; two devices on different     *)
(* buses differ in their model here (the bus is part of it).  A device is  *)
(* described by its identity record and the port it sits at.               *)
(***************************************************************************)
EXTENDS Naturals

CONSTANTS
    Ports,    \* sysfs paths a device can sit at
    Models,   \* (bus, vendorId, productId)
    Serials,  \* serial numbers, the empty one included
    NoSerial  \* the empty serial

ASSUME KeyAssumption == NoSerial \in Serials

Identity == [model : Models, serial : Serials]
DeviceKeys == [model : Models, serial : Serials, pos : Ports]

\* makeDeviceKey(device)
PlainKey(id, p) == [model |-> id.model, serial |-> id.serial, pos |-> p]

\* Another device of `present' (port -> identity) has the same serial tuple.
Cloned(id, p, present) ==
    \E q \in DOMAIN present :
        q # p /\ present[q].model = id.model /\ present[q].serial = id.serial

\* makeDeviceKey(device, present): a cloned serial is downgraded to the port.
MakeKey(id, p, present) ==
    IF id.serial # NoSerial /\ Cloned(id, p, present)
    THEN [PlainKey(id, p) EXCEPT !.serial = NoSerial]
    ELSE PlainKey(id, p)

\* matchesDevice
Matches(k, id, p) ==
    /\ id.model = k.model
    /\ IF k.serial # NoSerial THEN id.serial = k.serial ELSE p = k.pos
=============================================================================
