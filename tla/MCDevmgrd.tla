----------------------------- MODULE MCDevmgrd -------------------------------
(***************************************************************************)
(* Instances of Devmgrd for TLC: a root disk that never moves and two      *)
(* movable devices over three ports.                                       *)
(***************************************************************************)
EXTENDS Devmgrd, TLC

CONSTANTS
    rootDisk, kbd, mouse,   \* units
    portA, portB, portR     \* ports

SomeUnits == {rootDisk, kbd, mouse}
SomePorts == {portA, portB, portR}
SomeModels == {"disk", "input", "other"}
SomeSerials == {"none", "s1", "s2"}

Id(m, s) == [model |-> m, serial |-> s]

\* kbd and mouse differ in everything; udev and sysfs agree.
DistinctIds ==
    [u \in SomeUnits |-> CASE u = rootDisk -> Id("disk", "none")
                           [] u = kbd -> Id("input", "s1")
                           [] u = mouse -> Id("other", "none")]

\* Both movable devices carry a serial, so their keys follow them.
SerialIds ==
    [u \in SomeUnits |-> CASE u = rootDisk -> Id("disk", "none")
                           [] u = kbd -> Id("input", "s1")
                           [] u = mouse -> Id("other", "s2")]

\* udev falls back to ID_SERIAL for a device without a serial attribute.
SysfsSerialless ==
    [u \in SomeUnits |-> CASE u = rootDisk -> Id("disk", "none")
                           [] u = kbd -> Id("input", "none")
                           [] u = mouse -> Id("other", "none")]

AllHome == [p \in SomePorts |-> CASE p = portR -> rootDisk [] p = portA -> kbd [] p = portB -> mouse]
OneHome == [p \in SomePorts |-> CASE p = portR -> rootDisk [] p = portA -> kbd [] p = portB -> Nobody]
=============================================================================
