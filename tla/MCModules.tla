----------------------------- MODULE MCModules ------------------------------
(* Two keyboards on one driver, and a module the kernel refuses after its  *)
(* dependency is in.                                                        *)
EXTENDS Modules
MCModuleSet == {"hid", "bad", "dep"}
MCDeps == [m \in MCModuleSet |-> IF m = "bad" THEN {"dep"} ELSE {}]
MCDevs == {<<"usb", "k1">>, <<"usb", "k2">>}
MCDriverOf == [d \in MCDevs |-> "hid"]
=============================================================================
