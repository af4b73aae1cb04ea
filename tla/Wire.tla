-------------------------------- MODULE Wire --------------------------------
(***************************************************************************)
(* What crosses the bus between a client and devmgrd: the error names, the *)
(* API versions and the bounds of the arguments, and what the command line *)
(* client makes of an error.                                               *)
(***************************************************************************)
EXTENDS Naturals

Codes == {"Permission", "NotFound", "Busy", "Io", "Network", "Unsupported", "Conflict", "InvalidArgs"}

\* Failures that come from the bus and not from devmgrd.
NotAnswering == {"NoReply", "Timeout"}
NotThere == {"UnitMasked", "NoSuchUnit", "UnitInactive", "NameHasNoOwner", "NoServer",
             "Disconnected", "Spawn"}

\* dbusErrorNameFor: Busy, Io and Network are one name on the wire.
ErrorName(code) ==
    CASE code = "Conflict" -> "CriticalDevice"
      [] code = "Permission" -> "NotAuthorized"
      [] code \in {"NotFound", "Unsupported", "InvalidArgs"} -> code
      [] OTHER -> "Io"

\* coreErrorFor: an unknown name is an I/O failure.
CoreError(name) ==
    CASE name = "CriticalDevice" -> "Conflict"
      [] name = "NotAuthorized" -> "Permission"
      [] name \in {"NotFound", "Unsupported", "InvalidArgs"} -> name
      [] name \in NotAnswering \cup NotThere -> "Busy"
      [] OTHER -> "Io"

\* The API version a verb requires; SetDeviceEnabled is called without asking.
ApiNeeded(verb) ==
    CASE verb \in {"load", "unload", "bind", "unbind", "disabled"} -> 2
      [] verb \in {"list", "create", "restore", "delete"} -> 3
      [] verb = "diff" -> 4
      [] verb \in {"enable", "disable"} -> 0

\* request_validation: an argument is empty, too long, of other characters, or fine.
Arguments == {"empty", "long", "strange", "fine"}
ValidName(a) == a = "fine"
ValidLabel(a) == a \in {"empty", "fine"}
ValidId(a) == a = "fine"

\* exitCodeFor; marked is that an Io message has one of the phrases that say the
\* daemon could not be reached.
ExitCode(code, marked) ==
    CASE code = "Permission" -> 3
      [] code = "NotFound" -> 2
      [] code = "InvalidArgs" -> 1
      [] code = "Busy" \/ (code = "Io" /\ marked) -> 4
      [] OTHER -> 5
=============================================================================
