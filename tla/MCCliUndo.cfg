CONSTANTS
    None = None
    Payloads <- States
    FutureIds <- NoFuture
    KeepAuto = 1
    MaxFiles = 3
    MaxDamage = 0
    Faults = {}
    VerbFaults = FALSE
    Commands <- Restores
    Others = {"create", "delete", "change"}
    MaxOthers = 5
SPECIFICATION CliSpec
CHECK_DEADLOCK FALSE
INVARIANT RestoreUndoable
