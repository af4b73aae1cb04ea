CONSTANTS
    None = None
    Payloads <- States
    FutureIds <- NoFuture
    KeepAuto = 1
    MaxFiles = 3
    MaxDamage = 1
    Faults = {"write"}
    VerbFaults = TRUE
    Commands <- SomeCommands
    Others = {"delete", "change"}
    MaxOthers = 3
SPECIFICATION CliSpec
CHECK_DEADLOCK FALSE
INVARIANTS ActsOnTheMatch DiffTells
PROPERTIES ExitCodeTells
