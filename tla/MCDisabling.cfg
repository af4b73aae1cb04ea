SPECIFICATION DisablingSpec
CONSTANTS
    Devices <- MCDevices
    Blocks <- MCBlocks
    Slaves <- MCSlaves
    BlockDir <- MCBlockDir
    Sources = {"md", "sdb", "pool"}
    KeyboardInputs <- MCKeyboards
    PointerInputs <- MCPointers
    Drivers <- MCModuleSet
    Drives <- MCDrives
    MaxEvents = 2
    MaxVerbs = 3
INVARIANT StorageStays
PROPERTY InputKept
CHECK_DEADLOCK FALSE
