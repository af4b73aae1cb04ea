CONSTANTS
    rootDisk = rootDisk
    kbd = kbd
    mouse = mouse
    portA = portA
    portB = portB
    portR = portR
    Nobody = Nobody
    NoSerial = "none"
    Ports <- SomePorts
    Units <- SomeUnits
    Models <- SomeModels
    Serials <- SomeSerials
    UdevId <- SerialIds
    SysfsId <- SysfsSerialless
    Home <- AllHome
    Movable = {kbd, mouse}
    Keyboards = {kbd}
    Pointers = {}
    RootUnits = {rootDisk}
    UsbPorts = {portA}
    Verbs = {"disable", "enable", "unbind", "bind", "create", "restore"}
    MaxPlugs = 1
    MaxRequests = 3
    MaxCrashes = 1
    StoreFaults = TRUE
    HwFaults = TRUE
    PlugAtStartup = TRUE
SPECIFICATION Spec
CHECK_DEADLOCK FALSE
INVARIANTS RootStaysOn EntryGoneBeforeRebind
PROPERTIES UndoPossible SetIsKept
