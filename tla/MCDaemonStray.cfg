CONSTANTS
    rootDisk = rootDisk
    kbd = kbd
    mouse = mouse
    portA = portA
    portB = portB
    portR = portR
    Nobody = Nobody
    NoSerial = "none"
    Ports <- SomePorts
    Units <- SomeUnits
    Models <- SomeModels
    Serials <- SomeSerials
    UdevId <- DistinctIds
    SysfsId <- DistinctIds
    Home <- AllHome
    Movable = {kbd, mouse}
    Keyboards = {}
    Pointers = {}
    RootUnits = {rootDisk}
    UsbPorts = {portA}
    Verbs = {"disable", "enable"}
    MaxPlugs = 1
    MaxRequests = 2
    MaxCrashes = 0
    StoreFaults = FALSE
    HwFaults = FALSE
    PlugAtStartup = FALSE
SPECIFICATION Spec
CHECK_DEADLOCK FALSE
INVARIANT NoStrayDisable
