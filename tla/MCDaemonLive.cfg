CONSTANTS
    rootDisk = rootDisk
    kbd = kbd
    mouse = mouse
    portA = portA
    portB = portB
    portR = portR
    Nobody = Nobody
    NoSerial = "none"
    Ports <- SomePorts
    Units <- SomeUnits
    Models <- SomeModels
    Serials <- SomeSerials
    UdevId <- SerialIds
    SysfsId <- SerialIds
    Home <- AllHome
    Movable = {kbd, mouse}
    Keyboards = {kbd}
    Pointers = {kbd, mouse}
    RootUnits = {rootDisk}
    UsbPorts = {portA}
    Verbs = {"disable", "enable"}
    MaxPlugs = 2
    MaxRequests = 2
    MaxCrashes = 1
    StoreFaults = FALSE
    HwFaults = FALSE
    PlugAtStartup = FALSE
SPECIFICATION FairSpec
CHECK_DEADLOCK FALSE
PROPERTIES QueuedDeviceIsEnforced RestartEnforces
