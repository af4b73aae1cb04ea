CONSTANTS
    usb = usb
    mouse = mouse
    Devices <- TwoDevices
    MaxChanges = 4
    MaxRefreshes = 1
SPECIFICATION FairSpec
CHECK_DEADLOCK FALSE
INVARIANTS NoStrandedEvent StopBarrier
PROPERTIES Converges StopReturns
