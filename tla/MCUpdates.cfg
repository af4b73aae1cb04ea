CONSTANTS
    w1 = w1
    w2 = w2
    ssd = ssd
    dock = dock
    Workers <- TwoWorkers
    Devices <- OneDevice
    Offers = {"none", "remote", "local"}
    MaxChanges = 1
    MaxRequests = 2
    MaxSignals = 1
SPECIFICATION FairSpec
CHECK_DEADLOCK FALSE
INVARIANTS SlotIsAnInstall ProgressOfAnInstall FacadeOutlivesJobs
PROPERTIES Converges QuitEnds
