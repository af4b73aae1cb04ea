SPECIFICATION Spec
CONSTANTS
    Modules <- MCModuleSet
    Deps <- MCDeps
    Rejected = {"bad"}
    Blacklisted = {}
    Ruled = {}
    Devs <- MCDevs
    DriverOf <- MCDriverOf
    Keyboards <- MCDevs
    Roots = {}
    Workers = {W1, W2}
    CallBudget = 3
    PromptBudget = 2
    MaxChanges = 1
    MaxRequests = 2
    MaxRestarts = 1
    Names = {"hid", "bad", "strange"}
INVARIANT VmOutlivesFill
PROPERTIES GuardHolds SuccessShown
CHECK_DEADLOCK FALSE
