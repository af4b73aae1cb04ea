SPECIFICATION Spec
CONSTANTS
    MaxMessages = 2
    MaxChanges = 1
    MaxTasks = 2
    D1 = D1
    W1 = W1
    W2 = W2
    Devs <- MCDevs
    Workers <- MCWorkers
INVARIANT RowsFollowModel
PROPERTIES MessageStays TeardownEnds
CHECK_DEADLOCK FALSE
