SPECIFICATION Spec
CONSTANTS
    MaxSnapshots = 2
    First = {1, 2}
    Damaged = {}
    Newer = {}
    Matching = {1}
    MaxOutages = 1
    MaxKeys = 4
    MaxJobs = 2
    Items <- MCItems
    None = None
    Row = Row
INVARIANTS NoTaskOutlives RowsFollow
PROPERTIES TuiImplementsConsole GuiAsksFirst CursorKept
CHECK_DEADLOCK FALSE
