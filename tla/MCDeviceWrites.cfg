SPECIFICATION MCSpec
CONSTANTS
    w1 = w1  d1 = d1
    Web = {w1}
    Desk = {d1}
    Bits = {0, 1}
    Requests <- MCRequests
    RATE_MAX = 1
    RATE_WINDOW = 2
    UnknownFuncs = {{6}, {16}}
    MaxAsked <- MCMaxAsked
    MaxLate = 1
    MaxTime = 2
    KpzIds = {1, 2, 3}
    FirstIds = {1, 2}
    Grups = {1}
    Habits = {}
    MaxUses = 3
    MaxOthers = 1
    MaxFails = 1
    Windows = {"obj", "reg", "dict", "alarm_rule", "arx_state", "runtime_cfg", "gscript"}
    RowIds = {1, 2, 3}
    OldRows = {1, 2}
CHECK_DEADLOCK FALSE
INVARIANTS OkMeansWritten FormsKeepToTheirRows
PROPERTIES UndoneOnlyByOverlap EveryRequestEnds
