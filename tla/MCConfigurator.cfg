SPECIFICATION MCSpec
CONSTANTS
    k1 = k1  k2 = k2
    p1 = p1  p2 = p2  ta = ta  tb = tb  tc = tc  td = td
    Kpz = {k1, k2}
    Templates = {ta, tb, tc, td}
    KpTemplates = {p1, p2}
    Rows <- MCRows
    None = None
    Slips = {}
    Failing = {"windows", "klink", "load_win", "load_tpl", "apply", "unlink"}
    MaxInputs = 5
    MaxFaults = 1
    l1 = l1
    Layouts = {l1}
    NoLayout = NoLayout
    FreeRegs = {1, 2}
    FirstRows <- MCFirstRows
    Looks = {"plain", "small"}
    MaxRows = 3
    MaxClicks = 4
    MaxBreaks = 1
CHECK_DEADLOCK FALSE
INVARIANTS CommandsReachShownKpz ShownIsSelected StoresItsOwn EditsAreKept MutesAreStored
PROPERTY RefreshServed
