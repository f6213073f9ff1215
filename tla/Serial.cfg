SPECIFICATION Spec
CONSTANTS
    root = root  dd = dd  da = da  db = db  de = de  dec = dec
    kd = kd  ka = ka  kb = kb  kc = kc
    NoEntry = NoEntry  Directory = Directory  Hole = Hole  NoStat = NoStat  None = None
    Missing = Missing  Torn = Torn
    Reqs = {r1, r2, r3}
    Paths = {root, dd, da, db}
    Root = root
    ParentOf <- Tree
    Initial = {da}
    InitialDirs = {root, dd}
    Chunks = 2
    TempNums = {0, 1, 2}
    Keys = {ka, kb}
    PathOf <- Spelling
    Calls <- SerialCalls
    PruneEmptyDirs = TRUE
    RequestTimeout = FALSE
    Fsync = FALSE
    Faults = {"write", "stat", "rmdir"}
    Crashes = 0
    PowerLoss = FALSE
    Disconnects = FALSE
    Serialised = TRUE
SYMMETRY RequestSymmetry
CHECK_DEADLOCK FALSE
INVARIANTS CoherentWhenQuiet CopiesWholeWhenQuiet
