SPECIFICATION Spec
CONSTANTS
    root = root  dd = dd  da = da  db = db  de = de  dec = dec
    kd = kd  ka = ka  kb = kb  kc = kc
    NoEntry = NoEntry  Directory = Directory  Hole = Hole  NoStat = NoStat  None = None
    Missing = Missing  Torn = Torn
    Reqs = {r1, r2}
    Paths = {root, dd, da, db}
    Root = root
    ParentOf <- Tree
    Initial = {da}
    InitialDirs = {root, dd}
    Chunks = 1
    TempNums = {0, 1, 2}
    Keys = {ka, kb}
    PathOf <- Spelling
    Calls <- PutBesideDelete
    PruneEmptyDirs = TRUE
    RequestTimeout = FALSE
    Fsync = TRUE
    Faults = {}
    Crashes = 0
    PowerLoss = FALSE
    Disconnects = FALSE
    Serialised = FALSE
SYMMETRY RequestSymmetry
CHECK_DEADLOCK FALSE
INVARIANTS PruneFailsNoPut
