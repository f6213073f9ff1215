SPECIFICATION Spec
CONSTANTS
    root = root  dd = dd  da = da  db = db  de = de  dec = dec
    kd = kd  ka = ka  kb = kb  kc = kc
    NoEntry = NoEntry  Directory = Directory  Hole = Hole  NoStat = NoStat  None = None
    Missing = Missing  Torn = Torn
    Reqs = {r1, r2, r3}
    Paths = {root, dd, da, de, dec}
    Root = root
    ParentOf <- Tree
    Initial = {da, dec}
    InitialDirs = {root, dd, de}
    Chunks = 1
    TempNums = {0, 1, 2}
    Keys = {kd, ka, kc}
    PathOf <- Spelling
    Calls <- PruneCalls
    PruneEmptyDirs = TRUE
    RequestTimeout = FALSE
    Fsync = FALSE
    Faults = {"write", "mkdir"}
    Crashes = 0
    PowerLoss = FALSE
    Disconnects = FALSE
    Serialised = FALSE
SYMMETRY RequestSymmetry
CHECK_DEADLOCK FALSE
INVARIANTS TreeClosed NoSkeleton NoOrphanTemps IInv
