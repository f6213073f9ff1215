SPECIFICATION HungSpec
CONSTANTS
    root = root  dd = dd  da = da  db = db  de = de  dec = dec
    kd = kd  ka = ka  kb = kb  kc = kc
    NoEntry = NoEntry  Directory = Directory  Hole = Hole  NoStat = NoStat  None = None
    Missing = Missing  Torn = Torn
    Reqs = {r1, r2}
    Paths = {root, dd, da, db, de, dec}
    Root = root
    ParentOf <- Tree
    Initial = {da}
    InitialDirs = {root, dd}
    Chunks = 1
    TempNums = {0, 1}
    Keys = {ka, kb, kc}
    PathOf <- Spelling
    Calls <- AllCalls
    PruneEmptyDirs = TRUE
    RequestTimeout = TRUE
    Fsync = TRUE
    Faults = {"mkdir", "create", "copy", "unlink", "rmdir", "open", "stat"}
    Crashes = 1
    PowerLoss = TRUE
    Disconnects = FALSE
    Serialised = FALSE
CHECK_DEADLOCK FALSE
INVARIANT TypeOK
PROPERTIES RequestsEnd HungStorageAnswered
