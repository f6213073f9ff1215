SPECIFICATION Spec
CONSTANTS
    root = root  dd = dd  da = da  db = db  de = de  dec = dec
    kd = kd  ka = ka  kb = kb  kc = kc
    NoEntry = NoEntry  Directory = Directory  Hole = Hole  NoStat = NoStat  None = None
    Missing = Missing  Torn = Torn
    Reqs = {r1, r2, r3}
    Paths = {root, dd, da}
    Root = root
    ParentOf <- Tree
    Initial = {da}
    InitialDirs = {root, dd}
    Chunks = 2
    TempNums = {0, 1, 2}
    Keys = {kd, ka}
    PathOf <- Spelling
    Calls <- UploadCalls
    PruneEmptyDirs = TRUE
    RequestTimeout = TRUE
    Fsync = TRUE
    Faults = {"sync"}
    Crashes = 1
    PowerLoss = TRUE
    Disconnects = TRUE
    Serialised = FALSE
SYMMETRY RequestSymmetry
CHECK_DEADLOCK FALSE
INVARIANTS TreeClosed UploadsPrivate ObjectsWhole GetConsistent ReadInv
PROPERTIES ObjectsReplacedWhole ImplementsMap
