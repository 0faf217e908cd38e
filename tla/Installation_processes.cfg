SPECIFICATION FairSpec
CONSTANTS
    Processes = {p1, p2, p3}
    None = None
    Commands = {"update", "cache"}
    Faults = {"crash", "fetch"}
    MaxWait = 1
INVARIANTS
    TypeOK
    CacheIsWhole
    ExclusiveDownload
    UpdatesLeaveInstallation
PROPERTIES
    EveryProcessEnds
