SPECIFICATION Spec
CONSTANTS
    MaxFile = 8
    FileHead = 2
    MsgHead = 2
    Lens = {1, 2}
    MaxQue = 9
    Wide = 64
    Serialised = TRUE
    Faults = {"space", "wtag", "db", "rtag", "rdb", "open"}
    CrashAt = {"idle", "creat", "wipe", "mk_rtag", "mk_wtag", "mk_db", "mk_open",
               "full", "fit", "lock", "wtag", "wdb", "wpos", "widx", "head",
               "unlink", "rec", "body", "pos", "num", "inc", "tag",
               "index", "end", "reset", "parse", "wrap", "load", "store",
               "rtag", "ret", "r_lock", "r_open", "r_write", "r_unlink", "r_map"}
    MaxMsgs = 4
    MaxFaults = 1
    MaxCrashes = 2
    MaxCloses = 0
INVARIANTS TypeOK InOrderAtMostOnce
