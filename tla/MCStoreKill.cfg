SPECIFICATION Spec
CONSTANTS
    MaxFile = 8
    FileHead = 2
    MsgHead = 2
    Lens = {1, 2}
    MaxQue = 9
    Wide = 64
    Serialised = TRUE
    Faults = {"space", "rtag"}
    CrashAt = {"idle", "index", "end", "reset", "parse", "wrap", "load", "store",
               "rtag", "ret"}
    MaxMsgs = 4
    MaxFaults = 1
    MaxCrashes = 2
    MaxCloses = 2
INVARIANTS UnreadCount LossBound
PROPERTIES NeverRefused
