SPECIFICATION FairSpec
CONSTANTS
    MaxFile = 8
    FileHead = 2
    MsgHead = 2
    Lens = {1, 2}
    MaxQue = 2
    Wide = 64
    Serialised = FALSE
    Faults = {"space", "rtag", "rdb"}
    CrashAt = {}
    MaxMsgs = 4
    MaxFaults = 1
    MaxCrashes = 0
    MaxCloses = 0
INVARIANTS MapSafe NoTornRead TidyDirectory
PROPERTIES CallsReturn
