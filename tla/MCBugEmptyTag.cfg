SPECIFICATION Spec
CONSTANTS
    MaxFile = 8
    FileHead = 2
    MsgHead = 2
    Lens = {1, 2}
    MaxQue = 9
    Wide = 64
    Serialised = TRUE
    Faults = {}
    CrashAt = {"idle", "wdb"}
    MaxMsgs = 3
    MaxFaults = 0
    MaxCrashes = 1
    MaxCloses = 0
PROPERTIES EmptyTagsIgnored
