SPECIFICATION Spec
CONSTANTS
    MaxFile = 8
    FileHead = 2
    MsgHead = 2
    Lens = {1, 2}
    MaxQue = 9
    Wide = 64
    Serialised = FALSE
    Faults = {}
    CrashAt = {}
    MaxMsgs = 3
    MaxFaults = 0
    MaxCrashes = 0
    MaxCloses = 0
INVARIANTS EndMeansEmpty
