CONSTANTS
    Threads = {t1, t2}
    MaxAsks = 3
    MaxPairs = 1
    MaxFails = 1
SPECIFICATION Spec
INVARIANTS OnePlace RightReply UseCovers
PROPERTIES EachAskEnds
