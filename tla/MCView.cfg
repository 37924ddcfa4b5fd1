CONSTANTS
    W = 2
    Times = 2
    M = 2
    C = 1
    Room = 3
    Leaders = {leader}
    Recvers = {recver}
    Engines = {"smart", "swift"}
    Funcs = {TRUE, FALSE}
    MaxTasks = 3
SPECIFICATION Spec
INVARIANTS   FlagAlive  
PROPERTIES  HitsReturn
