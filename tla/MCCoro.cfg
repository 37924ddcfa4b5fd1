CONSTANTS
    Num = 4
    AddStep = 2
    LowSlot = 2
    MaxTasks = 6
SPECIFICATION Spec
INVARIANTS RingSound EachTaskOnce WholeIsBarrier
PROPERTIES EachTaskDone
