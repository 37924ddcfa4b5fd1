CONSTANTS
    Max = 3
    Pushers = {p1, p2}
    Pullers = {c1, c2}
    Words = {1, 2}
    Values = {0, 1}
    Zero = 0
    MaxPushes = 4
SPECIFICATION Spec
INVARIANTS RingInv
PROPERTIES ImplementsFifo RefusedRightly
