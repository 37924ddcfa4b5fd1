CONSTANTS
    P = 2
    Fds = {3, 4, 5}
    Big = {5}
    Heap = {4, 5}
    Room = 1
    MaxConns = 3
    MaxSends = 3
SPECIFICATION Spec
INVARIANTS TypeOK OneOwner OneWay NodeLive OwnAnswer
PROPERTIES EachServed EachCloses
