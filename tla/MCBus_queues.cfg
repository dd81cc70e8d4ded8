SPECIFICATION BusSpec
CONSTANTS
    Sub = {s1, s2}
    Publisher = {p1, p2}
    Size = {1, 3, 4}
    MaxQueue = 2
    MaxBytes = 3
    MaxSubscribers = 1
    MaxEvents = 3
SYMMETRY Symmetric
INVARIANTS QueueBounded NoSilentLoss KeepsTheNewest
CHECK_DEADLOCK FALSE
