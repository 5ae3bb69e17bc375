SPECIFICATION Spec
CONSTANTS
    Callers = {c1, c2}
    Owners = {u}
    Anon = Anon
    RING_CAPACITY = 2
    CHANNEL_CAPACITY = 1
    BATCH_MAX = 2
    MaxServed = 3
    MaxFaults = 1
INVARIANTS Attributed Accounted LiveTail
PROPERTY EventuallyStored
CHECK_DEADLOCK FALSE
