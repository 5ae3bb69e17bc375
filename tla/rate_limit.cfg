SPECIFICATION LimiterSpec
CONSTANTS
    Tasks = {c1, c2}
    V4 <- MCV4
    V6 <- MCV6
    NoIp = NoIp
    Spoofs <- MCSpoofs
    max_attempts = 2
    window = 2
    MAX_TRACKED_IPS = 2
    EVICT_BATCH = 1
    MaxNow = 3
    MaxAdmitted = 3
INVARIANTS WindowCap MemoryBounded
PROPERTY RefusedForOwnHits
CHECK_DEADLOCK FALSE
