CONSTANTS
    Files = {f1, f2, f3, f4}
    Slots = {skin, cape}
    TCalls = {t1, t2}
    Clients = {k1}
    Roles = {poster, shot}
    SingularRoles = {poster}
    MCalls = {m1, m2}
    NoFile = NoFile
    MaxRequests = 4
    MaxFaults = 2
SYMMETRY MCSymmetry
SPECIFICATION Spec
INVARIANTS TextureRowsHaveFiles MediaRowsHaveFiles SingularSlot
PROPERTY PurgeTakesStaleRows
CHECK_DEADLOCK FALSE
