CONSTANTS
    Users = {u1, u2}
    Names = {alice, bob}
    McIds = {m1}
    Servers = {srv}
    Calls = {c1, c2}
    MaxRequests = 5
    MaxFaults = 1
SYMMETRY MCSymmetry
SPECIFICATION Spec
INVARIANTS Reconciled
PROPERTIES SettledIdentityStays ImplementsJoinContract
CHECK_DEADLOCK FALSE
