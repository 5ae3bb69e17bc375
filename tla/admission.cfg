SPECIFICATION Spec
CONSTANTS
    Host = host
    Guests = {a, b}
    Items = {x1}
    Calls = {c1, c2}
    None = None
    MaxEvents = 1
CHECK_DEADLOCK FALSE
SYMMETRY Symmetry
INVARIANTS HostLetsStrangersIn OneTicketPerAccepted
PROPERTIES RevalidatedAtAccept TerminalIsFinal
