SPECIFICATION Spec
CONSTANTS
    Users = {alice, bob}
    Reqs = {r1, r2}
    Calls = {c1, c2}
SYMMETRY Symmetry
INVARIANTS AcceptedAtMostOnce
PROPERTIES FriendsOnlyByConsent
