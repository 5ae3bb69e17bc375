CONSTANTS
    Clients = {k1, k2}
    Bundles = {b1, b2}
    Slugs = {s1, s2}
    Tags = {t1}
    Calls = {c1, c2}
    MaxRequests = 5
    MaxFaults = 1
SYMMETRY MCSymmetry
SPECIFICATION Spec
INVARIANTS RowsAndDirsAgree AnswerHidesDrafts
PROPERTIES UpdateSparesBundles RenameKeepsBundle
CHECK_DEADLOCK FALSE
