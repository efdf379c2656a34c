SPECIFICATION Spec
CONSTANTS
    Keys = {k1, k2}
    People = {a, b}
    Logins = {l1, l2}
    Worker = w
    MaxRecords = 2
    Faults = {"genkey", "stop"}
    k1 = k1
    k2 = k2
    a = a
    b = b
    l1 = l1
    l2 = l2
    w = w
INVARIANTS
    TypeOK
    OneHolder
    OrderlyKept
    AnswerRight
    OneSessionEach
SYMMETRY KeySymmetry
