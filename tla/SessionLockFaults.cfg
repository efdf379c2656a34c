SPECIFICATION FairSpec
CONSTANTS
    Keys = {k1, k2}
    People = {a, b}
    Logins = {l1}
    Worker = w
    MaxRecords = 1
    Faults = {"slow", "user", "fputs", "genkey", "stop"}
    k1 = k1
    k2 = k2
    a = a
    b = b
    l1 = l1
    w = w
PROPERTIES
    Ends
