\* Two commands at once, each with output that fits in one answer.
SPECIFICATION Spec
CONSTANTS
    Tokens = {t1, t2}
    Users = {u1}
    ChunkSize = 2
    ReadSize = 2
    PipeSize = 2
    MaxOutput = 2
    Faults = {}
    Stubborn = {}
    Backlog = 2
    UnsignedMod = 100
    KillAttempts = 3
    EndTexts = {}
    StaleErrno = FALSE
SYMMETRY TokenSymmetry
INVARIANT GoneIsForever
 
