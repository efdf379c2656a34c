\* Data file and end file appear between get_chunk's two stats.
SPECIFICATION Spec
CONSTANTS
    Tokens = {t1}
    Users = {u1}
    ChunkSize = 2
    ReadSize = 2
    PipeSize = 2
    MaxOutput = 1
    Faults = {}
    Stubborn = {}
    Backlog = 2
    UnsignedMod = 100
    KillAttempts = 3
    EndTexts = {}
    StaleErrno = FALSE
INVARIANT EndIsComplete
