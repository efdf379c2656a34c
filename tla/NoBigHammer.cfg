\* A command that survives SIGTERM.
SPECIFICATION Spec
CONSTANTS
    Tokens = {t1}
    Users = {u1}
    ChunkSize = 2
    ReadSize = 2
    PipeSize = 2
    MaxOutput = 3
    Faults = {}
    Stubborn = {t1}
    Backlog = 2
    UnsignedMod = 100
    KillAttempts = 3
    EndTexts = {}
    StaleErrno = FALSE
PROPERTY KillIsFinal
