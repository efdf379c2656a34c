\* Two users, and every system call may fail.
SPECIFICATION FairSpec
CONSTANTS
    Tokens = {t1}
    Users = {u1, u2}
    ChunkSize = 2
    ReadSize = 2
    PipeSize = 2
    MaxOutput = 2
    Faults = {"fork", "pipe", "loginuid", "pidfile", "execve", "fopen"}
    Stubborn = {t1}
    Backlog = 2
    UnsignedMod = 100
    KillAttempts = 3
    EndTexts = {1}
    StaleErrno = TRUE
INVARIANT OwnerOnly
INVARIANT PostedNotGone
PROPERTY RequestAnswered
