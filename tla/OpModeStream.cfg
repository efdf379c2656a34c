\* One command with more output than two chunks,
\* and a client that asks until the answer is 410.
SPECIFICATION PollingSpec
CONSTANTS
    Tokens = {t1}
    Users = {u1}
    ChunkSize = 2
    ReadSize = 2
    PipeSize = 3
    MaxOutput = 5
    Faults = {}
    Stubborn = {}
    Backlog = 2
    UnsignedMod = 100
    KillAttempts = 3
    EndTexts = {}
    StaleErrno = FALSE
INVARIANT TypeOK
INVARIANT EndFileMeansComplete
INVARIANT NoSkip
INVARIANT EndIsTrue
PROPERTY ImplementsStream
PROPERTY EventuallyGone
