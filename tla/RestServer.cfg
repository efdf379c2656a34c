SPECIFICATION FairSpec
CONSTANTS
    Users = {u1, u2}
    CfgUsers = {u1}
    Cfg = vyattacfg
    Root = root
    Bodies = {b1, b2}
    Services = 1
    NoTemplate = {}
    MaxOutput = 2
    MaxBody = 1
    Faults = {"fopen", "fwrite", "pipe", "fork", "setid"}
    u1 = u1
    u2 = u2
    vyattacfg = vyattacfg
    root = root
    b1 = b1
    b2 = b2
INVARIANTS
    TypeOK
    ActsAsUser
    ProgramIsUsers
    
    InputRemoved
    
PROPERTIES
    Answered
