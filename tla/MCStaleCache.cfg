SPECIFICATION Spec
CONSTANTS
    f1 = f1
    f2 = f2
    bak1 = bak1
    Names = {f1, f2}
    BakOf <- MCBakOf
    Users = {alice, bob}
    SSOwner = SSOwner
    Sessions = {c1, c2}
    Servers = {d1}
    Blocks = {b1, b2}
    Notes = {}
    CacheSize = 2
    Commands <- LifecycleCommands
    Faults = {}
    NULL = NULL
CHECK_DEADLOCK FALSE
INVARIANT FoundFilesExist
