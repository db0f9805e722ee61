SPECIFICATION FairSpec
CONSTANTS
    f1 = f1
    f2 = f2
    bak1 = bak1
    Names = {f1}
    BakOf <- MCBakOf
    Users = {alice}
    SSOwner = SSOwner
    Sessions = {c1, c2}
    Servers = {d1}
    Blocks = {b1}
    Notes = {n1}
    CacheSize = 1
    Commands <- LiveCommands
    Faults = {"ns", "ss"}
    NULL = NULL
CHECK_DEADLOCK FALSE
INVARIANTS Inv 
PROPERTIES OnlyTruncatedDeleteWedges   
