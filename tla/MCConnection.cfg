SPECIFICATION FairSpec
CONSTANTS
    f1 = f1
    f2 = f2
    f3 = f3
    Conns = {n1, c1}
    NsConns = {n1}
    Files = {f1, f2, f3}
    Tag = Tag
    Length <- MCLength
    ErrorLen = 1
    TokenLen = 2
    BlockLen = 3
    ChunkLen = 3
    BufLen = 4
    NULL = NULL
INVARIANTS TypeOK
PROPERTIES SerialRequestsAreServed ReadersFinish
