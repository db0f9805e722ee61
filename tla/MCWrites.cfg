SPECIFICATION FairSpec
CONSTANTS
    Threads = {t1, t2}
    Inodes = {1, 2, 3, 4, 5, 6}
    Sentences = {0, 1}
    Ops = {"COMMIT", "READ", "VIEW", "CHECKPOINT", "CREATE"}
    MaxCommits = 3
    NULL = NULL
INVARIANTS ReadersSeeWholeVersions
PROPERTIES ImplementsAtomicFile MutexReleased
