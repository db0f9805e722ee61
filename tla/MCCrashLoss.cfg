SPECIFICATION Spec
CONSTANTS
    Threads = {t1}
    Inodes = {1, 2, 3, 4, 5}
    Sentences = {0}
    Ops = {"COMMIT", "CRASH"}
    MaxCommits = 4
    NULL = NULL
SYMMETRY Symmetry
INVARIANTS AcknowledgedCommitsSurvive
