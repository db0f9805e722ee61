SPECIFICATION Spec
CONSTANTS
    Threads = {t1, t2}
    Inodes = {1, 2, 3, 4, 5, 6}
    Sentences = {0}
    Ops = {"COMMIT", "CHECKPOINT", "REVERT", "UNDO", "CREATE", "DELETE", "READ", "VIEW", "CRASH"}
    MaxCommits = 2
    NULL = NULL
SYMMETRY Symmetry
INVARIANTS Inv
VIEW Visible
