SPECIFICATION Spec
CONSTANTS
    Threads = {t1}
    Inodes = {1, 2, 3, 4, 5}
    Sentences = {0}
    Ops = {"COMMIT", "CREATE", "DELETE", "UNDO"}
    MaxCommits = 2
    NULL = NULL
PROPERTIES UndoGoesBack
