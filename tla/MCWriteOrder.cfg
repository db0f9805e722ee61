SPECIFICATION Spec
CONSTANTS
    a = a
    b = b
    Letters = {a, b}
    Space = Space
    Stop = Stop
    MaxWords = 3
    Clients = {c1}
    Documents <- MCDocuments
    Sentences = {0}
    Updates <- PlainUpdates
    MaxUpdates = 2
    MaxCommits = 1
    MaxFetch = 7
    NULL = NULL
CHECK_DEADLOCK FALSE
PROPERTIES UpdatesApplyInOrder
