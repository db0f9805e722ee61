SPECIFICATION Spec
CONSTANTS
    a = a
    b = b
    Letters = {a, b}
    Space = Space
    Stop = Stop
    MaxWords = 3
    Clients = {c1, c2}
    Documents <- MCDocuments
    Sentences <- MCSentences
    Updates <- MCUpdates
    MaxUpdates = 2
    MaxCommits = 2
    MaxFetch = 7
    NULL = NULL
CHECK_DEADLOCK FALSE
INVARIANTS TypeOK SentencesAreFound
PROPERTIES CommitsStayInPlace   
