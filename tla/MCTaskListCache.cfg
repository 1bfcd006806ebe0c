\* Two list requests and two mutations around one response key.
CONSTANTS
    Readers = {r1, r2}
    Writers = {w1, w2}
    Queries = {q1}
    MaxCommits = 2
    MaxAttempts = 1
SPECIFICATION Spec
INVARIANTS
    TypeOK
    EntriesCoverFloor
    AnswersCoverInvalidations
    StaleOnlyWhileUncovered
PROPERTY ImplementsContract
SYMMETRY Symmetry
