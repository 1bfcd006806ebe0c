\* Staleness heals, though INCRs are retried.
CONSTANTS
    Readers = {r1}
    Writers = {w1, w2}
    Queries = {q1}
    MaxCommits = 2
    MaxAttempts = 2
SPECIFICATION FairSpec
PROPERTY EventuallyFresh
