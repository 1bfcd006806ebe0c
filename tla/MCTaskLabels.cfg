\* Two transactions over two tasks and a label, in one project or in two.
CONSTANTS
    Requests = {r1, r2}
    Tasks = {t1, t2}
    Labels = {l1}
    Projects = {p1, p2}
    None = None
SPECIFICATION FairSpec
INVARIANTS
    TypeOK
    SameProject
PROPERTY RequestsEnd
