\* A label assigned again while it is being deleted.
CONSTANTS
    Requests = {r1, r2}
    Tasks = {t1}
    Labels = {l1}
    Projects = {p1}
    None = None
SPECIFICATION Spec
INVARIANT AssignIsIdempotent
SYMMETRY Symmetry
