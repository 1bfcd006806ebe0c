\* Requests that create, rename and delete labels, and that swap names.
CONSTANTS
    Requests = {r1, r2, r3}
    Labels = {l1, l2}
    Names = {n1, n2, n3}
    None = None
    Gone = Gone
SPECIFICATION Spec
SYMMETRY Symmetry
INVARIANTS
    TypeOK
    UniqueNames
    ConflictHasName
PROPERTIES
    RenamesAreMeant
    ImplementsTable
