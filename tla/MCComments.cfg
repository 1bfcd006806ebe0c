\* Two requests about members, and two about comments on one task.
CONSTANTS
    Admins = {a1, a2}
    Users = {u1, u2}
    Rows = {m1, m2}
    Unused = Unused
    Gone = Gone
    Writers = {w1, w2}
    Tasks = {t1}
    Comments = {c1, c2}
SPECIFICATION Spec
INVARIANTS
    TypeOK
    OneMembership
    NoOrphans
PROPERTIES
    RemovalIsExact
    CommentsWereAllowed
SYMMETRY Symmetry
\* Every id may be used up.
CHECK_DEADLOCK FALSE
