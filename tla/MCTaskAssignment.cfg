\* Overlapping requests on one task.
CONSTANTS
    Requests = {r1, r2}
    owner = owner
    ann = ann
    gus = gus
    t1 = t1
    t2 = t2
    Users = {owner, ann, gus}
    Owner = owner
    Inactive = {gus}
    Titles = {t1, t2}
    Nobody = Nobody
    NoRequest = NoRequest
    Patches <- MCPatches
SPECIFICATION Spec
INVARIANTS
    TypeOK
    WritesWereAllowed
PROPERTIES
    AssignmentsAnnounced
    UpdatesKeepTheRest
    DeletionIsFinal
SYMMETRY Symmetry
