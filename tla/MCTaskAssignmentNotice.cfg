\* A notice registered from a stale copy.
CONSTANTS
    Requests = {r1, r2}
    owner = owner
    ann = ann
    gus = gus
    t1 = t1
    t2 = t2
    Users = {owner, ann}
    Owner = owner
    Inactive = {}
    Titles = {t1, t2}
    Nobody = Nobody
    NoRequest = NoRequest
    Patches <- FewPatches
SPECIFICATION Spec
PROPERTY NoticeNamesAssignee
SYMMETRY Symmetry
