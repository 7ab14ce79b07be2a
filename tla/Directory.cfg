INIT MCInit
NEXT MCNext
CONSTANTS
    Id = {v1, v2, v3}
    Call = {c1, c2}
    Admin = {v1, v2, v3}
    Mail = {m1, m2}
    Nick = {n1, n2}
    Grants <- MCGrants
    Roles = {"ADMIN", "SUPER_ADMIN"}
    AdminCall = {c1, c2}
    Country = {k1, k2}
    State = {s1, s2}
    Area = {r1}
    LocationCall = {c1, c2}
    Item = {s1, s2}
    Price = {10, 20}
    Request = {c1, c2}
    CatalogueCall = {c1, c2}
    Account = {v1, v2, v3}
    Email = {e1, e2}
    Phone = {p1, p2}
    Code = {g1, g2}
    NoCode = NoCode
    MaxDraws = 2
    Registrant = {c1, c2}
    Reader = {w1, w2}
    Note = {s1, s2}
    MaxReads = 2
SYMMETRY MCSymmetry
INVARIANTS
    DirectoryInv
    OrphansCameLate
    MisplacedOnlyByMoves
    SnapshotWasOffered
    CodesUnique
PROPERTIES
    LastManagerFallsByOverlap
    TogglesFlip
    FirstReadStands
CHECK_DEADLOCK FALSE
