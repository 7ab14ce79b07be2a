INIT MCInit
NEXT MCNext
CONSTANTS
    st = st
    it = it
    it2 = it2
    dep = dep
    Doc = {st, it, it2, dep}
    Collection <- MCCollection
    Rank <- MCRank
    BatchSize = 1
    ItemOf <- MCItemOf
    Absent = Absent
    Server = Server
    Runner = {r1, r2}
SYMMETRY RunnerSymmetry
INVARIANTS
    MigrationInv
    DepositsGetItemPoints
PROPERTIES
    CurrentStands
