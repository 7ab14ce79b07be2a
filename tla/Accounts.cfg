SPECIFICATION AccountsSpec
CONSTANTS
    User = {u1}
    Call = {c1, c2}
    AttemptLimit = 2
    Bounds <- MCBounds
SYMMETRY CallSymmetry
INVARIANTS
    AccountsInv
    AttemptsBounded
    CodesPerPurpose
    ChildrenBounded
    LiveSinceRevocation
PROPERTIES
    UnverifiedOnlyByStaleSignIn
    ImplementsOneTimeCode
