SPECIFICATION DepSpec
CONSTANTS
    u1 = u1
    u2 = u2
    User = {u1, u2}
    NoUser = NoUser
    Referrer <- MCReferrer
    Opening <- MCOpening
    Deposit = {d1, d2}
    Points = {39}
    Toggled = {}
    TxnId = {t1, t2, t3, t4}
    Call = {c1, c2}
SYMMETRY CallSymmetry
INVARIANTS
    DepInv
    WalletMatchesLedger
    ReferralPaidOnce
PROPERTIES
    DecidesUndecided
