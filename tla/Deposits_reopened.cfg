SPECIFICATION DepSpec
CONSTANTS
    u1 = u1
    u2 = u2
    User = {u1, u2}
    NoUser = NoUser
    Referrer <- MCReferrer
    Opening <- MCOpening
    Deposit = {d1, d2}
    Points = {39}
    Toggled = {u2}
    TxnId = {t1, t2, t3}
    Call = {c1, c2}
INVARIANTS
    CreditedOnce
