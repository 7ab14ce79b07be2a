SPECIFICATION WalletSpec
CONSTANTS
    u1 = u1
    u2 = u2
    User = {u1, u2}
    NoUser = NoUser
    Referrer <- MCReferrer
    Opening <- MCOpening
    Deposit = {d1}
    Points = {39}
    Toggled = {}
    TxnId = {t1, t2, t3}
    NoTxn = NoTxn
    Call = {c1}
    Req = {r1}
    BillAmounts = {60}
    TransferAmounts = {30}
    ProviderRejectsDuplicates = TRUE
    MaxFaults = 0
SYMMETRY WalletSymmetry
INVARIANTS
    WalletInv
PROPERTIES
    WalletMovesWithItsRow
    CreditIsExact
    DriftOnlyFromStaleDebit
CHECK_DEADLOCK FALSE
