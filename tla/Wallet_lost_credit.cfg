SPECIFICATION WalletSpec
CONSTANTS
    u1 = u1
    u2 = u2
    User = {u1, u2}
    NoUser = NoUser
    Referrer <- MCReferrer
    Opening <- MCOpening
    Deposit = {d1}
    Points = {39}
    Toggled = {}
    TxnId = {t1, t2, t3}
    NoTxn = NoTxn
    Call = {c1}
    Req = {r1}
    BillAmounts = {60}
    TransferAmounts = {}
    ProviderRejectsDuplicates = TRUE
    MaxFaults = 0
CHECK_DEADLOCK FALSE
INVARIANTS
    NeverOvercharged
