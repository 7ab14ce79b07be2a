SPECIFICATION PaySpec
CONSTANTS
    u1 = u1
    u2 = u2
    User = {u1, u2}
    TxnId = {t1, t2, t3}
    Req = {r1, r2}
    NoTxn = NoTxn
    Opening <- MCOpening
    BillAmounts = {60}
    TransferAmounts = {100}
    ProviderRejectsDuplicates = TRUE
    MaxFaults = 1
SYMMETRY RequestSymmetry
INVARIANTS
    PayInv
    NeverOvercharged
    DeliveredIsCharged
PROPERTIES
    SettledRowsAreFinal
    BalanceMovesWithItsRow
CHECK_DEADLOCK FALSE
