SPECIFICATION PayFairSpec
CONSTANTS
    u1 = u1
    u2 = u2
    User = {u1}
    TxnId = {t1, t2}
    Req = {r1, r2}
    NoTxn = NoTxn
    Opening <- MCOpening
    BillAmounts = {60}
    TransferAmounts = {100}
    ProviderRejectsDuplicates = TRUE
    MaxFaults = 2
PROPERTIES
    ImplementsOrder
    BillsSettle
CHECK_DEADLOCK FALSE
