SPECIFICATION Spec
CONSTANTS
    u1 = u1  u2 = u2
    k1 = k1  k2 = k2
    t1 = t1  t2 = t2  t3 = t3
    Users <- TwoUsers
    Products <- P2
    Keys = {k1, k2}
    Txns <- ThreeTxns
    Requests <- WalletRequests
    OwnSession <- EveryOwnSession
    Crashable <- ThreeTxns
    MaxMoney = 9
    StartBalance <- Start5
    StartPrice <- PriceOf2
    StartStock <- StockOf3
    StartItem <- OneOfEach
    StartCarts <- TwoUsers
SYMMETRY AnyTxn
INVARIANTS TypeOK NoLostUpdate LedgerMatchesOrders NoWaitCycle
PROPERTIES RetryGetsItsOrder ClosedAccountPaysNothing
