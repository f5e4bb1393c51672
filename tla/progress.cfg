SPECIFICATION FairSpec
CONSTANTS
    u1 = u1  u2 = u2
    k1 = k1  k2 = k2
    t1 = t1  t2 = t2  t3 = t3
    Users <- OneUser
    Products <- P2
    Keys = {k1}
    Txns <- ThreeTxns
    Requests <- ProgressRequests
    OwnSession <- EveryOwnSession
    Crashable = {}
    MaxMoney = 9
    StartBalance <- Start9
    StartPrice <- PriceOf2
    StartStock <- StockOf3
    StartItem <- FirstHasOne
    StartCarts <- OneUser
PROPERTIES EveryRequestAnswered
\* The system stops when every request is answered; EveryRequestAnswered also covers a
\* request that stops short of it.
CHECK_DEADLOCK FALSE
