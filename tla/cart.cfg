SPECIFICATION Spec
CONSTANTS
    u1 = u1  u2 = u2
    k1 = k1  k2 = k2
    t1 = t1  t2 = t2  t3 = t3
    Users <- TwoUsers
    Products <- P2
    Keys = {k1}
    Txns <- ThreeTxns
    Requests <- CartRequests
    OwnSession <- EveryOwnSession
    Crashable <- ThreeTxns
    MaxMoney = 9
    StartBalance <- Start9
    StartPrice <- PriceOf2
    StartStock <- StockOf3
    StartItem <- FirstHasOne
    StartCarts <- OneUser
SYMMETRY AnyTxn
INVARIANTS NoDanglingReference NoProductGone
PROPERTIES ImplementsShop OrderIsTheCart AdditionAdds
