SPECIFICATION Spec
CONSTANTS
    t1 = t1  t2 = t2  t3 = t3
    Ids = {1, 2, 3, 4}
    Txns = {t1, t2, t3}
    Requests <- CreateRequests
    SeedPrice <- TwoProducts
    MaxPrice = 999
SYMMETRY AnyTxn
INVARIANT CreationGetsAnId
\* The system stops when every request is answered.
CHECK_DEADLOCK FALSE
