SPECIFICATION Spec
CONSTANTS
    e1 = e1  e2 = e2
    t1 = t1  t2 = t2  t3 = t3  t4 = t4
    Guess = Guess
    Emails = {e1, e2}
    Names = {"n1", "n2"}
    Txns <- FourTxns
    Requests <- OpeningRequests
    Crashable = {"verify"}
    Ttl = 2
    Cooldown = 1
    MaxAttempts = 1
    MaxTime = 2
SYMMETRY AnyTxn
INVARIANTS TypeOK AccountIsProven OneAccountEach
\* The clock stops at MaxTime.
CHECK_DEADLOCK FALSE
