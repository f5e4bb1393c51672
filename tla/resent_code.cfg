SPECIFICATION Spec
CONSTANTS
    e1 = e1  e2 = e2
    t1 = t1  t2 = t2  t3 = t3  t4 = t4
    Guess = Guess
    Emails = {e1, e2}
    Names = {"n1", "n2"}
    Txns <- ThreeTxns
    Requests <- ResendRequests
    Crashable = {}
    Ttl = 2
    Cooldown = 1
    MaxAttempts = 1
    MaxTime = 2
PROPERTIES MailedCodeLives
\* The clock stops at MaxTime.
CHECK_DEADLOCK FALSE
