SPECIFICATION Spec
CONSTANTS
    u1 = u1
    s1 = s1  s2 = s2
    t1 = t1  t2 = t2  t3 = t3
    Users = {u1}
    Passwords = {"p1", "p2"}
    Txns <- TwoTxns
    StartTokens = {s1, s2}
    StartOwner <- FirstOwnsAll
    StartPassword <- AllPassword
    Outdated = {u1}
    Requests <- RehashRequests
    Crashable = {}
    Idle = 2
    Absolute = 3
    StartTime = 0
    MaxTime = 1
PROPERTIES PasswordSticks
\* The clock stops at MaxTime.
CHECK_DEADLOCK FALSE
