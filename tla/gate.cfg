SPECIFICATION Spec
CONSTANTS
    a1 = a1  a2 = a2  b1 = b1
    Clicks = {a1, a2, b1}
    Calls = {a1, a2, b1}
    Tabs = {"a", "b"}
    TabOf <- TabOfClick
    TokenTtl = 2
    Limit = 2
    Window = 2
    MaxCrashes = 1
INVARIANTS TypeOK TwiceTheLimitAtMost
PROPERTIES AloneIsNotRefused LockoutEnds
