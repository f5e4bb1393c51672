SPECIFICATION FairSpec
CONSTANTS
    c1 = c1  c2 = c2  c3 = c3
    w1 = w1  g1 = g1
    Requests = {c1, c2, c3, w1, g1}
    Kind <- KindOf
    Size = 2
INVARIANTS TypeOK StallTakesAPoolOfCheckouts ErrorMeansUnchanged
PROPERTIES EveryRequestAnswered
\* The process is idle when every request is answered; EveryRequestAnswered also covers a
\* request that stops short of it.
CHECK_DEADLOCK FALSE
