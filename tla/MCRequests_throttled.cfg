CONSTANTS
    c1 = c1
    c2 = c2
    Client = {c1, c2}
    N = 3
    Traffic <- MCTraffic
    GlobalThrottlers <- MCThrottlers
    Limit <- MCLimit
SPECIFICATION FairSpec
CHECK_DEADLOCK FALSE
INVARIANTS RequestsInv WithinLimit RefusedWereOver ErrorsAreReported
PROPERTY EveryRequestEnds
