CONSTANTS
    c1 = c1
    c2 = c2
    Client = {c1, c2}
    N = 3
    Traffic <- LoginTraffic
    GlobalThrottlers <- MCThrottlers
    Limit <- MCLimit
SPECIFICATION Spec
CHECK_DEADLOCK FALSE
PROPERTY DisabledLoginIsRefused
