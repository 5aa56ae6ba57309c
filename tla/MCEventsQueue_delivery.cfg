CONSTANTS
    c1 = c1
    c2 = c2
    m1 = m1
    m2 = m2
    m3 = m3
    None = None
    Message <- TwoMessages
    Consumer <- TwoConsumers
    Invalid <- JustM2
    Domain <- JustM1
    Switch <- Nobody
    BatchSize = 2
    MaxErrors = 2
    MaxFaults = 2
SPECIFICATION FairSpec
INVARIANTS
    NoMessageLost
    NoRepeatWithoutFaults
PROPERTIES
    EventuallyDrained
    DeliverySpec
CHECK_DEADLOCK FALSE
