CONSTANTS
    c1 = c1
    c2 = c2
    m1 = m1
    m2 = m2
    m3 = m3
    None = None
    Message <- ThreeMessages
    Consumer <- TwoConsumers
    Invalid <- Nobody
    Domain <- JustM1
    Switch <- M2M3
    BatchSize = 2
    MaxErrors = 2
    MaxFaults = 2
SPECIFICATION Spec
INVARIANTS
    NoOvertaking
    QueueInv
PROPERTIES
    SwitchesInOrder
SYMMETRY ConsumerSymmetry
CHECK_DEADLOCK FALSE
