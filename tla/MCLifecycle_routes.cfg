CONSTANTS
    c1 = c1
    c2 = c2
    t1 = t1
    t2 = t2
    s1 = s1
    s2 = s2
    Chain <- TwoChains
    Tick <- OneTick
    Socket <- OneSocket
SPECIFICATION Spec
PROPERTIES
    RoutesRestart
