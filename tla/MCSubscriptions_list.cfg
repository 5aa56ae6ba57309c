CONSTANTS
    s1 = s1
    s2 = s2
    d1 = d1
    d2 = d2
    d3 = d3
    p1 = p1
    p2 = p2
    None = None
    Sub <- TwoSubs
    Doc <- ThreeDocs
    Proc <- TwoProcs
    Run <- ConnectAndList
    Carried <- NoId
    MaxRaces = 1
    MaxFaults = 0
SPECIFICATION Spec
INVARIANTS
    ListedHaveIds
SYMMETRY Symmetry
