CONSTANTS
    s1 = s1
    s2 = s2
    d1 = d1
    d2 = d2
    d3 = d3
    p1 = p1
    p2 = p2
    None = None
    Sub <- TwoSubs
    Doc <- ThreeDocs
    Proc <- TwoProcs
    Run <- Everything
    Carried <- JustS2
    MaxRaces = 2
    MaxFaults = 1
SPECIFICATION Spec
INVARIANTS
    SubscriptionsInv
    OneDocument
    DeletedIsGone
    CacheMatchesStore
    RoomMatchesStore
    AnnouncedIsStored
SYMMETRY Symmetry
