CONSTANTS
    h1 = h1
    h2 = h2
    h3 = h3
    p1 = p1
    p2 = p2
    Hook <- TwoHooks
    Callable <- TwoHooks
    Later <- JustH2
    Pull <- TwoPulls
    MaxFaults = 1
SPECIFICATION FairSpec
INVARIANTS
    WebhookInv
    RemovedWasRequested
    NoDuplicateAlone
    ResolvedIsDone
PROPERTIES
    DueHookIsRequested
