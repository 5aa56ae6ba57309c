CONSTANTS
    u1 = u1
    u2 = u2
    e1 = e1
    e2 = e2
    w1 = w1
    w2 = w2
    p1 = p1
    p2 = p2
    None = None
    User <- TwoUsers
    Email <- TwoEmails
    Password <- TwoPasswords
    Proc <- TwoProcs
    Change <- SomeChanges
    Query <- TwoQueries
    MaxRequests = 4
    MaxFaults = 1
SPECIFICATION Spec
INVARIANTS
    UsersInv
    PreferenceFollowsUser
    DuplicateIsConflict
    UpdateTakesEffect
PROPERTIES
    DirectorySpec
    OwnersOnly
    TokensAreGenuine
SYMMETRY Symmetry
