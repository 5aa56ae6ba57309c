CONSTANTS
    u1 = u1
    u2 = u2
    e1 = e1
    e2 = e2
    w1 = w1
    w2 = w2
    p1 = p1
    p2 = p2
    None = None
    User <- OneUser
    Email <- OneEmail
    Password <- OnePassword
    Proc <- OneProc
    Change <- SomeChanges
    Query <- SomeQueries
    MaxRequests = 4
    MaxFaults = 0
SPECIFICATION Spec
PROPERTIES
    SoftDeletedAreListed
