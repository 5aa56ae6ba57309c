CONSTANTS
    c1 = c1
    c2 = c2
    c3 = c3
    Caller = {c1, c2, c3}
    Jobs <- MCJobs
    Word <- MCWord
    Chunk <- MCChunk
    Ascii <- MCAscii
    Stored <- MCStored
    MaxSecond = 1
    MaxFaults = 1
SPECIFICATION Spec
CHECK_DEADLOCK FALSE
INVARIANTS IntegrationsInv DispatchedOnce AnswersAreTrue FreshFiles
