SPECIFICATION FairSpec
CONSTANTS
    a = a
    b = b
    u = u
    v = v
    NoUid = NoUid
    Pairs <- MC_Pairs
    Uids <- MC_Uids
    Inputs <- MC_Inputs
    Formats = {"auto", "json", "tsv"}
    MaxRecords = 3
    SampleCap = 2
INVARIANTS
    BooksBalance
    NothingSkipped
    CountedOnce
    NotHealthyAgainstEvidence
PROPERTIES
    LoadEnds
CHECK_DEADLOCK FALSE
