SPECIFICATION FairSpec
CONSTANTS
    w1 = w1
    w2 = w2
    w3 = w3
    Writers <- MC_Pair
    Old = Old
    Absent = Absent
    Directory = Directory
    Link = Link
    Torn = Torn
    FsyncMayFail = FALSE
PROPERTIES
    ImplementsAtomicFile
    CallsEnd
