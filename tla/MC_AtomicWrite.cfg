SPECIFICATION Spec
CONSTANTS
    w1 = w1
    w2 = w2
    w3 = w3
    Writers <- MC_Writers
    Old = Old
    Absent = Absent
    Directory = Directory
    Link = Link
    Torn = Torn
    FsyncMayFail = TRUE
SYMMETRY MC_Symmetry
INVARIANTS
    TornOnlyUnsynced
    NoTempLeft
