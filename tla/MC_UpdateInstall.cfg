SPECIFICATION FairSpec
CONSTANTS
    d1 = d1
    d2 = d2
    i1 = i1
    i2 = i2
    Downloads <- MC_Downloads
    Installs <- MC_Installs
    MaxAttempts = 3
    Absent = Absent
    Empty = Empty
    Populated = Populated
INVARIANTS
    QuietMeansVerified
    DeliveredStays
PROPERTIES
    InstalledIsVerified
    AttemptsEnd
CHECK_DEADLOCK FALSE
