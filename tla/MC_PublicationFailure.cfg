SPECIFICATION Spec
CONSTANTS
    svg = svg
    log = log
    ingest = ingest
    notes = notes
    manifest = manifest
    services = services
    Runs <- MC_TwoRuns
    Names <- MC_Names
    Log <- log
    Manifest <- manifest
    Core <- MC_Core
    Optional <- MC_Optional
    Generated <- MC_Generated
    Rank <- MC_Rank
    Absent = Absent
    User = User
    UserLists <- MC_NoList
    Directory = Directory
    Dangling = Dangling
    Interference = FALSE
    MaxEdits = 0
PROPERTY
    FailureLeavesReports
CHECK_DEADLOCK FALSE
