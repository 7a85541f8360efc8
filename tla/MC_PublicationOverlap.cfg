SPECIFICATION FairSpec
CONSTANTS
    svg = svg
    log = log
    ingest = ingest
    notes = notes
    manifest = manifest
    services = services
    Runs <- MC_TwoRuns
    Names <- MC_FewNames
    Log <- log
    Manifest <- manifest
    Core <- MC_Core
    Optional <- MC_FewOptional
    Generated <- MC_Generated
    Rank <- MC_FewRank
    Absent = Absent
    User = User
    UserLists <- MC_NoList
    Directory = Directory
    Dangling = Dangling
    Interference = TRUE
    MaxEdits = 1
INVARIANTS
    RefusalLeavesReports
PROPERTIES
    RunsEnd
CHECK_DEADLOCK FALSE
