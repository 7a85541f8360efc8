SPECIFICATION Spec
CONSTANTS
    Registry <- MC_Registry
    Alias <- MC_Alias
    RoleOrder <- MC_RoleOrder
    AddressOrder <- MC_AddressOrder
    PortOrder <- MC_PortOrder
    Scores <- MC_Scores
    NoAddress = "none"
    Unparsable = "?"
    Scans <- MC_Scans
    Configs <- MC_Configs
CHECK_DEADLOCK FALSE
INVARIANTS
    NothingInvented
    UncertainReviewed
    WithheldStays
    BestOfEachKey
    EvidenceKept
