SPECIFICATION Spec
CONSTANTS
    client = client
    server = server
    scanner = scanner
    outside = outside
    Addresses <- MC_Addresses
    Protocols <- MC_Protocols
    Ports <- MC_Ports
    Scanner <- scanner
    External <- MC_External
    Settings <- MC_Settings
    Sensors <- MC_Sensors
    Scans <- MC_Scans
    AggregatePool <- MC_AggregatePool
    FlowPool <- MC_FlowPool
    MaxAggregates = 2
    MaxFlows = 2
CHECK_DEADLOCK FALSE
INVARIANTS
    ConflictsWithheld
    NewCandidatesEarned
    OwnTraffic
    DegradedDevalues
    ServicesTruthful
PROPERTIES
    NeverPromoted
