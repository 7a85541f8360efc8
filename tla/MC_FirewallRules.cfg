SPECIFICATION Spec
CONSTANTS
    Bits = 3
    Unparsable = Unparsable
    NoList = NoList
    Outer = Outer
    Inner = Inner
    Configs <- MC_Configs
    FlowPool <- MC_FlowPool
    Protocols <- MC_Protocols
    Ports <- MC_Ports
    Ephemeral = Ephemeral
    MaxFlows = 2
CHECK_DEADLOCK FALSE
INVARIANTS
    Accounted
    NeverAnyAny
    PolicyEnforced
    ReturnPaths
