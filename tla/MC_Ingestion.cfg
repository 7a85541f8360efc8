SPECIFICATION FairSpec
CONSTANTS
    f1 = f1
    f2 = f2
    f3 = f3
    NoFlow = NoFlow
    NoFile = NoFile
    Files <- MC_Files
    Rewritten <- MC_Rewritten
    Budgets = {2, 5}
    FlowLimit = 2
    DiagnosticCap = 2
    MaxSessions = 3
CHECK_DEADLOCK FALSE
INVARIANTS
    ChainIsOneRead
    LossesShow
    TableIsRecent
    RaiseDeserved
PROPERTIES
    SessionsEnd
