CONSTANTS
    Replicas = {a}
    Rivals = {z}
    None = None
    InitialLoads <- MCInitialLoads
SPECIFICATION FairSpec
INVARIANTS
    OutcomeIsCause
    QuietOnReturn
    WorksUnderLease
PROPERTIES
    LossStopsController
    LeadsAgain
    ReadyAgain
