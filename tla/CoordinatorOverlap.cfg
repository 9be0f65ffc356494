CONSTANTS
    Replicas = {a, b}
    Rivals = {}
    None = None
    InitialLoads <- MCInitialLoads
SPECIFICATION Spec
INVARIANT OneController
