\* status beside the handler of a plan that is edited.
SPECIFICATION StatusSpec
CONSTANTS
    h1 = h1
    h2 = h2
    p1 = p1
    p2 = p2
    p3 = p3
    v1 = v1
    v2 = v2
    wsA = wsA
    wsB = wsB
    None = None
    Handlers = {h1}
    Versions = {v1, v2}
    Phases = {p1, p2, p3}
    Workspaces = {wsA, wsB}
    PhasesOf <- MCPhasesOf
    WorkspaceOf <- MCWorkspaceOf
    Attempts <- TwoAttempts
    Calls <- RunOrRecover
    Results <- FewResults
    PowerLoss = FALSE
INVARIANTS
    WritesAreValid
    LaunchedUnresolvedIsOnDisk
    CompleteIsTrue
    StatusHidesNoWorker
    StatusForesees
PROPERTIES
    DoneIsDone
    RecoveryIsExplicit
