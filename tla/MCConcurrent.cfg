\* Two handlers race for one plan that is edited.
SPECIFICATION Spec
CONSTANTS
    h1 = h1
    h2 = h2
    p1 = p1
    p2 = p2
    p3 = p3
    v1 = v1
    v2 = v2
    wsA = wsA
    wsB = wsB
    None = None
    Handlers = {h1, h2}
    Versions = {v1, v2}
    Phases = {p1, p2}
    Workspaces = {wsA, wsB}
    PhasesOf <- GrowPhasesOf
    WorkspaceOf <- GrowWorkspaceOf
    Attempts <- TwoAttempts
    Calls <- RunOrAccept
    Results <- FewResults
    PowerLoss = FALSE
SYMMETRY HandlerSymmetry
INVARIANTS
    TypeOK
    ExclusiveOwner
    MemoryIsCurrent
    ConcludedIsDead
    NoIdentifiedOverlap
    RepeatIsExplicit
PROPERTY
    KeepsLedger
