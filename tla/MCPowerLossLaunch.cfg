\* What is forgotten when the kernel stops.
SPECIFICATION Spec
CONSTANTS
    h1 = h1
    h2 = h2
    p1 = p1
    p2 = p2
    p3 = p3
    v1 = v1
    v2 = v2
    wsA = wsA
    wsB = wsB
    None = None
    Handlers = {h1}
    Versions = {v1}
    Phases = {p1, p2}
    Workspaces = {wsA, wsB}
    PhasesOf <- OnePhasesOf
    WorkspaceOf <- OneWorkspaceOf
    Attempts <- TwoAttempts
    Calls <- RunOrRetry
    Results <- FewResults
    PowerLoss = TRUE
INVARIANTS
    RepeatIsExplicit
