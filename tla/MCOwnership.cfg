\* Two handlers, two plans in each other's workspaces; handlers may die.
SPECIFICATION Spec
CONSTANTS
    None = None
    d1 = d1
    d2 = d2
    Handlers = {g, h}
    Plans <- MCPlans
    Paths <- MCPaths
    Dirs <- MCDirs
    Dir <- MCDir
    Ancestors <- MCAncestors
    Declared <- MCDeclared
    Attempts = {a1, a2}
INVARIANTS
    HandlersExclude
    WorkersAreAccountedFor
PROPERTIES
    OrdinaryRunsRepeatNothing
    RefusedByAnother
SYMMETRY MCSymmetry
CHECK_DEADLOCK FALSE
