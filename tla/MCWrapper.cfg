\* Both wrappers; descendants of the provider may hold its pipes.
SPECIFICATION FairSpec
CONSTANTS
    None = None
    Providers = {"codex", "claude"}
    Answers <- MCAnswers
    MaxLines <- MCMaxLines
INVARIANTS
    BlockIsAuthoritative
    CodeMeansRelayed
    CodeIsKept
PROPERTY
    WrapperEnds
CHECK_DEADLOCK FALSE
