\* The final-message file of Codex is not UTF-8.
SPECIFICATION Spec
CONSTANTS
    None = None
    Providers = {"codex"}
    Answers <- Garbled
    MaxLines <- MCMaxLines
INVARIANT
    CodeIsKept
CHECK_DEADLOCK FALSE
