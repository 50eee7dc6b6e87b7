\* Texts of a few fragments and outputs of wrappers, in every chunking.
SPECIFICATION WrappedSpec
CONSTANTS
    None = None
    Kinds <- MCKinds
    Texts <- MCTexts
    ErrTexts <- MCErrTexts
    Outputs <- MCOutputs
INVARIANTS
    AcceptsOneBlock
    ShownIsVisible
    ResultIsFinal
    DiagnosticsKept
CHECK_DEADLOCK FALSE
