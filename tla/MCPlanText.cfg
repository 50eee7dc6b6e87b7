\* Every plan of up to 6, 5 or 8 lines of three sets of lines.
SPECIFICATION Spec
CONSTANTS
    None = None
    Authors <- MCAuthors
INVARIANTS
    AcceptsWellFormed
    ErrorsNameTheLine
    PhasesAreThePlan
CHECK_DEADLOCK FALSE
