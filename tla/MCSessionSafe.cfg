\* Two streams, descendants inside and outside the group, every failure.
SPECIFICATION Spec
CONSTANTS
    out = out
    err = err
    None = None
    Streams = {out, err}
    QueueSize = 1
    DrainLimit = 1
    PipeSize = 1
    MaxChunks = 2
    Noise = FALSE
    Escapes = TRUE
SYMMETRY StreamSymmetry
INVARIANTS
    NothingLost
    MatchStops
    NoWorkerLeft
CHECK_DEADLOCK FALSE
