\* A worker that writes without end and may leave descendants outside its group.
SPECIFICATION FairSpec
CONSTANTS
    out = out
    err = err
    None = None
    Streams = {out, err}
    QueueSize = 1
    DrainLimit = 1
    PipeSize = 1
    MaxChunks = 0
    Noise = TRUE
    Escapes = TRUE
PROPERTIES
    SessionEnds
    WorkerGoneEnds
    ThreadsEnd
CHECK_DEADLOCK FALSE
