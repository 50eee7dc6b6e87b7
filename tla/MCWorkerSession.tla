--------------------------- MODULE MCWorkerSession ---------------------------
(* Small instances of WorkerSession for TLC. *)
EXTENDS WorkerSession, TLC

CONSTANTS out, err

StreamSymmetry == Permutations(Streams)
=============================================================================
