------------------------------ MODULE MCWrapper ------------------------------
(* Small instances of Wrapper for TLC. *)
EXTENDS Wrapper

\* Only Claude says is_error.
MCAnswers ==
    [codex |-> {"valid", "invalid"}, claude |-> {"valid", "failed", "empty"}]

MCMaxLines == [stdout |-> 2, stderr |-> 1]

Garbled == [codex |-> {"valid", "garbled"}]
=============================================================================
