------------------------------- MODULE Filters -------------------------------
(* The part of a sequence that lies in a set. *)
EXTENDS Naturals, Sequences

\* SelectSeq for membership in S, as a recursive function of the length.
Filter(q, S) ==
    LET kept[n \in 0 .. Len(q)] ==
            IF n = 0 THEN << >>
            ELSE IF q[n] \in S THEN Append(kept[n - 1], q[n])
            ELSE kept[n - 1]
    IN  kept[Len(q)]
=============================================================================
