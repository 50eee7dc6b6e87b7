--------------------------- MODULE WrappedSession ----------------------------
(***************************************************************************)
(* Wrapper and handler together: the worker of a MarkerSession is either a *)
(* program of the operator's, which may write any text, or a provider      *)
(* wrapper, whose stdout is what Diagnostics makes of a provider's output. *)
(***************************************************************************)
EXTENDS Diagnostics

PlainInit ==
    /\ Init
    /\ live = << >> /\ final = << >> /\ isError = FALSE /\ relayed = 0
    /\ hidden = NewFilter /\ boundary = TRUE /\ stage = "none"

WrappedInit ==
    /\ DiagnosticsInit
    /\ errText = << >>
    /\ fed = 0 /\ acc = NewAccumulator /\ filter = NewFilter
    /\ shown = << >> /\ result = Unread

\* What the wrapper writes lies in the pipe until the handler reads it.
WrapperStep ==
    /\ DiagnosticsNext
    /\ UNCHANGED <<errText, fed, acc, filter, shown, result>>

HandlerStep ==
    /\ stage \in {"none", "ended"}
    /\ Next
    /\ UNCHANGED wrapper

WrappedSpec ==
    /\ PlainInit \/ WrappedInit
    /\ [][WrapperStep \/ HandlerStep]_<<vars, wrapper>>

-----------------------------------------------------------------------------
(* Properties *)

Wrapped == Ended /\ stage = "ended"

\* The results a provider states: none in a response it calls an error.
Stated == IF isError THEN {} ELSE MarkersOf(final)

\* The handler hears from a wrapper exactly the result the provider's final
\* response states under the framing rules, whatever the provider wrote before
\* and however all of it is cut into chunks: live claims, broken tags and open
\* fences neither add a result nor spoil it, and of a response that the
\* provider calls an error not even a flawless block is heard.
ResultIsFinal ==
    Wrapped =>
        result = IF Stated = {} THEN Verdict("missing", None)
                 ELSE Verdict("accepted", CHOOSE m \in Stated : TRUE)

\* The original text of rendered lines.
Original(s) ==
    IF s = "prefix" THEN << >> ELSE IF s = "&lt;" THEN <<"<">> ELSE <<s>>

Unrendered(t) ==
    LET read[n \in 0 .. Len(t)] ==
            IF n = 0 THEN << >> ELSE read[n - 1] \o Original(t[n])
    IN  read[Len(t)]

WholeLines(t) ==
    IF t = << >> \/ Last(t) = "newline" THEN t ELSE Append(t, "newline")

\* Through both filters the operator still sees the provider's diagnostics:
\* nothing but complete blocks is missing from them, and lines stay lines; a
\* response that states no result can be read in full, tags of a block
\* included when the provider calls it an error.
DiagnosticsKept ==
    Wrapped /\ Stated = {} =>
        Unrendered(shown) =
            WholeLines(Visible(live))
              \o (IF Strip(final) = << >> THEN << >> ELSE WholeLines(final))
=============================================================================
