----------------------------- MODULE Diagnostics -----------------------------
(***************************************************************************)
(* What a provider wrapper writes to its stdout (provider_wrappers), which *)
(* is the text of a MarkerSession: the provider's lines, filtered and      *)
(* rendered so that nothing in them can be taken for a result, and then    *)
(* the final response, either normalized into one result block or rendered *)
(* like the rest.                                                          *)
(***************************************************************************)
EXTENDS MarkerSession

CONSTANTS
    Outputs  \* <<what a provider writes while it works, its final response,
             \* whether the provider calls it an error>>: bounds the model

ASSUME OutputsAssumption ==
    Outputs \subseteq Seq(STRING) \X Seq(STRING) \X BOOLEAN

\* What the renderer writes itself is told apart from what it is given.
Raw(t) == \A i \in 1 .. Len(t) : t[i] \notin {"prefix", "&lt;"}
ASSUME RawAssumption == \A o \in Outputs : Raw(o[1]) /\ Raw(o[2])

VARIABLES
    live,      \* the provider's diagnostics
    final,     \* its final response (<< >> if there is none)
    isError,   \* Claude's is_error (FALSE for Codex, which has none)
    relayed,   \* how much of live was relayed
    hidden,    \* the TerminalMarkerFilter of the relay
    boundary,  \* the renderer's _at_line_boundary
    stage      \* "relay", "emit", "ended", or "none" where no wrapper runs

wrapper == <<live, final, isError, relayed, hidden, boundary, stage>>

Rendered(atBoundary, symbols) == [boundary |-> atBoundary, text |-> symbols]

\* Mutant: lines are not prefixed.
RenderUnprefixed(r, c) ==
    Rendered(c = "newline", r.text \o <<IF c = "<" THEN "&lt;" ELSE c>>)

\* One character of DiagnosticRenderer.write.
Render(r, c) ==
    Rendered(c = "newline",
             r.text \o (IF r.boundary THEN <<"prefix">> ELSE << >>)
                    \o <<IF c = "<" THEN "&lt;" ELSE c>>)

Write(atBoundary, symbols) ==
    LET written[n \in 0 .. Len(symbols)] ==
            IF n = 0 THEN Rendered(atBoundary, << >>)
            ELSE Render(written[n - 1], symbols[n])
    IN  written[Len(symbols)]

\* Mutant: an unfinished line is left as it is.
FinishLineNot(r) == r.text

\* DiagnosticRenderer.finish
FinishLine(r) == IF r.boundary THEN r.text ELSE Append(r.text, "newline")

\* What readline returns next.
NextLine ==
    LET ends == {i \in relayed + 1 .. Len(live) : live[i] = "newline"}
    IN  SubSeq(live, relayed + 1, IF ends = {} THEN Len(live) ELSE Min(ends))

DiagnosticsInit ==
    /\ \E o \in Outputs : live = o[1] /\ final = o[2] /\ isError = o[3]
    /\ relayed = 0 /\ hidden = NewFilter /\ boundary = TRUE
    /\ text = << >> /\ stage = "relay"

RelayLine ==
    /\ stage = "relay" /\ relayed < Len(live)
    /\ LET step == FilterLoop([hidden EXCEPT !.pending = @ \o NextLine])
           r    == Write(boundary, step.out)
       IN  /\ relayed' = relayed + Len(NextLine)
           /\ hidden' = step.filter
           /\ text' = text \o r.text
           /\ boundary' = r.boundary
    /\ UNCHANGED <<live, final, isError, stage>>

RelayEnds ==
    /\ stage = "relay" /\ relayed = Len(live)
    /\ text' = text \o FinishLine(Write(boundary, Flush(hidden)))
    /\ hidden' = NewFilter /\ boundary' = TRUE
    /\ stage' = "emit"
    /\ UNCHANGED <<live, final, isError, relayed>>

Normalized(marker) ==
    Open(marker.kind) \o marker.body \o Append(Close(marker.kind), "newline")

\* Mutant: a response that is no valid result is left out.
EmissionOfResult(response, error) ==
    LET verdict == Judge(Feed(NewAccumulator, response))
    IN  IF verdict.verdict = "accepted" /\ ~error
        THEN Normalized(verdict.marker)
        ELSE << >>

\* Mutant: a block counts in an error's response too.
EmissionOfErrors(response, error) ==
    LET verdict == Judge(Feed(NewAccumulator, response))
    IN  IF verdict.verdict = "accepted" THEN Normalized(verdict.marker)
        ELSE IF Strip(response) = << >> THEN << >>
        ELSE FinishLine(Write(TRUE, response))

\* parse_terminal_marker judges the response alone, unless the provider calls
\* it an error; a valid result is written again without the blanks around its
\* body, anything else is rendered.
Emission(response, error) ==
    LET verdict == Judge(Feed(NewAccumulator, response))
    IN  IF verdict.verdict = "accepted" /\ ~error
        THEN Normalized(verdict.marker)
        ELSE IF Strip(response) = << >> THEN << >>
        ELSE FinishLine(Write(TRUE, response))

Emit ==
    /\ stage = "emit"
    /\ text' = text \o Emission(final, isError)
    /\ stage' = "ended"
    /\ UNCHANGED <<live, final, isError, relayed, hidden, boundary>>

DiagnosticsNext == RelayLine \/ RelayEnds \/ Emit
=============================================================================
