---------------------------- MODULE MarkerSession ----------------------------
(***************************************************************************)
(* The output of one session on its way through Markers: read in chunks,   *)
(* judged when both streams have ended, and shown as it arrives, compared  *)
(* with what MarkerProtocol says of the whole text.                        *)
(***************************************************************************)
EXTENDS MarkerProtocol

CONSTANTS
    Texts,    \* what the worker may write to stdout: bounds the model
    ErrTexts  \* what it may write to stderr

ASSUME TextsAssumption ==
    Texts \subseteq Seq(STRING) /\ ErrTexts \subseteq Seq(STRING)

VARIABLES
    text,      \* all the worker writes to stdout
    errText,   \* and to stderr
    fed,       \* how many symbols of text were received
    acc,       \* the TerminalMarkerAccumulator of stdout
    filter,    \* the TerminalMarkerFilter of stdout
    shown,     \* what the live stdout shows
    result     \* what the two accumulators parse to, Unread before the end

vars == <<text, errText, fed, acc, filter, shown, result>>

Unread == Verdict("unread", None)

Init ==
    /\ text \in Texts /\ errText \in ErrTexts
    /\ fed = 0 /\ acc = NewAccumulator /\ filter = NewFilter
    /\ shown = << >> /\ result = Unread

\* A chunk of any size, as os.read and the decoder deliver it.
Receive ==
    /\ fed < Len(text)
    /\ \E size \in 1 .. Len(text) - fed :
          LET chunk == SubSeq(text, fed + 1, fed + size)
              step  == FilterLoop([filter EXCEPT !.pending = @ \o chunk])
          IN  /\ fed' = fed + size
              /\ acc' = Feed(acc, chunk)
              /\ filter' = step.filter
              /\ shown' = shown \o step.out
    /\ UNCHANGED <<text, errText, result>>

\* The stream has ended: the filter is flushed and the markers are parsed.
Finish ==
    /\ fed = Len(text) /\ result = Unread
    /\ result' = Parse(Judge(acc), Judge(Feed(NewAccumulator, errText)))
    /\ shown' = shown \o Flush(filter)
    /\ filter' = NewFilter
    /\ UNCHANGED <<text, errText, fed, acc>>

Next == Receive \/ Finish

-----------------------------------------------------------------------------
(* Properties *)

Ended == result # Unread

\* However the output is cut into chunks, a session is believed exactly when
\* one stream is a valid result and the other has no result tag at all, and
\* then with the text between the tags.
AcceptsOneBlock ==
    Ended =>
        (IF result.verdict = "accepted" THEN {result.marker} ELSE {}) =
            (IF Recognized(errText) = {} THEN MarkersOf(text) ELSE {})
              \union
            (IF Recognized(text) = {} THEN MarkersOf(errText) ELSE {})

\* However it is cut, the live display ends up the same: nothing but complete
\* blocks is missing from it, not even of a block that was never closed.
ShownIsVisible == Ended => shown = Visible(text)
=============================================================================
