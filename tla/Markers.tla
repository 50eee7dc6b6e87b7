------------------------------- MODULE Markers -------------------------------
(***************************************************************************)
(* The terminal result block of a worker's output (markers.py): the        *)
(* accumulator that finds and judges it while a stream is read, and the    *)
(* filter that keeps it out of the live display, fed with the same chunks. *)
(*                                                                         *)
(* A text is a sequence of symbols: "<", ">" and "/" are themselves,       *)
(* "tick", "tilde", "space" and "newline" name a character, a tag name is a *)
(* short sequence, and any other symbol is some other character.           *)
(***************************************************************************)
EXTENDS Naturals, SequencesExt, FiniteSetsExt

CONSTANTS
    Kinds,  \* tag names (MarkerKind), none a prefix of another
    None

White == {"space", "newline"}

\* Any string: the provers do not know that a literal is one.
Symbol == STRING \union {"<", ">", "/", "newline", "prefix", "&lt;"}

ASSUME MarkerAssumption ==
    /\ Kinds # {} /\ None \notin Kinds \union {"tick", "tilde"}
    /\ \A k, l \in Kinds :
          /\ k \in Seq(STRING \ (White \union {"<", "/", ">"}))
          /\ Len(k) > 1 /\ k[1] = "p"
          /\ IsPrefix(k, l) => k = l

Open(k)  == <<"<">> \o k \o <<">">>
Close(k) == <<"<", "/">> \o k \o <<">">>

\* str.strip
Strip(t) ==
    LET solid == {i \in DOMAIN t : t[i] \notin White}
    IN  IF solid = {} THEN << >> ELSE SubSeq(t, Min(solid), Max(solid))

-----------------------------------------------------------------------------
(* Markdown fences: a line is "leading" blanks, a "fence" mark, a "tail" *)

LineStart(fence, size) ==
    [fence |-> fence, size |-> size, boundary |-> TRUE, stage |-> "leading",
     spaces |-> 0, mark |-> None, length |-> 0, tail |-> FALSE]

\* A fence is opened by a mark of three or more, and closed by one of the
\* same character, no shorter, that nothing follows.
LineEnd(l) ==
    IF l.length < 3 THEN LineStart(l.fence, l.size)
    ELSE IF l.fence = None THEN LineStart(l.mark, l.length)
    ELSE IF l.mark = l.fence /\ l.length >= l.size /\ ~l.tail
         THEN LineStart(None, 0)
    ELSE LineStart(l.fence, l.size)

\* _update_line_state
LineStep(line, c) ==
    LET l == [line EXCEPT !.boundary = FALSE]
    IN CASE c = "newline" -> LineEnd(line)
         [] c # "newline" /\ l.stage = "leading" ->
              IF c = "space" /\ l.spaces < 3 THEN [l EXCEPT !.spaces = @ + 1]
              ELSE IF c \in {"tick", "tilde"}
              THEN [l EXCEPT !.stage = "fence", !.mark = c, !.length = 1]
              ELSE [l EXCEPT !.stage = "tail"]
         [] c # "newline" /\ l.stage = "fence" /\ c = l.mark ->
              [l EXCEPT !.length = @ + 1]
         [] OTHER -> [l EXCEPT !.stage = "tail", !.tail = @ \/ c \notin White]

\* _position_is_fenced
Fenced(l) == l.fence # None \/ l.length >= 3

-----------------------------------------------------------------------------
(* The accumulator: a candidate is what follows a "<" that may be a tag *)

Candidates == [boundary : BOOLEAN, fenced : BOOLEAN,
               stage : {"after-open", "after-slash", "tag", "after-tag"},
               closing : BOOLEAN, name : Seq(Symbol), exact : BOOLEAN,
               read : Seq(Symbol)]

Results == [kind : Kinds, body : Seq(Symbol)]

ASSUME NoneAssumption == None \notin Candidates \union Results

\* active: the open kind; body: what was read since; done: the last block.
NewAccumulator ==
    [candidate |-> None, active |-> None, body |-> << >>, done |-> None,
     framed |-> FALSE, tags |-> 0, blocks |-> 0, malformed |-> FALSE,
     after |-> FALSE, line |-> LineStart(None, 0)]

Candidate(a) ==
    [boundary |-> a.line.boundary, fenced |-> Fenced(a.line),
     stage |-> "after-open", closing |-> FALSE, name |-> << >>,
     exact |-> TRUE, read |-> <<"<">>]

InBody(a, symbols) ==
    IF a.active = None THEN a.body ELSE a.body \o symbols

\* Mutant: a "<" that ends a candidate does not start the next one.
FailCandidateOnly(a, k, c) ==
    [a EXCEPT !.candidate = None, !.body = InBody(a, k.read)]

\* _fail_candidate
FailCandidate(a, k, c) ==
    IF c = "<"
    THEN [a EXCEPT !.candidate = Candidate(a),
                   !.body = InBody(a, Front(k.read))]
    ELSE [a EXCEPT !.candidate = None, !.body = InBody(a, k.read)]

\* Mutant: a closing tag of another kind ends the block.
AcceptExactTagAnyKind(a, k) ==
    LET b == [a EXCEPT !.candidate = None, !.tags = @ + 1]
    IN  CASE k.closing /\ a.active # None ->
               [b EXCEPT !.done = [kind |-> k.name, body |-> Strip(a.body)],
                         !.blocks = @ + 1, !.active = None, !.body = << >>]
          [] ~k.closing /\ a.active = None ->
               [b EXCEPT !.active = k.name, !.body = << >>,
                         !.framed = k.boundary /\ ~k.fenced]
          [] OTHER -> [b EXCEPT !.body = InBody(a, k.read)]

\* _accept_exact_tag
AcceptExactTag(a, k) ==
    LET b == [a EXCEPT !.candidate = None, !.tags = @ + 1]
    IN  CASE k.closing /\ a.active = k.name ->
               [b EXCEPT !.done = [kind |-> k.name, body |-> Strip(a.body)],
                         !.blocks = @ + 1, !.active = None, !.body = << >>]
          [] ~k.closing /\ a.active = None ->
               [b EXCEPT !.active = k.name, !.body = << >>,
                         !.framed = k.boundary /\ ~k.fenced]
          [] OTHER -> [b EXCEPT !.body = InBody(a, k.read)]

\* The candidate k, which c was just appended to, goes on or ends.
ConsumeTag(a, k, c) ==
    LET name == Append(k.name, c)
        continue(next) == [a EXCEPT !.candidate = next]
    IN CASE k.stage \in {"after-open", "after-slash"} ->
              IF c \in White THEN continue([k EXCEPT !.exact = FALSE])
              ELSE IF c = "/" /\ k.stage = "after-open"
              THEN continue([k EXCEPT !.closing = TRUE, !.stage = "after-slash"])
              ELSE IF c = "p"
              THEN continue([k EXCEPT !.name = name, !.stage = "tag"])
              ELSE FailCandidate(a, k, c)
         [] k.stage = "tag" ->
              IF \E kind \in Kinds : IsPrefix(name, kind)
              THEN continue([k EXCEPT !.name = name,
                                !.stage = IF name \in Kinds THEN "after-tag"
                                          ELSE @])
              ELSE FailCandidate(a, k, c)
         [] k.stage = "after-tag" ->
              IF c = ">" /\ k.exact THEN AcceptExactTag(a, k)
              ELSE IF c \in White \union {"/", ">"}
              THEN [a EXCEPT !.candidate = None, !.malformed = TRUE,
                             !.body = InBody(a, k.read)]
              ELSE FailCandidate(a, k, c)

\* One symbol of feed.
FeedSymbol(acc0, c) ==
    LET late == acc0.done # None /\ acc0.active = None /\ c \notin White
        a == [acc0 EXCEPT !.after = @ \/ late]
        b == IF a.candidate # None
             THEN ConsumeTag(a, [a.candidate EXCEPT !.read = Append(@, c)], c)
             ELSE IF c = "<" THEN [a EXCEPT !.candidate = Candidate(a)]
             ELSE [a EXCEPT !.body = InBody(a, <<c>>)]
    IN  [b EXCEPT !.line = LineStep(@, c)]

Feed(a, chunk) ==
    LET fed[n \in 0 .. Len(chunk)] ==
            IF n = 0 THEN a ELSE FeedSymbol(fed[n - 1], chunk[n])
    IN  fed[Len(chunk)]

Verdict(verdict, marker) == [verdict |-> verdict, marker |-> marker]

\* finish: what one stream says.
Judge(a) ==
    LET malformed == \/ a.malformed
                     \/ a.candidate # None /\ a.candidate.stage = "after-tag"
    IN  IF a.tags > 2 \/ a.blocks > 1 THEN Verdict("multiple", None)
        ELSE IF malformed THEN Verdict("invalid", None)
        ELSE IF a.tags = 0 THEN Verdict("none", None)
        ELSE IF \/ a.tags # 2 \/ a.blocks # 1 \/ ~a.framed \/ a.after
                \/ a.done.body = << >>
        THEN Verdict("invalid", None)
        ELSE Verdict("accepted", a.done)

\* parse_accumulated_terminal_marker: the first stream that raises decides.
Parse(out, err) ==
    LET Raises(v) == v.verdict \in {"multiple", "invalid"}
    IN  IF Raises(out) THEN out
        ELSE IF Raises(err) THEN err
        ELSE IF out.verdict = "none" /\ err.verdict = "none"
        THEN Verdict("missing", None)
        ELSE IF out.verdict = "none" THEN err
        ELSE IF err.verdict = "none" THEN out
        ELSE Verdict("multiple", None)

-----------------------------------------------------------------------------
(* The filter *)

\* open: the kind being hidden; pending: what is not yet decided; hidden:
\* what was hidden of an unfinished block.
NewFilter == [open |-> None, pending |-> << >>, hidden |-> << >>]

At(t, i, tag) ==
    i + Len(tag) - 1 <= Len(t) /\ SubSeq(t, i, i + Len(tag) - 1) = tag

Places(t, tag) == {i \in DOMAIN t : At(t, i, tag)}

\* Mutant: a tag split between two chunks is not waited for.
RetainedNothing(t, tags) == << >>

\* _possible_tag_prefix: the longest end of t a tag may begin with.
Retained(t, tags) ==
    LET starts == {i \in DOMAIN t : \E tag \in tags :
                     IsStrictPrefix(SubSeq(t, i, Len(t)), tag)}
    IN  IF starts = {} THEN << >> ELSE SubSeq(t, Min(starts), Len(t))

Without(t, end) == SubSeq(t, 1, Len(t) - Len(end))

\* The tags the filter looks for.
Sought(f) == IF f.open = None THEN {Open(k) : k \in Kinds} ELSE {Close(f.open)}

Found(f) == {tag \in Sought(f) : Places(f.pending, tag) # {}}

FirstPlace(f, tag) == Min(Places(f.pending, tag))

\* _earliest_open_tag, or the closing tag
Earliest(f) ==
    CHOOSE tag \in Found(f) :
        \A other \in Found(f) : FirstPlace(f, tag) <= FirstPlace(f, other)

\* The loop has made "out" of its chunk so far; "over": it has ended.
Turn(filter, out, over) == [filter |-> filter, out |-> out, over |-> over]

\* One turn of the loop of filter.
FilterTurn(s) ==
    LET f == s.filter
        keep  == Retained(f.pending, Sought(f))
        given == Without(f.pending, keep)
        tag   == Earliest(f)
        start == FirstPlace(f, tag)
        after == SubSeq(f.pending, start + Len(tag), Len(f.pending))
    IN CASE s.over -> s
         [] ~s.over /\ Found(f) = {} /\ f.open = None ->
              Turn([f EXCEPT !.pending = keep], s.out \o given, TRUE)
         [] ~s.over /\ Found(f) = {} /\ f.open # None ->
              Turn([f EXCEPT !.pending = keep, !.hidden = @ \o given],
                   s.out, TRUE)
         [] ~s.over /\ Found(f) # {} /\ f.open = None ->
              Turn([open |-> CHOOSE k \in Kinds : Open(k) = tag,
                    pending |-> after, hidden |-> tag],
                   s.out \o SubSeq(f.pending, 1, start - 1), FALSE)
         [] ~s.over /\ Found(f) # {} /\ f.open # None ->
              Turn([NewFilter EXCEPT !.pending = after], s.out, FALSE)

\* filter: each turn but the last takes a tag off what is pending.
FilterLoop(f) ==
    LET turn[n \in 0 .. Len(f.pending) + 1] ==
            IF n = 0 THEN Turn(f, << >>, FALSE)
            ELSE FilterTurn(turn[n - 1])
    IN  turn[Len(f.pending) + 1]

\* finish: an unfinished block is shown after all.
Flush(f) == f.hidden \o f.pending
=============================================================================
